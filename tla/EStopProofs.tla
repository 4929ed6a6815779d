------------------------------ MODULE EStopProofs ------------------------------
(***************************************************************************)
(* Proofs about EStop for any fleet, any clocks, any size of the caches,   *)
(* any number of presses, commands and resumes, and any peers that leave   *)
(* and join again.                                                         *)
(***************************************************************************)
EXTENDS EStop, TLAPS

\* Whoever carries a press or a resume is a peer.
Typed ==
  /\ TypeOK
  /\ \A e \in Presses : press[e] # "idle" => issuer[e] \in Peers
  /\ \A r \in Resumes : resume[r] # "idle" => resumer[r] \in Peers

LEMMA WallClockIsNat ==
  ASSUME clock \in Nat, NEW p \in Peers
  PROVE  WallClock(p) \in Nat
BY TimeAssumption DEF WallClock

LEMMA EnvelopesAre ==
  /\ \A p \in Peers, n \in Nat, t \in Nat : EstopMsg(p, n, t) \in Envelopes
  /\ \A p \in Peers, r \in Resumes, t \in Nat : ResumeMsg(p, r, t) \in Envelopes
  /\ \A m \in Envelopes : m[2] \in Peers /\ m[4] \in Nat
BY DEF Envelopes, EstopMsg, ResumeMsg

LEMMA MessagesAre ==
  /\ Envelopes \subseteq Messages
  /\ \A e \in Presses : StopMsg(e) \in Messages
  /\ \A c \in Commands, p \in Peers : CommandMsg(c, p) \in Messages
  /\ \A m \in Messages : m[1] \in {"estop", "resume"} => m \in Envelopes
<1>1. \A e : StopMsg(e)[1] = "stop"
  BY DEF StopMsg
<1>2. \A c, p : CommandMsg(c, p)[1] = "command"
  BY DEF CommandMsg
<1>3. QED
  BY <1>1, <1>2 DEF Messages

LEMMA TypedInit == Init => Typed
<1> SUFFICES ASSUME Init PROVE Typed
  OBVIOUS
<1>1. /\ member \in [Peers -> BOOLEAN]
      /\ lockout \in [Peers -> BOOLEAN]
  BY DEF Init
<1>2. /\ stamp \in [Peers -> [no : 0..taken, at : Nat]]
      /\ \A p \in Peers : stamp[p].at <= WallClock(p)
  BY TimeAssumption DEF Init, WallClock
<1>3. clock \in 0..MaxClock
  BY TimeAssumption DEF Init
<1>4. QED
  BY <1>1, <1>2, <1>3 DEF Init, Typed, TypeOK

-------------------------------------------------------------------------------
(***************************************************************************)
(* The replay caches.                                                      *)
(***************************************************************************)

LEMMA SurvivorsAreLive ==
  ASSUME NEW p, NEW k, NEW kept \in Survivors(p, k)
  PROVE  kept \subseteq Live(p, k) /\ Live(p, k) \subseteq seen[p]
<1>1. kept \subseteq Live(p, k)
  BY DEF Survivors
<1>2. QED
  BY <1>1 DEF Live, Cache

SeenTyped == seen \in [Peers -> SUBSET [msg : sent, at : 0..clock]]

\* What a cache keeps, it has had, or takes now.
LEMMA KeepTyped ==
  ASSUME SeenTyped, clock \in Nat, UNCHANGED <<sent, clock>>,
         NEW p \in Peers, NEW k, NEW kept \in Survivors(p, k),
         NEW m \in sent, Keep(p, k, kept \cup {Entry(m)})
  PROVE  SeenTyped'
<1>1. kept \subseteq seen[p]
  BY SurvivorsAreLive
<1>2. Entry(m) \in [msg : sent, at : 0..clock]
  BY DEF Entry
<1>3. QED
  BY <1>1, <1>2 DEF SeenTyped, Keep

\* One that takes nothing.
LEMMA ShedTyped ==
  ASSUME SeenTyped, UNCHANGED <<sent, clock>>,
         NEW p \in Peers, NEW k, NEW kept \in Survivors(p, k),
         seen' = [seen EXCEPT ![p] = (@ \ Cache(p, k)) \cup kept]
  PROVE  SeenTyped'
<1>1. kept \subseteq seen[p]
  BY SurvivorsAreLive
<1>2. QED
  BY <1>1 DEF SeenTyped

LEMMA LostTyped ==
  ASSUME SeenTyped, sent \subseteq Messages, NEW p \in Peers, NEW k, NEW kept
  PROVE  {<<x.msg, p>> : x \in Live(p, k) \ kept} \subseteq Messages \X Peers
<1>1. Live(p, k) \subseteq [msg : sent, at : 0..clock]
  BY DEF Live, Cache, SeenTyped
<1>2. QED
  BY <1>1

LEMMA EngageTyped ==
  ASSUME Typed, NEW p \in Peers, Engage(p), UNCHANGED clock
  PROVE  /\ lockout' \in [Peers -> BOOLEAN]
         /\ stamp' \in [Peers -> [no : 0..taken', at : Nat]]
         /\ \A q \in Peers : stamp'[q].at <= WallClock(q)'
         /\ taken' \in Nat
         /\ (overtaken \subseteq Commands \X Peers)'
<1> USE DEF Typed, TypeOK
<1>1. lockout' \in [Peers -> BOOLEAN]
  BY DEF Engage
<1>2. taken' \in Nat /\ taken + 1 \in 0..taken' /\ 0..taken \subseteq 0..taken'
  BY DEF Engage
<1>3. WallClock(p) \in Nat /\ \A q \in Peers : WallClock(q)' = WallClock(q)
  BY WallClockIsNat DEF WallClock
<1>4. stamp' = [stamp EXCEPT ![p] = [no |-> taken + 1, at |-> WallClock(p)]]
  BY DEF Engage
<1>5. stamp' \in [Peers -> [no : 0..taken', at : Nat]]
  BY <1>2, <1>3, <1>4
<1>6. \A q \in Peers : stamp'[q].at <= WallClock(q)'
  BY <1>3, <1>4
<1>7. (overtaken \subseteq Commands \X Peers)'
  BY DEF Engage
<1>8. QED
  BY <1>1, <1>2, <1>5, <1>6, <1>7

LEMMA ApplyTyped ==
  ASSUME Typed, NEW p \in Peers, NEW m \in Envelopes, Apply(p, m)
  PROVE  /\ applied' \in [Peers -> SUBSET Envelopes]
         /\ (repeated \subseteq Envelopes \X Peers)'
BY DEF Apply, Typed, TypeOK

-------------------------------------------------------------------------------
LEMMA TypedStep == Typed /\ [Next]_vars => Typed'
<1> SUFFICES ASSUME Typed, [Next]_vars PROVE Typed'
  OBVIOUS
<1>w. \A p \in Peers : WallClock(p) \in Nat /\ stamp[p].at \in Nat
  BY WallClockIsNat DEF Typed, TypeOK
<1>c. clock \in Nat
  BY TimeAssumption DEF Typed, TypeOK
<1>s. SeenTyped
  BY DEF Typed, TypeOK, SeenTyped
<1>x. UNCHANGED clock => \A p \in Peers : WallClock(p)' = WallClock(p)
  BY DEF WallClock
<1> USE <1>w, <1>x, <1>c, <1>s
    DEF Typed, TypeOK, peerVars, netVars, jobVars, pressVars, resumeVars,
        replayHistory, history
<1>1. CASE Next
  <2>1. CASE Tick
    <3>1. clock' = clock + 1 /\ clock' \in 0..MaxClock
      BY <2>1, TimeAssumption DEF Tick
    <3>2. SeenTyped'
      <4>1. 0..clock \subseteq 0..clock'
        BY <3>1
      <4>2. UNCHANGED <<seen, sent>>
        BY <2>1 DEF Tick
      <4>3. QED
        BY <4>1, <4>2 DEF SeenTyped
    <3>3. \A p \in Peers : stamp'[p].at <= WallClock(p)'
      BY <2>1, <3>1, TimeAssumption DEF Tick, WallClock
    <3>4. QED
      BY <2>1, <3>1, <3>2, <3>3 DEF Tick, SeenTyped
  <2>2. ASSUME NEW e \in Presses, NEW p \in Peers, Press(e, p) PROVE Typed'
    <3>1. Engage(p) /\ UNCHANGED clock
      BY <2>2 DEF Press
    <3>2. QED
      BY <2>2, <3>1, EngageTyped DEF Press, PressGoto
  <2>3. ASSUME NEW e \in Presses, HaltOwn(e) PROVE Typed'
    <3>1. issuer[e] \in Peers
      BY <2>3 DEF HaltOwn, PressGoto
    <3>2. /\ press' = [press EXCEPT ![e] = "halted"]
          /\ responders' = [responders EXCEPT ![e] = {issuer[e]}]
      BY <2>3 DEF HaltOwn, PressGoto
    <3>3. \/ /\ rollout' = [rollout EXCEPT ![issuer[e]] = NoCommand]
             /\ halted' = [halted EXCEPT ![issuer[e]] = halted[issuer[e]] \cup {e}]
             /\ UNCHANGED failed
          \/ /\ failed' = [failed EXCEPT ![e] = {issuer[e]}]
             /\ UNCHANGED <<rollout, halted>>
      BY <2>3 DEF HaltOwn
    <3>4. rollout' \in [Peers -> Commands \cup {NoCommand}]
      BY <3>3
    <3>5. halted' \in [Peers -> SUBSET Presses]
      BY <3>1, <3>3
    <3>6. responders' \in [Presses -> SUBSET Peers]
      BY <3>1, <3>2
    <3>9. failed' \in [Presses -> SUBSET Peers]
      BY <3>1, <3>3
    <3>7. UNCHANGED <<member, lockout, stamp, seen, netVars, jobVars, issuer,
                      resumeVars, overtaken, replayHistory, cut>>
      BY <2>3 DEF HaltOwn
    <3>8. QED
      BY <3>2, <3>4, <3>5, <3>6, <3>7, <3>9
  <2>4. ASSUME NEW e \in Presses, Broadcast(e) PROVE Typed'
    <3>1. sent \subseteq sent' /\ sent' \subseteq Messages
      BY <2>4, MessagesAre DEF Broadcast
    <3>2. QED
      BY <2>4, <3>1 DEF Broadcast, PressGoto
  <2>5. ASSUME NEW e \in Presses, NEW a \in answered, Collect(e, a) PROVE Typed'
    <3>1. a.from \in Peers
      BY DEF Answers
    <3>2. responders' \in [Presses -> SUBSET Peers] /\ failed' \in [Presses -> SUBSET Peers]
      BY <2>5, <3>1 DEF Collect
    <3>3. QED
      BY <2>5, <3>2 DEF Collect
  <2>6. ASSUME NEW e \in Presses, CloseWindow(e) PROVE Typed'
    BY <2>6 DEF CloseWindow, PressGoto
  <2>7. ASSUME NEW e \in Presses, Announce(e) PROVE Typed'
    <3>1. issuer[e] \in Peers
      BY <2>7 DEF Announce, PressGoto
    <3>2. EstopMsg(issuer[e], stamp[issuer[e]].no, stamp[issuer[e]].at) \in Messages
      <4>1. stamp[issuer[e]].no \in Nat /\ stamp[issuer[e]].at \in Nat
        BY <3>1
      <4>2. QED
        BY <3>1, <4>1, EnvelopesAre, MessagesAre
    <3>3. sent \subseteq sent' /\ sent' \subseteq Messages
      BY <2>7, <3>2 DEF Announce
    <3>4. press' \in [Presses -> {"idle", "engaged", "halted", "waiting", "counted",
                                  "done", "unheard", "failed"}]
      BY <2>7 DEF Announce, PressGoto
    <3>5. \A f \in Presses : press'[f] # "idle" => issuer[f] \in Peers
      BY <2>7 DEF Announce, PressGoto
    <3>6. UNCHANGED <<peerVars, answered, clock, taken, jobVars, issuer, responders,
                      failed, resumeVars, history>>
      BY <2>7 DEF Announce
    <3>7. QED
      BY <3>3, <3>4, <3>5, <3>6
  <2>8. ASSUME NEW p \in Peers, NEW e \in Presses, TakeStop(p, e) PROVE Typed'
    <3>1. StopMsg(e) \in sent
      BY <2>8 DEF TakeStop, ArrivesCommand, Arrives
    <3>2. PICK kept \in Survivors(p, "command") :
                 Keep(p, "command", kept \cup {Entry(StopMsg(e))})
      BY <2>8 DEF TakeStop
    <3>3. UNCHANGED <<sent, clock>>
      BY <2>8 DEF TakeStop
    <3>4. SeenTyped'
      BY <3>1, <3>2, <3>3, KeepTyped
    <3>5. forgotten' \subseteq Messages \X Peers
      BY <3>2, LostTyped DEF Keep
    <3>6. QED
      BY <2>8, <3>4, <3>5 DEF TakeStop, SeenTyped
  <2>9. ASSUME NEW p \in Peers, NEW e \in Presses, RefuseStop(p, e) PROVE Typed'
    <3>1. PICK kept \in Survivors(p, "command") : Keep(p, "command", kept)
      BY <2>9 DEF RefuseStop
    <3>2. UNCHANGED <<sent, clock>>
      BY <2>9 DEF RefuseStop
    <3>3. SeenTyped'
      BY <3>1, <3>2, ShedTyped DEF Keep
    <3>4. forgotten' \subseteq Messages \X Peers
      BY <3>1, LostTyped DEF Keep
    <3>5. answered' \subseteq Answers
      BY <2>9 DEF RefuseStop, Answers
    <3>6. QED
      BY <2>9, <3>3, <3>4, <3>5 DEF RefuseStop, SeenTyped
  <2>10. ASSUME NEW p \in Peers, NEW e \in Presses, PerformStop(p, e) PROVE Typed'
    <3>1. answered' \subseteq Answers
      BY <2>10 DEF PerformStop, Answers
    <3>2. rollout' \in [Peers -> Commands \cup {NoCommand}]
      BY <2>10 DEF PerformStop
    <3>3. halted' \in [Peers -> SUBSET Presses]
      BY <2>10 DEF PerformStop
    <3>4. stopping' \subseteq Presses \X Peers
      BY <2>10 DEF PerformStop
    <3>5. UNCHANGED <<member, lockout, stamp, seen, sent, clock, taken, jobs, pressVars,
                      resumeVars, overtaken, replayHistory, cut>>
      BY <2>10 DEF PerformStop
    <3>6. QED
      BY <3>1, <3>2, <3>3, <3>4, <3>5
  <2>11. ASSUME NEW p \in Peers, NEW m \in sent, OnEstop(p, m) PROVE Typed'
    <3>1. m \in Envelopes /\ m \in Messages
      BY <2>11, MessagesAre DEF OnEstop
    <3>2. PICK kept \in Survivors(p, "estop") :
            IF Slots(kept, m[2]) < IssuerCap
            THEN Keep(p, "estop", kept \cup {Entry(m)})
            ELSE /\ seen' = [seen EXCEPT ![p] = (@ \ Cache(p, "estop")) \cup kept]
                 /\ forgotten' = forgotten \cup {<<m, p>>}
                      \cup {<<x.msg, p>> : x \in Live(p, "estop") \ kept}
      BY <2>11 DEF OnEstop
    <3>3. UNCHANGED <<sent, clock>>
      BY <2>11 DEF OnEstop
    <3>4. SeenTyped' /\ forgotten' \subseteq Messages \X Peers
      <4>1. CASE Keep(p, "estop", kept \cup {Entry(m)})
        <5>1. SeenTyped'
          BY <3>3, <4>1, KeepTyped
        <5>2. forgotten' \subseteq Messages \X Peers
          BY <4>1, LostTyped DEF Keep
        <5>3. QED
          BY <5>1, <5>2
      <4>2. CASE /\ seen' = [seen EXCEPT ![p] = (@ \ Cache(p, "estop")) \cup kept]
                 /\ forgotten' = forgotten \cup {<<m, p>>}
                      \cup {<<x.msg, p>> : x \in Live(p, "estop") \ kept}
        <5>1. SeenTyped'
          BY <3>3, <4>2, ShedTyped
        <5>2. {<<x.msg, p>> : x \in Live(p, "estop") \ kept} \subseteq Messages \X Peers
          BY LostTyped
        <5>3. QED
          BY <3>1, <4>2, <5>1, <5>2
      <4>3. QED
        BY <3>2, <4>1, <4>2
    <3>7. /\ lockout' \in [Peers -> BOOLEAN]
          /\ stamp' \in [Peers -> [no : 0..taken', at : Nat]]
          /\ \A q \in Peers : stamp'[q].at <= WallClock(q)'
          /\ taken' \in Nat
          /\ (overtaken \subseteq Commands \X Peers)'
      <4>1. CASE lockout[p]
        BY <2>11, <3>3, <4>1 DEF OnEstop
      <4>2. CASE ~lockout[p]
        BY <2>11, <3>3, <4>2, EngageTyped DEF OnEstop
      <4>3. QED
        BY <4>1, <4>2
    <3>8. /\ applied' \in [Peers -> SUBSET Envelopes]
          /\ (repeated \subseteq Envelopes \X Peers)'
      BY <2>11, <3>1, ApplyTyped DEF OnEstop
    <3>9. UNCHANGED <<member, rollout, sent, answered, clock, jobVars, pressVars,
                      resumeVars, halted, cut>>
      BY <2>11 DEF OnEstop
    <3>10. QED
      BY <3>4, <3>7, <3>8, <3>9 DEF SeenTyped
  <2>12. ASSUME NEW p \in Peers, Leave(p) PROVE Typed'
    <3>1. responders' \in [Presses -> SUBSET Peers] /\ failed' \in [Presses -> SUBSET Peers]
      BY <2>12 DEF Leave
    <3>2. QED
      BY <2>12, <3>1 DEF Leave
  <2>13. ASSUME NEW p \in Peers, Join(p) PROVE Typed'
    BY <2>13 DEF Join
  <2>14. ASSUME NEW p \in Peers, Finish(p) PROVE Typed'
    BY <2>14 DEF Finish
  <2>15. ASSUME NEW p \in Peers, NEW c \in Commands, SendCommand(c, p) PROVE Typed'
    <3>1. sent \subseteq sent' /\ sent' \subseteq Messages
      BY <2>15, MessagesAre DEF SendCommand
    <3>2. QED
      BY <2>15, <3>1 DEF SendCommand
  <2>16. ASSUME NEW p \in Peers, NEW c \in Commands, CheckCommand(c, p) PROVE Typed'
    <3>1. CommandMsg(c, p) \in sent
      BY <2>16 DEF CheckCommand, ArrivesCommand, Arrives
    <3>2. PICK kept \in Survivors(p, "command") :
            IF Known(kept, CommandMsg(c, p))
            THEN Keep(p, "command", kept) /\ UNCHANGED jobs
            ELSE /\ Keep(p, "command", kept \cup {Entry(CommandMsg(c, p))})
                 /\ jobs' = IF lockout[p] THEN jobs ELSE jobs \cup {<<c, p>>}
      BY <2>16 DEF CheckCommand
    <3>3. UNCHANGED <<sent, clock>>
      BY <2>16 DEF CheckCommand
    <3>4. SeenTyped' /\ forgotten' \subseteq Messages \X Peers
      <4>1. CASE Keep(p, "command", kept)
        BY <3>3, <4>1, ShedTyped, LostTyped DEF Keep
      <4>2. CASE Keep(p, "command", kept \cup {Entry(CommandMsg(c, p))})
        <5>1. SeenTyped'
          BY <3>1, <3>3, <4>2, KeepTyped
        <5>2. forgotten' \subseteq Messages \X Peers
          BY <4>2, LostTyped DEF Keep
        <5>3. QED
          BY <5>1, <5>2
      <4>3. QED
        BY <3>2, <4>1, <4>2
    <3>6. jobs' \subseteq Commands \X Peers
      BY <3>2
    <3>7. QED
      BY <2>16, <3>4, <3>6 DEF CheckCommand, SeenTyped
  <2>17. ASSUME NEW p \in Peers, NEW c \in Commands, PerformCommand(c, p) PROVE Typed'
    BY <2>17 DEF PerformCommand
  <2>18. ASSUME NEW p \in Peers, NEW r \in Resumes, VerifyResume(r, p) PROVE Typed'
    BY <2>18 DEF VerifyResume, ResumeGoto
  <2>19. ASSUME NEW r \in Resumes, ClearLockout(r) PROVE Typed'
    BY <2>19 DEF ClearLockout, ResumeGoto
  <2>20. ASSUME NEW r \in Resumes, AnnounceResume(r) PROVE Typed'
    <3>1. resumer[r] \in Peers
      BY <2>20 DEF AnnounceResume, ResumeGoto
    <3>2. ResumeMsg(resumer[r], r, WallClock(resumer[r])) \in Messages
      BY <3>1, EnvelopesAre, MessagesAre
    <3>3. sent \subseteq sent' /\ sent' \subseteq Messages
      BY <2>20, <3>2 DEF AnnounceResume
    <3>4. QED
      BY <2>20, <3>3 DEF AnnounceResume, ResumeGoto
  <2>21. ASSUME NEW p \in Peers, NEW m \in sent, OnResume(p, m) PROVE Typed'
    <3>1. m \in Envelopes
      BY <2>21, MessagesAre DEF OnResume
    <3>2. PICK kept \in Survivors(p, "resume") :
            IF Slots(kept, m[2]) < IssuerCap
            THEN /\ Keep(p, "resume", kept \cup {Entry(m)})
                 /\ lockout' = [lockout EXCEPT ![p] = FALSE]
                 /\ IF lockout[p] THEN Apply(p, m) ELSE UNCHANGED <<applied, repeated>>
            ELSE Keep(p, "resume", kept) /\ UNCHANGED <<lockout, applied, repeated>>
      BY <2>21 DEF OnResume
    <3>3. UNCHANGED <<sent, clock>>
      BY <2>21 DEF OnResume
    <3>4. SeenTyped' /\ forgotten' \subseteq Messages \X Peers
      <4>1. CASE Keep(p, "resume", kept)
        BY <3>3, <4>1, ShedTyped, LostTyped DEF Keep
      <4>2. CASE Keep(p, "resume", kept \cup {Entry(m)})
        <5>1. SeenTyped'
          BY <3>3, <4>2, KeepTyped
        <5>2. forgotten' \subseteq Messages \X Peers
          BY <4>2, LostTyped DEF Keep
        <5>3. QED
          BY <5>1, <5>2
      <4>3. QED
        BY <3>2, <4>1, <4>2
    <3>6. /\ lockout' \in [Peers -> BOOLEAN]
          /\ applied' \in [Peers -> SUBSET Envelopes]
          /\ (repeated \subseteq Envelopes \X Peers)'
      BY <3>1, <3>2, ApplyTyped
    <3>7. QED
      BY <2>21, <3>4, <3>6 DEF OnResume, SeenTyped
  <2>22. QED
    BY <1>1, <2>1, <2>2, <2>3, <2>4, <2>5, <2>6, <2>7, <2>8, <2>9, <2>10, <2>11,
       <2>12, <2>13, <2>14, <2>15, <2>16, <2>17, <2>18, <2>19, <2>20, <2>21
       DEF Next, Carry
<1>2. CASE UNCHANGED vars
  BY <1>2 DEF vars, WallClock
<1>3. QED
  BY <1>1, <1>2

-------------------------------------------------------------------------------
(***************************************************************************)
(* The lockout.                                                            *)
(***************************************************************************)

\* A job of a locked peer had passed the check before the lockout came.
JobsAreOvertaken == \A j \in jobs : lockout[j[2]] => j \in overtaken

LEMMA LockStep == Typed /\ JobsAreOvertaken /\ [Next]_vars => JobsAreOvertaken'
<1> SUFFICES ASSUME Typed, JobsAreOvertaken, [Next]_vars PROVE JobsAreOvertaken'
  OBVIOUS
<1>t. lockout \in [Peers -> BOOLEAN] /\ jobs \subseteq Commands \X Peers
  BY DEF Typed, TypeOK
<1> DEFINE Idle == UNCHANGED <<jobs, lockout, overtaken>>
<1>1. CASE Idle
  BY <1>1 DEF JobsAreOvertaken
<1>2. ASSUME NEW p \in Peers, Engage(p), UNCHANGED jobs PROVE JobsAreOvertaken'
  BY <1>t, <1>2 DEF JobsAreOvertaken, Engage
<1>3. ASSUME NEW p \in Peers, NEW e \in Presses, Press(e, p) PROVE JobsAreOvertaken'
  BY <1>2, <1>3 DEF Press, jobVars
<1>4. ASSUME NEW p \in Peers, NEW m \in sent, OnEstop(p, m) PROVE JobsAreOvertaken'
  <2>1. CASE lockout[p]
    BY <1>1, <1>4, <2>1 DEF OnEstop, jobVars
  <2>2. CASE ~lockout[p]
    BY <1>2, <1>4, <2>2 DEF OnEstop, jobVars
  <2>3. QED
    BY <2>1, <2>2
<1>5. ASSUME NEW p \in Peers, NEW c \in Commands, CheckCommand(c, p)
      PROVE  JobsAreOvertaken'
  <2>1. jobs' = jobs \/ (~lockout[p] /\ jobs' = jobs \cup {<<c, p>>})
    BY <1>5 DEF CheckCommand
  <2>2. UNCHANGED <<lockout, overtaken>>
    BY <1>5 DEF CheckCommand
  <2>3. QED
    BY <2>1, <2>2 DEF JobsAreOvertaken
<1>6. ASSUME NEW p \in Peers, NEW c \in Commands, PerformCommand(c, p)
      PROVE  JobsAreOvertaken'
  BY <1>6 DEF PerformCommand, JobsAreOvertaken, history
<1>7. ASSUME NEW r \in Resumes, ClearLockout(r) PROVE JobsAreOvertaken'
  BY <1>t, <1>7 DEF ClearLockout, JobsAreOvertaken, jobVars, history
<1>8. ASSUME NEW p \in Peers, NEW m \in sent, OnResume(p, m) PROVE JobsAreOvertaken'
  <2>1. \/ UNCHANGED lockout
        \/ lockout' = [lockout EXCEPT ![p] = FALSE]
    BY <1>8 DEF OnResume
  <2>2. UNCHANGED <<jobs, overtaken>>
    BY <1>8 DEF OnResume, jobVars
  <2>3. QED
    BY <1>t, <2>1, <2>2 DEF JobsAreOvertaken
<1>9. ASSUME Next PROVE JobsAreOvertaken'
  <2> USE DEF peerVars, jobVars, history
  <2>1. CASE Tick
    BY <1>1, <2>1 DEF Tick
  <2>2. ASSUME NEW e \in Presses, Carry(e) \/ \E a \in answered : Collect(e, a)
        PROVE  Idle
    BY <2>2 DEF Carry, HaltOwn, Broadcast, CloseWindow, Announce, Collect
  <2>3. ASSUME NEW e \in Presses, NEW p \in Peers,
               TakeStop(p, e) \/ RefuseStop(p, e) \/ PerformStop(p, e)
        PROVE  Idle
    BY <2>3 DEF TakeStop, RefuseStop, PerformStop
  <2>4. ASSUME NEW p \in Peers, Leave(p) \/ Join(p) \/ Finish(p) PROVE Idle
    BY <2>4 DEF Leave, Join, Finish
  <2>5. ASSUME NEW p \in Peers, NEW c \in Commands, SendCommand(c, p) PROVE Idle
    BY <2>5 DEF SendCommand
  <2>6. ASSUME NEW p \in Peers, NEW r \in Resumes, VerifyResume(r, p) PROVE Idle
    BY <2>6 DEF VerifyResume
  <2>7. ASSUME NEW r \in Resumes, AnnounceResume(r) PROVE Idle
    BY <2>7 DEF AnnounceResume
  <2>8. QED
    BY <1>1, <1>3, <1>4, <1>5, <1>6, <1>7, <1>8, <1>9, <2>1, <2>2, <2>3, <2>4, <2>5,
       <2>6, <2>7 DEF Next
<1>10. QED
  BY <1>1, <1>9 DEF vars, peerVars, jobVars, history

-------------------------------------------------------------------------------
(***************************************************************************)
(* Replays.                                                                *)
(***************************************************************************)

\* An envelope was fresh when its entry was made.
EntriesWereFresh ==
  \A p \in Peers : \A x \in seen[p] :
    x.msg \in Envelopes => x.msg[4] <= x.at + Offset[p] + Skew

Stale(p, m) == m[4] + Window < WallClock(p)

\* An envelope that changed the lockout is remembered, or too old for good, or a
\* full cache has lost it.
RememberedOrStale ==
  \A p \in Peers : \A m \in applied[p] :
    Known(seen[p], m) \/ Stale(p, m) \/ <<m, p>> \in forgotten

ReplayInv == EntriesWereFresh /\ RememberedOrStale /\ repeated = {}

\* What a cache drops has expired, and then it is stale, or is noted as lost.
LEMMA DroppedIsStale ==
  ASSUME Typed, EntriesWereFresh, UNCHANGED clock,
         NEW p \in Peers, NEW k, NEW entries,
         seen' = [seen EXCEPT ![p] = (@ \ Cache(p, k)) \cup entries],
         {<<x.msg, p>> : x \in Live(p, k) \ entries} \subseteq forgotten',
         NEW m \in Envelopes, Known(seen[p], m)
  PROVE  Known(seen'[p], m) \/ Stale(p, m)' \/ <<m, p>> \in forgotten'
<1>1. PICK x \in seen[p] : x.msg = m
  BY DEF Known
<1>2. CASE x \in Cache(p, k) /\ x \notin entries
  <2>1. CASE x \in Live(p, k)
    BY <1>1, <1>2, <2>1
  <2>2. CASE x \notin Live(p, k)
    <3>1. x.at \in Nat /\ clock \in Nat /\ m[4] \in Nat /\ Offset[p] \in Nat
      <4>1. x.at \in 0..clock /\ clock \in 0..MaxClock
        BY <1>1 DEF Typed, TypeOK
      <4>2. QED
        BY <4>1, EnvelopesAre, TimeAssumption
    <3>2. x.at + (Window + Skew) < clock
      BY <1>2, <2>2, <3>1, TimeAssumption DEF Live, TTL
    <3>3. m[4] <= x.at + Offset[p] + Skew
      BY <1>1 DEF EntriesWereFresh
    <3>4. m[4] + Window < clock + Offset[p]
      BY <3>1, <3>2, <3>3, TimeAssumption
    <3>5. QED
      BY <3>4 DEF Stale, WallClock
  <2>3. QED
    BY <2>1, <2>2
<1>3. CASE ~(x \in Cache(p, k) /\ x \notin entries)
  <2>1. x \in seen'[p]
    BY <1>1, <1>3 DEF Typed, TypeOK
  <2>2. QED
    BY <1>1, <2>1 DEF Known
<1>4. QED
  BY <1>2, <1>3

\* New entries are those of an envelope that is fresh, or of no envelope.
LEMMA FreshStep ==
  ASSUME Typed, EntriesWereFresh,
         NEW p \in Peers, NEW k, NEW kept \in Survivors(p, k), NEW new,
         seen' = [seen EXCEPT ![p] = (@ \ Cache(p, k)) \cup (kept \cup new)],
         \A x \in new : x.msg \in Envelopes => x.msg[4] <= x.at + Offset[p] + Skew
  PROVE  EntriesWereFresh'
<1>1. kept \subseteq seen[p]
  BY SurvivorsAreLive
<1>2. /\ seen'[p] \subseteq seen[p] \cup new
      /\ \A q \in Peers \ {p} : seen'[q] = seen[q]
  BY <1>1 DEF Typed, TypeOK
<1>3. QED
  BY <1>2 DEF EntriesWereFresh

\* Whatever is applied now is remembered now, or noted as lost.
LEMMA RememberStep ==
  ASSUME Typed, EntriesWereFresh, RememberedOrStale, UNCHANGED clock,
         NEW p \in Peers, NEW k, NEW entries,
         seen' = [seen EXCEPT ![p] = (@ \ Cache(p, k)) \cup entries],
         forgotten \subseteq forgotten',
         {<<x.msg, p>> : x \in Live(p, k) \ entries} \subseteq forgotten',
         \A q \in Peers : \A m \in applied'[q] \ applied[q] :
           q = p /\ (Known(seen'[p], m) \/ <<m, p>> \in forgotten')
  PROVE  RememberedOrStale'
<1> SUFFICES ASSUME NEW q \in Peers, NEW m \in applied'[q]
             PROVE  Known(seen'[q], m) \/ Stale(q, m)' \/ <<m, q>> \in forgotten'
  BY DEF RememberedOrStale
<1>s. Stale(q, m)' = Stale(q, m)
  BY DEF Stale, WallClock
<1>1. CASE m \notin applied[q]
  BY <1>1
<1>2. CASE m \in applied[q] /\ q # p
  <2>1. seen'[q] = seen[q]
    BY <1>2 DEF Typed, TypeOK
  <2>2. QED
    BY <1>2, <1>s, <2>1 DEF RememberedOrStale
<1>3. CASE m \in applied[q] /\ q = p
  <2>1. m \in Envelopes
    BY <1>3 DEF Typed, TypeOK
  <2>2. CASE Known(seen[p], m)
    BY <1>3, <2>1, <2>2, DroppedIsStale
  <2>3. CASE ~Known(seen[p], m)
    BY <1>3, <1>s, <2>3 DEF RememberedOrStale
  <2>4. QED
    BY <2>2, <2>3
<1>4. QED
  BY <1>1, <1>2, <1>3

\* A fresh envelope that the cache does not know is not applied again, unless a
\* full cache has lost it.
LEMMA ApplyOnce ==
  ASSUME Typed, ReplayInv, NEW p \in Peers, NEW m \in Envelopes,
         Fresh(p, m[4]), ~Known(seen[p], m), Apply(p, m)
  PROVE  repeated' = {}
<1>1. m[4] \in Nat /\ WallClock(p) \in Nat
  BY EnvelopesAre, WallClockIsNat, TimeAssumption DEF Typed, TypeOK
<1>2. ~Stale(p, m)
  BY <1>1, TimeAssumption DEF Fresh, Stale
<1>3. m \in applied[p] => <<m, p>> \in forgotten
  BY <1>2 DEF ReplayInv, RememberedOrStale
<1>4. QED
  BY <1>3 DEF Apply, ReplayInv

LEMMA NoEnvelopes ==
  /\ \A e : StopMsg(e) \notin Envelopes
  /\ \A c, p : CommandMsg(c, p) \notin Envelopes
<1>1. \A m \in Envelopes : m[1] \in {"estop", "resume"}
  BY DEF Envelopes
<1>2. QED
  BY <1>1 DEF StopMsg, CommandMsg

\* A command or a stop that is kept, or refused, disturbs no envelope.
LEMMA CommandReplay ==
  ASSUME Typed, ReplayInv, UNCHANGED <<clock, applied, repeated>>,
         NEW p \in Peers, NEW kept \in Survivors(p, "command"), NEW m, m \notin Envelopes,
         Keep(p, "command", kept) \/ Keep(p, "command", kept \cup {Entry(m)})
  PROVE  ReplayInv'
<1>1. PICK new \in SUBSET {Entry(m)} : Keep(p, "command", kept \cup new)
  <2>1. kept \cup {} = kept
    OBVIOUS
  <2>2. QED
    BY <2>1
<1>2. EntriesWereFresh'
  <2>1. \A x \in new : x.msg \notin Envelopes
    BY DEF Entry
  <2>2. seen' = [seen EXCEPT ![p] = (@ \ Cache(p, "command")) \cup (kept \cup new)]
    BY <1>1 DEF Keep
  <2>3. QED
    BY <2>1, <2>2, FreshStep DEF ReplayInv
<1>3. RememberedOrStale'
  BY <1>1, RememberStep DEF Keep, ReplayInv
<1>4. QED
  BY <1>2, <1>3 DEF ReplayInv

\* An envelope that is fresh and is kept is remembered.
LEMMA KeptIsRemembered ==
  ASSUME Typed, ReplayInv, UNCHANGED clock,
         NEW p \in Peers, NEW k, NEW kept \in Survivors(p, k), NEW m \in Envelopes,
         m[4] <= Entry(m).at + Offset[p] + Skew,
         Keep(p, k, kept \cup {Entry(m)}),
         Apply(p, m) \/ UNCHANGED <<applied, repeated>>
  PROVE  EntriesWereFresh' /\ RememberedOrStale'
<1> DEFINE new == {Entry(m)}
<1>1. seen' = [seen EXCEPT ![p] = (@ \ Cache(p, k)) \cup (kept \cup new)]
  BY DEF Keep
<1>2. \A x \in new : x.msg \in Envelopes => x.msg[4] <= x.at + Offset[p] + Skew
  BY DEF Entry
<1>3. Known(seen'[p], m)
  <2>1. Entry(m) \in seen'[p]
    BY <1>1 DEF Typed, TypeOK
  <2>2. QED
    BY <2>1 DEF Known, Entry
<1>4. \A q \in Peers : \A x \in applied'[q] \ applied[q] :
        q = p /\ (Known(seen'[p], x) \/ <<x, p>> \in forgotten')
  BY <1>3 DEF Apply, Typed, TypeOK
<1>5. /\ forgotten \subseteq forgotten'
      /\ {<<x.msg, p>> : x \in Live(p, k) \ (kept \cup new)} \subseteq forgotten'
  BY DEF Keep
<1> HIDE DEF new
<1>6. EntriesWereFresh'
  BY <1>1, <1>2, FreshStep DEF ReplayInv
<1>7. RememberedOrStale'
  BY <1>1, <1>4, <1>5, RememberStep DEF ReplayInv
<1>8. QED
  BY <1>6, <1>7

\* So is what is left of a cache that takes nothing.
LEMMA ShedIsFresh ==
  ASSUME Typed, ReplayInv, NEW p \in Peers, NEW k, NEW kept \in Survivors(p, k),
         seen' = [seen EXCEPT ![p] = (@ \ Cache(p, k)) \cup kept]
  PROVE  EntriesWereFresh'
<1>1. PICK none : none = {}
  OBVIOUS
<1>2. seen' = [seen EXCEPT ![p] = (@ \ Cache(p, k)) \cup (kept \cup none)]
  BY <1>1
<1>3. \A x \in none : x.msg \in Envelopes => x.msg[4] <= x.at + Offset[p] + Skew
  BY <1>1
<1>4. QED
  BY <1>2, <1>3, FreshStep DEF ReplayInv

LEMMA ReplayStep == Typed /\ ReplayInv /\ [Next]_vars => ReplayInv'
<1> SUFFICES ASSUME Typed, ReplayInv, [Next]_vars PROVE ReplayInv'
  OBVIOUS
<1>c. clock \in Nat
  BY TimeAssumption DEF Typed, TypeOK
<1> DEFINE Idle == UNCHANGED <<seen, applied, repeated, forgotten, clock>>
<1>1. CASE Idle
  BY <1>1 DEF ReplayInv, EntriesWereFresh, RememberedOrStale, Stale, WallClock, Known
<1>2. CASE Tick
  <2>1. UNCHANGED <<seen, applied, repeated, forgotten>> /\ clock' = clock + 1
    BY <1>2 DEF Tick, peerVars, replayHistory, history
  <2>2. ASSUME NEW p \in Peers, NEW m \in applied[p], Stale(p, m) PROVE Stale(p, m)'
    <3>1. m[4] \in Nat /\ Offset[p] \in Nat
      BY EnvelopesAre, TimeAssumption DEF Typed, TypeOK
    <3>2. QED
      BY <1>c, <2>1, <2>2, <3>1, TimeAssumption DEF Stale, WallClock
  <2>3. RememberedOrStale'
    BY <2>1, <2>2 DEF ReplayInv, RememberedOrStale, Known
  <2>4. QED
    BY <2>1, <2>3 DEF ReplayInv, EntriesWereFresh
<1>3. ASSUME NEW p \in Peers, NEW e \in Presses, TakeStop(p, e) \/ RefuseStop(p, e)
      PROVE  ReplayInv'
  <2>1. \E kept \in Survivors(p, "command") :
          \/ Keep(p, "command", kept)
          \/ Keep(p, "command", kept \cup {Entry(StopMsg(e))})
    BY <1>3 DEF TakeStop, RefuseStop
  <2>2. UNCHANGED <<clock, applied, repeated>>
    BY <1>3 DEF TakeStop, RefuseStop, netVars
  <2>3. QED
    BY <2>1, <2>2, CommandReplay, NoEnvelopes
<1>4. ASSUME NEW p \in Peers, NEW c \in Commands, CheckCommand(c, p) PROVE ReplayInv'
  <2>1. \E kept \in Survivors(p, "command") :
          \/ Keep(p, "command", kept)
          \/ Keep(p, "command", kept \cup {Entry(CommandMsg(c, p))})
    BY <1>4 DEF CheckCommand
  <2>2. UNCHANGED <<clock, applied, repeated>>
    BY <1>4 DEF CheckCommand, netVars
  <2>3. QED
    BY <2>1, <2>2, CommandReplay, NoEnvelopes
<1>e. ASSUME NEW p \in Peers, NEW m \in sent, OnEstop(p, m) \/ OnResume(p, m)
      PROVE  /\ m \in Envelopes /\ Fresh(p, m[4]) /\ ~Known(seen[p], m)
             /\ UNCHANGED clock
             /\ Entry(m).msg = m
             /\ m[4] <= Entry(m).at + Offset[p] + Skew
  <2>1. m \in Envelopes /\ Fresh(p, m[4]) /\ ~Known(seen[p], m) /\ UNCHANGED clock
    BY <1>e, MessagesAre DEF OnEstop, OnResume, netVars, Typed, TypeOK
  <2>2. QED
    BY <2>1, EnvelopesAre, TimeAssumption, <1>c DEF Fresh, WallClock, Entry
<1>a. ASSUME NEW p \in Peers, NEW m \in Envelopes,
             Apply(p, m) \/ UNCHANGED <<applied, repeated>>
      PROVE  \A q \in Peers : \A x \in applied'[q] \ applied[q] : q = p /\ x = m
  BY <1>a DEF Apply, Typed, TypeOK
<1>5. ASSUME NEW p \in Peers, NEW m \in sent, OnEstop(p, m) PROVE ReplayInv'
  <2>1. PICK kept \in Survivors(p, "estop") :
          IF Slots(kept, m[2]) < IssuerCap
          THEN Keep(p, "estop", kept \cup {Entry(m)})
          ELSE /\ seen' = [seen EXCEPT ![p] = (@ \ Cache(p, "estop")) \cup kept]
               /\ forgotten' = forgotten \cup {<<m, p>>}
                    \cup {<<x.msg, p>> : x \in Live(p, "estop") \ kept}
    BY <1>5 DEF OnEstop
  <2>2. Apply(p, m) \/ UNCHANGED <<applied, repeated>>
    BY <1>5 DEF OnEstop
  <2>3. repeated' = {}
    BY <1>5, <1>e, <2>2, ApplyOnce DEF ReplayInv
  <2>4. CASE Keep(p, "estop", kept \cup {Entry(m)})
    BY <1>5, <1>e, <2>2, <2>3, <2>4, KeptIsRemembered DEF ReplayInv
  <2>5. CASE /\ seen' = [seen EXCEPT ![p] = (@ \ Cache(p, "estop")) \cup kept]
             /\ forgotten' = forgotten \cup {<<m, p>>}
                  \cup {<<x.msg, p>> : x \in Live(p, "estop") \ kept}
    <3>1. EntriesWereFresh'
      BY <2>5, ShedIsFresh DEF Keep
    <3>2. <<m, p>> \in forgotten'
      BY <2>5
    <3>3. RememberedOrStale'
      BY <1>5, <1>e, <1>a, <2>2, <2>5, <3>2, RememberStep DEF ReplayInv
    <3>4. QED
      BY <2>3, <3>1, <3>3 DEF ReplayInv
  <2>6. QED
    BY <2>1, <2>4, <2>5
<1>6. ASSUME NEW p \in Peers, NEW m \in sent, OnResume(p, m) PROVE ReplayInv'
  <2>1. PICK kept \in Survivors(p, "resume") :
          \/ /\ Keep(p, "resume", kept \cup {Entry(m)})
             /\ Apply(p, m) \/ UNCHANGED <<applied, repeated>>
          \/ Keep(p, "resume", kept) /\ UNCHANGED <<applied, repeated>>
    BY <1>6 DEF OnResume
  <2>2. Apply(p, m) \/ UNCHANGED <<applied, repeated>>
    BY <2>1
  <2>3. repeated' = {}
    BY <1>6, <1>e, <2>2, ApplyOnce DEF ReplayInv
  <2>4. CASE Keep(p, "resume", kept \cup {Entry(m)})
    BY <1>6, <1>e, <2>2, <2>3, <2>4, KeptIsRemembered DEF ReplayInv
  <2>5. CASE Keep(p, "resume", kept) /\ UNCHANGED <<applied, repeated>>
    <3>1. EntriesWereFresh'
      BY <2>5, ShedIsFresh DEF Keep
    <3>2. RememberedOrStale'
      BY <1>6, <1>e, <2>5, RememberStep DEF Keep, ReplayInv
    <3>3. QED
      BY <2>3, <3>1, <3>2 DEF ReplayInv
  <2>6. QED
    BY <2>1, <2>4, <2>5
<1>7. ASSUME Next PROVE ReplayInv'
  <2> USE DEF peerVars, netVars, replayHistory, history
  <2>1. ASSUME NEW e \in Presses, Carry(e) \/ \E a \in answered : Collect(e, a)
        PROVE  Idle
    BY <2>1 DEF Carry, HaltOwn, Broadcast, CloseWindow, Announce, Collect
  <2>2. ASSUME NEW e \in Presses, NEW p \in Peers, Press(e, p) \/ PerformStop(p, e)
        PROVE  Idle
    BY <2>2 DEF Press, PerformStop
  <2>3. ASSUME NEW p \in Peers, Leave(p) \/ Join(p) \/ Finish(p) PROVE Idle
    BY <2>3 DEF Leave, Join, Finish
  <2>4. ASSUME NEW p \in Peers, NEW c \in Commands, SendCommand(c, p) \/ PerformCommand(c, p)
        PROVE  Idle
    BY <2>4 DEF SendCommand, PerformCommand
  <2>5. ASSUME NEW p \in Peers, NEW r \in Resumes, VerifyResume(r, p) PROVE Idle
    BY <2>5 DEF VerifyResume
  <2>6. ASSUME NEW r \in Resumes, ClearLockout(r) \/ AnnounceResume(r) PROVE Idle
    BY <2>6 DEF ClearLockout, AnnounceResume
  <2>7. QED
    BY <1>1, <1>2, <1>3, <1>4, <1>5, <1>6, <1>7, <2>1, <2>2, <2>3, <2>4, <2>5, <2>6
       DEF Next
<1>8. QED
  BY <1>1, <1>7 DEF vars, peerVars, netVars, replayHistory, history

-------------------------------------------------------------------------------
(***************************************************************************)
(* The count of an emergency stop.                                         *)
(***************************************************************************)

\* An answer that says so is from a peer that has carried out this stop.
AnswersAreTrue ==
  \A a \in answered : a.says = "stopped" => a.press \in halted[a.from]

CountInv == AnswersAreTrue /\ AckIsHonest

\* Where nobody new is counted, and no stop and no answer is taken back, the
\* count stays honest.
LEMMA CountKept ==
  ASSUME Typed, AckIsHonest,
         \A e \in Presses : CountedAsStopped(e)' \subseteq CountedAsStopped(e),
         \A p \in Peers : halted[p] \subseteq halted'[p],
         answered \subseteq answered'
  PROVE  AckIsHonest'
<1>1. \A e \in Presses : CountedAsStopped(e) \subseteq Peers
  BY DEF CountedAsStopped, Typed, TypeOK
<1>2. QED
  BY <1>1 DEF AckIsHonest, Duplicate

LEMMA CountStep == Typed /\ CountInv /\ [Next]_vars => CountInv'
<1> SUFFICES ASSUME Typed, CountInv, [Next]_vars PROVE CountInv'
  OBVIOUS
<1>t. /\ answered \subseteq Answers
      /\ responders \in [Presses -> SUBSET Peers]
      /\ failed \in [Presses -> SUBSET Peers]
      /\ halted \in [Peers -> SUBSET Presses]
      /\ \A e \in Presses : press[e] # "idle" => issuer[e] \in Peers
  BY DEF Typed, TypeOK
<1>a. \A a \in answered :
        /\ a.press \in Presses /\ a.from \in Peers
        /\ a.says \in {"stopped", "not_stopped", "duplicate"}
        /\ a = [press |-> a.press, from |-> a.from, says |-> a.says]
  BY <1>t DEF Answers
<1> DEFINE Idle == UNCHANGED <<responders, failed, halted, answered>>
<1>1. CASE Idle
  <2>1. \A e \in Presses : CountedAsStopped(e)' \subseteq CountedAsStopped(e)
    BY <1>1 DEF CountedAsStopped
  <2>2. QED
    BY <1>1, <2>1, CountKept DEF CountInv, AnswersAreTrue
<1>2. ASSUME NEW e \in Presses, HaltOwn(e) PROVE CountInv'
  <2>1. issuer[e] \in Peers
    BY <1>t, <1>2 DEF HaltOwn, PressGoto
  <2>2. responders' = [responders EXCEPT ![e] = {issuer[e]}] /\ UNCHANGED answered
    BY <1>2 DEF HaltOwn, netVars
  <2>3. \/ /\ halted' = [halted EXCEPT ![issuer[e]] = halted[issuer[e]] \cup {e}]
           /\ UNCHANGED failed
        \/ /\ failed' = [failed EXCEPT ![e] = {issuer[e]}]
           /\ UNCHANGED halted
    BY <1>2 DEF HaltOwn
  <2>4. \A p \in Peers : halted[p] \subseteq halted'[p]
    BY <1>t, <2>1, <2>3
  <2>5. ASSUME NEW f \in Presses, NEW p \in CountedAsStopped(f)'
        PROVE  f \in halted'[p] \/ Duplicate(f, p) \in answered'
    <3>1. CASE f = e
      <4>1. p = issuer[e] /\ p \notin failed'[e]
        BY <1>t, <2>2, <2>5, <3>1 DEF CountedAsStopped
      <4>2. f \in halted'[p]
        BY <1>t, <2>1, <2>3, <3>1, <4>1
      <4>3. QED
        BY <4>2
    <3>2. CASE f # e
      <4>1. p \in CountedAsStopped(f) /\ p \in Peers
        BY <1>t, <2>2, <2>3, <2>5, <3>2 DEF CountedAsStopped
      <4>2. QED
        BY <2>2, <2>4, <4>1 DEF CountInv, AckIsHonest, Duplicate
    <3>3. QED
      BY <3>1, <3>2
  <2>6. AnswersAreTrue'
    BY <1>a, <2>2, <2>4 DEF CountInv, AnswersAreTrue
  <2>7. QED
    BY <2>5, <2>6 DEF CountInv, AckIsHonest
<1>3. ASSUME NEW e \in Presses, NEW a \in answered, Collect(e, a) PROVE CountInv'
  <2>1. /\ a.press = e /\ UNCHANGED <<answered, halted>>
        /\ responders' = [responders EXCEPT ![e] = responders[e] \cup {a.from}]
        /\ failed' = IF a.says = "not_stopped"
                     THEN [failed EXCEPT ![e] = failed[e] \cup {a.from}] ELSE failed
    BY <1>3 DEF Collect, netVars, history
  <2>2. ASSUME NEW f \in Presses, NEW p \in CountedAsStopped(f)'
        PROVE  f \in halted[p] \/ Duplicate(f, p) \in answered
    <3>1. CASE p \in CountedAsStopped(f)
      BY <3>1 DEF CountInv, AckIsHonest
    <3>2. CASE p \notin CountedAsStopped(f)
      <4>1. f = e /\ p = a.from /\ a.says # "not_stopped"
        BY <1>t, <1>a, <2>1, <2>2, <3>2 DEF CountedAsStopped
      <4>2. CASE a.says = "stopped"
        BY <2>1, <4>1, <4>2 DEF CountInv, AnswersAreTrue
      <4>3. CASE a.says = "duplicate"
        BY <1>a, <2>1, <4>1, <4>3 DEF Duplicate
      <4>4. QED
        BY <1>a, <4>1, <4>2, <4>3
    <3>3. QED
      BY <3>1, <3>2
  <2>3. AckIsHonest'
    BY <2>1, <2>2 DEF AckIsHonest, Duplicate
  <2>4. QED
    BY <2>1, <2>3 DEF CountInv, AnswersAreTrue
<1>4. ASSUME NEW p \in Peers, NEW e \in Presses, RefuseStop(p, e) PROVE CountInv'
  <2>1. /\ answered' = answered \cup {Duplicate(e, p)}
        /\ UNCHANGED <<responders, failed, halted>>
    BY <1>4 DEF RefuseStop, Duplicate, pressVars
  <2>2. \A f \in Presses : CountedAsStopped(f)' \subseteq CountedAsStopped(f)
    BY <2>1 DEF CountedAsStopped
  <2>3. AnswersAreTrue'
    BY <2>1 DEF CountInv, AnswersAreTrue, Duplicate
  <2>4. QED
    BY <2>1, <2>2, <2>3, CountKept DEF CountInv
<1>5. ASSUME NEW p \in Peers, NEW e \in Presses, PerformStop(p, e) PROVE CountInv'
  <2>1. UNCHANGED <<responders, failed>>
    BY <1>5 DEF PerformStop, pressVars
  <2>2. \A f \in Presses : CountedAsStopped(f)' \subseteq CountedAsStopped(f)
    BY <2>1 DEF CountedAsStopped
  <2>3. \/ /\ halted' = [halted EXCEPT ![p] = halted[p] \cup {e}]
           /\ answered' = answered \cup {[press |-> e, from |-> p, says |-> "stopped"]}
        \/ /\ answered' = answered \cup {[press |-> e, from |-> p, says |-> "not_stopped"]}
           /\ UNCHANGED halted
    BY <1>5 DEF PerformStop
  <2>4. \A q \in Peers : halted[q] \subseteq halted'[q]
    BY <1>t, <2>3
  <2>5. \A a \in answered : a.says = "stopped" => a.press \in halted'[a.from]
    BY <1>a, <2>4 DEF CountInv, AnswersAreTrue
  <2>6. AnswersAreTrue'
    BY <1>t, <2>3, <2>5 DEF AnswersAreTrue
  <2>7. QED
    BY <2>2, <2>3, <2>4, <2>6, CountKept DEF CountInv
<1>6. ASSUME NEW p \in Peers, Leave(p) PROVE CountInv'
  <2>1. UNCHANGED <<halted, answered>>
    BY <1>6 DEF Leave, netVars
  <2>2. PICK lost :
          /\ responders' = [e \in Presses |->
                              IF e \in lost THEN responders[e] \cap {p} ELSE responders[e]]
          /\ failed' = [e \in Presses |->
                          IF e \in lost THEN failed[e] \cap {p} ELSE failed[e]]
    BY <1>6 DEF Leave
  <2>3. \A e \in Presses : CountedAsStopped(e)' \subseteq CountedAsStopped(e)
    BY <2>2 DEF CountedAsStopped
  <2>4. QED
    BY <2>1, <2>3, CountKept DEF CountInv, AnswersAreTrue
<1>7. ASSUME Next PROVE CountInv'
  <2> USE DEF netVars, pressVars, history
  <2>1. CASE Tick
    BY <1>1, <2>1 DEF Tick
  <2>2. ASSUME NEW e \in Presses, Broadcast(e) \/ CloseWindow(e) \/ Announce(e)
        PROVE  Idle
    BY <2>2 DEF Broadcast, CloseWindow, Announce
  <2>3. ASSUME NEW e \in Presses, NEW p \in Peers, Press(e, p) \/ TakeStop(p, e)
        PROVE  Idle
    BY <2>3 DEF Press, TakeStop
  <2>4. ASSUME NEW p \in Peers, Join(p) \/ Finish(p) PROVE Idle
    BY <2>4 DEF Join, Finish
  <2>5. ASSUME NEW p \in Peers, NEW m \in sent, OnEstop(p, m) \/ OnResume(p, m)
        PROVE  Idle
    BY <2>5 DEF OnEstop, OnResume
  <2>6. ASSUME NEW p \in Peers, NEW c \in Commands,
               SendCommand(c, p) \/ CheckCommand(c, p) \/ PerformCommand(c, p)
        PROVE  Idle
    BY <2>6 DEF SendCommand, CheckCommand, PerformCommand
  <2>7. ASSUME NEW p \in Peers, NEW r \in Resumes, VerifyResume(r, p) PROVE Idle
    BY <2>7 DEF VerifyResume
  <2>8. ASSUME NEW r \in Resumes, ClearLockout(r) \/ AnnounceResume(r) PROVE Idle
    BY <2>8 DEF ClearLockout, AnnounceResume
  <2>9. QED
    BY <1>1, <1>2, <1>3, <1>4, <1>5, <1>6, <1>7, <2>1, <2>2, <2>3, <2>4, <2>5, <2>6,
       <2>7, <2>8 DEF Next, Carry
<1>8. QED
  BY <1>1, <1>7 DEF vars, netVars, pressVars, history

-------------------------------------------------------------------------------
Inv == Typed /\ JobsAreOvertaken /\ ReplayInv /\ CountInv

LEMMA InvInit == Init => Inv
<1> SUFFICES ASSUME Init PROVE Inv
  OBVIOUS
<1>1. Typed
  BY TypedInit
<1>2. JobsAreOvertaken /\ ReplayInv
  BY DEF Init, JobsAreOvertaken, ReplayInv, EntriesWereFresh, RememberedOrStale
<1>3. CountInv
  BY DEF Init, CountInv, AnswersAreTrue, AckIsHonest, CountedAsStopped
<1>4. QED
  BY <1>1, <1>2, <1>3 DEF Inv

\* Inv holds in every reachable state, whoever calls what and whatever the
\* network does with it.
THEOREM Invariance == Spec => []Inv
<1>1. Inv /\ [Next]_vars => Inv'
  BY TypedStep, LockStep, ReplayStep, CountStep DEF Inv
<1>2. QED
  BY <1>1, InvInit, PTL DEF Spec

\* Every variable stays in its domain: what a peer has accepted was sent, and
\* no stamp is ahead of the clock it was taken by (emergency_stop, the replay
\* caches).
THEOREM TypeCorrect == Spec => []TypeOK
<1>1. Inv => TypeOK
  BY DEF Inv, Typed
<1>2. QED
  BY <1>1, Invariance, PTL

\* emergency_stop() counts a peer as stopped only if it carried out this stop, or
\* answered a repeated copy of it with an error (_peers_that_did_not_stop).
THEOREM CountIsHonest == Spec => []AckIsHonest
<1>1. Inv => AckIsHonest
  BY DEF Inv, CountInv
<1>2. QED
  BY <1>1, Invariance, PTL

\* An envelope that comes back does not lock or unlock a peer again, for any
\* window, skew and clocks, and any size of the caches, unless a full cache has
\* lost it (_on_safety_estop, _on_safety_resume, _evict_replay_cache).
THEOREM ReplaysAreDropped == Spec => []NothingIsAppliedTwice
<1>1. Inv => NothingIsAppliedTwice
  BY DEF Inv, ReplayInv, NothingIsAppliedTwice
<1>2. QED
  BY <1>1, Invariance, PTL

\* A locked peer begins only what had passed the lockout check before
\* (_dispatch).
THEOREM LockoutHolds == Spec => LockedPeerStartsNothingNew
<1> DEFINE Held ==
      \A p \in Peers :
        lockout[p] /\ rollout'[p] # rollout[p] /\ rollout'[p] # NoCommand
          => <<rollout'[p], p>> \in overtaken
<1>1. Inv /\ [Next]_vars => [Held]_vars
  <2> SUFFICES ASSUME Inv, Next PROVE Held
    BY DEF Held
  <2> USE DEF peerVars
  <2>1. CASE UNCHANGED rollout
    BY <2>1
  <2>2. ASSUME NEW p \in Peers, rollout' = [rollout EXCEPT ![p] = NoCommand]
        PROVE  Held
    BY <2>2 DEF Inv, Typed, TypeOK
  <2>3. ASSUME NEW c \in Commands, NEW p \in Peers, PerformCommand(c, p) PROVE Held
    BY <2>3 DEF PerformCommand, Inv, JobsAreOvertaken, Typed, TypeOK
  <2>4. ASSUME NEW e \in Presses, HaltOwn(e) PROVE Held
    <3>1. issuer[e] \in Peers
      BY <2>4 DEF HaltOwn, PressGoto, Inv, Typed
    <3>2. UNCHANGED rollout \/ rollout' = [rollout EXCEPT ![issuer[e]] = NoCommand]
      BY <2>4 DEF HaltOwn
    <3>3. QED
      BY <2>1, <2>2, <3>1, <3>2
  <2>5. ASSUME NEW p \in Peers, NEW e \in Presses, PerformStop(p, e) PROVE Held
    <3>1. UNCHANGED rollout \/ rollout' = [rollout EXCEPT ![p] = NoCommand]
      BY <2>5 DEF PerformStop
    <3>2. QED
      BY <2>1, <2>2, <3>1
  <2>6. ASSUME NEW p \in Peers, Finish(p) PROVE Held
    BY <2>2, <2>6 DEF Finish
  <2>7. CASE Tick
    BY <2>1, <2>7 DEF Tick
  <2>8. ASSUME NEW e \in Presses,
               \/ Broadcast(e) \/ CloseWindow(e) \/ Announce(e)
               \/ \E a \in answered : Collect(e, a)
        PROVE  UNCHANGED rollout
    BY <2>8 DEF Broadcast, CloseWindow, Announce, Collect
  <2>9. ASSUME NEW e \in Presses, NEW p \in Peers,
               Press(e, p) \/ TakeStop(p, e) \/ RefuseStop(p, e)
        PROVE  UNCHANGED rollout
    BY <2>9 DEF Press, TakeStop, RefuseStop
  <2>10. ASSUME NEW p \in Peers, Leave(p) \/ Join(p) PROVE UNCHANGED rollout
    BY <2>10 DEF Leave, Join
  <2>11. ASSUME NEW p \in Peers, NEW m \in sent, OnEstop(p, m) \/ OnResume(p, m)
         PROVE  UNCHANGED rollout
    BY <2>11 DEF OnEstop, OnResume
  <2>12. ASSUME NEW p \in Peers, NEW c \in Commands,
                SendCommand(c, p) \/ CheckCommand(c, p)
         PROVE  UNCHANGED rollout
    BY <2>12 DEF SendCommand, CheckCommand
  <2>13. ASSUME NEW p \in Peers, NEW r \in Resumes, VerifyResume(r, p)
         PROVE  UNCHANGED rollout
    BY <2>13 DEF VerifyResume
  <2>14. ASSUME NEW r \in Resumes, ClearLockout(r) \/ AnnounceResume(r)
         PROVE  UNCHANGED rollout
    BY <2>14 DEF ClearLockout, AnnounceResume
  <2>15. QED
    BY <2>1, <2>3, <2>4, <2>5, <2>6, <2>7, <2>8, <2>9, <2>10, <2>11, <2>12, <2>13,
       <2>14 DEF Next, Carry
<1>2. QED
  BY <1>1, Invariance, PTL DEF Spec, LockedPeerStartsNothingNew
===============================================================================

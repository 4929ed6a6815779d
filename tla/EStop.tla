--------------------------------- MODULE EStop ---------------------------------
(***************************************************************************)
(* The fleet emergency stop of strands_robots/mesh/core.py: how a press of *)
(* the stop on one peer halts and locks the others, which commands a       *)
(* locked peer still runs, and how the lockout is cleared again.           *)
(*                                                                         *)
(* A peer is one Mesh with the robot it drives.  Peers talk over a network *)
(* that keeps every message ever sent: a message may arrive late, out of   *)
(* order, many times or never.  Each peer knows what it has accepted from  *)
(* three replay caches (of commands and broadcast stops, of estop          *)
(* envelopes, of resume envelopes), which forget with time and when they   *)
(* are full; an envelope is accepted only while its stamp is fresh by the  *)
(* peer's own clock, a command or a stop at any time.                      *)
(*                                                                         *)
(* The robot itself is abstract: it carries out one command at a time, and *)
(* a stop either ends what it does or is answered as not stopped.          *)
(***************************************************************************)
EXTENDS Naturals, FiniteSets

CONSTANTS
  Peers,      \* the meshes of the fleet
  WithCode,   \* the peers that have the operator's override code
  Presses,    \* calls of emergency_stop()
  Commands,   \* "start" and "execute" commands, each sent once, to one peer
  Resumes,    \* "resume" commands that carry the right code
  Pressers,   \* the peers that emergency_stop() is called on
  Reached,    \* the peers that commands and broadcasts get to; an access list
              \* or a lossy network may leave the others the safety topics only
  Leavers,    \* the peers whose mesh may stop and start again
  Faulty,     \* the peers whose robot may fail to stop
  Offset,     \* how far each peer's wall clock is ahead
  Window,     \* the freshness window of an envelope
  Skew,       \* how far ahead its stamp may be
  CacheMax,   \* the size of each replay cache
  MaxClock,   \* bound of the model: when time stops
  NoPeer,
  NoCommand

ASSUME CodeAssumption == WithCode \subseteq Peers
ASSUME PlacesAssumption ==
  /\ Pressers \subseteq Peers /\ Reached \subseteq Peers
  /\ Leavers \subseteq Peers /\ Faulty \subseteq Peers
ASSUME TimeAssumption ==
  Offset \in [Peers -> Nat] /\ Window \in Nat /\ Skew \in Nat /\ MaxClock \in Nat
ASSUME CacheAssumption == CacheMax \in Nat \ {0}
ASSUME NoPeerAssumption == NoPeer \notin Peers
ASSUME NoCommandAssumption == NoCommand \notin Commands

\* What travels, by what the replay caches know it by: the turn_id of a
\* broadcast stop or of a command (and the peer it is sent to), the stamp of an
\* estop envelope, the issuer and the proof_nonce of a resume envelope.  An
\* envelope names its issuer and carries the time it is stamped with; the number
\* n tells apart the stamps taken in one unit of time.
StopMsg(e) == <<"stop", e>>
CommandMsg(c, p) == <<"command", c, p>>
EstopMsg(p, n, t) == <<"estop", p, n, t>>
ResumeMsg(p, r, t) == <<"resume", p, r, t>>

Envelopes == ({"estop"} \X Peers \X Nat \X Nat) \cup ({"resume"} \X Peers \X Resumes \X Nat)

Messages ==
  {StopMsg(e) : e \in Presses} \cup {CommandMsg(c, p) : c \in Commands, p \in Peers}
  \cup Envelopes

\* A peer's answer to a broadcast stop: what its robot did, or the error that
\* refuses a repeated command, on the turn of the first.
Answers ==
  [press : Presses, from : Peers, says : {"stopped", "not_stopped", "duplicate"}]

VARIABLES
  \* each peer
  member,     \* _running
  lockout,    \* _estop_lockout
  stamp,      \* _last_estop_ts
  rollout,    \* the command the robot carries out
  seen,       \* the entries of the replay caches, with the time of acceptance
  \* the network and the time
  sent,       \* messages on the wire
  answered,   \* answers on the wire
  clock,
  taken,      \* how many stamps have been taken
  \* the calls in progress
  jobs,       \* commands past the lockout check, not yet handed to the robot
  stopping,   \* broadcast stops accepted, not yet carried out
  press,      \* how far each emergency_stop() is
  issuer,     \* the peer it was called on
  responders, \* the peers whose answers it has
  failed,     \* peers_not_stopped
  resume,     \* how far each accepted resume is
  resumer,    \* the peer that handles it
  \* history, read by the properties only
  halted,     \* the presses whose stop a peer has carried out
  overtaken,  \* jobs that a lockout overtook after their check
  applied,    \* the envelopes that changed the lockout of a peer
  repeated,   \* envelopes that did so again before a full cache lost them
  forgotten,  \* envelopes a full cache dropped or did not take, with the peer
  cut         \* presses whose issuer left the mesh under them

peerVars == <<member, lockout, stamp, rollout, seen>>
netVars == <<sent, answered, clock, taken>>
jobVars == <<jobs, stopping>>
pressVars == <<press, issuer, responders, failed>>
resumeVars == <<resume, resumer>>
replayHistory == <<applied, repeated, forgotten>>
history == <<halted, overtaken, replayHistory, cut>>
vars == <<peerVars, netVars, jobVars, pressVars, resumeVars, history>>

Init ==
  /\ member = [p \in Peers |-> TRUE]
  /\ lockout = [p \in Peers |-> FALSE]
  /\ stamp = [p \in Peers |-> [no |-> 0, at |-> 0]]
  /\ rollout = [p \in Peers |-> NoCommand]
  /\ seen = [p \in Peers |-> {}]
  /\ sent = {}
  /\ answered = {}
  /\ clock = 0
  /\ taken = 0
  /\ jobs = {}
  /\ stopping = {}
  /\ press = [e \in Presses |-> "idle"]
  /\ issuer = [e \in Presses |-> NoPeer]
  /\ responders = [e \in Presses |-> {}]
  /\ failed = [e \in Presses |-> {}]
  /\ resume = [r \in Resumes |-> "idle"]
  /\ resumer = [r \in Resumes |-> NoPeer]
  /\ halted = [p \in Peers |-> {}]
  /\ overtaken = {}
  /\ applied = [p \in Peers |-> {}]
  /\ repeated = {}
  /\ forgotten = {}
  /\ cut = {}

PressGoto(e, from, to) == press[e] = from /\ press' = [press EXCEPT ![e] = to]
ResumeGoto(r, from, to) == resume[r] = from /\ resume' = [resume EXCEPT ![r] = to]

-------------------------------------------------------------------------------
(***************************************************************************)
(* Time and the replay caches.                                             *)
(***************************************************************************)

Tick ==
  /\ clock < MaxClock
  /\ clock' = clock + 1
  /\ UNCHANGED <<peerVars, sent, answered, taken, jobVars, pressVars, resumeVars,
                 history>>

WallClock(p) == clock + Offset[p]

\* _check_safety_envelope_timing
Fresh(p, t) == t <= WallClock(p) + Skew /\ WallClock(p) <= t + Window

\* Variant: an entry is kept for the freshness window.
TTLOfWindow == Window

\* How long an entry is kept, and what of a cache one issuer may hold.
TTL == Window + Skew
IssuerCap == IF CacheMax < 4 THEN 1 ELSE CacheMax \div 4

CacheOf(m) == IF m[1] \in {"stop", "command"} THEN "command" ELSE m[1]

Cache(p, k) == {x \in seen[p] : CacheOf(x.msg) = k}

Live(p, k) == {x \in Cache(p, k) : clock <= x.at + TTL}

\* _evict_replay_cache: what may be left of a cache once the expired entries are
\* dropped and, if it is full all the same, the oldest fifth.
Survivors(p, k) ==
  LET live == Live(p, k)
      size == Cardinality(live)
      drop == IF size < 10 THEN 1 ELSE size \div 5
  IN IF size < CacheMax
     THEN {live}
     ELSE {kept \in SUBSET live :
             /\ Cardinality(kept) = size - drop
             /\ \A x \in live \ kept, y \in kept : x.at <= y.at}

Known(entries, m) == \E x \in entries : x.msg = m

\* Cache k of p now holds the entries, and what a full cache lost is noted.
Keep(p, k, entries) ==
  /\ seen' = [seen EXCEPT ![p] = (@ \ Cache(p, k)) \cup entries]
  /\ forgotten' = forgotten \cup {<<x.msg, p>> : x \in Live(p, k) \ entries}

Entry(m) == [msg |-> m, at |-> clock]

Arrives(p, m) == member[p] /\ m \in sent
ArrivesCommand(p, m) == p \in Reached /\ Arrives(p, m)

\* Notes that the envelope m changes the lockout of p.
Apply(p, m) ==
  /\ applied' = [applied EXCEPT ![p] = @ \cup {m}]
  /\ repeated' = IF m \in applied[p] /\ <<m, p>> \notin forgotten
                 THEN repeated \cup {<<m, p>>} ELSE repeated

\* Variant: the stamp runs ahead of the peer's clock.
EngageAhead(p) ==
  /\ lockout' = [lockout EXCEPT ![p] = TRUE]
  /\ taken' = taken + 1
  /\ stamp' = [stamp EXCEPT ![p] = [no |-> taken + 1, at |-> WallClock(p) + 1]]
  /\ overtaken' = overtaken \cup {j \in jobs : j[2] = p}

\* The lockout is set and stamped by the peer's clock.
Engage(p) ==
  /\ lockout' = [lockout EXCEPT ![p] = TRUE]
  /\ taken' = taken + 1
  /\ stamp' = [stamp EXCEPT ![p] = [no |-> taken + 1, at |-> WallClock(p)]]
  /\ overtaken' = overtaken \cup {j \in jobs : j[2] = p}

-------------------------------------------------------------------------------
(***************************************************************************)
(* emergency_stop(), on the peer that issues it.                           *)
(***************************************************************************)

\* A mesh that is not running raises, and nothing has happened.
Press(e, p) ==
  /\ p \in Pressers /\ member[p]
  /\ PressGoto(e, "idle", "engaged")
  /\ issuer' = [issuer EXCEPT ![e] = p]
  /\ Engage(p)
  /\ UNCHANGED <<member, rollout, seen, sent, answered, clock, jobVars, responders,
                 failed, resumeVars, halted, replayHistory, cut>>

\* The robot of the issuer is stopped first; its answer counts like a peer's.
HaltOwn(e) ==
  /\ PressGoto(e, "engaged", "halted")
  /\ LET p == issuer[e] IN
       /\ responders' = [responders EXCEPT ![e] = {p}]
       /\ \/ /\ rollout' = [rollout EXCEPT ![p] = NoCommand]
             /\ halted' = [halted EXCEPT ![p] = @ \cup {e}]
             /\ UNCHANGED failed
          \/ /\ p \in Faulty
             /\ failed' = [failed EXCEPT ![e] = {p}]
             /\ UNCHANGED <<rollout, halted>>
  /\ UNCHANGED <<member, lockout, stamp, seen, netVars, jobVars, issuer, resumeVars,
                 overtaken, replayHistory, cut>>

\* broadcast() raises when the mesh has left meanwhile, and the press ends.
Broadcast(e) ==
  /\ press[e] = "halted"
  /\ IF member[issuer[e]]
     THEN PressGoto(e, "halted", "waiting") /\ sent' = sent \cup {StopMsg(e)}
     ELSE PressGoto(e, "halted", "failed") /\ UNCHANGED sent
  /\ UNCHANGED <<peerVars, answered, clock, taken, jobVars, issuer, responders,
                 failed, resumeVars, history>>

\* Variant: the turn of an answer is not looked at.
CollectAnyTurn(e, a) ==
  /\ a \in answered
  /\ press[e] = "waiting" /\ e \notin cut
  /\ responders' = [responders EXCEPT ![e] = @ \cup {a.from}]
  /\ failed' = IF a.says = "not_stopped"
               THEN [failed EXCEPT ![e] = @ \cup {a.from}] ELSE failed
  /\ UNCHANGED <<peerVars, netVars, jobVars, press, issuer, resumeVars, history>>

\* _on_response, while the turn is pending, and what is made of the answer: a
\* responder counts as stopped unless it says that it did not stop.
Collect(e, a) ==
  /\ a \in answered /\ a.press = e
  /\ press[e] = "waiting" /\ e \notin cut
  /\ responders' = [responders EXCEPT ![e] = @ \cup {a.from}]
  /\ failed' = IF a.says = "not_stopped"
               THEN [failed EXCEPT ![e] = @ \cup {a.from}] ELSE failed
  /\ UNCHANGED <<peerVars, netVars, jobVars, press, issuer, resumeVars, history>>

\* Variant: the window stays open until every peer has answered.
CloseWindowWhenAllAnswered(e) ==
  /\ responders[e] = Peers
  /\ PressGoto(e, "waiting", "counted")
  /\ UNCHANGED <<peerVars, netVars, jobVars, issuer, responders, failed,
                 resumeVars, history>>

\* The window runs its full length, or stop() cuts it short.
CloseWindow(e) ==
  /\ PressGoto(e, "waiting", "counted")
  /\ UNCHANGED <<peerVars, netVars, jobVars, issuer, responders, failed,
                 resumeVars, history>>

\* The envelope carries the peer's stamp as it is by now.  A peer that has left
\* publishes only if another mesh of its process keeps the session open.
Announce(e) ==
  /\ press[e] = "counted"
  /\ LET p == issuer[e] IN
       \/ /\ PressGoto(e, "counted", "done")
          /\ sent' = sent \cup {EstopMsg(p, stamp[p].no, stamp[p].at)}
       \/ /\ ~member[p]
          /\ PressGoto(e, "counted", "unheard")
          /\ UNCHANGED sent
  /\ UNCHANGED <<peerVars, answered, clock, taken, jobVars, issuer, responders,
                 failed, resumeVars, history>>

-------------------------------------------------------------------------------
(***************************************************************************)
(* The peers that are told.                                                *)
(***************************************************************************)

\* The broadcast stop reaches _exec_cmd: one that is not a replay goes on to the
\* robot.  The sender drops its own broadcast.
TakeStop(p, e) ==
  /\ p # issuer[e] /\ ArrivesCommand(p, StopMsg(e))
  /\ \E kept \in Survivors(p, "command") :
       /\ ~Known(kept, StopMsg(e))
       /\ Keep(p, "command", kept \cup {Entry(StopMsg(e))})
  /\ stopping' = stopping \cup {<<e, p>>}
  /\ UNCHANGED <<member, lockout, stamp, rollout, netVars, jobs, pressVars,
                 resumeVars, halted, overtaken, applied, repeated, cut>>

\* A replay is refused with an error on the same turn, at once.
RefuseStop(p, e) ==
  /\ p # issuer[e] /\ ArrivesCommand(p, StopMsg(e))
  /\ \E kept \in Survivors(p, "command") :
       Known(kept, StopMsg(e)) /\ Keep(p, "command", kept)
  /\ answered' = answered \cup {[press |-> e, from |-> p, says |-> "duplicate"]}
  /\ UNCHANGED <<member, lockout, stamp, rollout, sent, clock, taken, jobVars,
                 pressVars, resumeVars, halted, overtaken, applied, repeated, cut>>

\* The stop of the robot, which a lockout does not refuse, and its answer.  The
\* wire may hold the answer back or lose it, which stands for what may happen
\* between the two.
PerformStop(p, e) ==
  /\ <<e, p>> \in stopping
  /\ stopping' = stopping \ {<<e, p>>}
  /\ \/ /\ rollout' = [rollout EXCEPT ![p] = NoCommand]
        /\ halted' = [halted EXCEPT ![p] = @ \cup {e}]
        /\ answered' = answered \cup {[press |-> e, from |-> p, says |-> "stopped"]}
     \/ /\ p \in Faulty
        /\ answered' = answered \cup {[press |-> e, from |-> p, says |-> "not_stopped"]}
        /\ UNCHANGED <<rollout, halted>>
  /\ UNCHANGED <<member, lockout, stamp, seen, sent, clock, taken, jobs, pressVars,
                 resumeVars, overtaken, replayHistory, cut>>

Slots(entries, p) == Cardinality({x \in entries : x.msg[2] = p})

\* _on_safety_estop; the issuer hears its own envelope too.  A replay is looked
\* up before anything is evicted.  An issuer that holds too much of the cache is
\* obeyed, and its envelope not remembered.
OnEstop(p, m) ==
  /\ Arrives(p, m) /\ m[1] = "estop"
  /\ Fresh(p, m[4])
  /\ ~Known(seen[p], m)
  /\ \E kept \in Survivors(p, "estop") :
       IF Slots(kept, m[2]) < IssuerCap
       THEN Keep(p, "estop", kept \cup {Entry(m)})
       ELSE /\ seen' = [seen EXCEPT ![p] = (@ \ Cache(p, "estop")) \cup kept]
            /\ forgotten' = forgotten \cup {<<m, p>>}
                 \cup {<<x.msg, p>> : x \in Live(p, "estop") \ kept}
  /\ IF lockout[p]
     THEN UNCHANGED <<lockout, stamp, taken, overtaken, applied, repeated>>
     ELSE Engage(p) /\ Apply(p, m)
  /\ UNCHANGED <<member, rollout, sent, answered, clock, jobVars, pressVars,
                 resumeVars, halted, cut>>

\* stop() on a peer; a window it cuts short may lose the answers it has.
Leave(p) ==
  /\ p \in Leavers /\ member[p]
  /\ member' = [member EXCEPT ![p] = FALSE]
  /\ cut' = cut \cup {e \in Presses :
                      issuer[e] = p /\ press[e] \in {"engaged", "halted", "waiting", "counted"}}
  /\ \E lost \in {{}, {e \in Presses : press[e] = "waiting" /\ issuer[e] = p}} :
       /\ responders' = [e \in Presses |->
                           IF e \in lost THEN responders[e] \cap {p} ELSE responders[e]]
       /\ failed' = [e \in Presses |->
                       IF e \in lost THEN failed[e] \cap {p} ELSE failed[e]]
  /\ UNCHANGED <<lockout, stamp, rollout, seen, netVars, jobVars, press, issuer,
                 resumeVars, halted, overtaken, replayHistory>>

\* start() on a peer that has left: the lockout and the caches are as they were.
Join(p) ==
  /\ ~member[p]
  /\ member' = [member EXCEPT ![p] = TRUE]
  /\ UNCHANGED <<lockout, stamp, rollout, seen, netVars, jobVars, pressVars,
                 resumeVars, history>>

-------------------------------------------------------------------------------
(***************************************************************************)
(* Commands.                                                               *)
(***************************************************************************)

\* One to a peer that is not reached comes to nothing.
SendCommand(c, p) ==
  /\ p \in Reached /\ \A q \in Peers : CommandMsg(c, q) \notin sent
  /\ sent' = sent \cup {CommandMsg(c, p)}
  /\ UNCHANGED <<peerVars, answered, clock, taken, jobVars, pressVars, resumeVars,
                 history>>

\* Variant: a locked peer takes commands.
CheckCommandUnlocked(c, p) ==
  /\ ArrivesCommand(p, CommandMsg(c, p))
  /\ \E kept \in Survivors(p, "command") :
       IF Known(kept, CommandMsg(c, p))
       THEN Keep(p, "command", kept) /\ UNCHANGED jobs
       ELSE /\ Keep(p, "command", kept \cup {Entry(CommandMsg(c, p))})
            /\ jobs' = jobs \cup {<<c, p>>}
  /\ UNCHANGED <<member, lockout, stamp, rollout, netVars, stopping, pressVars,
                 resumeVars, halted, overtaken, applied, repeated, cut>>

\* _exec_cmd and _dispatch on a thread of their own: a command that is not a
\* replay is refused while the lockout is engaged.
CheckCommand(c, p) ==
  /\ ArrivesCommand(p, CommandMsg(c, p))
  /\ \E kept \in Survivors(p, "command") :
       IF Known(kept, CommandMsg(c, p))
       THEN Keep(p, "command", kept) /\ UNCHANGED jobs
       ELSE /\ Keep(p, "command", kept \cup {Entry(CommandMsg(c, p))})
            /\ jobs' = IF lockout[p] THEN jobs ELSE jobs \cup {<<c, p>>}
  /\ UNCHANGED <<member, lockout, stamp, rollout, netVars, stopping, pressVars,
                 resumeVars, halted, overtaken, applied, repeated, cut>>

\* The call of the robot that follows; a busy robot refuses it.
PerformCommand(c, p) ==
  /\ <<c, p>> \in jobs
  /\ jobs' = jobs \ {<<c, p>>}
  /\ rollout' = IF rollout[p] = NoCommand THEN [rollout EXCEPT ![p] = c] ELSE rollout
  /\ UNCHANGED <<member, lockout, stamp, seen, netVars, stopping, pressVars,
                 resumeVars, history>>

Finish(p) ==
  /\ rollout[p] # NoCommand
  /\ rollout' = [rollout EXCEPT ![p] = NoCommand]
  /\ UNCHANGED <<member, lockout, stamp, seen, netVars, jobVars, pressVars,
                 resumeVars, history>>

-------------------------------------------------------------------------------
(***************************************************************************)
(* Resuming.                                                               *)
(***************************************************************************)

\* _resume_lockout with the right code, up to its last check.
VerifyResume(r, p) ==
  /\ lockout[p] /\ p \in WithCode
  /\ ResumeGoto(r, "idle", "verified")
  /\ resumer' = [resumer EXCEPT ![r] = p]
  /\ UNCHANGED <<peerVars, netVars, jobVars, pressVars, history>>

\* The lockout is cleared without another look.
ClearLockout(r) ==
  /\ ResumeGoto(r, "verified", "cleared")
  /\ lockout' = [lockout EXCEPT ![resumer[r]] = FALSE]
  /\ UNCHANGED <<member, stamp, rollout, seen, netVars, jobVars, pressVars, resumer,
                 history>>

\* The envelope is stamped after the lockout has been cleared.
AnnounceResume(r) ==
  /\ ResumeGoto(r, "cleared", "done")
  /\ LET p == resumer[r] IN
       \/ sent' = sent \cup {ResumeMsg(p, r, WallClock(p))}
       \/ ~member[p] /\ UNCHANGED sent
  /\ UNCHANGED <<peerVars, answered, clock, taken, jobVars, pressVars, resumer,
                 history>>

\* _on_safety_resume: the proof is verified with the peer's own code, and an
\* issuer that holds too much of the cache is refused.
OnResume(p, m) ==
  /\ Arrives(p, m) /\ m[1] = "resume"
  /\ p \in WithCode
  /\ Fresh(p, m[4])
  /\ ~Known(seen[p], m)
  /\ \E kept \in Survivors(p, "resume") :
       IF Slots(kept, m[2]) < IssuerCap
       THEN /\ Keep(p, "resume", kept \cup {Entry(m)})
            /\ lockout' = [lockout EXCEPT ![p] = FALSE]
            /\ IF lockout[p] THEN Apply(p, m) ELSE UNCHANGED <<applied, repeated>>
       ELSE Keep(p, "resume", kept) /\ UNCHANGED <<lockout, applied, repeated>>
  /\ UNCHANGED <<member, stamp, rollout, netVars, jobVars, pressVars, resumeVars,
                 halted, overtaken, cut>>

-------------------------------------------------------------------------------
\* What the thread of a press does by itself once it is called.
Carry(e) == HaltOwn(e) \/ Broadcast(e) \/ CloseWindow(e) \/ Announce(e)

Next ==
  \/ Tick
  \/ \E e \in Presses :
       \/ Carry(e)
       \/ \E a \in answered : Collect(e, a)
       \/ \E p \in Peers :
            Press(e, p) \/ TakeStop(p, e) \/ RefuseStop(p, e) \/ PerformStop(p, e)
  \/ \E p \in Peers :
       \/ Leave(p) \/ Join(p) \/ Finish(p)
       \/ \E m \in sent : OnEstop(p, m) \/ OnResume(p, m)
       \/ \E c \in Commands : SendCommand(c, p) \/ CheckCommand(c, p) \/ PerformCommand(c, p)
       \/ \E r \in Resumes : VerifyResume(r, p)
  \/ \E r \in Resumes : ClearLockout(r) \/ AnnounceResume(r)

Spec == Init /\ [][Next]_vars

(***************************************************************************)
(* A press that has been called runs on: its waits are bounded.  Nothing   *)
(* is assumed of the network, of the peers or of the other callers.        *)
(***************************************************************************)
FairSpec == Spec /\ \A e \in Presses : WF_vars(Carry(e))

-------------------------------------------------------------------------------
(***************************************************************************)
(* Safety.                                                                 *)
(***************************************************************************)

\* Every variable stays in its domain; no stamp is ahead of the clock it was
\* taken by.
TypeOK ==
  /\ member \in [Peers -> BOOLEAN]
  /\ lockout \in [Peers -> BOOLEAN]
  /\ stamp \in [Peers -> [no : 0..taken, at : Nat]]
  /\ \A p \in Peers : stamp[p].at <= WallClock(p)
  /\ rollout \in [Peers -> Commands \cup {NoCommand}]
  /\ seen \in [Peers -> SUBSET [msg : sent, at : 0..clock]]
  /\ sent \subseteq Messages
  /\ answered \subseteq Answers
  /\ clock \in 0..MaxClock
  /\ taken \in Nat
  /\ jobs \subseteq Commands \X Peers
  /\ stopping \subseteq Presses \X Peers
  /\ press \in [Presses -> {"idle", "engaged", "halted", "waiting", "counted",
                            "done", "unheard", "failed"}]
  /\ issuer \in [Presses -> Peers \cup {NoPeer}]
  /\ responders \in [Presses -> SUBSET Peers]
  /\ failed \in [Presses -> SUBSET Peers]
  /\ resume \in [Resumes -> {"idle", "verified", "cleared", "done"}]
  /\ resumer \in [Resumes -> Peers \cup {NoPeer}]
  /\ halted \in [Peers -> SUBSET Presses]
  /\ overtaken \subseteq Commands \X Peers
  /\ applied \in [Peers -> SUBSET Envelopes]
  /\ repeated \subseteq Envelopes \X Peers
  /\ forgotten \subseteq Messages \X Peers
  /\ cut \subseteq Presses

(***************************************************************************)
(* A locked peer begins no rollout but one whose command had passed the    *)
(* lockout check before the lockout came (_dispatch reads the lockout and  *)
(* calls the robot later, with no lock around the two).                    *)
(***************************************************************************)
LockedPeerStartsNothingNew ==
  [][\A p \in Peers :
       lockout[p] /\ rollout'[p] # rollout[p] /\ rollout'[p] # NoCommand
         => <<rollout'[p], p>> \in overtaken]_vars

(***************************************************************************)
(* No envelope locks or unlocks a peer twice, however often, late or out   *)
(* of order it is delivered, however far apart the clocks of the peers     *)
(* are, and whether or not the peer left and joined again in between: the  *)
(* replay caches keep its entry for as long as its stamp is fresh.  Only   *)
(* an entry that a full cache has dropped, or has not taken because its    *)
(* issuer holds too much of it, lets its envelope through again.           *)
(***************************************************************************)
NothingIsAppliedTwice == repeated = {}

Duplicate(e, p) == [press |-> e, from |-> p, says |-> "duplicate"]

\* The responders that the result of the press does not name as not stopped.
CountedAsStopped(e) == responders[e] \ failed[e]

(***************************************************************************)
(* The count an operator gets from emergency_stop() is honest: a peer is   *)
(* counted as stopped only when it has carried out this very stop, or has  *)
(* answered a repeated copy of it with an error, with answers of several   *)
(* presses on the wire and a stop() of the issuer in between.              *)
(***************************************************************************)
AckIsHonest ==
  \A e \in Presses : \A p \in CountedAsStopped(e) :
    e \in halted[p] \/ Duplicate(e, p) \in answered

-------------------------------------------------------------------------------
(***************************************************************************)
(* Liveness, under FairSpec.                                               *)
(***************************************************************************)

(***************************************************************************)
(* A press is announced to the fleet, whether or not anyone answers; only  *)
(* one whose own mesh was stopped under it may end with an exception, or   *)
(* with an envelope that does not go out.  Each press is called once, so   *)
(* that all of them rest again and again says that each one comes to that. *)
(***************************************************************************)
Settled(e) ==
  \/ press[e] \in {"idle", "done"}
  \/ press[e] \in {"unheard", "failed"} /\ e \in cut

PressCompletes == []<>(\A e \in Presses : Settled(e))

-------------------------------------------------------------------------------
(***************************************************************************)
(* What the repository says and the code does not do.  The docstring of    *)
(* emergency_stop: a response is an acknowledgement that the peer stopped  *)
(* only if it says so.                                                     *)
(***************************************************************************)
OnlyStoppedPeersCount ==
  \A e \in Presses : \A p \in CountedAsStopped(e) : e \in halted[p]
===============================================================================

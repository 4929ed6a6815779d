----------------------------- MODULE MeshRpcProofs -----------------------------
(***************************************************************************)
(* Proofs about MeshRpc for any calls, any copies of them, any sizes of    *)
(* the two tables and any of the times, as long as no copy is on its way   *)
(* for longer than the deduplicator remembers (DelayAssumption).           *)
(***************************************************************************)
EXTENDS MeshRpc, TLAPS

\* Nothing of a call exists before it is made.
NothingBeforeSend ==
  \A c \in Calls : stage[c] = "idle" =>
    /\ seen[c] = 0
    /\ \A j \in Jobs : j[1] = c => job[j] = "none"

Typed == TypeOK /\ NothingBeforeSend

LEMMA JobsAre == \A j \in Jobs : j[1] \in Calls
BY DEF Jobs

\* A table keeps the entries that are not taken out, and no other.
LEMMA WithoutKeeps ==
  ASSUME NEW f \in [Calls -> 0 .. MaxTime], NEW S
  PROVE  /\ Without(f, S) \in [Calls -> 0 .. MaxTime]
         /\ \A c \in Calls : \/ Without(f, S)[c] = f[c] /\ <<c, f[c]>> \notin S
                             \/ Without(f, S)[c] = 0 /\ <<c, f[c]>> \in S
BY NumbersAssumption DEF Without

\* What the two steps of the deduplicator that make room leave.
LEMMA PurgeLeaves ==
  ASSUME TypeOK, NEW j \in Jobs, Purge(j)
  PROVE  /\ seen' \in [Calls -> 0 .. MaxTime]
         /\ dropped \subseteq dropped' /\ dropped' \subseteq Calls
         /\ \A c \in Calls : seen'[c] = seen[c] \/ (seen'[c] = 0 /\ c \in dropped')
         /\ picked' \in [Jobs -> SUBSET (Calls \X (1 .. MaxTime))]
         /\ job' \in {[job EXCEPT ![j] = "full"], [job EXCEPT ![j] = "checking"]}
<1> DEFINE all == Entries(seen, Target[j[1]])
           old == IF Cardinality(all) > DedupMax
                  THEN Expired(seen, Target[j[1]], stamp[j], DedupTTL) ELSE {}
           left == all \ old
<1>1. all \subseteq Calls \X (1 .. MaxTime) /\ old \subseteq Calls \X (1 .. MaxTime)
  BY DEF Entries, Expired
<1>2. seen' = Without(seen, old) /\ dropped' = dropped \cup CallsOf(old)
  BY DEF Purge
<1>3. \A c \in Calls : <<c, seen[c]>> \in old => c \in CallsOf(old)
  <2>1. \A e \in old : e[1] \in CallsOf(old)
    BY DEF CallsOf
  <2>2. QED
    BY <2>1
<1>4. CallsOf(old) \subseteq Calls
  BY <1>1 DEF CallsOf
<1>5. /\ seen' \in [Calls -> 0 .. MaxTime]
      /\ \A c \in Calls : seen'[c] = seen[c] \/ (seen'[c] = 0 /\ c \in dropped')
  <2>1. seen \in [Calls -> 0 .. MaxTime]
    BY DEF TypeOK
  <2>2. QED
    BY <1>2, <1>3, <2>1, WithoutKeeps
<1>6. \A S \in Oldest(left, Fifth(Cardinality(left))) : S \in SUBSET (Calls \X (1 .. MaxTime))
  BY <1>1 DEF Oldest
<1>7. picked' \in [Jobs -> SUBSET (Calls \X (1 .. MaxTime))]
  <2>1. \/ \E S \in Oldest(left, Fifth(Cardinality(left))) : picked' = [picked EXCEPT ![j] = S]
        \/ UNCHANGED picked
    BY DEF Purge
  <2>2. picked \in [Jobs -> SUBSET (Calls \X (1 .. MaxTime))]
    BY DEF TypeOK
  <2> HIDE DEF left
  <2>3. QED
    BY <1>6, <2>1, <2>2
<1>8. job' \in {[job EXCEPT ![j] = "full"], [job EXCEPT ![j] = "checking"]}
  BY DEF Purge, Goto
<1>9. QED
  BY <1>2, <1>4, <1>5, <1>7, <1>8 DEF TypeOK

LEMMA DropOldestLeaves ==
  ASSUME TypeOK, NEW j \in Jobs, DropOldest(j)
  PROVE  /\ seen' \in [Calls -> 0 .. MaxTime]
         /\ dropped \subseteq dropped' /\ dropped' \subseteq Calls
         /\ \A c \in Calls : seen'[c] = seen[c] \/ (seen'[c] = 0 /\ c \in dropped')
<1>1. picked[j] \subseteq Calls \X (1 .. MaxTime) /\ seen \in [Calls -> 0 .. MaxTime]
  BY DEF TypeOK
<1> DEFINE gone == {e[1] : e \in {d \in picked[j] : seen[d[1]] = d[2]}}
<1>2. seen' = Without(seen, picked[j]) /\ dropped' = dropped \cup gone
  BY DEF DropOldest
<1>3. gone \subseteq Calls
  BY <1>1
<1>4. \A c \in Calls : <<c, seen[c]>> \in picked[j] => c \in gone
  <2>1. SUFFICES ASSUME NEW c \in Calls, <<c, seen[c]>> \in picked[j]
                 PROVE  c \in gone
    OBVIOUS
  <2>2. <<c, seen[c]>> \in {d \in picked[j] : seen[d[1]] = d[2]}
    BY <2>1
  <2>3. \A e \in {d \in picked[j] : seen[d[1]] = d[2]} : e[1] \in gone
    OBVIOUS
  <2>4. QED
    BY <2>2, <2>3
<1> HIDE DEF gone
<1>5. \A c \in Calls : seen'[c] = seen[c] \/ (seen'[c] = 0 /\ c \in dropped')
  BY <1>1, <1>2, <1>4, WithoutKeeps
<1>6. seen' \in [Calls -> 0 .. MaxTime]
  BY <1>1, <1>2, WithoutKeeps
<1>7. QED
  BY <1>2, <1>3, <1>5, <1>6 DEF TypeOK

\* What the check of the replay cache does: kept is the cache with room made.
LEMMA CheckReplayDoes ==
  ASSUME TypeOK, NEW j \in Jobs, CheckReplay(j)
  PROVE  /\ crowded \subseteq crowded' /\ crowded' \subseteq Calls
         /\ cache' \in [Calls -> 0 .. MaxTime] /\ last' \in [Calls -> 0 .. MaxTime]
         /\ \E kept \in [Calls -> 0 .. MaxTime] :
              /\ \A c \in Calls :
                   \/ kept[c] = cache[c]
                   \/ kept[c] = 0 /\ (c \in crowded' \/ cache[c] + ReplayTTL < stamp[j])
              /\ \/ /\ kept[j[1]] # 0
                    /\ job' = [job EXCEPT ![j] = "replayed"]
                    /\ cache' = kept
                    /\ last' = last
                 \/ /\ kept[j[1]] = 0
                    /\ job' = [job EXCEPT ![j] = "dispatch"]
                    /\ cache' = [kept EXCEPT ![j[1]] = stamp[j]]
                    /\ last' = [last EXCEPT ![j[1]] = stamp[j]]
<1> DEFINE r == Target[j[1]]
           Kept(S) == Without(cache, Old(r, stamp[j]) \cup S)
<1>1. PICK S \in Surplus(r, stamp[j]) :
        /\ \/ /\ Kept(S)[j[1]] # 0
              /\ job' = [job EXCEPT ![j] = "replayed"]
              /\ cache' = Kept(S)
              /\ last' = last
           \/ /\ Kept(S)[j[1]] = 0
              /\ job' = [job EXCEPT ![j] = "dispatch"]
              /\ cache' = [Kept(S) EXCEPT ![j[1]] = stamp[j]]
              /\ last' = [last EXCEPT ![j[1]] = stamp[j]]
        /\ crowded' = crowded \cup CallsOf(S)
  BY DEF CheckReplay, Goto
<1>2. S \subseteq Calls \X (1 .. MaxTime)
  BY DEF Surplus, Oldest, Entries
<1>3. CallsOf(S) \subseteq Calls
  BY <1>2 DEF CallsOf
<1>4. \A c \in Calls : <<c, cache[c]>> \in S => c \in CallsOf(S)
  <2>1. \A e \in S : e[1] \in CallsOf(S)
    BY DEF CallsOf
  <2>2. QED
    BY <2>1
<1>5. \A c \in Calls : <<c, cache[c]>> \in Old(r, stamp[j]) => cache[c] + ReplayTTL < stamp[j]
  BY DEF Old, Expired
<1>6. Kept(S) \in [Calls -> 0 .. MaxTime]
  BY WithoutKeeps DEF TypeOK
<1>7. \A c \in Calls :
        \/ Kept(S)[c] = cache[c]
        \/ Kept(S)[c] = 0 /\ (c \in crowded' \/ cache[c] + ReplayTTL < stamp[j])
  <2>1. \A c \in Calls : \/ Kept(S)[c] = cache[c]
                         \/ Kept(S)[c] = 0 /\ <<c, cache[c]>> \in Old(r, stamp[j]) \cup S
    BY WithoutKeeps DEF TypeOK
  <2>2. QED
    BY <1>1, <1>4, <1>5, <2>1
<1> HIDE DEF Kept
<1>8. /\ cache' \in [Calls -> 0 .. MaxTime]
      /\ last' \in [Calls -> 0 .. MaxTime]
  BY <1>1, <1>6 DEF TypeOK
<1>9. QED
  BY <1>1, <1>3, <1>6, <1>7, <1>8 DEF TypeOK

-------------------------------------------------------------------------------
LEMMA TypedInit == Init => Typed
<1> SUFFICES ASSUME Init PROVE Typed
  OBVIOUS
<1> USE NumbersAssumption DEF Init
<1>1. now \in 1 .. MaxTime
  OBVIOUS
<1>2. pending = {c \in Calls : stage[c] = "waiting"}
  OBVIOUS
<1>3. NothingBeforeSend
  BY JobsAre DEF NothingBeforeSend
<1>4. /\ \A j \in Jobs : stamp[j] # 0 <=> job[j] \in {"arrived", "full", "checking", "stamped"}
      /\ picked \in [Jobs -> SUBSET (Calls \X (1 .. MaxTime))]
  OBVIOUS
<1>5. /\ seen \in [Calls -> 0 .. MaxTime] /\ cache \in [Calls -> 0 .. MaxTime]
      /\ sent \in [Calls -> 0 .. MaxTime] /\ last \in [Calls -> 0 .. MaxTime]
      /\ stamp \in [Jobs -> 0 .. MaxTime] /\ runs \in [Calls -> Nat]
  OBVIOUS
<1>6. /\ stage \in [Calls -> {"idle", "waiting", "returned"}]
      /\ first \in [Calls -> Kinds \cup {"none"}]
      /\ result \in [Calls -> Kinds \cup {"none", "timeout"}]
  OBVIOUS
<1>7. job \in [Jobs -> Kinds \cup {"none", "sent", "arrived", "full", "checking",
                 "duplicate", "spawned", "stamped", "dispatch"}]
  OBVIOUS
<1>8. dropped \subseteq Calls /\ crowded \subseteq Calls
  OBVIOUS
<1> HIDE DEF Init
<1>9. TypeOK
  BY <1>1, <1>2, <1>4, <1>5, <1>6, <1>7, <1>8, Zenon DEF TypeOK
<1>10. QED
  BY <1>3, <1>9 DEF Typed

LEMMA TypedStep == Typed /\ [Next]_vars => Typed'
<1> SUFFICES ASSUME Typed, [Next]_vars PROVE Typed'
  OBVIOUS
<1> USE NumbersAssumption, JobsAre
    DEF Typed, TypeOK, NothingBeforeSend, Kinds, calling, serving, history
<1>1. CASE Next
  <2>1. ASSUME Tick PROVE Typed'
    BY <2>1 DEF Tick
  <2>2. ASSUME NEW c \in Calls, Send(c) PROVE Typed'
    BY <2>2 DEF Send
  <2>3. ASSUME NEW c \in Calls, Return(c) PROVE Typed'
    BY <2>3 DEF Return
  <2>4. ASSUME NEW j \in Jobs, Arrive(j) PROVE Typed'
    BY <2>4 DEF Arrive, Goto
  <2>5. ASSUME NEW j \in Jobs, Purge(j) PROVE Typed'
    <3>1. /\ job[j] = "arrived"
          /\ UNCHANGED <<now, calling, cache, stamp, runs, last, crowded>>
      BY <2>5 DEF Purge
    <3>2. /\ seen' \in [Calls -> 0 .. MaxTime]
          /\ dropped' \subseteq Calls
          /\ \A c \in Calls : seen'[c] \in {0, seen[c]}
          /\ picked' \in [Jobs -> SUBSET (Calls \X (1 .. MaxTime))]
      BY <2>5, PurgeLeaves
    <3>3. job' \in {[job EXCEPT ![j] = "full"], [job EXCEPT ![j] = "checking"]}
      BY <2>5, PurgeLeaves
    <3>4. NothingBeforeSend'
      BY <3>1, <3>2, <3>3
    <3>5. QED
      BY <3>1, <3>2, <3>3, <3>4
  <2>6. ASSUME NEW j \in Jobs, DropOldest(j) PROVE Typed'
    <3>1. /\ job[j] = "full"
          /\ picked' = [picked EXCEPT ![j] = {}]
          /\ job' = [job EXCEPT ![j] = "checking"]
          /\ UNCHANGED <<now, calling, cache, stamp, runs, last, crowded>>
      BY <2>6 DEF DropOldest, Goto
    <3>2. QED
      BY <2>6, <3>1, DropOldestLeaves
  <2>7. ASSUME NEW j \in Jobs, Deduplicate(j) PROVE Typed'
    BY <2>7 DEF Deduplicate, Goto
  <2>8. ASSUME NEW j \in Jobs, Begin(j) PROVE Typed'
    BY <2>8 DEF Begin, Goto
  <2>9. ASSUME NEW j \in Jobs, CheckReplay(j) PROVE Typed'
    <3>1. /\ job[j] = "stamped"
          /\ stamp' = [stamp EXCEPT ![j] = 0]
          /\ UNCHANGED <<now, calling, seen, picked, runs, dropped>>
      BY <2>9 DEF CheckReplay
    <3>2. job' \in {[job EXCEPT ![j] = "replayed"], [job EXCEPT ![j] = "dispatch"]}
      BY <2>9, CheckReplayDoes
    <3>3. /\ cache' \in [Calls -> 0 .. MaxTime] /\ last' \in [Calls -> 0 .. MaxTime]
          /\ crowded' \subseteq Calls
      BY <2>9, CheckReplayDoes
    <3>4. NothingBeforeSend'
      BY <3>1, <3>2
    <3>5. QED
      BY <3>1, <3>2, <3>3, <3>4
  <2>10. ASSUME NEW j \in Jobs, Refuse(j) PROVE Typed'
    BY <2>10 DEF Refuse, Goto
  <2>11. ASSUME NEW j \in Jobs, Run(j) PROVE Typed'
    BY <2>11 DEF Run, Goto
  <2>12. ASSUME NEW j \in Jobs, Accept(j) PROVE Typed'
    BY <2>12 DEF Accept, Append
  <2>13. QED
    BY <1>1, <2>1, <2>2, <2>3, <2>4, <2>5, <2>6, <2>7, <2>8, <2>9, <2>10,
       <2>11, <2>12 DEF Next
<1>2. CASE UNCHANGED vars
  BY <1>2 DEF vars
<1>3. QED
  BY <1>1, <1>2

LEMMA TypedAlways == Spec => []Typed
BY TypedInit, TypedStep, PTL DEF Spec

\* The state keeps its shape, and exactly the calls that wait are in _pending.
THEOREM TypeCorrect == Spec => []TypeOK
<1>1. Typed => TypeOK
  BY DEF Typed
<1>2. QED
  BY <1>1, TypedAlways, PTL
-------------------------------------------------------------------------------
\* A call that has returned leaves nothing behind.
THEOREM NothingIsLeft == Spec => []LateAnswersLeaveNothing
<1>1. Init => LateAnswersLeaveNothing
  BY DEF Init, LateAnswersLeaveNothing
<1>2. Typed /\ LateAnswersLeaveNothing /\ [Next]_vars => LateAnswersLeaveNothing'
  <2> SUFFICES ASSUME Typed, LateAnswersLeaveNothing, [Next]_vars
               PROVE  LateAnswersLeaveNothing'
    OBVIOUS
  <2> USE DEF Typed, TypeOK, LateAnswersLeaveNothing, calling, serving, history
  <2>1. ASSUME NEW c \in Calls, Send(c) PROVE LateAnswersLeaveNothing'
    BY <2>1 DEF Send
  <2>2. ASSUME NEW c \in Calls, Return(c) PROVE LateAnswersLeaveNothing'
    BY <2>2 DEF Return
  <2>3. ASSUME NEW j \in Jobs, Accept(j) PROVE LateAnswersLeaveNothing'
    BY <2>3, JobsAre DEF Accept, Append
  <2>4. CASE UNCHANGED calling
    BY <2>4
  <2>5. ASSUME NEW j \in Jobs,
               \/ Arrive(j) \/ Purge(j) \/ DropOldest(j) \/ Deduplicate(j)
               \/ Begin(j) \/ CheckReplay(j) \/ Refuse(j) \/ Run(j)
        PROVE  UNCHANGED calling
    BY <2>5 DEF Arrive, Purge, DropOldest, Deduplicate, Begin, CheckReplay, Refuse, Run
  <2>6. QED
    BY <2>1, <2>2, <2>3, <2>4, <2>5 DEF Next, Tick, vars
<1>3. QED
  BY <1>1, <1>2, TypedAlways, PTL DEF Spec

-------------------------------------------------------------------------------
\* What the replay cache still holds, it holds under the last stamp; what it
\* does not hold any more fell to a full cache or is past its window.
ReplayRemembers ==
  \A c \in Calls :
    /\ cache[c] # 0 => cache[c] = last[c]
    /\ last[c] # 0 /\ cache[c] = 0 /\ c \notin crowded => last[c] + ReplayTTL < now

StampsArePast == \A j \in Jobs : stamp[j] <= now

Windowed == Typed /\ StampsArePast /\ ReplayRemembers

LEMMA WindowedStep ==
  Windowed /\ [Next]_vars
    => /\ Windowed'
       /\ \A c \in Calls : last'[c] # last[c] /\ last[c] # 0 /\ c \notin crowded'
                             => now > last[c] + ReplayTTL
<1> DEFINE Window == \A c \in Calls :
                       last'[c] # last[c] /\ last[c] # 0 /\ c \notin crowded'
                         => now > last[c] + ReplayTTL
<1> SUFFICES ASSUME Windowed, [Next]_vars PROVE Windowed' /\ Window
  OBVIOUS
<1>1. Typed'
  BY TypedStep DEF Windowed
<1> USE NumbersAssumption, JobsAre, <1>1
    DEF Windowed, Typed, TypeOK, StampsArePast, ReplayRemembers, calling, serving, history
<1>2. ASSUME Tick PROVE Windowed' /\ Window
  BY <1>2 DEF Tick
<1>3. ASSUME NEW c \in Calls, Send(c) \/ Return(c) PROVE Windowed' /\ Window
  BY <1>3 DEF Send, Return
<1>4. ASSUME NEW j \in Jobs, Arrive(j) \/ Begin(j) PROVE Windowed' /\ Window
  BY <1>4 DEF Arrive, Begin
<1>5. ASSUME NEW j \in Jobs, Purge(j) \/ DropOldest(j) PROVE Windowed' /\ Window
  BY <1>5 DEF Purge, DropOldest
<1>6. ASSUME NEW j \in Jobs, Deduplicate(j) PROVE Windowed' /\ Window
  BY <1>6 DEF Deduplicate
<1>7. ASSUME NEW j \in Jobs, CheckReplay(j) PROVE Windowed' /\ Window
  <2>1. /\ job[j] = "stamped"
        /\ stamp' = [stamp EXCEPT ![j] = 0]
        /\ now' = now
    BY <1>7 DEF CheckReplay
  <2>2. PICK kept \in [Calls -> 0 .. MaxTime] :
          /\ \A c \in Calls :
               \/ kept[c] = cache[c]
               \/ kept[c] = 0 /\ (c \in crowded' \/ cache[c] + ReplayTTL < stamp[j])
          /\ \/ /\ kept[j[1]] # 0
                /\ cache' = kept
                /\ last' = last
             \/ /\ kept[j[1]] = 0
                /\ cache' = [kept EXCEPT ![j[1]] = stamp[j]]
                /\ last' = [last EXCEPT ![j[1]] = stamp[j]]
    BY <1>7, CheckReplayDoes
  <2>3. crowded \subseteq crowded' /\ stamp[j] <= now /\ stamp[j] # 0
    BY <1>7, <2>1, CheckReplayDoes
  <2>4. \A c \in Calls :
          last[c] # 0 /\ kept[c] = 0 /\ c \notin crowded' => last[c] + ReplayTTL < now
    BY <2>2, <2>3
  <2>5. \A c \in Calls : kept[c] # 0 => kept[c] = last[c]
    BY <2>2
  <2>6. StampsArePast'
    BY <2>1
  <2>7. ReplayRemembers' /\ Window
    <3>1. CASE cache' = kept /\ last' = last
      BY <2>1, <2>3, <2>4, <2>5, <3>1
    <3>2. CASE /\ kept[j[1]] = 0
               /\ cache' = [kept EXCEPT ![j[1]] = stamp[j]]
               /\ last' = [last EXCEPT ![j[1]] = stamp[j]]
      BY <2>1, <2>3, <2>4, <2>5, <3>2
    <3>3. QED
      BY <2>2, <3>1, <3>2
  <2>8. QED
    BY <2>6, <2>7
<1>8. ASSUME NEW j \in Jobs, Refuse(j) \/ Run(j) PROVE Windowed' /\ Window
  BY <1>8 DEF Refuse, Run
<1>9. ASSUME NEW j \in Jobs, Accept(j) PROVE Windowed' /\ Window
  BY <1>9 DEF Accept, Append
<1>10. CASE UNCHANGED vars
  BY <1>10 DEF vars
<1>11. QED
  BY <1>2, <1>3, <1>4, <1>5, <1>6, <1>7, <1>8, <1>9, <1>10 DEF Next

\* The replay cache lets a command pass again only after its window.
THEOREM ReplayWindow == Spec => ReplayWindowHolds
<1>1. Init => Windowed
  BY TypedInit, NumbersAssumption
     DEF Init, Windowed, StampsArePast, ReplayRemembers
<1>2. Windowed /\ [Next]_vars => Windowed'
  BY WindowedStep
<1>3. Windowed /\ [Next]_vars =>
        [\A c \in Calls : last'[c] # last[c] /\ last[c] # 0 /\ c \notin crowded'
           => now > last[c] + ReplayTTL]_vars
  BY WindowedStep
<1>4. QED
  BY <1>1, <1>2, <1>3, PTL DEF Spec, ReplayWindowHolds
-------------------------------------------------------------------------------
\* A copy is taken up while the deduplicator would remember any earlier one.
Timely ==
  /\ \A c \in Calls : /\ sent[c] <= now
                      /\ seen[c] # 0 => sent[c] <= seen[c]
  /\ \A j \in Jobs : job[j] \in {"arrived", "full", "checking"} =>
       /\ sent[j[1]] <= stamp[j]
       /\ stamp[j] <= sent[j[1]] + DedupTTL

LEMMA TimelyStep == Typed /\ Timely /\ [Next]_vars => Timely'
<1> SUFFICES ASSUME Typed, Timely, [Next]_vars PROVE Timely'
  OBVIOUS
<1> USE NumbersAssumption, DelayAssumption, JobsAre
    DEF Typed, TypeOK, NothingBeforeSend, Timely, calling, serving, history
<1>1. ASSUME Tick PROVE Timely'
  BY <1>1 DEF Tick
<1>2. ASSUME NEW c \in Calls, Send(c) PROVE Timely'
  BY <1>2 DEF Send
<1>3. ASSUME NEW c \in Calls, Return(c) PROVE Timely'
  BY <1>3 DEF Return
<1>4. ASSUME NEW j \in Jobs, Arrive(j) PROVE Timely'
  BY <1>4 DEF Arrive, Goto
<1>5. ASSUME NEW j \in Jobs, Purge(j) PROVE Timely'
  <2>1. job[j] = "arrived" /\ UNCHANGED <<now, sent, stamp>>
    BY <1>5 DEF Purge
  <2>2. \A i \in Jobs : job'[i] \in {"arrived", "full", "checking"}
                        => job[i] \in {"arrived", "full", "checking"}
    BY <1>5, <2>1, PurgeLeaves
  <2>3. \A c \in Calls : seen'[c] # 0 => seen'[c] = seen[c]
    BY <1>5, PurgeLeaves
  <2>4. QED
    BY <2>1, <2>2, <2>3
<1>6. ASSUME NEW j \in Jobs, DropOldest(j) PROVE Timely'
  <2>1. /\ job[j] = "full"
        /\ job' = [job EXCEPT ![j] = "checking"]
        /\ UNCHANGED <<now, sent, stamp>>
    BY <1>6 DEF DropOldest, Goto
  <2>2. \A c \in Calls : seen'[c] # 0 => seen'[c] = seen[c]
    BY <1>6, DropOldestLeaves
  <2>3. QED
    BY <2>1, <2>2
<1>7. ASSUME NEW j \in Jobs, Deduplicate(j) PROVE Timely'
  BY <1>7 DEF Deduplicate, Goto
<1>8. ASSUME NEW j \in Jobs, Begin(j) PROVE Timely'
  BY <1>8 DEF Begin, Goto
<1>9. ASSUME NEW j \in Jobs, CheckReplay(j) PROVE Timely'
  <2>1. /\ job' \in {[job EXCEPT ![j] = "replayed"], [job EXCEPT ![j] = "dispatch"]}
        /\ stamp' = [stamp EXCEPT ![j] = 0]
        /\ UNCHANGED <<now, sent, seen>>
    BY <1>9, CheckReplayDoes DEF CheckReplay
  <2>2. QED
    BY <2>1
<1>10. ASSUME NEW j \in Jobs, Refuse(j) \/ Run(j) PROVE Timely'
  BY <1>10 DEF Refuse, Run, Goto
<1>11. ASSUME NEW j \in Jobs, Accept(j) PROVE Timely'
  BY <1>11 DEF Accept, Append
<1>12. CASE UNCHANGED vars
  BY <1>12 DEF vars
<1>13. QED
  BY <1>1, <1>2, <1>3, <1>4, <1>5, <1>6, <1>7, <1>8, <1>9, <1>10, <1>11, <1>12 DEF Next

\* The copies of a command that the deduplicator let through.
Passed == {"spawned", "stamped", "dispatch", "ran", "refused", "replayed"}

\* One copy of a command passes, and it is the one that every trace of the command
\* stems from: the entries, the run and the answers.
OnePasses(c) ==
  /\ \A i, j \in Jobs :
       i[1] = c /\ j[1] = c /\ job[i] \in Passed /\ job[j] \in Passed => i = j
  /\ \A j \in Jobs : j[1] = c /\ job[j] \in Passed => seen[c] # 0
  /\ \A j \in Jobs : j[1] = c => job[j] # "replayed"
  /\ cache[c] # 0 =>
       \E j \in Jobs : j[1] = c /\ job[j] \in {"dispatch", "ran", "refused"}
  /\ runs[c] # 0 => runs[c] = 1 /\ \E j \in Jobs : j[1] = c /\ job[j] = "ran"
  /\ first[c] # "none" => \E j \in Jobs : j[1] = c /\ job[j] = first[c]
  /\ result[c] \in Kinds => \E j \in Jobs : j[1] = c /\ job[j] = result[c]

OneCopy == \A c \in Calls \ dropped : OnePasses(c)

\* A step that leaves the copies of d that have passed as they are, and adds
\* nothing to the tables under d, keeps it.
LEMMA OnePassesKept ==
  ASSUME Typed, NEW d \in Calls, OnePasses(d),
         \A j \in Jobs : j[1] = d =>
           \/ job'[j] = job[j]
           \/ (job[j] \notin Passed) /\ (job'[j] \notin Passed),
         seen'[d] = seen[d], cache'[d] \in {0, cache[d]},
         runs' = runs, first' = first, result' = result
  PROVE  OnePasses(d)'
<1> USE DEF OnePasses, Passed, Kinds
<1>1. \A j \in Jobs : j[1] = d /\ job[j] \in Passed => job'[j] = job[j]
  OBVIOUS
<1>2. \A j \in Jobs : j[1] = d /\ job'[j] \in Passed => job'[j] = job[j]
  OBVIOUS
<1>3. first[d] # "none" => \E j \in Jobs : j[1] = d /\ job'[j] = first[d]
  BY <1>1 DEF Typed, TypeOK
<1>4. result[d] \in Kinds => \E j \in Jobs : j[1] = d /\ job'[j] = result[d]
  BY <1>1
<1>5. cache'[d] # 0 =>
        \E j \in Jobs : j[1] = d /\ job'[j] \in {"dispatch", "ran", "refused"}
  BY <1>1
<1>6. runs[d] # 0 => runs[d] = 1 /\ \E j \in Jobs : j[1] = d /\ job'[j] = "ran"
  BY <1>1
<1>7. QED
  BY <1>2, <1>3, <1>4, <1>5, <1>6

LEMMA OneCopyStep == Typed /\ Timely /\ OneCopy /\ [Next]_vars => OneCopy'
<1> SUFFICES ASSUME Typed, Timely, OneCopy, [Next]_vars,
                    NEW d \in Calls, d \notin dropped'
             PROVE  OnePasses(d)'
  BY DEF OneCopy
<1>0. dropped \subseteq dropped' => d \notin dropped /\ OnePasses(d)
  BY DEF OneCopy
<1> USE NumbersAssumption, JobsAre
    DEF Typed, TypeOK, OnePasses, Passed, Kinds, calling, serving, history
<1>1. ASSUME Tick PROVE OnePasses(d)'
  BY <1>0, <1>1 DEF Tick
<1>2. ASSUME NEW c \in Calls, Send(c) PROVE OnePasses(d)'
  <2>1. \A j \in Jobs : job'[j] # job[j] => job[j] = "none" /\ job'[j] = "sent"
    BY <1>2 DEF Send, NothingBeforeSend
  <2>2. UNCHANGED <<seen, cache, runs, first, result, dropped>>
    BY <1>2 DEF Send
  <2>3. QED
    BY <1>0, <2>1, <2>2, OnePassesKept
<1>3. ASSUME NEW c \in Calls, Return(c) PROVE OnePasses(d)'
  BY <1>0, <1>3 DEF Return
<1>4. ASSUME NEW j \in Jobs, Arrive(j) PROVE OnePasses(d)'
  BY <1>0, <1>4 DEF Arrive, Goto
<1>5. ASSUME NEW j \in Jobs, Purge(j) PROVE OnePasses(d)'
  <2>1. job[j] = "arrived" /\ UNCHANGED <<first, result, cache, runs>>
    BY <1>5 DEF Purge
  <2>2. /\ dropped \subseteq dropped' /\ seen'[d] = seen[d]
        /\ job' \in {[job EXCEPT ![j] = "full"], [job EXCEPT ![j] = "checking"]}
    BY <1>5, PurgeLeaves
  <2>3. QED
    BY <1>0, <2>1, <2>2
<1>6. ASSUME NEW j \in Jobs, DropOldest(j) PROVE OnePasses(d)'
  <2>1. /\ job[j] = "full" /\ job' = [job EXCEPT ![j] = "checking"]
        /\ UNCHANGED <<first, result, cache, runs>>
    BY <1>6 DEF DropOldest, Goto
  <2>2. dropped \subseteq dropped' /\ seen'[d] = seen[d]
    BY <1>6, DropOldestLeaves
  <2>3. QED
    BY <1>0, <2>1, <2>2
<1>7. ASSUME NEW j \in Jobs, Deduplicate(j) PROVE OnePasses(d)'
  <2>1. /\ job[j] = "checking"
        /\ UNCHANGED <<first, result, cache, runs, dropped>>
    BY <1>7 DEF Deduplicate
  <2>2. CASE seen[j[1]] # 0
    <3>1. stamp[j] <= seen[j[1]] + DedupTTL
      BY <2>1, <2>2 DEF Timely
    <3>2. job' = [job EXCEPT ![j] = "duplicate"] /\ seen' = seen
      BY <1>7, <2>2, <3>1 DEF Deduplicate, Goto
    <3>3. QED
      BY <1>0, <2>1, <3>2
  <2>3. CASE seen[j[1]] = 0
    <3>1. /\ job' = [job EXCEPT ![j] = "spawned"]
          /\ seen' = [seen EXCEPT ![j[1]] = stamp[j]]
          /\ stamp[j] # 0
      BY <1>7, <2>1, <2>3 DEF Deduplicate, Goto
    <3>2. CASE j[1] = d
      BY <1>0, <2>1, <2>3, <3>1, <3>2
    <3>3. CASE j[1] # d
      BY <1>0, <2>1, <3>1, <3>3
    <3>4. QED
      BY <3>2, <3>3
  <2>4. QED
    BY <2>2, <2>3
<1>8. ASSUME NEW j \in Jobs, Begin(j) PROVE OnePasses(d)'
  BY <1>0, <1>8 DEF Begin, Goto
<1>9. ASSUME NEW j \in Jobs, CheckReplay(j) PROVE OnePasses(d)'
  <2>1. job[j] = "stamped" /\ UNCHANGED <<first, result, seen, runs, dropped>>
    BY <1>9 DEF CheckReplay
  <2>2. PICK kept \in [Calls -> 0 .. MaxTime] :
          /\ \A c \in Calls : kept[c] \in {0, cache[c]}
          /\ \/ /\ kept[j[1]] # 0
                /\ job' = [job EXCEPT ![j] = "replayed"]
                /\ cache' = kept
             \/ /\ kept[j[1]] = 0
                /\ job' = [job EXCEPT ![j] = "dispatch"]
                /\ cache' = [kept EXCEPT ![j[1]] = stamp[j]]
    BY <1>9, CheckReplayDoes
  <2>3. CASE j[1] = d
    <3>1. cache[d] = 0
      BY <1>0, <2>1, <2>3
    <3>2. job' = [job EXCEPT ![j] = "dispatch"]
      BY <2>2, <2>3, <3>1
    <3>3. QED
      BY <1>0, <2>1, <2>3, <3>2
  <2>4. CASE j[1] # d
    <3>1. cache'[d] \in {0, cache[d]}
      BY <2>2, <2>4
    <3>2. \A i \in Jobs : i[1] = d => job'[i] = job[i]
      BY <2>2, <2>4
    <3>3. QED
      BY <1>0, <2>1, <3>1, <3>2, OnePassesKept
  <2>5. QED
    BY <2>3, <2>4
<1>10. ASSUME NEW j \in Jobs, Refuse(j) PROVE OnePasses(d)'
  BY <1>0, <1>10 DEF Refuse, Goto
<1>11. ASSUME NEW j \in Jobs, Run(j) PROVE OnePasses(d)'
  BY <1>0, <1>11 DEF Run, Goto
<1>12. ASSUME NEW j \in Jobs, Accept(j) PROVE OnePasses(d)'
  BY <1>0, <1>12 DEF Accept, Append
<1>13. CASE UNCHANGED vars
  BY <1>0, <1>13 DEF vars
<1>14. QED
  BY <1>1, <1>2, <1>3, <1>4, <1>5, <1>6, <1>7, <1>8, <1>9, <1>10, <1>11, <1>12,
     <1>13 DEF Next

LEMMA OneCopyAlways == Spec => []OneCopy
<1>1. Init => Timely
  BY NumbersAssumption DEF Init, Timely
<1>2. Init => OneCopy
  BY DEF Init, OneCopy, OnePasses, Passed, Kinds
<1>3. QED
  BY <1>1, <1>2, TypedAlways, TimelyStep, OneCopyStep, PTL DEF Spec

\* A robot acts on a command once.
THEOREM CommandActsOnce == Spec => []ActsOnce
<1>1. OneCopy => ActsOnce
  BY DEF OneCopy, OnePasses, ActsOnce
<1>2. QED
  BY <1>1, OneCopyAlways, PTL

\* What a send returns stays true.
THEOREM AnswersStayTrue == Spec => []AnswerIsTruthful
<1>1. OneCopy => AnswerIsTruthful
  BY DEF OneCopy, OnePasses, Passed, Kinds, AnswerIsTruthful
<1>2. QED
  BY <1>1, OneCopyAlways, PTL
-------------------------------------------------------------------------------
(***************************************************************************)
(* Refinement.  A run acts, a refusal refuses, a call that returns tells,  *)
(* the two steps that make room in the deduplicator withdraw, and every    *)
(* other step stutters.  Beyond OneCopy it takes that the answers are      *)
(* traces of what the copies came to, for dropped commands as well.        *)
(***************************************************************************)
Traced ==
  /\ \A j \in Jobs : job[j] = "ran" => runs[j[1]] # 0
  /\ \A c \in Calls : first[c] # "none" => \E j \in Jobs : j[1] = c /\ job[j] = first[c]
  /\ \A c \in Calls : result[c] # "none" => stage[c] = "returned"

\* A job that has come to an end stays there, and a run counts it.
LEMMA TracedKept ==
  ASSUME Typed, Traced,
         \A j \in Jobs : job[j] \in Kinds => job'[j] = job[j],
         \A j \in Jobs : job'[j] = "ran" => job[j] = "ran",
         UNCHANGED <<runs, first, result, stage>>
  PROVE  Traced'
<1>1. \A j \in Jobs : job'[j] = "ran" => runs'[j[1]] # 0
  BY DEF Traced
<1>2. ASSUME NEW c \in Calls, first'[c] # "none"
      PROVE  \E j \in Jobs : j[1] = c /\ job'[j] = first'[c]
  <2>1. first'[c] \in Kinds
    BY <1>2 DEF Typed, TypeOK
  <2>2. QED
    BY <1>2, <2>1 DEF Traced
<1>3. QED
  BY <1>1, <1>2 DEF Traced

LEMMA TracedStep == Typed /\ Traced /\ [Next]_vars => Traced'
<1> SUFFICES ASSUME Typed, Traced, [Next]_vars PROVE Traced'
  OBVIOUS
<1> USE JobsAre DEF Typed, TypeOK, calling, serving, history
<1>1. ASSUME Tick PROVE Traced'
  BY <1>1, TracedKept DEF Tick
<1>2. ASSUME NEW c \in Calls, Send(c) PROVE Traced'
  <2>1. /\ stage[c] = "idle"
        /\ stage' = [stage EXCEPT ![c] = "waiting"]
        /\ UNCHANGED <<runs, first, result>>
    BY <1>2 DEF Send
  <2>2. \A j \in Jobs : job'[j] # job[j] => job[j] = "none" /\ job'[j] = "sent"
    BY <1>2 DEF Send, NothingBeforeSend
  <2>3. \A j \in Jobs : job'[j] = "ran" => runs'[j[1]] # 0
    BY <2>1, <2>2 DEF Traced
  <2>4. \A d \in Calls :
          first'[d] # "none" => \E j \in Jobs : j[1] = d /\ job'[j] = first'[d]
    BY <2>1, <2>2 DEF Traced, Kinds
  <2>5. QED
    BY <2>1, <2>3, <2>4 DEF Traced
<1>3. ASSUME NEW c \in Calls, Return(c) PROVE Traced'
  BY <1>3 DEF Return, Traced
<1>4. ASSUME NEW j \in Jobs, Arrive(j) PROVE Traced'
  BY <1>4, TracedKept DEF Arrive, Goto, Kinds
<1>5. ASSUME NEW j \in Jobs, Purge(j) PROVE Traced'
  <2>1. job[j] = "arrived" /\ UNCHANGED <<runs, first, result, stage>>
    BY <1>5 DEF Purge
  <2>2. job' \in {[job EXCEPT ![j] = "full"], [job EXCEPT ![j] = "checking"]}
    BY <1>5, PurgeLeaves
  <2>3. QED
    BY <2>1, <2>2, TracedKept DEF Kinds
<1>6. ASSUME NEW j \in Jobs, DropOldest(j) PROVE Traced'
  BY <1>6, TracedKept DEF DropOldest, Goto, Kinds
<1>7. ASSUME NEW j \in Jobs, Deduplicate(j) PROVE Traced'
  BY <1>7, TracedKept DEF Deduplicate, Goto, Kinds
<1>8. ASSUME NEW j \in Jobs, Begin(j) PROVE Traced'
  BY <1>8, TracedKept DEF Begin, Goto, Kinds
<1>9. ASSUME NEW j \in Jobs, CheckReplay(j) PROVE Traced'
  <2>1. job[j] = "stamped" /\ UNCHANGED <<runs, first, result, stage>>
    BY <1>9 DEF CheckReplay
  <2>2. job' \in {[job EXCEPT ![j] = "replayed"], [job EXCEPT ![j] = "dispatch"]}
    BY <1>9, CheckReplayDoes
  <2>3. QED
    BY <2>1, <2>2, TracedKept DEF Kinds
<1>10. ASSUME NEW j \in Jobs, Refuse(j) PROVE Traced'
  BY <1>10, TracedKept DEF Refuse, Goto, Kinds
<1>11. ASSUME NEW j \in Jobs, Run(j) PROVE Traced'
  BY <1>11 DEF Run, Goto, Traced, Kinds
<1>12. ASSUME NEW j \in Jobs, Accept(j) PROVE Traced'
  BY <1>12 DEF Accept, Append, Traced
<1>13. CASE UNCHANGED vars
  BY <1>13 DEF vars, Traced
<1>14. QED
  BY <1>1, <1>2, <1>3, <1>4, <1>5, <1>6, <1>7, <1>8, <1>9, <1>10, <1>11, <1>12,
     <1>13 DEF Next

\* A step without a run, a refusal or an answer withdraws or stutters.
LEMMA QuietStep ==
  ASSUME UNCHANGED <<runs, result>>, dropped \subseteq dropped', dropped' \subseteq Calls,
         \A j \in Jobs : job'[j] = "refused" <=> job[j] = "refused"
  PROVE  Once!Next
<1>1. RefusedCalls' = RefusedCalls
  BY DEF RefusedCalls
<1>2. dropped' = dropped \cup dropped'
  OBVIOUS
<1>3. Once!Withdraw
  BY <1>1, <1>2 DEF Once!Withdraw
<1>4. QED
  BY <1>3 DEF Once!Next

LEMMA OnceStep ==
  Typed /\ OneCopy /\ Traced /\ [Next]_vars => [Once!Next]_Once!vars
<1> SUFFICES ASSUME Typed, OneCopy, Traced, [Next]_vars
             PROVE  [Once!Next]_Once!vars
  OBVIOUS
<1> USE JobsAre DEF Typed, TypeOK, calling, serving, history
<1>1. ASSUME Tick PROVE Once!Next
  BY <1>1, QuietStep DEF Tick
<1>2. ASSUME NEW c \in Calls, Send(c) PROVE Once!Next
  <2>1. \A j \in Jobs : job'[j] # job[j] => job[j] = "none" /\ job'[j] = "sent"
    BY <1>2 DEF Send, NothingBeforeSend
  <2>2. QED
    BY <1>2, <2>1, QuietStep DEF Send
<1>3. ASSUME NEW c \in Calls, Return(c) PROVE Once!Next
  <2> DEFINE a == IF first[c] = "none" THEN "timeout" ELSE first[c]
  <2>1. /\ result' = [result EXCEPT ![c] = a]
        /\ UNCHANGED <<runs, job, dropped>>
    BY <1>3 DEF Return
  <2>2. result[c] = "none"
    BY <1>3 DEF Return, Traced
  <2>3. a \in Once!Truths(c)
    <3>1. CASE first[c] = "none"
      BY <3>1 DEF Once!Truths
    <3>2. CASE first[c] # "none"
      <4>1. PICK j \in Jobs : j[1] = c /\ job[j] = first[c]
        BY <3>2 DEF Traced
      <4>2. CASE first[c] = "ran"
        <5>1. runs[c] # 0
          BY <4>1, <4>2 DEF Traced
        <5>2. QED
          BY <4>2, <5>1 DEF Once!Truths
      <4>3. CASE first[c] = "refused"
        <5>1. c \in RefusedCalls
          BY <4>1, <4>3 DEF RefusedCalls
        <5>2. QED
          BY <4>3, <5>1 DEF Once!Truths
      <4>4. CASE first[c] = "replayed"
        <5>1. c \in dropped
          BY <4>1, <4>4 DEF OneCopy, OnePasses
        <5>2. QED
          BY <4>4, <5>1 DEF Once!Truths
      <4>5. QED
        BY <3>2, <4>2, <4>3, <4>4 DEF Kinds
    <3>3. QED
      BY <3>1, <3>2
  <2>4. RefusedCalls' = RefusedCalls
    BY <2>1 DEF RefusedCalls
  <2>5. Once!Tell(c)
    BY <2>1, <2>2, <2>3, <2>4 DEF Once!Tell
  <2>6. QED
    BY <2>5 DEF Once!Next
<1>4. ASSUME NEW j \in Jobs, Arrive(j) PROVE Once!Next
  BY <1>4, QuietStep DEF Arrive, Goto
<1>5. ASSUME NEW j \in Jobs, Purge(j) PROVE Once!Next
  <2>1. job[j] = "arrived" /\ UNCHANGED <<runs, result>>
    BY <1>5 DEF Purge
  <2>2. /\ dropped \subseteq dropped' /\ dropped' \subseteq Calls
        /\ job' \in {[job EXCEPT ![j] = "full"], [job EXCEPT ![j] = "checking"]}
    BY <1>5, PurgeLeaves
  <2>3. QED
    BY <2>1, <2>2, QuietStep
<1>6. ASSUME NEW j \in Jobs, DropOldest(j) PROVE Once!Next
  <2>1. /\ job[j] = "full" /\ job' = [job EXCEPT ![j] = "checking"]
        /\ UNCHANGED <<runs, result>>
    BY <1>6 DEF DropOldest, Goto
  <2>2. dropped \subseteq dropped' /\ dropped' \subseteq Calls
    BY <1>6, DropOldestLeaves
  <2>3. QED
    BY <2>1, <2>2, QuietStep
<1>7. ASSUME NEW j \in Jobs, Deduplicate(j) PROVE Once!Next
  BY <1>7, QuietStep DEF Deduplicate, Goto
<1>8. ASSUME NEW j \in Jobs, Begin(j) PROVE Once!Next
  BY <1>8, QuietStep DEF Begin, Goto
<1>9. ASSUME NEW j \in Jobs, CheckReplay(j) PROVE Once!Next
  <2>1. job[j] = "stamped" /\ UNCHANGED <<runs, result, dropped>>
    BY <1>9 DEF CheckReplay
  <2>2. job' \in {[job EXCEPT ![j] = "replayed"], [job EXCEPT ![j] = "dispatch"]}
    BY <1>9, CheckReplayDoes
  <2>3. QED
    BY <2>1, <2>2, QuietStep
\* The copy that is dispatched is the only one, so nothing was done about it yet.
<1>10. ASSUME NEW j \in Jobs, job[j] = "dispatch" PROVE Once!Open(j[1])
  <2>1. ASSUME j[1] \notin dropped PROVE runs[j[1]] = 0 /\ j[1] \notin RefusedCalls
    BY <1>10, <2>1 DEF OneCopy, OnePasses, Passed, RefusedCalls
  <2>2. QED
    BY <2>1 DEF Once!Open
<1>11. ASSUME NEW j \in Jobs, Refuse(j) PROVE Once!Next
  <2>1. /\ job[j] = "dispatch" /\ job' = [job EXCEPT ![j] = "refused"]
        /\ UNCHANGED <<runs, result, dropped>>
    BY <1>11 DEF Refuse, Goto
  <2>2. RefusedCalls' = RefusedCalls \cup {j[1]}
    BY <2>1 DEF RefusedCalls
  <2>3. Once!Refuse(j[1])
    BY <1>10, <2>1, <2>2 DEF Once!Refuse
  <2>4. QED
    BY <2>3 DEF Once!Next
<1>12. ASSUME NEW j \in Jobs, Run(j) PROVE Once!Next
  <2>1. /\ job[j] = "dispatch" /\ job' = [job EXCEPT ![j] = "ran"]
        /\ runs' = [runs EXCEPT ![j[1]] = @ + 1]
        /\ UNCHANGED <<result, dropped>>
    BY <1>12 DEF Run, Goto
  <2>2. RefusedCalls' = RefusedCalls
    BY <2>1 DEF RefusedCalls
  <2>3. Once!Act(j[1])
    BY <1>10, <2>1, <2>2 DEF Once!Act
  <2>4. QED
    BY <2>3 DEF Once!Next
<1>13. ASSUME NEW j \in Jobs, Accept(j) PROVE Once!Next
  BY <1>13, QuietStep DEF Accept, Append
<1>14. CASE UNCHANGED vars
  BY <1>14 DEF vars, Once!vars, RefusedCalls
<1>15. QED
  BY <1>1, <1>2, <1>3, <1>4, <1>5, <1>6, <1>7, <1>8, <1>9, <1>11, <1>12, <1>13,
     <1>14 DEF Next

\* Over however many transports, however late the copies and however small the
\* tables, a command is carried out once or refused, and its caller learns which.
THEOREM CommandImplementsOnce == Spec => CommandSpec
<1>1. Init => Once!Init
  BY DEF Init, Once!Init, RefusedCalls
<1>2. Init => Traced
  BY DEF Init, Traced
<1>3. QED
  BY <1>1, <1>2, TypedAlways, OneCopyAlways, TracedStep, OnceStep, PTL
     DEF Spec, CommandSpec, Once!Spec
===============================================================================

--------------------------- MODULE SimRolloutsProofs ---------------------------
(***************************************************************************)
(* Proofs about SimRollouts for any robots, launches, calls, workers and   *)
(* bounds.  The theorems that relate two calls are about launches made by  *)
(* agents (Dispatched = Launches): two launches that hold no lock may both *)
(* pass the gate of a robot.                                               *)
(***************************************************************************)
EXTENDS SimRollouts, TLAPS

\* Where a call is, its thread and its robot go together.
Shapes ==
  /\ \A l \in Launches :
       /\ call[l] \in {"submitted", "driving", "returned"} <=> work[l] # "none"
       /\ call[l] \notin {"idle", "refused"} => on[l] \in Robots
       /\ work[l] # "check" => step[l] < Horizon
       /\ work[l] \in {"between", "reset"} => episode[l] < Episodes
  /\ \A c \in Calls :
       /\ at[c] \in {"read", "request", "join", "leave", "gate"} => target[c] \in Robots
       /\ at[c] = "idle" => target[c] = None

Typed == TypeOK /\ Shapes

LEMMA PrunedTyped ==
  ASSUME TypeOK
  PROVE  Pruned \in [Robots -> Launches \cup {None}]
BY DEF TypeOK, Pruned

LEMMA ActiveTyped == TypeOK => Active \subseteq Robots
BY DEF TypeOK, Active

LEMMA Subsets ==
  /\ PastGate \subseteq Calls
  /\ \A c : Overrun(c) \subseteq Launches
  /\ \A rs : Halting(rs) \subseteq Launches
BY DEF PastGate, Overrun, Halting

LEMMA FlagTyped ==
  ASSUME TypeOK, NEW r, NEW b \in BOOLEAN, flag' = [flag EXCEPT ![r] = b]
  PROVE  flag' \in [Robots -> BOOLEAN]
BY DEF TypeOK

LEMMA RequestStopTyped ==
  ASSUME TypeOK, NEW rs, RequestStop(rs)
  PROVE  /\ flag' \in [Robots -> BOOLEAN]
         /\ claim' \in [Robots -> {"none", "current", "outdated"}]
         /\ stopped' \in [Launches -> 0 .. Episodes]
<1>1. flag' \in [Robots -> BOOLEAN]
  BY DEF TypeOK, RequestStop
<1>2. claim' \in [Robots -> {"none", "current", "outdated"}]
  BY DEF TypeOK, RequestStop
<1>3. stopped' \in [Launches -> 0 .. Episodes]
  BY BoundsAssumption DEF TypeOK, RequestStop
<1>4. QED
  BY <1>1, <1>2, <1>3

LEMMA TypedInit == Init => Typed
<1> SUFFICES ASSUME Init PROVE Typed
  OBVIOUS
<1> USE KindAssumption, BoundsAssumption DEF Init
<1>1. /\ world \in BOOLEAN /\ shut \in BOOLEAN
      /\ flag \in [Robots -> BOOLEAN]
      /\ found \in [Calls -> BOOLEAN]
  OBVIOUS
<1>2. /\ robots \subseteq Robots /\ owed \subseteq Launches
      /\ overrun \subseteq Launches /\ forgotten \subseteq Launches
  OBVIOUS
<1>3. Shapes
  BY DEF Shapes
<1>4. QED
  BY <1>1, <1>2, <1>3 DEF Typed, TypeOK

LEMMA TypedStep == Typed /\ [Next]_vars => Typed'
<1> SUFFICES ASSUME Typed, [Next]_vars PROVE Typed'
  OBVIOUS
<1> USE DEF engine, launching, driving, calling, history
<1>world. world \in BOOLEAN
  BY DEF Typed, TypeOK
<1>robots. robots \subseteq Robots
  BY DEF Typed, TypeOK
<1>flag. flag \in [Robots -> BOOLEAN]
  BY DEF Typed, TypeOK
<1>claim. claim \in [Robots -> {"none", "current", "outdated"}]
  BY DEF Typed, TypeOK
<1>table. table \in [Robots -> Launches \cup {None}]
  BY DEF Typed, TypeOK
<1>driver. driver \in [Robots -> Launches \cup {None}]
  BY DEF Typed, TypeOK
<1>preStopped. preStopped \in [Robots -> Launches \cup {None}]
  BY DEF Typed, TypeOK
<1>lock. lock \in Launches \cup Calls \cup {None}
  BY DEF Typed, TypeOK
<1>shut. shut \in BOOLEAN
  BY DEF Typed, TypeOK
<1>call. call \in [Launches -> {"idle", "admitted", "announced", "submitted", "driving",
                 "returned", "refused"}]
  BY DEF Typed, TypeOK
<1>on. on \in [Launches -> Robots \cup {None}]
  BY DEF Typed, TypeOK
<1>work. work \in [Launches -> {"none", "queued", "setup", "loop", "check", "between",
                 "reset", "release", "lower", "done"}]
  BY DEF Typed, TypeOK
<1>episode. episode \in [Launches -> 1 .. Episodes]
  BY DEF Typed, TypeOK
<1>step. step \in [Launches -> 0 .. Horizon]
  BY DEF Typed, TypeOK
<1>at. at \in [Calls -> {"idle", "flag", "next", "read", "request", "join", "leave",
             "gate", "swap", "drain", "handoff", "done"}]
  BY DEF Typed, TypeOK
<1>target. target \in [Calls -> Robots \cup {None}]
  BY DEF Typed, TypeOK
<1>todo. todo \in [Calls -> SUBSET Robots]
  BY DEF Typed, TypeOK
<1>found. found \in [Calls -> BOOLEAN]
  BY DEF Typed, TypeOK
<1>fut. fut \in [Calls -> Launches \cup {None}]
  BY DEF Typed, TypeOK
<1>stopped. stopped \in [Launches -> 0 .. Episodes]
  BY DEF Typed, TypeOK
<1>late. late \in [Launches -> Nat]
  BY DEF Typed, TypeOK
<1>owed. owed \subseteq Launches
  BY DEF Typed, TypeOK
<1>after. after \in [Launches -> SUBSET Calls]
  BY DEF Typed, TypeOK
<1>overrun. overrun \subseteq Launches
  BY DEF Typed, TypeOK
<1>forgotten. forgotten \subseteq Launches
  BY DEF Typed, TypeOK
<1>ok. TypeOK
  BY DEF Typed
<1>shapes. Shapes
  BY DEF Typed
<1>1. CASE Next
  <2>1. ASSUME NEW l \in Launches, NEW r \in Robots, Admit(l, r) PROVE Typed'
    <3>1. table' \in [Robots -> Launches \cup {None}]
      BY <2>1, <1>table, <1>ok, PrunedTyped DEF Admit
    <3>2. lock' \in Launches \cup Calls \cup {None}
      BY <2>1, <1>lock DEF Admit
    <3>3. call' \in [Launches -> {"idle", "admitted", "announced", "submitted", "driving",
                  "returned", "refused"}]
      BY <2>1, <1>call DEF Admit
    <3>4. on' \in [Launches -> Robots \cup {None}]
      BY <2>1, <1>on DEF Admit
    <3>5. Shapes'
      BY <2>1, <1>shapes, BoundsAssumption, <1>call, <1>on DEF Shapes, Admit
    <3>6. UNCHANGED <<world, robots, flag, claim, driver, preStopped, shut, work,
                    episode, step, at, target, todo, found, fut, stopped, late, owed, after,
                    overrun, forgotten>>
      BY <2>1 DEF Admit
    <3>7. QED
      BY <3>1, <3>2, <3>3, <3>4, <3>5, <3>6 DEF Typed, TypeOK
  <2>2. ASSUME NEW l \in Launches, NEW r \in Robots, Refuse(l, r) PROVE Typed'
    <3>1. table' \in [Robots -> Launches \cup {None}]
      BY <2>2, <1>table, <1>ok, PrunedTyped DEF Refuse
    <3>2. call' \in [Launches -> {"idle", "admitted", "announced", "submitted", "driving",
                  "returned", "refused"}]
      BY <2>2, <1>call DEF Refuse
    <3>3. Shapes'
      BY <2>2, <1>shapes, BoundsAssumption, <1>call DEF Shapes, Refuse
    <3>4. UNCHANGED <<world, robots, flag, claim, driver, preStopped, lock, shut, on,
                    work, episode, step, at, target, todo, found, fut, stopped, late, owed,
                    after, overrun, forgotten>>
      BY <2>2 DEF Refuse
    <3>5. QED
      BY <3>1, <3>2, <3>3, <3>4 DEF Typed, TypeOK
  <2>3. ASSUME NEW l \in Launches, Announce(l) PROVE Typed'
    <3>1. flag' \in [Robots -> BOOLEAN]
      <4>1. CASE flag' = flag
        BY <1>ok, <1>flag, <4>1
      <4>2. CASE flag' = [flag EXCEPT ![on[l]] = TRUE]
        BY <1>ok, <1>flag, <4>2, FlagTyped
      <4>3. QED
        BY <1>ok, <1>flag, <2>3, <4>1, <4>2 DEF Announce
    <3>2. claim' \in [Robots -> {"none", "current", "outdated"}]
      BY <2>3, <1>claim DEF Announce
    <3>3. call' \in [Launches -> {"idle", "admitted", "announced", "submitted", "driving",
                  "returned", "refused"}]
      <4>1. call' \in {[call EXCEPT ![l] = "driving"], [call EXCEPT ![l] = "announced"]}
        BY <1>ok, <1>call, <2>3 DEF Announce
      <4>2. QED
        BY <1>ok, <1>call, <4>1
    <3>4. work' \in [Launches -> {"none", "queued", "setup", "loop", "check", "between",
                  "reset", "release", "lower", "done"}]
      BY <2>3, <1>work DEF Announce
    <3>5. after' \in [Launches -> SUBSET Calls]
      <4>1. after' = [after EXCEPT ![l] = PastGate]
        BY <1>ok, <1>after, <2>3 DEF Announce
      <4>2. QED
        BY <1>ok, <1>after, <4>1, Subsets
    <3>6. Shapes'
      BY <2>3, <1>shapes, BoundsAssumption, <1>call, <1>work DEF Shapes, Announce
    <3>7. UNCHANGED <<world, robots, table, driver, preStopped, lock, shut, on,
                    episode, step, at, target, todo, found, fut, stopped, late, owed, overrun,
                    forgotten>>
      BY <2>3 DEF Announce
    <3>8. QED
      BY <3>1, <3>2, <3>3, <3>4, <3>5, <3>6, <3>7 DEF Typed, TypeOK
  <2>4. ASSUME NEW l \in Launches, Submit(l) PROVE Typed'
    <3>1. lock' \in Launches \cup Calls \cup {None}
      BY <2>4, <1>lock DEF Submit, Left
    <3>2. call' \in [Launches -> {"idle", "admitted", "announced", "submitted", "driving",
                  "returned", "refused"}]
      BY <2>4, <1>call DEF Submit, Left
    <3>3. work' \in [Launches -> {"none", "queued", "setup", "loop", "check", "between",
                  "reset", "release", "lower", "done"}]
      BY <2>4, <1>work DEF Submit, Left
    <3>4. Shapes'
      BY <2>4, <1>shapes, BoundsAssumption, <1>call, <1>work DEF Shapes, Submit, Left
    <3>5. UNCHANGED <<world, robots, flag, claim, table, driver, preStopped, shut, on,
                    episode, step, at, target, todo, found, fut, stopped, late, owed, after,
                    overrun, forgotten>>
      BY <2>4 DEF Submit
    <3>6. QED
      BY <3>1, <3>2, <3>3, <3>4, <3>5 DEF Typed, TypeOK
  <2>5. ASSUME NEW l \in Launches, Record(l) PROVE Typed'
    <3>1. table' \in [Robots -> Launches \cup {None}]
      BY <2>5, <1>table, <1>ok, PrunedTyped DEF Record, Left
    <3>2. lock' \in Launches \cup Calls \cup {None}
      BY <2>5, <1>lock DEF Record, Left
    <3>3. call' \in [Launches -> {"idle", "admitted", "announced", "submitted", "driving",
                  "returned", "refused"}]
      BY <2>5, <1>call DEF Record, Left
    <3>4. after' \in [Launches -> SUBSET Calls]
      <4>1. after' = [after EXCEPT ![l] = PastGate]
        BY <1>ok, <1>after, <2>5 DEF Record
      <4>2. QED
        BY <1>ok, <1>after, <4>1, Subsets
    <3>5. Shapes'
      BY <2>5, <1>shapes, BoundsAssumption, <1>call DEF Shapes, Record, Left
    <3>6. UNCHANGED <<world, robots, flag, claim, driver, preStopped, shut, on, work,
                    episode, step, at, target, todo, found, fut, stopped, late, owed, overrun,
                    forgotten>>
      BY <2>5 DEF Record
    <3>7. QED
      BY <3>1, <3>2, <3>3, <3>4, <3>5, <3>6 DEF Typed, TypeOK
  <2>6. ASSUME NEW l \in Launches, Begin(l) PROVE Typed'
    <3>1. driver' \in [Robots -> Launches \cup {None}]
      BY <2>6, <1>driver DEF Begin, Goto
    <3>2. work' \in [Launches -> {"none", "queued", "setup", "loop", "check", "between",
                  "reset", "release", "lower", "done"}]
      BY <2>6, <1>work DEF Begin, Goto
    <3>3. Shapes'
      BY <2>6, <1>shapes, BoundsAssumption, <1>work DEF Shapes, Begin, Goto
    <3>4. UNCHANGED <<world, robots, flag, claim, table, preStopped, lock, shut, call,
                    on, episode, step, at, target, todo, found, fut, stopped, late, owed, after,
                    overrun, forgotten>>
      BY <2>6 DEF Begin
    <3>5. QED
      BY <3>1, <3>2, <3>3, <3>4 DEF Typed, TypeOK
  <2>7. ASSUME NEW l \in Launches, MakeHook(l) PROVE Typed'
    <3>1. flag' \in [Robots -> BOOLEAN]
      <4>1. CASE flag' = flag
        BY <1>ok, <1>flag, <1>claim, <4>1
      <4>2. CASE flag' = [flag EXCEPT ![on[l]] = @ \/ claim[on[l]] # "outdated"]
        <5>1. (flag[on[l]] \/ claim[on[l]] # "outdated") \in BOOLEAN
          BY <1>ok, <1>flag, <1>claim
        <5>2. QED
          BY <1>ok, <1>flag, <1>claim, <4>2, <5>1, FlagTyped
      <4>3. QED
        BY <1>ok, <1>flag, <1>claim, <2>7, <4>1, <4>2 DEF MakeHook
    <3>2. work' \in [Launches -> {"none", "queued", "setup", "loop", "check", "between",
                  "reset", "release", "lower", "done"}]
      BY <2>7, <1>work DEF MakeHook, Goto
    <3>3. Shapes'
      BY <2>7, <1>shapes, BoundsAssumption, <1>work DEF Shapes, MakeHook, Goto
    <3>4. UNCHANGED <<world, robots, claim, table, driver, preStopped, lock, shut,
                    call, on, episode, step, at, target, todo, found, fut, stopped, late, owed,
                    after, overrun, forgotten>>
      BY <2>7 DEF MakeHook
    <3>5. QED
      BY <3>1, <3>2, <3>3, <3>4 DEF Typed, TypeOK
  <2>8. ASSUME NEW l \in Launches, Frame(l) PROVE Typed'
    <3>1. work' \in [Launches -> {"none", "queued", "setup", "loop", "check", "between",
                  "reset", "release", "lower", "done"}]
      BY <2>8, <1>work DEF Frame, Goto
    <3>2. step' \in [Launches -> 0 .. Horizon]
      BY <2>8, <1>step, <1>shapes, <1>work, BoundsAssumption DEF Frame, Goto, Shapes
    <3>3. late' \in [Launches -> Nat]
      BY <2>8, <1>late, <1>late DEF Frame, Goto
    <3>4. Shapes'
      BY <2>8, <1>shapes, BoundsAssumption, <1>work, <1>step DEF Shapes, Frame, Goto
    <3>5. UNCHANGED <<world, robots, flag, claim, table, driver, preStopped, lock,
                    shut, call, on, episode, at, target, todo, found, fut, stopped, owed, after,
                    overrun, forgotten>>
      BY <2>8 DEF Frame
    <3>6. QED
      BY <3>1, <3>2, <3>3, <3>4, <3>5 DEF Typed, TypeOK
  <2>9. ASSUME NEW l \in Launches, Check(l) PROVE Typed'
    <3>1. work' \in [Launches -> {"none", "queued", "setup", "loop", "check", "between",
                  "reset", "release", "lower", "done"}]
      BY <2>9, <1>work DEF Check, Goto, AfterEpisode
    <3>2. step' \in [Launches -> 0 .. Horizon]
      BY <2>9, <1>step, BoundsAssumption DEF Check, Goto, AfterEpisode
    <3>3. Shapes'
      BY <2>9, <1>shapes, BoundsAssumption, <1>work, <1>step DEF Shapes, Check, Goto, AfterEpisode
    <3>4. UNCHANGED <<world, robots, flag, claim, table, driver, preStopped, lock,
                    shut, call, on, episode, at, target, todo, found, fut, stopped, late, owed,
                    after, overrun, forgotten>>
      BY <2>9 DEF Check
    <3>5. QED
      BY <3>1, <3>2, <3>3, <3>4 DEF Typed, TypeOK
  <2>10. ASSUME NEW l \in Launches, Between(l) PROVE Typed'
    <3>1. table' \in [Robots -> Launches \cup {None}]
      BY <2>10, <1>table, <1>ok, PrunedTyped DEF Between, Goto, NextEpisode
    <3>2. work' \in [Launches -> {"none", "queued", "setup", "loop", "check", "between",
                  "reset", "release", "lower", "done"}]
      <4>1. work' \in {[work EXCEPT ![l] = pc] : pc \in {"setup", "release", "reset"}}
        BY <1>ok, <1>work, <2>10 DEF Between, Goto, NextEpisode
      <4>2. QED
        BY <1>ok, <1>work, <4>1
    <3>3. episode' \in [Launches -> 1 .. Episodes]
      <4>1. episode[l] + 1 \in 1 .. Episodes
        BY <1>ok, <1>episode, <1>shapes, BoundsAssumption, <2>10 DEF Between, Shapes
      <4>2. episode' = episode \/ episode' = [episode EXCEPT ![l] = @ + 1]
        BY <1>ok, <1>episode, <1>shapes, BoundsAssumption, <2>10 DEF Between, NextEpisode
      <4>3. QED
        BY <1>ok, <1>episode, <1>shapes, BoundsAssumption, <4>1, <4>2
    <3>4. Shapes'
      BY <2>10, <1>shapes, BoundsAssumption, <1>work, <1>episode DEF Shapes, Between, Goto, NextEpisode
    <3>5. UNCHANGED <<world, robots, flag, claim, driver, preStopped, lock, shut,
                    call, on, step, at, target, todo, found, fut, stopped, late, owed, after,
                    overrun, forgotten>>
      BY <2>10 DEF Between
    <3>6. QED
      BY <3>1, <3>2, <3>3, <3>4, <3>5 DEF Typed, TypeOK
  <2>11. ASSUME NEW l \in Launches, Reset(l) PROVE Typed'
    <3>1. flag' \in [Robots -> BOOLEAN]
      <4>1. flag' = flag \/ flag' = [r \in Robots |-> flag[r] /\ r \notin robots]
        BY <1>ok, <1>flag, <2>11 DEF Reset
      <4>2. [r \in Robots |-> flag[r] /\ r \notin robots] \in [Robots -> BOOLEAN]
        BY <1>ok, <1>flag
      <4>3. QED
        BY <1>ok, <1>flag, <4>1, <4>2
    <3>2. work' \in [Launches -> {"none", "queued", "setup", "loop", "check", "between",
                  "reset", "release", "lower", "done"}]
      <4>1. work' \in {[work EXCEPT ![l] = pc] : pc \in {"setup", "release"}}
        BY <1>ok, <1>work, <2>11 DEF Reset, Goto, NextEpisode
      <4>2. QED
        BY <1>ok, <1>work, <4>1
    <3>3. episode' \in [Launches -> 1 .. Episodes]
      <4>1. episode[l] + 1 \in 1 .. Episodes
        BY <1>ok, <1>episode, <1>shapes, BoundsAssumption, <2>11 DEF Reset, Shapes
      <4>2. episode' = episode \/ episode' = [episode EXCEPT ![l] = @ + 1]
        BY <1>ok, <1>episode, <1>shapes, BoundsAssumption, <2>11 DEF Reset, NextEpisode
      <4>3. QED
        BY <1>ok, <1>episode, <1>shapes, BoundsAssumption, <4>1, <4>2
    <3>4. Shapes'
      BY <2>11, <1>shapes, BoundsAssumption, <1>work, <1>episode DEF Shapes, Reset, Goto, NextEpisode
    <3>5. UNCHANGED <<world, robots, claim, table, driver, preStopped, lock, shut,
                    call, on, step, at, target, todo, found, fut, stopped, late, owed, after,
                    overrun, forgotten>>
      BY <2>11 DEF Reset
    <3>6. QED
      BY <3>1, <3>2, <3>3, <3>4, <3>5 DEF Typed, TypeOK
  <2>12. ASSUME NEW l \in Launches, Release(l) PROVE Typed'
    <3>1. driver' \in [Robots -> Launches \cup {None}]
      BY <2>12, <1>driver DEF Release, Goto
    <3>2. work' \in [Launches -> {"none", "queued", "setup", "loop", "check", "between",
                  "reset", "release", "lower", "done"}]
      BY <2>12, <1>work DEF Release, Goto
    <3>3. Shapes'
      BY <2>12, <1>shapes, BoundsAssumption, <1>work DEF Shapes, Release, Goto
    <3>4. UNCHANGED <<world, robots, flag, claim, table, preStopped, lock, shut, call,
                    on, episode, step, at, target, todo, found, fut, stopped, late, owed, after,
                    overrun, forgotten>>
      BY <2>12 DEF Release
    <3>5. QED
      BY <3>1, <3>2, <3>3, <3>4 DEF Typed, TypeOK
  <2>13. ASSUME NEW l \in Launches, Lower(l) PROVE Typed'
    <3>1. flag' \in [Robots -> BOOLEAN]
      <4>1. CASE flag' = flag
        BY <1>ok, <1>flag, <4>1
      <4>2. CASE flag' = [flag EXCEPT ![on[l]] = FALSE]
        BY <1>ok, <1>flag, <4>2, FlagTyped
      <4>3. QED
        BY <1>ok, <1>flag, <2>13, <4>1, <4>2 DEF Lower
    <3>2. claim' \in [Robots -> {"none", "current", "outdated"}]
      BY <2>13, <1>claim DEF Lower, Goto, Left
    <3>3. lock' \in Launches \cup Calls \cup {None}
      BY <2>13, <1>lock DEF Lower, Goto, Left
    <3>4. call' \in [Launches -> {"idle", "admitted", "announced", "submitted", "driving",
                  "returned", "refused"}]
      BY <2>13, <1>call DEF Lower, Goto, Left
    <3>5. work' \in [Launches -> {"none", "queued", "setup", "loop", "check", "between",
                  "reset", "release", "lower", "done"}]
      BY <2>13, <1>work DEF Lower, Goto, Left
    <3>6. Shapes'
      BY <2>13, <1>shapes, BoundsAssumption, <1>call, <1>work DEF Shapes, Lower, Goto, Left
    <3>7. UNCHANGED <<world, robots, table, driver, preStopped, shut, on, episode,
                    step, at, target, todo, found, fut, stopped, late, owed, after, overrun,
                    forgotten>>
      BY <2>13 DEF Lower
    <3>8. QED
      BY <3>1, <3>2, <3>3, <3>4, <3>5, <3>6, <3>7 DEF Typed, TypeOK
  <2>14. ASSUME NEW c \in Calls, NEW r \in Robots, Stop(c, r) PROVE Typed'
    <3>1. at' \in [Calls -> {"idle", "flag", "next", "read", "request", "join", "leave",
                "gate", "swap", "drain", "handoff", "done"}]
      BY <2>14, <1>at DEF Stop, To
    <3>2. target' \in [Calls -> Robots \cup {None}]
      BY <2>14, <1>target DEF Stop, To
    <3>3. Shapes'
      BY <2>14, <1>shapes, BoundsAssumption, <1>at, <1>target DEF Shapes, Stop, To
    <3>4. UNCHANGED <<world, robots, flag, claim, table, driver, preStopped, lock,
                    shut, call, on, work, episode, step, todo, found, fut, stopped, late, owed,
                    after, overrun, forgotten>>
      BY <2>14 DEF Stop
    <3>5. QED
      BY <3>1, <3>2, <3>3, <3>4 DEF Typed, TypeOK
  <2>15. ASSUME NEW c \in Calls, NEW r \in Robots, Remove(c, r) PROVE Typed'
    <3>1. flag' \in [Robots -> BOOLEAN]
      <4>1. UNCHANGED <<flag, claim, stopped>> \/ RequestStop({r})
        BY <1>ok, <1>flag, <2>15 DEF Remove
      <4>2. QED
        BY <1>ok, <1>flag, <4>1, RequestStopTyped
    <3>2. claim' \in [Robots -> {"none", "current", "outdated"}]
      <4>1. UNCHANGED <<flag, claim, stopped>> \/ RequestStop({r})
        BY <1>ok, <1>claim, <2>15 DEF Remove
      <4>2. QED
        BY <1>ok, <1>claim, <4>1, RequestStopTyped
    <3>3. at' \in [Calls -> {"idle", "flag", "next", "read", "request", "join", "leave",
                "gate", "swap", "drain", "handoff", "done"}]
      <4>1. at' \in {[at EXCEPT ![c] = "gate"], [at EXCEPT ![c] = "leave"]}
        BY <1>ok, <1>at, <2>15 DEF Remove, To
      <4>2. QED
        BY <1>ok, <1>at, <4>1
    <3>4. target' \in [Calls -> Robots \cup {None}]
      BY <2>15, <1>target DEF Remove, To, RequestStop
    <3>5. fut' \in [Calls -> Launches \cup {None}]
      BY <2>15, <1>fut, <1>table DEF Remove, To, RequestStop
    <3>6. stopped' \in [Launches -> 0 .. Episodes]
      <4>1. UNCHANGED <<flag, claim, stopped>> \/ RequestStop({r})
        BY <1>ok, <1>stopped, <2>15 DEF Remove
      <4>2. QED
        BY <1>ok, <1>stopped, <4>1, RequestStopTyped
    <3>7. Shapes'
      <4>1. /\ at' \in {[at EXCEPT ![c] = "gate"], [at EXCEPT ![c] = "leave"]}
            /\ target' = [target EXCEPT ![c] = r]
            /\ UNCHANGED <<call, work, on, step, episode>>
        BY <1>shapes, <1>at, <1>target, <2>15 DEF Remove, To
      <4>2. QED
        BY <1>shapes, <1>at, <1>target, <4>1 DEF Shapes
    <3>8. UNCHANGED <<world, robots, table, driver, preStopped, lock, shut, call, on,
                    work, episode, step, todo, found, late, owed, after, overrun, forgotten>>
      BY <2>15 DEF Remove
    <3>9. QED
      BY <3>1, <3>2, <3>3, <3>4, <3>5, <3>6, <3>7, <3>8 DEF Typed, TypeOK
  <2>16. ASSUME NEW c \in Calls, StopAll(c) PROVE Typed'
    <3>1. table' \in [Robots -> Launches \cup {None}]
      BY <2>16, <1>table, <1>ok, PrunedTyped DEF StopAll, To
    <3>2. at' \in [Calls -> {"idle", "flag", "next", "read", "request", "join", "leave",
                "gate", "swap", "drain", "handoff", "done"}]
      BY <2>16, <1>at DEF StopAll, To
    <3>3. todo' \in [Calls -> SUBSET Robots]
      BY <2>16, <1>todo, <1>ok, ActiveTyped DEF StopAll, To
    <3>4. Shapes'
      BY <2>16, <1>shapes, BoundsAssumption, <1>at DEF Shapes, StopAll, To
    <3>5. UNCHANGED <<world, robots, flag, claim, driver, preStopped, lock, shut,
                    call, on, work, episode, step, target, found, fut, stopped, late, owed,
                    after, overrun, forgotten>>
      BY <2>16 DEF StopAll
    <3>6. QED
      BY <3>1, <3>2, <3>3, <3>4, <3>5 DEF Typed, TypeOK
  <2>17. ASSUME NEW c \in Calls, Gate(c) PROVE Typed'
    <3>1. table' \in [Robots -> Launches \cup {None}]
      BY <2>17, <1>table, <1>ok, PrunedTyped DEF Gate, To
    <3>2. lock' \in Launches \cup Calls \cup {None}
      BY <2>17, <1>lock DEF Gate, To
    <3>3. at' \in [Calls -> {"idle", "flag", "next", "read", "request", "join", "leave",
                "gate", "swap", "drain", "handoff", "done"}]
      <4>1. at' \in {[at EXCEPT ![c] = "swap"], [at EXCEPT ![c] = "done"]}
        BY <1>ok, <1>at, <2>17 DEF Gate, To
      <4>2. QED
        BY <1>ok, <1>at, <4>1
    <3>4. Shapes'
      BY <2>17, <1>shapes, BoundsAssumption, <1>at DEF Shapes, Gate, To
    <3>5. UNCHANGED <<world, robots, flag, claim, driver, preStopped, shut, call, on,
                    work, episode, step, target, todo, found, fut, stopped, late, owed, after,
                    overrun, forgotten>>
      BY <2>17 DEF Gate
    <3>6. QED
      BY <3>1, <3>2, <3>3, <3>4, <3>5 DEF Typed, TypeOK
  <2>18. ASSUME NEW c \in Calls, Cleanup(c) PROVE Typed'
    <3>1. flag' \in [Robots -> BOOLEAN]
      <4>1. UNCHANGED <<flag, claim, stopped>> \/ RequestStop(robots)
        BY <1>ok, <1>flag, <2>18 DEF Cleanup
      <4>2. QED
        BY <1>ok, <1>flag, <4>1, RequestStopTyped
    <3>2. claim' \in [Robots -> {"none", "current", "outdated"}]
      <4>1. UNCHANGED <<flag, claim, stopped>> \/ RequestStop(robots)
        BY <1>ok, <1>claim, <2>18 DEF Cleanup
      <4>2. QED
        BY <1>ok, <1>claim, <4>1, RequestStopTyped
    <3>3. at' \in [Calls -> {"idle", "flag", "next", "read", "request", "join", "leave",
                "gate", "swap", "drain", "handoff", "done"}]
      BY <2>18, <1>at DEF Cleanup, To, RequestStop
    <3>4. stopped' \in [Launches -> 0 .. Episodes]
      <4>1. UNCHANGED <<flag, claim, stopped>> \/ RequestStop(robots)
        BY <1>ok, <1>stopped, <2>18 DEF Cleanup
      <4>2. QED
        BY <1>ok, <1>stopped, <4>1, RequestStopTyped
    <3>5. Shapes'
      BY <2>18, <1>shapes, BoundsAssumption, <1>at DEF Shapes, Cleanup, To, RequestStop
    <3>6. UNCHANGED <<world, robots, table, driver, preStopped, lock, shut, call, on,
                    work, episode, step, target, todo, found, fut, late, owed, after, overrun,
                    forgotten>>
      BY <2>18 DEF Cleanup
    <3>7. QED
      BY <3>1, <3>2, <3>3, <3>4, <3>5, <3>6 DEF Typed, TypeOK
  <2>19. ASSUME NEW c \in Calls, NextTarget(c) PROVE Typed'
    <3>1. at' \in [Calls -> {"idle", "flag", "next", "read", "request", "join", "leave",
                "gate", "swap", "drain", "handoff", "done"}]
      <4>1. \/ at' = at
            \/ at' \in {[at EXCEPT ![c] = "done"], [at EXCEPT ![c] = "read"]}
        BY <1>ok, <1>at, <2>19 DEF NextTarget, To
      <4>2. QED
        BY <1>ok, <1>at, <4>1
    <3>2. target' \in [Calls -> Robots \cup {None}]
      BY <2>19, <1>target, <1>todo DEF NextTarget, To
    <3>3. todo' \in [Calls -> SUBSET Robots]
      BY <2>19, <1>todo, <1>ok, ActiveTyped DEF NextTarget, To
    <3>4. owed' \subseteq Launches
      BY <2>19, <1>owed DEF NextTarget, To
    <3>5. Shapes'
      BY <2>19, <1>shapes, BoundsAssumption, <1>at, <1>target, <1>todo DEF Shapes, NextTarget, To
    <3>6. UNCHANGED <<world, robots, flag, claim, table, driver, preStopped, lock,
                    shut, call, on, work, episode, step, found, fut, stopped, late, after,
                    overrun, forgotten>>
      BY <2>19 DEF NextTarget
    <3>7. QED
      BY <3>1, <3>2, <3>3, <3>4, <3>5, <3>6 DEF Typed, TypeOK
  <2>20. ASSUME NEW c \in Calls, FlagAll(c) PROVE Typed'
    <3>1. flag' \in [Robots -> BOOLEAN]
      BY <1>ok, <1>flag, <2>20, RequestStopTyped DEF FlagAll
    <3>2. claim' \in [Robots -> {"none", "current", "outdated"}]
      BY <1>ok, <1>claim, <2>20, RequestStopTyped DEF FlagAll
    <3>3. preStopped' \in [Robots -> Launches \cup {None}]
      BY <2>20, <1>preStopped, <1>table DEF FlagAll, To, RequestStop
    <3>4. at' \in [Calls -> {"idle", "flag", "next", "read", "request", "join", "leave",
                "gate", "swap", "drain", "handoff", "done"}]
      BY <2>20, <1>at DEF FlagAll, To, RequestStop
    <3>5. stopped' \in [Launches -> 0 .. Episodes]
      BY <1>ok, <1>stopped, <2>20, RequestStopTyped DEF FlagAll
    <3>6. owed' \subseteq Launches
      BY <1>ok, <1>owed, <2>20, Subsets DEF FlagAll
    <3>7. Shapes'
      BY <2>20, <1>shapes, BoundsAssumption, <1>at DEF Shapes, FlagAll, To, RequestStop
    <3>8. UNCHANGED <<world, robots, table, driver, lock, shut, call, on, work,
                    episode, step, target, todo, found, fut, late, after, overrun, forgotten>>
      BY <2>20 DEF FlagAll
    <3>9. QED
      BY <3>1, <3>2, <3>3, <3>4, <3>5, <3>6, <3>7, <3>8 DEF Typed, TypeOK
  <2>21. ASSUME NEW c \in Calls, ReadActive(c) PROVE Typed'
    <3>1. table' \in [Robots -> Launches \cup {None}]
      BY <2>21, <1>table, <1>ok, PrunedTyped DEF ReadActive, To
    <3>2. at' \in [Calls -> {"idle", "flag", "next", "read", "request", "join", "leave",
                "gate", "swap", "drain", "handoff", "done"}]
      BY <2>21, <1>at DEF ReadActive, To
    <3>3. found' \in [Calls -> BOOLEAN]
      BY <2>21, <1>found DEF ReadActive, To
    <3>4. Shapes'
      BY <2>21, <1>shapes, BoundsAssumption, <1>at DEF Shapes, ReadActive, To
    <3>5. UNCHANGED <<world, robots, flag, claim, driver, preStopped, lock, shut,
                    call, on, work, episode, step, target, todo, fut, stopped, late, owed,
                    after, overrun, forgotten>>
      BY <2>21 DEF ReadActive
    <3>6. QED
      BY <3>1, <3>2, <3>3, <3>4, <3>5 DEF Typed, TypeOK
  <2>22. ASSUME NEW c \in Calls, Request(c) PROVE Typed'
    <3>1. flag' \in [Robots -> BOOLEAN]
      BY <1>ok, <1>flag, <2>22, RequestStopTyped DEF Request
    <3>2. claim' \in [Robots -> {"none", "current", "outdated"}]
      BY <1>ok, <1>claim, <2>22, RequestStopTyped DEF Request
    <3>3. preStopped' \in [Robots -> Launches \cup {None}]
      BY <1>ok, <1>preStopped, <2>22 DEF Request
    <3>4. at' \in [Calls -> {"idle", "flag", "next", "read", "request", "join", "leave",
                "gate", "swap", "drain", "handoff", "done"}]
      BY <2>22, <1>at DEF Request, To, RequestStop
    <3>5. found' \in [Calls -> BOOLEAN]
      BY <2>22, <1>found, <1>flag DEF Request, To, RequestStop
    <3>6. fut' \in [Calls -> Launches \cup {None}]
      BY <2>22, <1>fut, <1>table, <1>preStopped, <1>shapes DEF Request, To, RequestStop, Shapes
    <3>7. stopped' \in [Launches -> 0 .. Episodes]
      BY <1>ok, <1>stopped, <2>22, RequestStopTyped DEF Request
    <3>8. owed' \subseteq Launches
      BY <1>ok, <1>owed, <2>22, Subsets DEF Request
    <3>9. Shapes'
      BY <2>22, <1>shapes, BoundsAssumption, <1>at DEF Shapes, Request, To, RequestStop
    <3>10. UNCHANGED <<world, robots, table, driver, lock, shut, call, on, work,
                    episode, step, target, todo, late, after, overrun, forgotten>>
      BY <2>22 DEF Request
    <3>11. QED
      BY <3>1, <3>2, <3>3, <3>4, <3>5, <3>6, <3>7, <3>8, <3>9, <3>10 DEF Typed, TypeOK
  <2>23. ASSUME NEW c \in Calls, Answer(c) PROVE Typed'
    <3>1. table' \in [Robots -> Launches \cup {None}]
      BY <2>23, <1>table, <1>ok, PrunedTyped DEF Answer, To
    <3>2. at' \in [Calls -> {"idle", "flag", "next", "read", "request", "join", "leave",
                "gate", "swap", "drain", "handoff", "done"}]
      BY <2>23, <1>at DEF Answer, To
    <3>3. target' \in [Calls -> Robots \cup {None}]
      BY <2>23, <1>target DEF Answer, To
    <3>4. found' \in [Calls -> BOOLEAN]
      BY <2>23, <1>found DEF Answer, To
    <3>5. fut' \in [Calls -> Launches \cup {None}]
      BY <2>23, <1>fut DEF Answer, To
    <3>6. owed' \subseteq Launches
      BY <2>23, <1>owed DEF Answer, To
    <3>7. Shapes'
      BY <2>23, <1>shapes, BoundsAssumption, <1>at, <1>target DEF Shapes, Answer, To
    <3>8. UNCHANGED <<world, robots, flag, claim, driver, preStopped, lock, shut,
                    call, on, work, episode, step, todo, stopped, late, after, overrun,
                    forgotten>>
      BY <2>23 DEF Answer
    <3>9. QED
      BY <3>1, <3>2, <3>3, <3>4, <3>5, <3>6, <3>7, <3>8 DEF Typed, TypeOK
  <2>24. ASSUME NEW c \in Calls, Swap(c) PROVE Typed'
    <3>1. lock' \in Launches \cup Calls \cup {None}
      BY <2>24, <1>lock DEF Swap, To
    <3>2. at' \in [Calls -> {"idle", "flag", "next", "read", "request", "join", "leave",
                "gate", "swap", "drain", "handoff", "done"}]
      BY <2>24, <1>at DEF Swap, To
    <3>3. overrun' \subseteq Launches
      BY <1>ok, <1>overrun, <2>24, Subsets DEF Swap
    <3>4. Shapes'
      BY <2>24, <1>shapes, BoundsAssumption, <1>at DEF Shapes, Swap, To
    <3>5. UNCHANGED <<world, robots, flag, claim, table, driver, preStopped, shut,
                    call, on, work, episode, step, target, todo, found, fut, stopped, late,
                    owed, after, forgotten>>
      BY <2>24 DEF Swap
    <3>6. QED
      BY <3>1, <3>2, <3>3, <3>4, <3>5 DEF Typed, TypeOK
  <2>25. ASSUME NEW c \in Calls, RemoveJoin(c) PROVE Typed'
    <3>1. table' \in [Robots -> Launches \cup {None}]
      BY <1>ok, <1>table, <2>25 DEF RemoveJoin
    <3>2. at' \in [Calls -> {"idle", "flag", "next", "read", "request", "join", "leave",
                "gate", "swap", "drain", "handoff", "done"}]
      BY <2>25, <1>at DEF RemoveJoin, To
    <3>3. fut' \in [Calls -> Launches \cup {None}]
      BY <2>25, <1>fut DEF RemoveJoin, To
    <3>4. forgotten' \subseteq Launches
      BY <2>25, <1>forgotten, <1>table, <1>shapes DEF RemoveJoin, To, Shapes
    <3>5. Shapes'
      BY <2>25, <1>shapes, BoundsAssumption, <1>at DEF Shapes, RemoveJoin, To
    <3>6. UNCHANGED <<world, robots, flag, claim, driver, preStopped, lock, shut,
                    call, on, work, episode, step, target, todo, found, stopped, late, owed,
                    after, overrun>>
      BY <2>25 DEF RemoveJoin
    <3>7. QED
      BY <3>1, <3>2, <3>3, <3>4, <3>5, <3>6 DEF Typed, TypeOK
  <2>26. ASSUME NEW c \in Calls, RemoveGate(c) PROVE Typed'
    <3>1. table' \in [Robots -> Launches \cup {None}]
      BY <2>26, <1>table, <1>ok, PrunedTyped DEF RemoveGate, To
    <3>2. preStopped' \in [Robots -> Launches \cup {None}]
      BY <2>26, <1>preStopped DEF RemoveGate, To
    <3>3. at' \in [Calls -> {"idle", "flag", "next", "read", "request", "join", "leave",
                "gate", "swap", "drain", "handoff", "done"}]
      BY <2>26, <1>at DEF RemoveGate, To
    <3>4. owed' \subseteq Launches
      BY <2>26, <1>owed, <1>owed DEF RemoveGate, To
    <3>5. Shapes'
      BY <2>26, <1>shapes, BoundsAssumption, <1>at DEF Shapes, RemoveGate, To
    <3>6. UNCHANGED <<world, robots, flag, claim, driver, lock, shut, call, on, work,
                    episode, step, target, todo, found, fut, stopped, late, after, overrun,
                    forgotten>>
      BY <2>26 DEF RemoveGate
    <3>7. QED
      BY <3>1, <3>2, <3>3, <3>4, <3>5, <3>6 DEF Typed, TypeOK
  <2>27. ASSUME NEW c \in Calls, RemoveSwap(c) PROVE Typed'
    <3>1. robots' \subseteq Robots
      BY <2>27, <1>robots DEF RemoveSwap, To
    <3>2. at' \in [Calls -> {"idle", "flag", "next", "read", "request", "join", "leave",
                "gate", "swap", "drain", "handoff", "done"}]
      BY <2>27, <1>at DEF RemoveSwap, To
    <3>3. overrun' \subseteq Launches
      BY <1>ok, <1>overrun, <2>27, Subsets DEF RemoveSwap
    <3>4. Shapes'
      BY <2>27, <1>shapes, BoundsAssumption, <1>at DEF Shapes, RemoveSwap, To
    <3>5. UNCHANGED <<world, flag, claim, table, driver, preStopped, lock, shut, call,
                    on, work, episode, step, target, todo, found, fut, stopped, late, owed,
                    after, forgotten>>
      BY <2>27 DEF RemoveSwap
    <3>6. QED
      BY <3>1, <3>2, <3>3, <3>4, <3>5 DEF Typed, TypeOK
  <2>28. ASSUME NEW c \in Calls, Drain(c) PROVE Typed'
    <3>1. table' \in [Robots -> Launches \cup {None}]
      BY <2>28, <1>table, <1>ok, PrunedTyped DEF Drain, To
    <3>2. preStopped' \in [Robots -> Launches \cup {None}]
      BY <2>28, <1>preStopped DEF Drain, To
    <3>3. at' \in [Calls -> {"idle", "flag", "next", "read", "request", "join", "leave",
                "gate", "swap", "drain", "handoff", "done"}]
      BY <2>28, <1>at DEF Drain, To
    <3>4. forgotten' \subseteq Launches
      BY <2>28, <1>forgotten, <1>table, <1>preStopped DEF Drain, To
    <3>5. Shapes'
      BY <2>28, <1>shapes, BoundsAssumption, <1>at DEF Shapes, Drain, To
    <3>6. UNCHANGED <<world, robots, flag, claim, driver, lock, shut, call, on, work,
                    episode, step, target, todo, found, fut, stopped, late, owed, after,
                    overrun>>
      BY <2>28 DEF Drain
    <3>7. QED
      BY <3>1, <3>2, <3>3, <3>4, <3>5, <3>6 DEF Typed, TypeOK
  <2>29. ASSUME NEW c \in Calls, Handoff(c) PROVE Typed'
    <3>1. world' \in BOOLEAN
      BY <2>29, <1>world DEF Handoff, To
    <3>2. shut' \in BOOLEAN
      BY <2>29, <1>shut DEF Handoff, To
    <3>3. at' \in [Calls -> {"idle", "flag", "next", "read", "request", "join", "leave",
                "gate", "swap", "drain", "handoff", "done"}]
      BY <2>29, <1>at DEF Handoff, To
    <3>4. Shapes'
      BY <2>29, <1>shapes, BoundsAssumption, <1>at DEF Shapes, Handoff, To
    <3>5. UNCHANGED <<robots, flag, claim, table, driver, preStopped, lock, call, on,
                    work, episode, step, target, todo, found, fut, stopped, late, owed, after,
                    overrun, forgotten>>
      BY <2>29 DEF Handoff
    <3>6. QED
      BY <3>1, <3>2, <3>3, <3>4, <3>5 DEF Typed, TypeOK
  <2>30. QED
    BY <1>1, <2>1, <2>2, <2>3, <2>4, <2>5, <2>6, <2>7, <2>8, <2>9, <2>10, <2>11, <2>12,
       <2>13, <2>14, <2>15, <2>16, <2>17, <2>18, <2>19, <2>20, <2>21, <2>22, <2>23, <2>24,
       <2>25, <2>26, <2>27, <2>28, <2>29 DEF Next, Launch, Drive, Call, Continue
<1>2. CASE UNCHANGED vars
  BY <1>2 DEF vars, Typed, TypeOK, Shapes
<1>3. QED
  BY <1>1, <1>2

LEMMA TypedAlways == Spec => []Typed
BY TypedInit, TypedStep, PTL DEF Spec

\* The state keeps its shape; no rollout takes more frames than its horizon and
\* none goes past its last episode.
THEOREM TypeCorrect == Spec => []TypeOK
<1>1. Typed => TypeOK
  BY DEF Typed
<1>2. QED
  BY <1>1, TypedAlways, PTL

-------------------------------------------------------------------------------
\* What is up for a robot is owed to a rollout that is under way.
Clean ==
  /\ shut => ~world
  /\ \A r \in Robots : driver[r] # None =>
       /\ on[driver[r]] = r
       /\ work[driver[r]] \in {"setup", "loop", "check", "between", "reset", "release"}
  /\ world => \A r \in robots :
       flag[r] \/ claim[r] # "none" => \E l \in Launches : on[l] = r /\ Live(l)

LEMMA RequestStopLowers ==
  ASSUME TypeOK, NEW rs, RequestStop(rs)
  PROVE  \A r \in Robots : /\ flag'[r] => flag[r]
                           /\ claim[r] = "none" => claim'[r] = "none"
BY DEF TypeOK, RequestStop

\* A step that ends no rollout and puts nothing up for a robot without one.
LEMMA CleanKept ==
  ASSUME Typed, Clean, Typed',
         \A l \in Launches : Live(l) => Live(l)' /\ on'[l] = on[l],
         shut' => shut \/ ~world', world' => world, robots' \subseteq robots,
         driver' = driver,
         \A l \in Launches : work'[l] # work[l] =>
           work'[l] \in {"setup", "loop", "check", "between", "reset", "release"}
             \/ work[l] = "none",
         \A r \in Robots :
           \/ (flag'[r] => flag[r]) /\ (claim[r] = "none" => claim'[r] = "none")
           \/ \E l \in Launches : on'[l] = r /\ Live(l)'
  PROVE  Clean'
<1>1. \A r \in Robots : driver'[r] # None =>
        /\ on'[driver'[r]] = r
        /\ work'[driver'[r]] \in {"setup", "loop", "check", "between", "reset", "release"}
  <2> SUFFICES ASSUME NEW r \in Robots, driver[r] # None
               PROVE  /\ on'[driver[r]] = r
                      /\ work'[driver[r]] \in
                           {"setup", "loop", "check", "between", "reset", "release"}
    OBVIOUS
  <2>1. /\ driver[r] \in Launches
        /\ on[driver[r]] = r
        /\ work[driver[r]] \in {"setup", "loop", "check", "between", "reset", "release"}
    BY DEF Clean, Typed, TypeOK
  <2>2. Live(driver[r])
    BY <2>1 DEF Live, Typed, Shapes
  <2>3. QED
    BY <2>1, <2>2
<1>2. shut' => ~world'
  BY DEF Clean
<1>3. world' => \A r \in robots' :
        flag'[r] \/ claim'[r] # "none" => \E l \in Launches : on'[l] = r /\ Live(l)'
  <2> SUFFICES ASSUME world', NEW r \in robots', flag'[r] \/ claim'[r] # "none"
               PROVE  \E l \in Launches : on'[l] = r /\ Live(l)'
    OBVIOUS
  <2>1. r \in robots /\ r \in Robots
    BY DEF Typed, TypeOK
  <2>2. CASE flag[r] \/ claim[r] # "none"
    <3>1. PICK l \in Launches : on[l] = r /\ Live(l)
      BY <2>1, <2>2 DEF Clean
    <3>2. QED
      BY <3>1
  <2>3. CASE ~(flag[r] \/ claim[r] # "none")
    BY <2>1, <2>3
  <2>4. QED
    BY <2>2, <2>3
<1>4. QED
  BY <1>1, <1>2, <1>3 DEF Clean

LEMMA CleanStep == Typed /\ Typed' /\ Clean /\ [Next]_vars => Clean'
<1> SUFFICES ASSUME Typed, Typed', Clean, [Next]_vars PROVE Clean'
  OBVIOUS
<1> USE NoneAssumption DEF engine, launching, driving, calling, history, Typed, TypeOK
<1>1. ASSUME NEW l \in Launches, NEW r \in Robots, Admit(l, r) PROVE Clean'
  BY <1>1, CleanKept DEF Admit, Live
<1>2. ASSUME NEW l \in Launches, NEW r \in Robots, Refuse(l, r) PROVE Clean'
  BY <1>2, CleanKept DEF Refuse, Live
<1>3. ASSUME NEW l \in Launches, Announce(l) PROVE Clean'
  <2>1. /\ work[l] = "none" /\ on[l] \in Robots
        /\ call'[l] \in {"driving", "announced"} /\ work'[l] \in {"none", "queued"}
        /\ UNCHANGED <<world, robots, driver, shut, on>>
    BY <1>3 DEF Announce, Shapes
  <2>2. \A k \in Launches : k # l => call'[k] = call[k] /\ work'[k] = work[k]
    BY <1>3 DEF Announce
  <2>3. Live(l)'
    BY <2>1 DEF Live
  <2>4. \A r \in Robots : r # on[l] => flag'[r] = flag[r] /\ claim'[r] = claim[r]
    BY <1>3 DEF Announce
  <2>5. \A k \in Launches : Live(k) => Live(k)'
    BY <2>2, <2>3 DEF Live
  <2>6. \A r \in robots : world /\ (flag'[r] \/ claim'[r] # "none") =>
          \E k \in Launches : on[k] = r /\ Live(k)'
    BY <2>3, <2>4, <2>5 DEF Clean
  <2>7. ASSUME NEW r \in Robots, driver[r] # None
        PROVE  driver[r] \in Launches /\ driver[r] # l
    <3>1. work[driver[r]] \in {"setup", "loop", "check", "between", "reset", "release"}
      BY <2>7 DEF Clean
    <3>2. driver[r] \in Launches
      BY <2>7
    <3>3. QED
      BY <2>1, <3>1, <3>2
  <2>8. \A r \in Robots : driver[r] # None =>
          /\ on[driver[r]] = r
          /\ work'[driver[r]] \in {"setup", "loop", "check", "between", "reset", "release"}
    BY <2>2, <2>7 DEF Clean
  <2>9. QED
    BY <2>1, <2>6, <2>8 DEF Clean
<1>4. ASSUME NEW l \in Launches, Submit(l) PROVE Clean'
  <2>1. /\ call[l] = "announced" /\ work[l] = "none"
        /\ UNCHANGED <<world, robots, flag, claim, driver, shut, on>>
    BY <1>4 DEF Submit, Shapes
  <2>2. CASE shut
    <3>1. work' = work
      BY <1>4, <2>2 DEF Submit
    <3>2. QED
      BY <2>1, <2>2, <3>1 DEF Clean
  <2>3. CASE ~shut
    <3>1. /\ call' = [call EXCEPT ![l] = "submitted"]
          /\ work' = [work EXCEPT ![l] = "queued"]
      BY <1>4, <2>3 DEF Submit
    <3>2. QED
      BY <2>1, <3>1, CleanKept DEF Live
  <2>4. QED
    BY <2>2, <2>3
<1>5. ASSUME NEW l \in Launches, Record(l) PROVE Clean'
  BY <1>5, CleanKept DEF Record, Left, Live
<1>6. ASSUME NEW l \in Launches, Begin(l) PROVE Clean'
  BY <1>6 DEF Begin, Goto, Clean, Live, Shapes
<1>7. ASSUME NEW l \in Launches, MakeHook(l) PROVE Clean'
  <2>1. /\ work[l] = "setup" /\ work'[l] \in {"release", "loop"}
        /\ \A k \in Launches : k # l => work'[k] = work[k]
        /\ UNCHANGED <<world, robots, claim, driver, shut, call, on>>
    BY <1>7 DEF MakeHook, Goto
  <2>2. \A k \in Launches : Live(k) => Live(k)'
    BY <2>1 DEF Live
  <2>3. Live(l)'
    BY <2>1 DEF Live, Shapes
  <2>4. \A r \in Robots : r # on[l] => flag'[r] = flag[r]
    BY <1>7 DEF MakeHook
  <2>5. \A k \in Launches : work'[k] # work[k] => work'[k] \in {"release", "loop"}
    BY <2>1
  <2>6. QED
    BY <2>1, <2>2, <2>3, <2>4, <2>5, CleanKept
<1>8. ASSUME NEW l \in Launches, Frame(l) PROVE Clean'
  BY <1>8, CleanKept DEF Frame, Goto, Live
<1>9. ASSUME NEW l \in Launches, Check(l) PROVE Clean'
  BY <1>9, CleanKept DEF Check, Goto, AfterEpisode, Live
<1>10. ASSUME NEW l \in Launches, Between(l) PROVE Clean'
  BY <1>10, CleanKept DEF Between, Goto, NextEpisode, Live
<1>11. ASSUME NEW l \in Launches, Reset(l) PROVE Clean'
  BY <1>11, CleanKept DEF Reset, Goto, NextEpisode, Live
<1>12. ASSUME NEW l \in Launches, Release(l) PROVE Clean'
  BY <1>12 DEF Release, Goto, Clean, Live, Shapes
<1>13. ASSUME NEW l \in Launches, Lower(l) PROVE Clean'
  <2>1. /\ work[l] = "lower" /\ work' = [work EXCEPT ![l] = "done"]
        /\ UNCHANGED <<world, robots, driver, shut, on>>
        /\ \A k \in Launches : k # l => call'[k] = call[k]
    BY <1>13 DEF Lower, Goto
  <2>2. \A k \in Launches : k # l /\ Live(k) => Live(k)'
    BY <2>1 DEF Live
  <2>3. ASSUME NEW r \in Robots, driver[r] = l PROVE FALSE
    <3>1. l # None
      BY NoneAssumption
    <3>2. work[l] \in {"setup", "loop", "check", "between", "reset", "release"}
      BY <2>3, <3>1 DEF Clean
    <3>3. QED
      BY <2>1, <3>2
  <2>4. world => \A r \in robots :
          flag'[r] \/ claim'[r] # "none" => \E k \in Launches : on[k] = r /\ Live(k)'
    <3> SUFFICES ASSUME world, NEW r \in robots, flag'[r] \/ claim'[r] # "none"
                 PROVE  \E k \in Launches : on[k] = r /\ Live(k)'
      OBVIOUS
    <3>1. r # on[l] /\ flag'[r] = flag[r] /\ claim'[r] = claim[r]
      BY <1>13 DEF Lower, Gone
    <3>2. PICK k \in Launches : on[k] = r /\ Live(k)
      BY <3>1 DEF Clean
    <3>3. QED
      BY <2>2, <3>1, <3>2
  <2>5. QED
    BY <2>1, <2>3, <2>4 DEF Clean
<1>14. ASSUME NEW c \in Calls, NEW r \in Robots, Stop(c, r) PROVE Clean'
  BY <1>14, CleanKept DEF Stop, To, Live
<1>15. ASSUME NEW c \in Calls, NEW r \in Robots, Remove(c, r) PROVE Clean'
  <2>1. /\ UNCHANGED <<call, work, on, shut, world, robots, driver>>
        /\ UNCHANGED <<flag, claim>> \/ RequestStop({r})
    BY <1>15 DEF Remove
  <2>2. QED
    BY <2>1, CleanKept, RequestStopLowers DEF Live
<1>16. ASSUME NEW c \in Calls, StopAll(c) PROVE Clean'
  BY <1>16, CleanKept DEF StopAll, To, Live
<1>17. ASSUME NEW c \in Calls, Gate(c) PROVE Clean'
  BY <1>17, CleanKept DEF Gate, To, Live
<1>18. ASSUME NEW c \in Calls, Cleanup(c) PROVE Clean'
  <2>1. /\ UNCHANGED <<call, work, on, shut, world, robots, driver>>
        /\ UNCHANGED <<flag, claim>> \/ RequestStop(robots)
    BY <1>18 DEF Cleanup
  <2>2. QED
    BY <2>1, CleanKept, RequestStopLowers DEF Live
<1>19. ASSUME NEW c \in Calls, NextTarget(c) PROVE Clean'
  BY <1>19, CleanKept DEF NextTarget, To, Live
<1>20. ASSUME NEW c \in Calls, FlagAll(c) PROVE Clean'
  BY <1>20, CleanKept DEF FlagAll, To, RequestStop, Live
<1>21. ASSUME NEW c \in Calls, ReadActive(c) PROVE Clean'
  BY <1>21, CleanKept DEF ReadActive, To, Live
<1>22. ASSUME NEW c \in Calls, Request(c) PROVE Clean'
  BY <1>22, CleanKept DEF Request, To, RequestStop, Live
<1>23. ASSUME NEW c \in Calls, Answer(c) PROVE Clean'
  BY <1>23, CleanKept DEF Answer, To, Live
<1>24. ASSUME NEW c \in Calls, Swap(c) PROVE Clean'
  BY <1>24, CleanKept DEF Swap, To, Live
<1>25. ASSUME NEW c \in Calls, RemoveJoin(c) PROVE Clean'
  BY <1>25, CleanKept DEF RemoveJoin, To, Live
<1>26. ASSUME NEW c \in Calls, RemoveGate(c) PROVE Clean'
  BY <1>26, CleanKept DEF RemoveGate, To, Live
<1>27. ASSUME NEW c \in Calls, RemoveSwap(c) PROVE Clean'
  BY <1>27, CleanKept DEF RemoveSwap, To, Live
<1>28. ASSUME NEW c \in Calls, Drain(c) PROVE Clean'
  BY <1>28, CleanKept DEF Drain, To, Live
<1>29. ASSUME NEW c \in Calls, Handoff(c) PROVE Clean'
  BY <1>29, CleanKept DEF Handoff, To, Live
<1>30. CASE UNCHANGED vars
  BY <1>30, CleanKept DEF vars, Live
<1>31. QED
  BY <1>1, <1>2, <1>3, <1>4, <1>5, <1>6, <1>7, <1>8, <1>9, <1>10, <1>11, <1>12,
     <1>13, <1>14, <1>15, <1>16, <1>17, <1>18, <1>19, <1>20, <1>21, <1>22, <1>23, <1>24,
     <1>25, <1>26, <1>27, <1>28, <1>29, <1>30 DEF Next, Launch, Drive, Call, Continue

\* However a rollout ends, its robot is free again.
THEOREM RobotsAreGivenBack == Spec => []RobotIsGivenBack
<1>1. Init => Clean
  BY DEF Init, Clean
<1>2. Typed /\ Clean => RobotIsGivenBack
  BY NoneAssumption DEF Typed, TypeOK, Shapes, Clean, Live, RobotIsGivenBack
<1>3. QED
  BY <1>1, <1>2, TypedAlways, CleanStep, PTL DEF Spec

-------------------------------------------------------------------------------
InCall(l) == call[l] \in {"admitted", "announced", "submitted", "driving"}

\* The call has returned and left its rollout to a thread of the executor.
Apart(l) == call[l] = "returned" /\ work[l] # "done"

\* No record is missing that a launch of the robot needs, and no launch that holds
\* no lock was admitted to it.
Ours(r) == Kept(r) /\ ~Unlocked(r)

\* An agent's call that launches holds the lock, and finds the rollouts of other
\* calls in the table.
Entered ==
  /\ \A l \in Launches : call[l] = "idle" => on[l] = None
  /\ \A l \in Dispatched : InCall(l) => lock = l
  /\ \A c \in Calls : at[c] = "swap" /\ target[c] = None => lock = c

Recorded ==
  /\ \A r \in Robots : table[r] # None => call[table[r]] = "returned" /\ on[table[r]] = r
  /\ \A r \in Robots :
       preStopped[r] # None => call[preStopped[r]] = "returned" /\ on[preStopped[r]] = r
  /\ \A l \in forgotten : call[l] = "returned"

Shown == \A l \in Launches : Apart(l) /\ Ours(on[l]) => table[on[l]] = l

Single ==
  \A k, l \in Launches : InCall(k) /\ Apart(l) /\ on[k] = on[l] => ~Ours(on[l])

Guarded == Entered /\ Recorded /\ Shown /\ Single

\* A rollout that has been forgotten stays forgotten.
LEMMA OursBefore ==
  ASSUME Guarded, forgotten \subseteq forgotten', NEW r, Ours(r)',
         \A l \in Launches : call[l] = "returned" => on'[l] = on[l],
         Unlocked(r) => Unlocked(r)',
         forgotten \subseteq Launches
  PROVE  Ours(r)
BY DEF Guarded, Recorded, Ours, Kept, Unlocked

\* Only a rollout that is done leaves the table when it is pruned.
LEMMA PrunedKeeps ==
  ASSUME Typed, NEW r \in Robots
  PROVE  /\ Pruned[r] \in {table[r], None}
         /\ table[r] # None /\ work[table[r]] # "done" => Pruned[r] = table[r]
BY DEF Pruned, Done

\* A step that leaves the calls, the lock and the forgotten as they are keeps it.
LEMMA GuardedKept ==
  ASSUME Typed, Guarded, call' = call, on' = on, lock' = lock, forgotten' = forgotten,
         \A l \in Launches : work'[l] = "done" <=> work[l] = "done",
         table' = table \/ table' = Pruned,
         \A r \in Robots : preStopped'[r] \in {preStopped[r], table[r], None},
         \A c \in Calls : at'[c] = "swap" /\ target'[c] = None
                            => at[c] = "swap" /\ target[c] = None
  PROVE  Guarded'
<1>1. Entered'
  BY DEF Guarded, Entered, InCall
<1>2. \A r \in Robots : table'[r] \in {table[r], None}
  BY PrunedKeeps
<1>3. Recorded'
  BY <1>2 DEF Guarded, Recorded
<1>4. \A r : Ours(r)' <=> Ours(r)
  BY DEF Ours, Kept, Unlocked
<1>5. \A l \in Launches : /\ InCall(l)' <=> InCall(l)
                          /\ Apart(l)' <=> Apart(l)
  BY DEF InCall, Apart
<1>6. Shown'
  <2> SUFFICES ASSUME NEW l \in Launches, Apart(l), Ours(on[l]) PROVE table'[on[l]] = l
    BY <1>4, <1>5 DEF Shown
  <2>1. table[on[l]] = l /\ on[l] \in Robots /\ work[l] # "done" /\ l # None
    BY NoneAssumption DEF Guarded, Shown, Typed, Shapes, Apart
  <2>2. QED
    BY <2>1, PrunedKeeps
<1>7. Single'
  BY <1>4, <1>5 DEF Guarded, Single
<1>8. QED
  BY <1>1, <1>3, <1>6, <1>7 DEF Guarded

\* A launching call that moves on, and that neither enters nor returns.
LEMMA CallMoves ==
  ASSUME Typed, Guarded, NEW l \in Launches,
         call[l] # "returned", call'[l] \notin {"idle", "returned"},
         InCall(l)' => InCall(l) /\ lock' = lock,
         \A k \in Launches : k # l => call'[k] = call[k],
         lock' = lock \/ lock = l,
         \A k \in Launches : work'[k] = "done" <=> work[k] = "done",
         table' = table \/ table' = Pruned,
         UNCHANGED <<on, preStopped, at, target, forgotten>>
  PROVE  Guarded'
<1>1. \A k \in Launches : /\ Apart(k)' <=> Apart(k)
                          /\ InCall(k)' => InCall(k)
                          /\ call[k] = "returned" => call'[k] = "returned"
  BY DEF Apart, InCall
<1>2. \A q : Ours(q)' <=> Ours(q)
  BY DEF Ours, Kept, Unlocked
<1>3. Entered'
  <2>1. \A k \in Dispatched : InCall(k)' => lock' = k
    <3> SUFFICES ASSUME NEW k \in Dispatched, InCall(k)' PROVE lock' = k
      OBVIOUS
    <3>1. lock = k
      BY <1>1, DispatchedAssumption DEF Guarded, Entered
    <3>2. QED
      BY <3>1
  <2>2. \A c \in Calls : at'[c] = "swap" /\ target'[c] = None => lock' = c
    BY CallsAssumption DEF Guarded, Entered
  <2>3. \A k \in Launches : call'[k] = "idle" => on'[k] = None
    BY DEF Guarded, Entered
  <2>4. QED
    BY <2>1, <2>2, <2>3 DEF Entered
<1>4. \A r \in Robots : table'[r] \in {table[r], None}
  BY PrunedKeeps
<1>5. Recorded'
  BY <1>1, <1>4, NoneAssumption DEF Guarded, Recorded, Typed, TypeOK
<1>6. Shown'
  <2> SUFFICES ASSUME NEW k \in Launches, Apart(k), Ours(on[k]) PROVE table'[on[k]] = k
    BY <1>1, <1>2 DEF Shown
  <2>1. table[on[k]] = k /\ on[k] \in Robots /\ work[k] # "done" /\ k # None
    BY NoneAssumption DEF Guarded, Shown, Typed, Shapes, Apart
  <2>2. QED
    BY <2>1, PrunedKeeps
<1>7. Single'
  BY <1>1, <1>2 DEF Guarded, Single
<1>8. QED
  BY <1>3, <1>5, <1>6, <1>7 DEF Guarded

\* A mutation that takes the lock or lets go of it while nobody launches.
LEMMA LockMoves ==
  ASSUME Typed, Guarded, \A k \in Dispatched : ~InCall(k),
         \A c \in Calls : at'[c] = "swap" /\ target'[c] = None => lock' = c,
         table' = table \/ table' = Pruned,
         UNCHANGED <<call, on, work, preStopped, forgotten>>
  PROVE  Guarded'
<1>1. \A k \in Launches : (Apart(k)' <=> Apart(k)) /\ (InCall(k)' <=> InCall(k))
  BY DEF Apart, InCall
<1>0. \A k \in Dispatched : ~InCall(k)'
  BY DEF InCall
<1>2. \A q : Ours(q)' <=> Ours(q)
  BY DEF Ours, Kept, Unlocked
<1>3. \A r \in Robots : table'[r] \in {table[r], None}
  BY PrunedKeeps
<1>4. Recorded'
  BY <1>3 DEF Guarded, Recorded
<1>5. Shown'
  <2> SUFFICES ASSUME NEW k \in Launches, Apart(k), Ours(on[k]) PROVE table'[on[k]] = k
    BY <1>1, <1>2 DEF Shown
  <2>1. table[on[k]] = k /\ on[k] \in Robots /\ work[k] # "done" /\ k # None
    BY NoneAssumption DEF Guarded, Shown, Typed, Shapes, Apart
  <2>2. QED
    BY <2>1, PrunedKeeps
<1>6. Entered' /\ Single'
  BY <1>0, <1>1, <1>2 DEF Guarded, Entered, Single
<1>7. QED
  BY <1>4, <1>5, <1>6 DEF Guarded

LEMMA GuardedStep == Typed /\ Guarded /\ [Next]_vars => Guarded'
<1> SUFFICES ASSUME Typed, Guarded, [Next]_vars PROVE Guarded'
  OBVIOUS
<1> USE NoneAssumption, CallsAssumption, DispatchedAssumption
    DEF engine, launching, driving, calling, history, Typed, TypeOK
<1>1. ASSUME NEW l \in Launches, NEW r \in Robots, Admit(l, r) PROVE Guarded'
  <2>1. /\ call[l] = "idle" /\ r \notin Active /\ table' = Pruned
        /\ call' = [call EXCEPT ![l] = "admitted"] /\ on' = [on EXCEPT ![l] = r]
        /\ UNCHANGED <<work, preStopped, at, target, forgotten>>
        /\ \/ l \in Dispatched /\ lock = None /\ lock' = l
           \/ l \notin Dispatched /\ lock' = lock
    BY <1>1 DEF Admit
  <2>2. \A k \in Launches : k # l => (InCall(k)' <=> InCall(k))
    BY <2>1 DEF InCall
  <2>3. Entered'
    <3>0. \A k \in Launches : call'[k] = "idle" => on'[k] = None
      BY <2>1 DEF Guarded, Entered
    <3>1. CASE l \in Dispatched
      <4>1. \A c \in Calls : ~(at[c] = "swap" /\ target[c] = None)
        BY <2>1, <3>1 DEF Guarded, Entered
      <4>2. \A k \in Dispatched : InCall(k)' => k = l
        BY <2>1, <2>2, <3>1 DEF Guarded, Entered
      <4>3. QED
        BY <2>1, <3>0, <3>1, <4>1, <4>2 DEF Entered
    <3>2. CASE l \notin Dispatched
      <4>1. \A k \in Dispatched : InCall(k)' => InCall(k)
        BY <2>2, <3>2
      <4>2. QED
        BY <2>1, <3>0, <3>2, <4>1 DEF Guarded, Entered
    <3>3. QED
      BY <3>1, <3>2
  <2>4. \A k \in Launches : call[k] = "returned" => on'[k] = on[k] /\ call'[k] = "returned"
    BY <2>1
  <2>5. \A q \in Robots : Pruned[q] \in {table[q], None}
    BY PrunedKeeps
  <2>6. Recorded'
    BY <2>1, <2>4, <2>5 DEF Guarded, Recorded
  <2>7. \A k \in Launches : Apart(k)' => Apart(k) /\ on'[k] = on[k]
    BY <2>1 DEF Apart
  <2>8. \A q \in Robots : Ours(q)' => Ours(q)
    <3> SUFFICES ASSUME NEW q \in Robots, Ours(q)' PROVE Ours(q)
      OBVIOUS
    <3>1. on[l] = None
      BY <2>1 DEF Guarded, Entered
    <3>2. Unlocked(q) => Unlocked(q)'
      BY <2>1, <3>1 DEF Unlocked
    <3>3. QED
      BY <2>1, <2>4, <3>2, OursBefore
  <2>9. \A k \in Launches : Apart(k) /\ Ours(on[k]) => Pruned[on[k]] = k
    BY PrunedKeeps DEF Guarded, Shown, Apart, Shapes
  <2>10. Shown'
    <3> SUFFICES ASSUME NEW k \in Launches, Apart(k)', Ours(on[k])' PROVE table'[on'[k]] = k
      BY DEF Shown
    <3>1. Apart(k) /\ on'[k] = on[k] /\ on[k] \in Robots
      BY <2>7 DEF Apart, Shapes
    <3>2. Ours(on[k])
      BY <2>8, <3>1 DEF Ours, Kept, Unlocked
    <3>3. QED
      BY <2>1, <2>9, <3>1, <3>2
  <2>11. \A k \in Launches : Apart(k) /\ Ours(on[k]) => on[k] # r
    BY <2>1, <2>9 DEF Active, Apart, Shapes
  <2>12. Single'
    <3> SUFFICES ASSUME NEW m \in Launches, NEW k \in Launches, InCall(m)', Apart(k)',
                        (on[m] = on[k])', Ours(on[k])'
                 PROVE  FALSE
      BY DEF Single
    <3>1. Apart(k) /\ on'[k] = on[k] /\ on[k] \in Robots
      BY <2>7 DEF Apart, Shapes
    <3>2. Ours(on[k])
      BY <2>8, <3>1 DEF Ours, Kept, Unlocked
    <3>3. CASE m = l
      BY <2>1, <2>11, <3>1, <3>2, <3>3
    <3>4. CASE m # l
      <4>1. InCall(m) /\ on[m] = on[k]
        BY <2>1, <2>2, <3>1, <3>4
      <4>2. QED
        BY <3>1, <3>2, <4>1 DEF Guarded, Single
    <3>5. QED
      BY <3>3, <3>4
  <2>13. QED
    BY <2>3, <2>6, <2>10, <2>12 DEF Guarded
<1>2. ASSUME NEW l \in Launches, NEW r \in Robots, Refuse(l, r) PROVE Guarded'
  <2>1. /\ call[l] = "idle" /\ call' = [call EXCEPT ![l] = "refused"]
        /\ table' = table \/ table' = Pruned
        /\ UNCHANGED <<lock, on, work, preStopped, at, target, forgotten>>
    BY <1>2 DEF Refuse
  <2>2. QED
    BY <2>1, CallMoves DEF InCall
<1>3. ASSUME NEW l \in Launches, Announce(l) PROVE Guarded'
  <2>1. /\ call[l] = "admitted" /\ call'[l] \in {"driving", "announced"}
        /\ \A k \in Launches : k # l => call'[k] = call[k]
        /\ \A k \in Launches : work'[k] = "done" <=> work[k] = "done"
        /\ UNCHANGED <<lock, table, on, preStopped, at, target, forgotten>>
    BY <1>3 DEF Announce, Shapes
  <2>2. QED
    BY <2>1, CallMoves DEF InCall
<1>4. ASSUME NEW l \in Launches, Submit(l) PROVE Guarded'
  <2>1. /\ call[l] = "announced" /\ call'[l] \in {"refused", "submitted"}
        /\ \A k \in Launches : k # l => call'[k] = call[k]
        /\ \A k \in Launches : work'[k] = "done" <=> work[k] = "done"
        /\ UNCHANGED <<table, on, preStopped, at, target, forgotten>>
        /\ lock' = lock \/ (call'[l] = "refused" /\ lock' = Left(l))
    BY <1>4 DEF Submit, Shapes
  <2>2. lock' = lock \/ lock = l
    BY <2>1 DEF Left
  <2>3. QED
    BY <2>1, <2>2, CallMoves DEF InCall
<1>5. ASSUME NEW l \in Launches, Record(l) PROVE Guarded'
  <2>1. /\ call[l] = "submitted" /\ on[l] \in Robots
        /\ table' = [table EXCEPT ![on[l]] = l]
        /\ call' = [call EXCEPT ![l] = "returned"]
        /\ UNCHANGED <<on, work, preStopped, at, target, forgotten>>
    BY <1>5 DEF Record, Shapes
  <2>2. /\ lock' = Left(l)
        /\ \A k \in Launches : InCall(k)' <=> k # l /\ InCall(k)
    BY <1>5, <2>1 DEF Record, InCall
  <2>3. Entered'
    <3>1. \A k \in Dispatched : InCall(k)' => lock' = k
      BY <2>2 DEF Guarded, Entered, Left
    <3>2. \A c \in Calls : at[c] = "swap" /\ target[c] = None => lock' = c
      BY <2>2 DEF Guarded, Entered, Left
    <3>3. QED
      BY <2>1, <3>1, <3>2 DEF Guarded, Entered
  <2>4. Single'
    <3> SUFFICES ASSUME NEW m \in Launches, NEW k \in Launches, InCall(m)', Apart(k)',
                        on[m] = on[k], Ours(on[k])'
                 PROVE  FALSE
      BY <2>1 DEF Single
    <3>1. InCall(m) /\ m # l /\ Ours(on[k])
      BY <2>1, <2>2 DEF Ours, Kept, Unlocked
    <3>2. CASE k = l
      <4>1. m \in Dispatched /\ l \in Dispatched
        BY <3>1, <3>2 DEF Ours, Unlocked
      <4>2. lock = m /\ lock = l
        BY <2>1, <3>1, <4>1 DEF Guarded, Entered, InCall
      <4>3. QED
        BY <3>1, <4>2
    <3>3. CASE k # l
      <4>1. Apart(k)
        BY <2>1, <3>3 DEF Apart
      <4>2. QED
        BY <3>1, <4>1 DEF Guarded, Single
    <3>4. QED
      BY <3>2, <3>3
  <2>5. Recorded'
    BY <2>1 DEF Guarded, Recorded
  <2>6. \A k \in Launches : k # l /\ Apart(k)' => Apart(k)
    BY <2>1 DEF Apart
  <2>7. \A q : Ours(q)' => Ours(q)
    BY <2>1 DEF Ours, Kept, Unlocked
  <2>8. Shown'
    <3> SUFFICES ASSUME NEW k \in Launches, Apart(k)', Ours(on[k])' PROVE table'[on[k]] = k
      BY <2>1 DEF Shown
    <3>1. CASE k = l
      BY <2>1, <3>1
    <3>2. CASE k # l
      <4>1. Apart(k) /\ Ours(on[k]) /\ on[k] # on[l]
        BY <2>1, <2>6, <2>7, <3>2 DEF Guarded, Single, InCall
      <4>2. QED
        BY <2>1, <4>1 DEF Guarded, Shown
    <3>3. QED
      BY <3>1, <3>2
  <2>9. QED
    BY <2>3, <2>4, <2>5, <2>8 DEF Guarded
<1>6. ASSUME NEW l \in Launches, Begin(l) PROVE Guarded'
  BY <1>6, GuardedKept DEF Begin, Goto
<1>7. ASSUME NEW l \in Launches, MakeHook(l) PROVE Guarded'
  BY <1>7, GuardedKept DEF MakeHook, Goto
<1>8. ASSUME NEW l \in Launches, Frame(l) PROVE Guarded'
  BY <1>8, GuardedKept DEF Frame, Goto
<1>9. ASSUME NEW l \in Launches, Check(l) PROVE Guarded'
  BY <1>9, GuardedKept DEF Check, Goto, AfterEpisode
<1>10. ASSUME NEW l \in Launches, Between(l) PROVE Guarded'
  BY <1>10, GuardedKept DEF Between, Goto, NextEpisode
<1>11. ASSUME NEW l \in Launches, Reset(l) PROVE Guarded'
  BY <1>11, GuardedKept DEF Reset, Goto, NextEpisode
<1>12. ASSUME NEW l \in Launches, Release(l) PROVE Guarded'
  BY <1>12, GuardedKept DEF Release, Goto
<1>13. ASSUME NEW l \in Launches, Lower(l) PROVE Guarded'
  <2>1. /\ work[l] = "lower" /\ work' = [work EXCEPT ![l] = "done"]
        /\ call[l] \in {"submitted", "driving", "returned"}
        /\ UNCHANGED <<table, on, preStopped, at, target, forgotten>>
        /\ \/ /\ call' = [call EXCEPT ![l] = "returned"] /\ lock' = Left(l)
           \/ UNCHANGED <<call, lock>>
    BY <1>13 DEF Lower, Goto, Shapes
  <2>2. \A k \in Launches : /\ Apart(k)' => Apart(k)
                            /\ InCall(k)' => InCall(k)
                            /\ call[k] = "returned" => call'[k] = "returned"
    BY <2>1 DEF Apart, InCall
  <2>3. \A q : Ours(q)' => Ours(q)
    BY <2>1 DEF Ours, Kept, Unlocked
  <2>4. Entered'
    <3>1. CASE UNCHANGED lock
      BY <2>1, <2>2, <3>1 DEF Guarded, Entered
    <3>2. CASE call' = [call EXCEPT ![l] = "returned"] /\ lock = l
      <4>1. \A k \in Dispatched : InCall(k)' => k # l /\ InCall(k)
        BY <2>2, <3>2 DEF InCall
      <4>2. /\ \A k \in Dispatched : InCall(k)' => FALSE
            /\ \A c \in Calls : ~(at[c] = "swap" /\ target[c] = None)
        BY <3>2, <4>1 DEF Guarded, Entered
      <4>3. QED
        BY <2>1, <3>2, <4>2 DEF Guarded, Entered
    <3>3. QED
      BY <2>1, <3>1, <3>2 DEF Left
  <2>5. Recorded' /\ Shown' /\ Single'
    BY <2>1, <2>2, <2>3 DEF Guarded, Recorded, Shown, Single
  <2>6. QED
    BY <2>4, <2>5 DEF Guarded
<1>14. ASSUME NEW c \in Calls, NEW r \in Robots, Stop(c, r) PROVE Guarded'
  BY <1>14, GuardedKept DEF Stop, To
<1>15. ASSUME NEW c \in Calls, NEW r \in Robots, Remove(c, r) PROVE Guarded'
  <2>1. /\ UNCHANGED <<call, on, work, lock, forgotten, table, preStopped>>
        /\ target' = [target EXCEPT ![c] = r]
        /\ at' \in {[at EXCEPT ![c] = "leave"], [at EXCEPT ![c] = "gate"]}
    BY <1>15 DEF Remove, To
  <2>2. QED
    BY <2>1, GuardedKept
<1>16. ASSUME NEW c \in Calls, StopAll(c) PROVE Guarded'
  BY <1>16, GuardedKept DEF StopAll, To
<1>17. ASSUME NEW c \in Calls, Gate(c) PROVE Guarded'
  <2>1. /\ at[c] = "idle" /\ lock = None /\ (table' = table \/ table' = Pruned)
        /\ UNCHANGED <<call, on, work, preStopped, target, forgotten>>
        /\ \/ at' = [at EXCEPT ![c] = "swap"] /\ lock' = c
           \/ at' = [at EXCEPT ![c] = "done"] /\ lock' = lock
    BY <1>17 DEF Gate, To
  <2>2. /\ \A k \in Dispatched : ~InCall(k)
        /\ \A d \in Calls : ~(at[d] = "swap" /\ target[d] = None)
    BY <2>1 DEF Guarded, Entered
  <2>3. QED
    BY <2>1, <2>2, LockMoves
<1>18. ASSUME NEW c \in Calls, Cleanup(c) PROVE Guarded'
  BY <1>18, GuardedKept DEF Cleanup, To, RequestStop
<1>19. ASSUME NEW c \in Calls, NextTarget(c) PROVE Guarded'
  BY <1>19, GuardedKept DEF NextTarget, To
<1>20. ASSUME NEW c \in Calls, FlagAll(c) PROVE Guarded'
  BY <1>20, GuardedKept DEF FlagAll, To, RequestStop
<1>21. ASSUME NEW c \in Calls, ReadActive(c) PROVE Guarded'
  BY <1>21, GuardedKept DEF ReadActive, To
<1>22. ASSUME NEW c \in Calls, Request(c) PROVE Guarded'
  BY <1>22, GuardedKept DEF Request, To, RequestStop
<1>23. ASSUME NEW c \in Calls, Answer(c) PROVE Guarded'
  BY <1>23, GuardedKept DEF Answer, To
<1>24. ASSUME NEW c \in Calls, Swap(c) PROVE Guarded'
  <2>1. /\ at[c] = "swap" /\ target[c] = None /\ lock' = None
        /\ at' = [at EXCEPT ![c] = "done"]
        /\ UNCHANGED <<table, call, on, work, preStopped, target, forgotten>>
    BY <1>24 DEF Swap, To
  <2>2. /\ lock = c
        /\ \A k \in Dispatched : ~InCall(k)
        /\ \A d \in Calls : at[d] = "swap" /\ target[d] = None => d = c
    BY <2>1 DEF Guarded, Entered
  <2>3. QED
    BY <2>1, <2>2, LockMoves
<1>25. ASSUME NEW c \in Calls, RemoveJoin(c) PROVE Guarded'
  <2>1. /\ target[c] \in Robots
        /\ at' \in {[at EXCEPT ![c] = "done"], [at EXCEPT ![c] = "gate"]}
        /\ UNCHANGED <<lock, call, on, work, preStopped, target>>
        /\ \/ UNCHANGED <<table, forgotten>>
           \/ /\ table[target[c]] # None /\ Done(fut[c])
              /\ table' = [table EXCEPT ![target[c]] = None]
              /\ forgotten' = forgotten \cup ({table[target[c]]} \ {fut[c]})
    BY <1>25 DEF RemoveJoin, To, Shapes
  <2>2. Entered'
    BY <2>1 DEF Guarded, Entered, InCall
  <2>3. CASE UNCHANGED <<table, forgotten>>
    BY <2>1, <2>3, GuardedKept
  <2>4. CASE /\ table[target[c]] # None /\ Done(fut[c])
             /\ table' = [table EXCEPT ![target[c]] = None]
             /\ forgotten' = forgotten \cup ({table[target[c]]} \ {fut[c]})
    <3>1. Recorded'
      BY <2>1, <2>4 DEF Guarded, Recorded
    <3>2. \A q : Ours(q)' => Ours(q)
      BY <2>1, <2>4 DEF Ours, Kept, Unlocked
    <3>3. \A k \in Launches : /\ Apart(k)' <=> Apart(k)
                              /\ InCall(k)' <=> InCall(k)
      BY <2>1 DEF Apart, InCall
    <3>4. Shown'
      <4> SUFFICES ASSUME NEW k \in Launches, Apart(k)', Ours(on[k])'
                   PROVE  table'[on[k]] = k
        BY <2>1 DEF Shown
      <4>0. Apart(k) /\ Ours(on[k])
        BY <2>1, <3>2, <3>3 DEF Ours, Kept, Unlocked
      <4> SUFFICES ASSUME on[k] = target[c] PROVE FALSE
        BY <2>1, <2>4, <4>0 DEF Guarded, Shown
      <4>1. table[target[c]] = k
        BY <4>0 DEF Guarded, Shown
      <4>2. k # fut[c]
        BY <2>4, <4>0 DEF Apart, Done
      <4>3. k \in forgotten'
        BY <2>4, <4>1, <4>2
      <4>4. QED
        BY <2>1, <4>3 DEF Ours, Kept, Unlocked
    <3>5. Single'
      BY <2>1, <3>2, <3>3 DEF Guarded, Single
    <3>6. QED
      BY <2>2, <3>1, <3>4, <3>5 DEF Guarded
  <2>5. QED
    BY <2>1, <2>3, <2>4
<1>26. ASSUME NEW c \in Calls, RemoveGate(c) PROVE Guarded'
  <2>1. /\ at[c] = "gate" /\ table' = Pruned
        /\ UNCHANGED <<call, on, work, lock, forgotten, target>>
        /\ preStopped' = [preStopped EXCEPT ![target[c]] = None]
        /\ at' \in {[at EXCEPT ![c] = "swap"], [at EXCEPT ![c] = "done"]}
    BY <1>26 DEF RemoveGate, To
  <2>2. target[c] # None
    BY <2>1 DEF Shapes
  <2>3. QED
    BY <2>1, <2>2, GuardedKept
<1>27. ASSUME NEW c \in Calls, RemoveSwap(c) PROVE Guarded'
  BY <1>27, GuardedKept DEF RemoveSwap, To
<1>28. ASSUME NEW c \in Calls, Drain(c) PROVE Guarded'
  <2>1. /\ at' = [at EXCEPT ![c] = "handoff"]
        /\ table' = [r \in Robots |-> None]
        /\ \A r \in Robots : preStopped'[r] \in {preStopped[r], None}
        /\ forgotten' = forgotten \cup
             {l \in Launches : \E r \in Robots : l \in {table[r], preStopped[r]}}
        /\ UNCHANGED <<lock, call, on, work, target>>
    BY <1>28 DEF Drain, To
  <2>2. Entered'
    BY <2>1 DEF Guarded, Entered, InCall
  <2>3. Recorded'
    BY <2>1 DEF Guarded, Recorded
  <2>5. \A k \in Launches : /\ Apart(k)' <=> Apart(k)
                            /\ InCall(k)' <=> InCall(k)
    BY <2>1 DEF Apart, InCall
  <2>6. \A k \in Launches : Apart(k) => ~Ours(on[k])'
    <3> SUFFICES ASSUME NEW k \in Launches, Apart(k), Ours(on[k])' PROVE FALSE
      OBVIOUS
    <3>0. Ours(on[k])
      BY <2>1 DEF Ours, Kept, Unlocked
    <3>1. table[on[k]] = k /\ on[k] \in Robots
      BY <3>0 DEF Guarded, Shown, Apart, Shapes
    <3>2. k \in forgotten'
      BY <2>1, <3>1
    <3>3. QED
      BY <2>1, <3>2 DEF Ours, Kept, Unlocked
  <2>7. QED
    BY <2>1, <2>2, <2>3, <2>5, <2>6 DEF Guarded, Shown, Single
<1>29. ASSUME NEW c \in Calls, Handoff(c) PROVE Guarded'
  BY <1>29, GuardedKept DEF Handoff, To
<1>30. CASE UNCHANGED vars
  BY <1>30, GuardedKept DEF vars
<1>31. QED
  BY <1>1, <1>2, <1>3, <1>4, <1>5, <1>6, <1>7, <1>8, <1>9, <1>10, <1>11, <1>12,
     <1>13, <1>14, <1>15, <1>16, <1>17, <1>18, <1>19, <1>20, <1>21, <1>22, <1>23, <1>24,
     <1>25, <1>26, <1>27, <1>28, <1>29, <1>30 DEF Next, Launch, Drive, Call, Continue

LEMMA GuardedAlways == Spec => []Guarded
<1>1. ASSUME Init PROVE Guarded
  <2>1. \A l \in Launches : ~InCall(l) /\ ~Apart(l) /\ on[l] = None
    BY <1>1 DEF Init, InCall, Apart
  <2>2. Entered /\ Shown /\ Single
    BY <1>1, <2>1, DispatchedAssumption DEF Init, Entered, Shown, Single
  <2>3. Recorded
    BY <1>1 DEF Init, Recorded
  <2>4. QED
    BY <2>2, <2>3 DEF Guarded
<1>2. Typed /\ Guarded /\ [Next]_vars => Guarded'
  BY GuardedStep
<1>3. QED
  BY <1>1, <1>2, TypedAlways, PTL DEF Spec

\* Two live rollouts share a robot only if a launch that holds no lock was
\* admitted to it.
THEOREM OneRollout == Spec => []OneRolloutPerRobot
<1>1. ASSUME Guarded, NEW k \in Launches, NEW l \in Launches,
             Live(k), Live(l), on[k] = on[l], Ours(on[k])
      PROVE  k = l
  <2>1. (InCall(k) \/ Apart(k)) /\ (InCall(l) \/ Apart(l))
    BY <1>1 DEF Live, InCall, Apart
  <2>2. CASE InCall(k) /\ InCall(l)
    BY <1>1, <2>2 DEF Guarded, Entered, Ours, Unlocked
  <2>3. CASE Apart(k) /\ Apart(l)
    BY <1>1, <2>3 DEF Guarded, Shown
  <2>4. QED
    BY <1>1, <2>1, <2>2, <2>3 DEF Guarded, Single
<1>2. Guarded => OneRolloutPerRobot
  BY <1>1 DEF Ours, OneRolloutPerRobot
<1>3. QED
  BY <1>2, GuardedAlways, PTL

\* When every launch is an agent's, whoever launches holds the lock, and finds the
\* rollouts of other calls in the table.
Locked ==
  /\ \A l \in Launches : InCall(l) => lock = l
  /\ \A c \in Calls : at[c] = "swap" /\ target[c] = None => lock = c

Visible == \A l \in Launches : Apart(l) /\ Kept(on[l]) => table[on[l]] = l

Alone ==
  \A k, l \in Launches : InCall(k) /\ Apart(l) /\ on[k] = on[l] => ~Kept(on[l])

Exclusive == Locked /\ Recorded /\ Visible /\ Alone

\* A rollout that has been forgotten stays forgotten.
LEMMA KeptBefore ==
  ASSUME Exclusive, forgotten \subseteq forgotten', NEW r, Kept(r)',
         \A l \in Launches : call[l] = "returned" => on'[l] = on[l],
         forgotten \subseteq Launches
  PROVE  Kept(r)
BY DEF Exclusive, Recorded, Kept

LEMMA ExclusiveAlways ==
  ASSUME Dispatched = Launches
  PROVE  Spec => []Exclusive
<1>1. \A r : Ours(r) <=> Kept(r)
  BY DEF Ours, Unlocked
<1>2. Guarded => Exclusive
  BY <1>1 DEF Guarded, Entered, Shown, Single, Exclusive, Locked, Visible, Alone
<1>3. QED
  BY <1>2, GuardedAlways, PTL

-------------------------------------------------------------------------------
\* A stop reaches a rollout before or between its frames, keeps the flag down
\* and the claim outdated, and so one frame is left in each episode.
Bound(l) ==
  /\ stopped[l] = 0 => late[l] = 0
  /\ call[l] \in {"idle", "admitted"} => stopped[l] = 0
  /\ stopped[l] <= episode[l]
  /\ stopped[l] # 0 /\ Kept(on[l]) =>
       /\ late[l] <= episode[l] - stopped[l] + 1
       /\ ~Gone(l) /\ work[l] \in {"none", "queued", "setup", "loop"} =>
            late[l] <= episode[l] - stopped[l]
  /\ Live(l) /\ Kept(on[l]) /\ ~Gone(l) =>
       /\ claim[on[l]] # "none"
       /\ stopped[l] # 0 => ~flag[on[l]] /\ claim[on[l]] = "outdated"

Bounded == \A l \in Launches : Bound(l)

\* Nobody else launches or drives a rollout on the robot of one.
LEMMA Sole ==
  ASSUME Exclusive, NEW k \in Launches, NEW l \in Launches,
         Live(l), InCall(k) \/ Live(k), on[k] = on[l], Kept(on[l])
  PROVE  k = l
BY DEF Exclusive, Locked, Visible, Alone, InCall, Apart, Live

\* A step of others that leaves the robot of rollout m alone.
LEMMA BoundKept ==
  ASSUME Typed, NEW m \in Launches, Bound(m),
         on'[m] = on[m], work'[m] = work[m], episode'[m] = episode[m],
         late'[m] = late[m], stopped'[m] = stopped[m],
         Live(m)' => Live(m), Gone(m) => Gone(m)', Kept(on[m])' => Kept(on[m]),
         call'[m] \in {"idle", "admitted"} => call[m] \in {"idle", "admitted"},
         Live(m) /\ Kept(on[m]) /\ ~Gone(m)' =>
           /\ flag'[on[m]] => flag[on[m]]
           /\ claim[on[m]] # "none" => claim'[on[m]] # "none"
           /\ claim[on[m]] = "outdated" => claim'[on[m]] = "outdated"
  PROVE  Bound(m)'
BY DEF Bound

\* A stop of the robots rs.
LEMMA BoundStopped ==
  ASSUME Typed, NEW m \in Launches, Bound(m), NEW rs, RequestStop(rs),
         UNCHANGED <<world, robots, call, on, work, episode, late, forgotten>>
  PROVE  Bound(m)'
<1> USE DEF Typed, TypeOK
<1>1. /\ Live(m)' <=> Live(m)
      /\ Gone(m)' <=> Gone(m)
      /\ Kept(on[m])' <=> Kept(on[m])
  BY DEF Live, Gone, Kept
<1>2. Live(m) => on[m] \in Robots /\ call[m] \notin {"idle", "admitted"}
  BY DEF Live, Shapes
<1>3. CASE Live(m) /\ on[m] \in rs
  <2>1. /\ stopped'[m] = IF stopped[m] = 0 THEN episode[m] ELSE stopped[m]
        /\ ~flag'[on[m]] /\ claim'[on[m]] # "current"
        /\ claim[on[m]] # "none" => claim'[on[m]] = "outdated"
    BY <1>2, <1>3 DEF RequestStop
  <2>2. QED
    BY <1>1, <1>2, <1>3, <2>1 DEF Bound
<1>4. CASE ~(Live(m) /\ on[m] \in rs)
  <2>1. stopped'[m] = stopped[m]
    BY <1>4 DEF RequestStop
  <2>2. Live(m) => flag'[on[m]] = flag[on[m]] /\ claim'[on[m]] = claim[on[m]]
    BY <1>2, <1>4 DEF RequestStop
  <2>3. QED
    BY <1>1, <2>1, <2>2, BoundKept
<1>5. QED
  BY <1>3, <1>4

LEMMA BoundedStep ==
  Typed /\ Exclusive /\ Bounded /\ [Next]_vars => Bounded'
<1> SUFFICES ASSUME Typed, Exclusive, Bounded, [Next]_vars, NEW m \in Launches
             PROVE  Bound(m)'
  BY DEF Bounded
<1>0. Bound(m)
  BY DEF Bounded
<1> USE NoneAssumption DEF engine, launching, driving, calling, history, Typed, TypeOK
<1>1. ASSUME NEW l \in Launches, NEW r \in Robots, Admit(l, r) PROVE Bound(m)'
  <2>1. CASE m = l
    <3>1. /\ stopped[m] = 0 /\ late[m] = 0 /\ episode[m] >= 0
          /\ UNCHANGED <<stopped, late, episode>>
      BY <1>0, <1>1, <2>1 DEF Admit, Bound
    <3>2. call'[m] = "admitted"
      BY <1>1, <2>1 DEF Admit
    <3>3. QED
      BY <3>1, <3>2 DEF Bound, Live
  <2>2. CASE m # l
    <3>1. Kept(on[m])' => Kept(on[m])
      BY <1>1, <2>2 DEF Admit, Kept, Exclusive, Recorded
    <3>2. QED
      BY <1>0, <1>1, <2>2, <3>1, BoundKept DEF Admit, Live, Gone
  <2>3. QED
    BY <2>1, <2>2
<1>2. ASSUME NEW l \in Launches, NEW r \in Robots, Refuse(l, r) PROVE Bound(m)'
  <2>1. CASE m = l
    BY <1>0, <1>2, <2>1 DEF Refuse, Bound, Live
  <2>2. CASE m # l
    BY <1>0, <1>2, <2>2, BoundKept DEF Refuse, Live, Gone, Kept
  <2>3. QED
    BY <2>1, <2>2
<1>3. ASSUME NEW l \in Launches, Announce(l) PROVE Bound(m)'
  <2>1. CASE m = l
    BY <1>0, <1>3, <2>1 DEF Announce, Bound, Live, Gone, Kept, Shapes
  <2>2. CASE m # l
    <3>1. Live(m) /\ Kept(on[m]) => on[m] # on[l]
      BY <1>3, <2>2, Sole DEF Announce, InCall, Live, Shapes
    <3>2. Live(m) => on[m] \in Robots
      BY DEF Live, Shapes
    <3>3. /\ UNCHANGED <<world, robots, on, episode, late, stopped, forgotten>>
          /\ work'[m] = work[m] /\ call'[m] = call[m]
      BY <1>3, <2>2 DEF Announce
    <3>4. Live(m) /\ Kept(on[m]) => UNCHANGED <<flag[on[m]], claim[on[m]]>>
      BY <1>3, <3>1, <3>2 DEF Announce
    <3>5. QED
      BY <1>0, <3>3, <3>4, BoundKept DEF Live, Gone, Kept
  <2>3. QED
    BY <2>1, <2>2
<1>4. ASSUME NEW l \in Launches, Submit(l) PROVE Bound(m)'
  <2>1. CASE m = l
    BY <1>0, <1>4, <2>1 DEF Submit, Bound, Live, Gone, Kept, Shapes
  <2>2. CASE m # l
    BY <1>0, <1>4, <2>2, BoundKept DEF Submit, Left, Live, Gone, Kept
  <2>3. QED
    BY <2>1, <2>2
<1>5. ASSUME NEW l \in Launches, Record(l) PROVE Bound(m)'
  <2>1. CASE m = l
    BY <1>0, <1>5, <2>1 DEF Record, Bound, Live, Gone, Kept, Shapes
  <2>2. CASE m # l
    BY <1>0, <1>5, <2>2, BoundKept DEF Record, Left, Live, Gone, Kept
  <2>3. QED
    BY <2>1, <2>2
<1>6. ASSUME NEW l \in Launches, Begin(l) PROVE Bound(m)'
  <2>1. CASE m = l
    BY <1>0, <1>6, <2>1 DEF Begin, Goto, Bound, Live, Gone, Kept, Shapes
  <2>2. CASE m # l
    BY <1>0, <1>6, <2>2, BoundKept DEF Begin, Goto, Live, Gone, Kept
  <2>3. QED
    BY <2>1, <2>2
<1>7. ASSUME NEW l \in Launches, MakeHook(l) PROVE Bound(m)'
  <2>1. CASE m = l
    BY <1>0, <1>7, <2>1 DEF MakeHook, Goto, Bound, Live, Gone, Kept, Shapes
  <2>2. CASE m # l
    <3>1. Live(m) /\ Kept(on[m]) => on[m] # on[l]
      BY <1>7, <2>2, Sole DEF MakeHook, InCall, Live, Shapes
    <3>2. Live(m) => on[m] \in Robots
      BY DEF Live, Shapes
    <3>3. /\ UNCHANGED <<world, robots, on, episode, late, stopped, forgotten>>
          /\ work'[m] = work[m] /\ call'[m] = call[m]
      BY <1>7, <2>2 DEF MakeHook, Goto
    <3>4. Live(m) /\ Kept(on[m]) => UNCHANGED <<flag[on[m]], claim[on[m]]>>
      BY <1>7, <3>1, <3>2 DEF MakeHook
    <3>5. QED
      BY <1>0, <3>3, <3>4, BoundKept DEF Live, Gone, Kept
  <2>3. QED
    BY <2>1, <2>2
<1>8. ASSUME NEW l \in Launches, Frame(l) PROVE Bound(m)'
  <2>1. CASE m = l
    BY <1>0, <1>8, <2>1 DEF Frame, Goto, Bound, Live, Gone, Kept, Shapes
  <2>2. CASE m # l
    BY <1>0, <1>8, <2>2, BoundKept DEF Frame, Goto, Live, Gone, Kept
  <2>3. QED
    BY <2>1, <2>2
<1>9. ASSUME NEW l \in Launches, Check(l) PROVE Bound(m)'
  <2>1. CASE m = l
    BY <1>0, <1>9, <2>1 DEF Check, Goto, AfterEpisode, Bound, Live, Gone, Kept, Shapes
  <2>2. CASE m # l
    BY <1>0, <1>9, <2>2, BoundKept DEF Check, Goto, AfterEpisode, Live, Gone, Kept
  <2>3. QED
    BY <2>1, <2>2
<1>10. ASSUME NEW l \in Launches, Between(l) PROVE Bound(m)'
  <2>1. CASE m = l
    BY <1>0, <1>10, <2>1 DEF Between, Goto, NextEpisode, Bound, Live, Gone, Kept, Shapes
  <2>2. CASE m # l
    BY <1>0, <1>10, <2>2, BoundKept DEF Between, Goto, NextEpisode, Live, Gone, Kept
  <2>3. QED
    BY <2>1, <2>2
<1>11. ASSUME NEW l \in Launches, Reset(l) PROVE Bound(m)'
  <2>1. CASE m = l
    BY <1>0, <1>11, <2>1 DEF Reset, Goto, NextEpisode, Bound, Live, Gone, Kept, Shapes
  <2>2. CASE m # l
    BY <1>0, <1>11, <2>2, BoundKept DEF Reset, Goto, NextEpisode, Live, Gone, Kept
  <2>3. QED
    BY <2>1, <2>2
<1>12. ASSUME NEW l \in Launches, Release(l) PROVE Bound(m)'
  <2>1. CASE m = l
    BY <1>0, <1>12, <2>1 DEF Release, Goto, Bound, Live, Gone, Kept, Shapes
  <2>2. CASE m # l
    BY <1>0, <1>12, <2>2, BoundKept DEF Release, Goto, Live, Gone, Kept
  <2>3. QED
    BY <2>1, <2>2
<1>13. ASSUME NEW l \in Launches, Lower(l) PROVE Bound(m)'
  <2>1. CASE m = l
    BY <1>0, <1>13, <2>1 DEF Lower, Goto, Bound, Live, Gone, Kept, Shapes
  <2>2. CASE m # l
    <3>1. Live(m) /\ Kept(on[m]) => on[m] # on[l]
      BY <1>13, <2>2, Sole DEF Lower, InCall, Live, Shapes
    <3>2. Live(m) => on[m] \in Robots
      BY DEF Live, Shapes
    <3>3. /\ UNCHANGED <<world, robots, on, episode, late, stopped, forgotten>>
          /\ work'[m] = work[m] /\ call'[m] = call[m]
      BY <1>13, <2>2 DEF Lower, Goto, Left
    <3>4. Live(m) /\ Kept(on[m]) => UNCHANGED <<flag[on[m]], claim[on[m]]>>
      BY <1>13, <3>1, <3>2 DEF Lower
    <3>5. QED
      BY <1>0, <3>3, <3>4, BoundKept DEF Live, Gone, Kept
  <2>3. QED
    BY <2>1, <2>2
<1>14. ASSUME NEW c \in Calls, NEW r \in Robots, Stop(c, r) PROVE Bound(m)'
  BY <1>0, <1>14, BoundKept DEF Stop, Live, Gone, Kept
<1>15. ASSUME NEW c \in Calls, NEW r \in Robots, Remove(c, r) PROVE Bound(m)'
  <2>1. UNCHANGED <<flag, claim, stopped>> \/ RequestStop({r})
    BY <1>15 DEF Remove
  <2>2. UNCHANGED <<world, robots, call, on, work, episode, late, forgotten>>
    BY <1>15 DEF Remove
  <2>3. CASE UNCHANGED <<flag, claim, stopped>>
    BY <1>0, <2>2, <2>3, BoundKept DEF Live, Gone, Kept
  <2>4. CASE RequestStop({r})
    BY <1>0, <2>2, <2>4, BoundStopped
  <2>5. QED
    BY <2>1, <2>3, <2>4
<1>16. ASSUME NEW c \in Calls, StopAll(c) PROVE Bound(m)'
  BY <1>0, <1>16, BoundKept DEF StopAll, Live, Gone, Kept
<1>17. ASSUME NEW c \in Calls, Gate(c) PROVE Bound(m)'
  BY <1>0, <1>17, BoundKept DEF Gate, Live, Gone, Kept
<1>18. ASSUME NEW c \in Calls, Cleanup(c) PROVE Bound(m)'
  <2>1. UNCHANGED <<flag, claim, stopped>> \/ RequestStop(robots)
    BY <1>18 DEF Cleanup
  <2>2. UNCHANGED <<world, robots, call, on, work, episode, late, forgotten>>
    BY <1>18 DEF Cleanup
  <2>3. CASE UNCHANGED <<flag, claim, stopped>>
    BY <1>0, <2>2, <2>3, BoundKept DEF Live, Gone, Kept
  <2>4. CASE RequestStop(robots)
    BY <1>0, <2>2, <2>4, BoundStopped
  <2>5. QED
    BY <2>1, <2>3, <2>4
<1>19. ASSUME NEW c \in Calls, NextTarget(c) PROVE Bound(m)'
  BY <1>0, <1>19, BoundKept DEF NextTarget, Live, Gone, Kept
<1>20. ASSUME NEW c \in Calls, FlagAll(c) PROVE Bound(m)'
  BY <1>0, <1>20, BoundStopped DEF FlagAll
<1>21. ASSUME NEW c \in Calls, ReadActive(c) PROVE Bound(m)'
  BY <1>0, <1>21, BoundKept DEF ReadActive, Live, Gone, Kept
<1>22. ASSUME NEW c \in Calls, Request(c) PROVE Bound(m)'
  BY <1>0, <1>22, BoundStopped DEF Request
<1>23. ASSUME NEW c \in Calls, Answer(c) PROVE Bound(m)'
  BY <1>0, <1>23, BoundKept DEF Answer, Live, Gone, Kept
<1>24. ASSUME NEW c \in Calls, Swap(c) PROVE Bound(m)'
  BY <1>0, <1>24, BoundKept DEF Swap, Live, Gone, Kept
<1>25. ASSUME NEW c \in Calls, RemoveJoin(c) PROVE Bound(m)'
  BY <1>0, <1>25, BoundKept DEF RemoveJoin, Live, Gone, Kept
<1>26. ASSUME NEW c \in Calls, RemoveGate(c) PROVE Bound(m)'
  BY <1>0, <1>26, BoundKept DEF RemoveGate, Live, Gone, Kept
<1>27. ASSUME NEW c \in Calls, RemoveSwap(c) PROVE Bound(m)'
  BY <1>0, <1>27, BoundKept DEF RemoveSwap, Live, Gone, Kept
<1>28. ASSUME NEW c \in Calls, Drain(c) PROVE Bound(m)'
  BY <1>0, <1>28, BoundKept DEF Drain, Live, Gone, Kept
<1>29. ASSUME NEW c \in Calls, Handoff(c) PROVE Bound(m)'
  BY <1>0, <1>29, BoundKept DEF Handoff, Live, Gone, Kept
<1>30. CASE UNCHANGED vars
  BY <1>0, <1>30, BoundKept DEF vars, Live, Gone, Kept
<1>31. QED
  BY <1>1, <1>2, <1>3, <1>4, <1>5, <1>6, <1>7, <1>8, <1>9, <1>10, <1>11, <1>12,
     <1>13, <1>14, <1>15, <1>16, <1>17, <1>18, <1>19, <1>20, <1>21, <1>22, <1>23, <1>24,
     <1>25, <1>26, <1>27, <1>28, <1>29, <1>30 DEF Next, Launch, Drive, Call, Continue

\* A stop holds: one frame at most in the episode it fell into, and one in each
\* episode the rollout begins after it.
THEOREM StopsBound ==
  ASSUME Dispatched = Launches
  PROVE  Spec => []StopBoundsFrames
<1>1. Init => Bounded
  BY NoneAssumption DEF Init, Bounded, Bound, Live
<1>2. Typed /\ Exclusive /\ Bounded /\ [Next]_vars => Bounded'
  BY BoundedStep
<1>3. Bounded => StopBoundsFrames
  BY DEF Bounded, Bound, StopBoundsFrames
<1>4. QED
  BY <1>1, <1>2, <1>3, TypedAlways, ExclusiveAlways, PTL DEF Spec

-------------------------------------------------------------------------------
\* Nobody drives past a gate unless it was launched after it.
Overlap ==
  /\ \A c \in Calls, l \in Launches :
       at[c] = "swap" /\ Apart(l) /\ Kept(on[l]) => c \in after[l]
  /\ \A l \in overrun : call[l] = "returned" /\ ~Kept(on[l])

\* A step that opens no gate, launches nothing and swaps nothing.
LEMMA OverlapKept ==
  ASSUME Typed, Exclusive, Exclusive', Overlap,
         forgotten \subseteq forgotten', on' = on, after' = after, overrun' = overrun,
         \A c \in Calls : at'[c] = "swap" => at[c] = "swap",
         \A l \in Launches : Apart(l)' => Apart(l),
         \A l \in Launches : call[l] = "returned" => call'[l] = "returned"
  PROVE  Overlap'
<1>1. \A r : Kept(r)' => Kept(r)
  BY DEF Kept, Typed, TypeOK
<1>2. \A l \in Launches : Kept(on[l])' => Kept(on[l])
  BY <1>1 DEF Kept
<1>3. QED
  BY <1>2 DEF Overlap, Typed, TypeOK

LEMMA OverlapStep ==
  Typed /\ Exclusive /\ Exclusive' /\ Overlap /\ [Next]_vars => Overlap'
<1> SUFFICES ASSUME Typed, Exclusive, Exclusive', Overlap, [Next]_vars PROVE Overlap'
  OBVIOUS
<1> USE NoneAssumption DEF engine, launching, driving, calling, history, Typed, TypeOK
<1>1. ASSUME NEW l \in Launches, NEW r \in Robots, Admit(l, r) PROVE Overlap'
  <2>1. /\ call[l] = "idle" /\ call'[l] # "returned"
        /\ \A k \in Launches : k # l => call'[k] = call[k] /\ on'[k] = on[k]
        /\ UNCHANGED <<work, after, overrun, forgotten, at>>
    BY <1>1 DEF Admit
  <2>2. \A k \in Launches :
          /\ Apart(k)' <=> Apart(k)
          /\ call[k] = "returned" => k # l
    BY <2>1 DEF Apart
  <2>3. \A k \in Launches : k # l => (Kept(on[k])' <=> Kept(on[k]))
    BY <2>1 DEF Kept, Exclusive, Recorded
  <2>4. QED
    BY <2>1, <2>2, <2>3 DEF Overlap, Apart
<1>2. ASSUME NEW l \in Launches, NEW r \in Robots, Refuse(l, r) PROVE Overlap'
  <2>1. /\ call[l] = "idle" /\ call'[l] # "returned"
        /\ \A k \in Launches : k # l => call'[k] = call[k] /\ on'[k] = on[k]
        /\ UNCHANGED <<work, after, overrun, forgotten, at>>
    BY <1>2 DEF Refuse
  <2>2. \A k \in Launches :
          /\ Apart(k)' <=> Apart(k)
          /\ call[k] = "returned" => k # l
    BY <2>1 DEF Apart
  <2>3. \A k \in Launches : k # l => (Kept(on[k])' <=> Kept(on[k]))
    BY <2>1 DEF Kept, Exclusive, Recorded
  <2>4. QED
    BY <2>1, <2>2, <2>3 DEF Overlap, Apart
<1>3. ASSUME NEW l \in Launches, Announce(l) PROVE Overlap'
  <2>1. /\ call[l] = "admitted" /\ call'[l] # "returned"
        /\ \A k \in Launches : k # l => /\ call'[k] = call[k] /\ work'[k] = work[k]
                                     /\ after'[k] = after[k]
        /\ UNCHANGED <<on, overrun, forgotten, at>>
    BY <1>3 DEF Announce
  <2>2. \A k \in Launches :
          /\ Apart(k)' => Apart(k) /\ k # l
          /\ call[k] = "returned" => k # l
    BY <2>1 DEF Apart
  <2>3. \A k \in Launches : Kept(on[k])' <=> Kept(on[k])
    BY <2>1 DEF Kept
  <2>4. QED
    BY <2>1, <2>2, <2>3 DEF Overlap
<1>4. ASSUME NEW l \in Launches, Submit(l) PROVE Overlap'
  BY <1>4, OverlapKept DEF Submit, Left, Apart
<1>5. ASSUME NEW l \in Launches, Record(l) PROVE Overlap'
  <2>1. /\ call[l] = "submitted"
        /\ call' = [call EXCEPT ![l] = "returned"]
        /\ after' = [after EXCEPT ![l] = PastGate]
        /\ UNCHANGED <<on, work, overrun, forgotten, at>>
    BY <1>5 DEF Record
  <2>2. \A k \in Launches : Kept(on[k])' <=> Kept(on[k])
    BY <2>1 DEF Kept
  <2>3. \A k \in Launches : k # l => (Apart(k)' <=> Apart(k))
    BY <2>1 DEF Apart
  <2>4. ASSUME NEW c \in Calls, NEW k \in Launches,
               at'[c] = "swap", Apart(k)', Kept(on[k])'
        PROVE  c \in after'[k]
    <3>1. CASE k = l
      BY <2>1, <2>4, <3>1 DEF PastGate
    <3>2. CASE k # l
      BY <2>1, <2>2, <2>3, <2>4, <3>2 DEF Overlap
    <3>3. QED
      BY <3>1, <3>2
  <2>5. \A k \in overrun : call'[k] = "returned" /\ ~Kept(on[k])'
    BY <2>1 DEF Overlap, Kept
  <2>6. QED
    BY <2>1, <2>4, <2>5 DEF Overlap
<1>6. ASSUME NEW l \in Launches, Begin(l) PROVE Overlap'
  BY <1>6, OverlapKept DEF Begin, Goto, Apart
<1>7. ASSUME NEW l \in Launches, MakeHook(l) PROVE Overlap'
  BY <1>7, OverlapKept DEF MakeHook, Goto, Apart
<1>8. ASSUME NEW l \in Launches, Frame(l) PROVE Overlap'
  BY <1>8, OverlapKept DEF Frame, Goto, Apart
<1>9. ASSUME NEW l \in Launches, Check(l) PROVE Overlap'
  BY <1>9, OverlapKept DEF Check, Goto, AfterEpisode, Apart
<1>10. ASSUME NEW l \in Launches, Between(l) PROVE Overlap'
  BY <1>10, OverlapKept DEF Between, Goto, NextEpisode, Apart
<1>11. ASSUME NEW l \in Launches, Reset(l) PROVE Overlap'
  BY <1>11, OverlapKept DEF Reset, Goto, NextEpisode, Apart
<1>12. ASSUME NEW l \in Launches, Release(l) PROVE Overlap'
  BY <1>12, OverlapKept DEF Release, Goto, Apart
<1>13. ASSUME NEW l \in Launches, Lower(l) PROVE Overlap'
  BY <1>13, OverlapKept DEF Lower, Goto, Left, Apart
<1>14. ASSUME NEW c \in Calls, NEW r \in Robots, Stop(c, r) PROVE Overlap'
  BY <1>14, OverlapKept DEF Stop, To, Apart
<1>15. ASSUME NEW c \in Calls, NEW r \in Robots, Remove(c, r) PROVE Overlap'
  <2>1. /\ at' \in {[at EXCEPT ![c] = "gate"], [at EXCEPT ![c] = "leave"]}
        /\ UNCHANGED <<call, on, work, after, overrun, forgotten>>
    BY <1>15 DEF Remove, To
  <2>2. QED
    BY <2>1, OverlapKept DEF Apart
<1>16. ASSUME NEW c \in Calls, StopAll(c) PROVE Overlap'
  BY <1>16, OverlapKept DEF StopAll, To, Apart
<1>17. ASSUME NEW c \in Calls, Gate(c) PROVE Overlap'
  <2>1. /\ at' \in {at, [at EXCEPT ![c] = "swap"], [at EXCEPT ![c] = "done"]}
        /\ at'[c] = "swap" => Active = {}
        /\ UNCHANGED <<call, on, work, after, overrun, forgotten>>
    BY <1>17 DEF Gate, To
  <2>2. \A k \in Launches : Apart(k) /\ Kept(on[k]) => Active # {}
    <3> SUFFICES ASSUME NEW k \in Launches, Apart(k), Kept(on[k])
                 PROVE  on[k] \in Active
      OBVIOUS
    <3>1. table[on[k]] = k /\ on[k] \in Robots /\ work[k] # "done" /\ k # None
      BY DEF Exclusive, Visible, Shapes, Apart
    <3>2. Pruned[on[k]] = k
      BY <3>1, PrunedKeeps
    <3>3. QED
      BY <3>1, <3>2 DEF Active
  <2>3. ASSUME NEW d \in Calls, NEW k \in Launches,
               at'[d] = "swap", Apart(k)', Kept(on[k])'
        PROVE  d \in after'[k]
    <3>1. Apart(k) /\ Kept(on[k])
      BY <2>1, <2>3 DEF Apart, Kept
    <3>2. at[d] = "swap"
      BY <2>1, <2>2, <2>3, <3>1
    <3>3. QED
      BY <2>1, <3>1, <3>2 DEF Overlap
  <2>4. \A k \in overrun' : call'[k] = "returned" /\ ~Kept(on[k])'
    BY <2>1 DEF Overlap, Kept
  <2>5. QED
    BY <2>1, <2>3, <2>4 DEF Overlap, Apart, Kept
<1>18. ASSUME NEW c \in Calls, Cleanup(c) PROVE Overlap'
  BY <1>18, OverlapKept DEF Cleanup, To, RequestStop, Apart
<1>19. ASSUME NEW c \in Calls, NextTarget(c) PROVE Overlap'
  BY <1>19, OverlapKept DEF NextTarget, To, Apart
<1>20. ASSUME NEW c \in Calls, FlagAll(c) PROVE Overlap'
  BY <1>20, OverlapKept DEF FlagAll, To, RequestStop, Apart
<1>21. ASSUME NEW c \in Calls, ReadActive(c) PROVE Overlap'
  BY <1>21, OverlapKept DEF ReadActive, To, Apart
<1>22. ASSUME NEW c \in Calls, Request(c) PROVE Overlap'
  BY <1>22, OverlapKept DEF Request, To, RequestStop, Apart
<1>23. ASSUME NEW c \in Calls, Answer(c) PROVE Overlap'
  BY <1>23, OverlapKept DEF Answer, To, Apart
<1>24. ASSUME NEW c \in Calls, Swap(c) PROVE Overlap'
  <2>1. /\ at[c] = "swap" /\ at' = [at EXCEPT ![c] = "done"]
        /\ overrun' \subseteq overrun \cup Overrun(c)
        /\ UNCHANGED <<call, on, work, after, forgotten>>
    BY <1>24 DEF Swap, To
  <2>2. lock \notin Launches
    BY <1>24, CallsAssumption DEF Swap, Exclusive, Locked
  <2>3. \A k \in Launches : InLoop(k) => Apart(k)
    BY <2>2 DEF InLoop, Apart, InCall, Shapes, Exclusive, Locked
  <2>4. \A k \in Overrun(c) : call[k] = "returned" /\ ~Kept(on[k])
    BY <2>1, <2>3 DEF Overrun, Overlap, Apart
  <2>5. \A k \in overrun' : call'[k] = "returned" /\ ~Kept(on[k])'
    <3>1. \A k \in overrun \cup Overrun(c) : k \in Launches /\ call[k] = "returned" /\ ~Kept(on[k])
      BY <2>4, Subsets DEF Overlap
    <3>2. QED
      BY <2>1, <3>1 DEF Kept
  <2>6. \A d \in Calls : at'[d] = "swap" => at[d] = "swap"
    BY <2>1
  <2>7. QED
    BY <2>1, <2>5, <2>6 DEF Overlap, Apart, Kept
<1>25. ASSUME NEW c \in Calls, RemoveJoin(c) PROVE Overlap'
  BY <1>25, OverlapKept DEF RemoveJoin, To, Apart
<1>26. ASSUME NEW c \in Calls, RemoveGate(c) PROVE Overlap'
  <2>1. /\ at' \in {at, [at EXCEPT ![c] = "swap"], [at EXCEPT ![c] = "done"]}
        /\ at'[c] = "swap" => Active = {}
        /\ UNCHANGED <<call, on, work, after, overrun, forgotten>>
    BY <1>26 DEF RemoveGate, To
  <2>2. \A k \in Launches : Apart(k) /\ Kept(on[k]) => Active # {}
    <3> SUFFICES ASSUME NEW k \in Launches, Apart(k), Kept(on[k])
                 PROVE  on[k] \in Active
      OBVIOUS
    <3>1. table[on[k]] = k /\ on[k] \in Robots /\ work[k] # "done" /\ k # None
      BY DEF Exclusive, Visible, Shapes, Apart
    <3>2. Pruned[on[k]] = k
      BY <3>1, PrunedKeeps
    <3>3. QED
      BY <3>1, <3>2 DEF Active
  <2>3. ASSUME NEW d \in Calls, NEW k \in Launches,
               at'[d] = "swap", Apart(k)', Kept(on[k])'
        PROVE  d \in after'[k]
    <3>1. Apart(k) /\ Kept(on[k])
      BY <2>1, <2>3 DEF Apart, Kept
    <3>2. at[d] = "swap"
      BY <2>1, <2>2, <2>3, <3>1
    <3>3. QED
      BY <2>1, <3>1, <3>2 DEF Overlap
  <2>4. \A k \in overrun' : call'[k] = "returned" /\ ~Kept(on[k])'
    BY <2>1 DEF Overlap, Kept
  <2>5. QED
    BY <2>1, <2>3, <2>4 DEF Overlap, Apart, Kept
<1>27. ASSUME NEW c \in Calls, RemoveSwap(c) PROVE Overlap'
  <2>1. /\ at[c] = "swap" /\ at' = [at EXCEPT ![c] = "done"]
        /\ overrun' \subseteq overrun \cup Overrun(c)
        /\ UNCHANGED <<call, on, work, after, forgotten>>
    BY <1>27 DEF RemoveSwap, To
  <2>2. lock \notin Launches
    BY <1>27, CallsAssumption DEF RemoveSwap, Exclusive, Locked
  <2>3. \A k \in Launches : InLoop(k) => Apart(k)
    BY <2>2 DEF InLoop, Apart, InCall, Shapes, Exclusive, Locked
  <2>4. \A k \in Overrun(c) : call[k] = "returned" /\ ~Kept(on[k])
    BY <2>1, <2>3 DEF Overrun, Overlap, Apart
  <2>5. \A k \in overrun' : call'[k] = "returned" /\ ~Kept(on[k])'
    <3>1. \A k \in overrun \cup Overrun(c) : k \in Launches /\ call[k] = "returned" /\ ~Kept(on[k])
      BY <2>4, Subsets DEF Overlap
    <3>2. QED
      BY <2>1, <3>1 DEF Kept
  <2>6. \A d \in Calls : at'[d] = "swap" => at[d] = "swap"
    BY <2>1
  <2>7. QED
    BY <2>1, <2>5, <2>6 DEF Overlap, Apart, Kept
<1>28. ASSUME NEW c \in Calls, Drain(c) PROVE Overlap'
  BY <1>28, OverlapKept DEF Drain, To, Apart
<1>29. ASSUME NEW c \in Calls, Handoff(c) PROVE Overlap'
  BY <1>29, OverlapKept DEF Handoff, To, Apart
<1>30. CASE UNCHANGED vars
  BY <1>30, OverlapKept DEF vars, Apart
<1>31. QED
  BY <1>1, <1>2, <1>3, <1>4, <1>5, <1>6, <1>7, <1>8, <1>9, <1>10, <1>11, <1>12,
     <1>13, <1>14, <1>15, <1>16, <1>17, <1>18, <1>19, <1>20, <1>21, <1>22, <1>23, <1>24,
     <1>25, <1>26, <1>27, <1>28, <1>29, <1>30 DEF Next, Launch, Drive, Call, Continue

\* The model is never swapped under a rollout that was launched before the
\* swapping call passed its gate.
THEOREM SwapWaits ==
  ASSUME Dispatched = Launches
  PROVE  Spec => []SwapWaitsForRollouts
<1>1. Init => Overlap
  BY DEF Init, Overlap, Apart
<1>2. Overlap => SwapWaitsForRollouts
  BY DEF Overlap, SwapWaitsForRollouts
<1>3. QED
  BY <1>1, <1>2, TypedAlways, ExclusiveAlways, OverlapStep, PTL DEF Spec

-------------------------------------------------------------------------------
\* A run_policy that takes several episodes resets the world between them, and
\* has found that nobody else drives: it holds the lock, so nobody launches.
Episodic ==
  \A l \in Launches :
    /\ work[l] \in {"between", "reset"} => Kind[l] = "run"
    /\ Kind[l] = "run" => call[l] \notin {"announced", "submitted"} /\ ~Apart(l)

Quiet ==
  \A k, l \in Launches : work[k] = "reset" /\ Live(l) /\ Kept(on[l]) => l = k

LEMMA EpisodicStep == Typed /\ Episodic /\ [Next]_vars => Episodic'
<1> SUFFICES ASSUME Typed, Episodic, [Next]_vars PROVE Episodic'
  OBVIOUS
<1> USE DEF engine, launching, driving, calling, history, Typed, TypeOK, Episodic, Apart
<1>1. ASSUME NEW l \in Launches, NEW r \in Robots, Admit(l, r) PROVE Episodic'
  BY <1>1 DEF Admit
<1>2. ASSUME NEW l \in Launches, NEW r \in Robots, Refuse(l, r) PROVE Episodic'
  BY <1>2 DEF Refuse
<1>3. ASSUME NEW l \in Launches, Announce(l) PROVE Episodic'
  BY <1>3 DEF Announce
<1>4. ASSUME NEW l \in Launches, Submit(l) PROVE Episodic'
  BY <1>4 DEF Submit
<1>5. ASSUME NEW l \in Launches, Record(l) PROVE Episodic'
  BY <1>5 DEF Record
<1>6. ASSUME NEW l \in Launches, Drive(l) PROVE Episodic'
  <2>1. Kind[l] = "run" \/ work'[l] \notin {"between", "reset"}
    BY <1>6 DEF Drive, Begin, MakeHook, Frame, Check, AfterEpisode, Between, NextEpisode,
                Reset, Release, Lower, Goto
  <2>2. /\ work[l] # "done" /\ work[l] # "none"
        /\ call' = call \/ (call' = [call EXCEPT ![l] = "returned"] /\ work'[l] = "done")
        /\ \A k \in Launches : k # l => work'[k] = work[k]
    BY <1>6 DEF Drive, Begin, MakeHook, Frame, Check, AfterEpisode, Between, NextEpisode,
                Reset, Release, Lower, Goto
  <2>3. QED
    BY <2>1, <2>2
<1>7. ASSUME NEW c \in Calls, Call(c) \/ Continue(c) \/ RemoveSwap(c) PROVE Episodic'
  <2>1. UNCHANGED <<call, work>>
    BY <1>7 DEF Call, Stop, Remove, StopAll, Gate, Cleanup, Continue, NextTarget, FlagAll,
                ReadActive, Request, Answer, Swap, RemoveJoin, RemoveGate, Drain, Handoff,
                RemoveSwap
  <2>2. QED
    BY <2>1
<1>8. CASE UNCHANGED vars
  BY <1>8 DEF vars
<1>9. QED
  BY <1>1, <1>2, <1>3, <1>4, <1>5, <1>6, <1>7, <1>8 DEF Next, Launch

\* Whoever is between two episodes is a call that has not returned.
LEMMA ResetterIsInCall ==
  ASSUME Typed, Exclusive, Episodic, NEW k \in Launches, work[k] \in {"between", "reset"}
  PROVE  InCall(k) /\ lock = k
BY DEF Typed, Shapes, Exclusive, Locked, Episodic, Apart, InCall

\* A step that launches nothing and begins no reset.
LEMMA QuietKept ==
  ASSUME Typed, Exclusive, Quiet, forgotten \subseteq forgotten',
         \A l \in Launches : Live(l)' => Live(l) /\ on'[l] = on[l],
         \A l \in Launches : call[l] = "returned" => on'[l] = on[l],
         \A l \in Launches : work'[l] = "reset" => work[l] = "reset"
  PROVE  Quiet'
<1> SUFFICES ASSUME NEW k \in Launches, NEW l \in Launches,
                    work'[k] = "reset", Live(l)', Kept(on[l])'
             PROVE  l = k
  BY DEF Quiet
<1>1. Kept(on[l])
  BY DEF Kept, Exclusive, Recorded, Typed, TypeOK
<1>2. QED
  BY <1>1 DEF Quiet

LEMMA QuietStep ==
  Typed /\ Clean /\ Exclusive /\ Episodic /\ Quiet /\ [Next]_vars => Quiet'
<1> SUFFICES ASSUME Typed, Clean, Exclusive, Episodic, Quiet, [Next]_vars PROVE Quiet'
  OBVIOUS
<1> USE NoneAssumption DEF engine, launching, driving, calling, history, Typed, TypeOK
<1>1. ASSUME NEW l \in Launches, NEW r \in Robots, Admit(l, r) PROVE Quiet'
  BY <1>1, QuietKept DEF Admit, Live
<1>2. ASSUME NEW l \in Launches, NEW r \in Robots, Refuse(l, r) PROVE Quiet'
  BY <1>2, QuietKept DEF Refuse, Live
<1>3. ASSUME NEW l \in Launches, Announce(l) PROVE Quiet'
  <2>1. lock = l /\ work[l] = "none"
    BY <1>3 DEF Announce, Exclusive, Locked, InCall, Shapes
  <2>2. \A k \in Launches : work[k] # "reset"
    BY <2>1, ResetterIsInCall
  <2>3. \A k \in Launches : work'[k] # "reset"
    BY <1>3, <2>2 DEF Announce
  <2>4. QED
    BY <2>3 DEF Quiet
<1>4. ASSUME NEW l \in Launches, Submit(l) PROVE Quiet'
  BY <1>4, QuietKept DEF Submit, Live, Shapes
<1>5. ASSUME NEW l \in Launches, Record(l) PROVE Quiet'
  BY <1>5, QuietKept DEF Record, Live
<1>6. ASSUME NEW l \in Launches, Between(l) PROVE Quiet'
  <2>1. /\ UNCHANGED <<call, on, forgotten>>
        /\ \A k \in Launches : k # l => work'[k] = work[k]
        /\ work[l] = "between" /\ work'[l] # "done"
    BY <1>6 DEF Between, NextEpisode, Goto
  <2>2. InCall(l) /\ lock = l
    BY <2>1, ResetterIsInCall
  <2>3. CASE work'[l] # "reset"
    BY <2>1, <2>3, QuietKept DEF Live
  <2>4. CASE work'[l] = "reset"
    <3>1. DrivenByOthers(l) = {}
      BY <1>6, <2>4 DEF Between, NextEpisode, Goto
    <3>2. ASSUME NEW m \in Launches, Live(m), Kept(on[m]), m # l PROVE FALSE
      <4>1. Apart(m)
        BY <2>2, <3>2 DEF Live, Apart, Exclusive, Locked, InCall
      <4>2. table[on[m]] = m /\ on[m] \in Robots /\ work[m] # "done" /\ m # None
        BY <3>2, <4>1 DEF Exclusive, Visible, Shapes, Apart
      <4>3. Pruned[on[m]] = m
        BY <4>2, PrunedKeeps
      <4>4. driver[on[m]] = l
        BY <3>1, <4>2, <4>3 DEF DrivenByOthers, Active
      <4>5. on[l] = on[m]
        BY <4>2, <4>4 DEF Clean
      <4>6. QED
        BY <2>2, <3>2, <4>1, <4>5 DEF Exclusive, Alone
    <3>3. \A k \in Launches : work'[k] = "reset" => k = l
      BY <2>1, <2>2, ResetterIsInCall
    <3>4. \A m \in Launches : /\ Live(m)' => Live(m)
                              /\ Kept(on[m])' => Kept(on[m])
      BY <2>1 DEF Live, Kept
    <3>5. QED
      BY <2>1, <3>2, <3>3, <3>4 DEF Quiet
  <2>5. QED
    BY <2>3, <2>4
<1>7. ASSUME NEW l \in Launches, Drive(l), ~Between(l) PROVE Quiet'
  <2>1. /\ UNCHANGED <<on, forgotten>>
        /\ work'[l] # "reset"
        /\ \A k \in Launches : k # l => work'[k] = work[k] /\ call'[k] = call[k]
        /\ call'[l] = call[l] \/ (call'[l] = "returned" /\ work'[l] = "done")
        /\ work[l] # "done"
    BY <1>7 DEF Drive, Begin, MakeHook, Frame, Check, AfterEpisode, NextEpisode,
                Reset, Release, Lower, Goto
  <2>2. QED
    BY <2>1, QuietKept DEF Live
<1>8. ASSUME NEW c \in Calls, Call(c) \/ Continue(c) \/ RemoveSwap(c) PROVE Quiet'
  <2>1. UNCHANGED <<call, on, work>> /\ forgotten \subseteq forgotten'
    BY <1>8 DEF Call, Stop, Remove, StopAll, Gate, Cleanup, Continue, NextTarget, FlagAll,
                ReadActive, Request, Answer, Swap, RemoveJoin, RemoveGate, Drain, Handoff,
                RemoveSwap
  <2>2. QED
    BY <2>1, QuietKept DEF Live
<1>9. CASE UNCHANGED vars
  BY <1>9, QuietKept DEF vars, Live
<1>10. QED
  BY <1>1, <1>2, <1>3, <1>4, <1>5, <1>6, <1>7, <1>8, <1>9 DEF Next, Launch, Drive

-------------------------------------------------------------------------------
\* The flag and the claim of a rollout that no stop has reached are up; only
\* between two episodes, after its own reset, the flag is down.
Up(l) ==
  Live(l) /\ Kept(on[l]) /\ ~Gone(l) /\ stopped[l] = 0 =>
    /\ claim[on[l]] = "current"
    /\ flag[on[l]] \/ (work[l] = "setup" /\ episode[l] > 1)

AllUp == \A l \in Launches : Up(l)

\* A step of others that leaves the robot of rollout m alone.
LEMMA UpKept ==
  ASSUME NEW m \in Launches, Up(m),
         on'[m] = on[m], work'[m] = work[m], episode'[m] = episode[m],
         Live(m)' => Live(m), Gone(m) => Gone(m)', Kept(on[m])' => Kept(on[m]),
         stopped'[m] = 0 => stopped[m] = 0,
         Live(m) /\ Kept(on[m]) /\ stopped'[m] = 0 =>
           claim'[on[m]] = claim[on[m]] /\ flag'[on[m]] = flag[on[m]]
  PROVE  Up(m)'
BY DEF Up

\* A stop of the robots rs.
LEMMA UpStopped ==
  ASSUME Typed, NEW m \in Launches, Up(m), NEW rs, RequestStop(rs),
         UNCHANGED <<world, robots, call, on, work, episode, forgotten>>
  PROVE  Up(m)'
<1> USE DEF Typed, TypeOK
<1>1. /\ Live(m)' <=> Live(m)
      /\ Gone(m)' <=> Gone(m)
      /\ Kept(on[m])' <=> Kept(on[m])
  BY DEF Live, Gone, Kept
<1>2. Live(m) => on[m] \in Robots
  BY DEF Live, Shapes
<1>3. /\ stopped'[m] = 0 => stopped[m] = 0
      /\ Live(m) /\ stopped'[m] = 0 => on[m] \notin rs
  BY DEF RequestStop
<1>4. Live(m) /\ on[m] \notin rs => claim'[on[m]] = claim[on[m]] /\ flag'[on[m]] = flag[on[m]]
  BY <1>2 DEF RequestStop
<1>5. QED
  BY <1>1, <1>3, <1>4, UpKept

LEMMA UpStep ==
  Typed /\ Exclusive /\ Quiet /\ AllUp /\ [Next]_vars => AllUp'
<1> SUFFICES ASSUME Typed, Exclusive, Quiet, AllUp, [Next]_vars, NEW m \in Launches
             PROVE  Up(m)'
  BY DEF AllUp
<1>0. Up(m)
  BY DEF AllUp
<1> USE NoneAssumption DEF engine, launching, driving, calling, history, Typed, TypeOK
<1>1. ASSUME NEW l \in Launches, NEW r \in Robots, Admit(l, r) PROVE Up(m)'
  <2>1. CASE m = l
    BY <1>1, <2>1 DEF Admit, Up, Live
  <2>2. CASE m # l
    <3>1. Kept(on[m])' => Kept(on[m])
      BY <1>1, <2>2 DEF Admit, Kept, Exclusive, Recorded
    <3>2. QED
      BY <1>0, <1>1, <2>2, <3>1, UpKept DEF Admit, Live, Gone
  <2>3. QED
    BY <2>1, <2>2
<1>2. ASSUME NEW l \in Launches, NEW r \in Robots, Refuse(l, r) PROVE Up(m)'
  <2>1. CASE m = l
    BY <1>2, <2>1 DEF Refuse, Up, Live
  <2>2. CASE m # l
    BY <1>0, <1>2, <2>2, UpKept DEF Refuse, Live, Gone, Kept
  <2>3. QED
    BY <2>1, <2>2
<1>3. ASSUME NEW l \in Launches, Announce(l) PROVE Up(m)'
  <2>1. CASE m = l
    BY <1>3, <2>1 DEF Announce, Up, Live, Gone, Shapes
  <2>2. CASE m # l
    <3>1. Live(m) /\ Kept(on[m]) => on[m] # on[l]
      BY <1>3, <2>2, Sole DEF Announce, InCall, Live, Shapes
    <3>2. Live(m) => on[m] \in Robots
      BY DEF Live, Shapes
    <3>3. /\ UNCHANGED <<world, robots, on, episode, stopped, forgotten>>
          /\ work'[m] = work[m] /\ call'[m] = call[m]
      BY <1>3, <2>2 DEF Announce
    <3>4. Live(m) /\ Kept(on[m]) => UNCHANGED <<flag[on[m]], claim[on[m]]>>
      BY <1>3, <3>1, <3>2, <3>3 DEF Announce
    <3>5. QED
      BY <1>0, <3>3, <3>4, UpKept DEF Live, Gone, Kept
  <2>3. QED
    BY <2>1, <2>2
<1>4. ASSUME NEW l \in Launches, Submit(l) PROVE Up(m)'
  <2>1. CASE m = l
    BY <1>0, <1>4, <2>1 DEF Submit, Up, Live, Gone, Kept, Shapes
  <2>2. CASE m # l
    BY <1>0, <1>4, <2>2, UpKept DEF Submit, Left, Live, Gone, Kept
  <2>3. QED
    BY <2>1, <2>2
<1>5. ASSUME NEW l \in Launches, Record(l) PROVE Up(m)'
  <2>1. CASE m = l
    BY <1>0, <1>5, <2>1 DEF Record, Up, Live, Gone, Kept, Shapes
  <2>2. CASE m # l
    BY <1>0, <1>5, <2>2, UpKept DEF Record, Left, Live, Gone, Kept
  <2>3. QED
    BY <2>1, <2>2
<1>6. ASSUME NEW l \in Launches, Begin(l) PROVE Up(m)'
  <2>1. CASE m = l
    BY <1>0, <1>6, <2>1 DEF Begin, Goto, Up, Live, Gone, Kept, Shapes
  <2>2. CASE m # l
    BY <1>0, <1>6, <2>2, UpKept DEF Begin, Goto, Live, Gone, Kept
  <2>3. QED
    BY <2>1, <2>2
<1>7. ASSUME NEW l \in Launches, MakeHook(l) PROVE Up(m)'
  <2>1. CASE m = l
    <3>1. Live(m) /\ on[m] \in Robots
      BY <1>7, <2>1 DEF MakeHook, Live, Shapes
    <3>2. CASE Gone(m)
      BY <1>7, <3>2 DEF MakeHook, Up, Gone
    <3>3. CASE ~Gone(m)
      <4>1. /\ flag' = [flag EXCEPT ![on[m]] = flag[on[m]] \/ claim[on[m]] # "outdated"]
            /\ UNCHANGED <<world, robots, claim, on, call, stopped, forgotten>>
        BY <1>7, <2>1, <3>3 DEF MakeHook
      <4>2. Kept(on[m])' <=> Kept(on[m])
        BY <4>1 DEF Kept
      <4>3. Kept(on[m]) /\ stopped[m] = 0 => claim[on[m]] = "current"
        BY <1>0, <3>1, <3>3 DEF Up
      <4>4. claim[on[m]] = "current" => flag'[on[m]]
        BY <3>1, <4>1
      <4>5. QED
        BY <4>1, <4>2, <4>3, <4>4 DEF Up
    <3>4. QED
      BY <3>2, <3>3
  <2>2. CASE m # l
    <3>1. Live(m) /\ Kept(on[m]) => on[m] # on[l]
      BY <1>7, <2>2, Sole DEF MakeHook, InCall, Live, Shapes
    <3>2. Live(m) => on[m] \in Robots
      BY DEF Live, Shapes
    <3>3. /\ UNCHANGED <<world, robots, on, episode, stopped, forgotten>>
          /\ work'[m] = work[m] /\ call'[m] = call[m]
      BY <1>7, <2>2 DEF MakeHook, Goto
    <3>4. Live(m) /\ Kept(on[m]) => UNCHANGED <<flag[on[m]], claim[on[m]]>>
      BY <1>7, <3>1, <3>2, <3>3 DEF MakeHook
    <3>5. QED
      BY <1>0, <3>3, <3>4, UpKept DEF Live, Gone, Kept
  <2>3. QED
    BY <2>1, <2>2
<1>8. ASSUME NEW l \in Launches, Frame(l) PROVE Up(m)'
  <2>1. CASE m = l
    BY <1>0, <1>8, <2>1 DEF Frame, Goto, Up, Live, Gone, Kept, Shapes
  <2>2. CASE m # l
    BY <1>0, <1>8, <2>2, UpKept DEF Frame, Goto, Live, Gone, Kept
  <2>3. QED
    BY <2>1, <2>2
<1>9. ASSUME NEW l \in Launches, Check(l) PROVE Up(m)'
  <2>1. CASE m = l
    BY <1>0, <1>9, <2>1 DEF Check, Goto, AfterEpisode, Up, Live, Gone, Kept, Shapes
  <2>2. CASE m # l
    BY <1>0, <1>9, <2>2, UpKept DEF Check, Goto, AfterEpisode, Live, Gone, Kept
  <2>3. QED
    BY <2>1, <2>2
<1>10. ASSUME NEW l \in Launches, Between(l) PROVE Up(m)'
  <2>1. CASE m = l
    BY <1>0, <1>10, <2>1 DEF Between, Goto, NextEpisode, Up, Live, Gone, Kept, Shapes
  <2>2. CASE m # l
    BY <1>0, <1>10, <2>2, UpKept DEF Between, Goto, NextEpisode, Live, Gone, Kept
  <2>3. QED
    BY <2>1, <2>2
<1>11. ASSUME NEW l \in Launches, Reset(l) PROVE Up(m)'
  <2>1. CASE m = l
    BY <1>0, <1>11, <2>1 DEF Reset, Goto, NextEpisode, Up, Live, Gone, Kept, Shapes
  <2>2. CASE m # l
    <3>1. ~(Live(m) /\ Kept(on[m]))
      BY <1>11, <2>2 DEF Reset, Quiet
    <3>2. QED
      BY <1>0, <1>11, <2>2, <3>1, UpKept DEF Reset, Goto, NextEpisode, Live, Gone, Kept
  <2>3. QED
    BY <2>1, <2>2
<1>12. ASSUME NEW l \in Launches, Release(l) PROVE Up(m)'
  <2>1. CASE m = l
    BY <1>0, <1>12, <2>1 DEF Release, Goto, Up, Live, Gone, Kept, Shapes
  <2>2. CASE m # l
    BY <1>0, <1>12, <2>2, UpKept DEF Release, Goto, Live, Gone, Kept
  <2>3. QED
    BY <2>1, <2>2
<1>13. ASSUME NEW l \in Launches, Lower(l) PROVE Up(m)'
  <2>1. CASE m = l
    BY <1>13, <2>1 DEF Lower, Goto, Up, Live
  <2>2. CASE m # l
    <3>1. Live(m) /\ Kept(on[m]) => on[m] # on[l]
      BY <1>13, <2>2, Sole DEF Lower, InCall, Live, Shapes
    <3>2. Live(m) => on[m] \in Robots
      BY DEF Live, Shapes
    <3>3. /\ UNCHANGED <<world, robots, on, episode, stopped, forgotten>>
          /\ work'[m] = work[m] /\ call'[m] = call[m]
      BY <1>13, <2>2 DEF Lower, Goto, Left
    <3>4. Live(m) /\ Kept(on[m]) => UNCHANGED <<flag[on[m]], claim[on[m]]>>
      BY <1>13, <3>1, <3>2, <3>3 DEF Lower
    <3>5. QED
      BY <1>0, <3>3, <3>4, UpKept DEF Live, Gone, Kept
  <2>3. QED
    BY <2>1, <2>2
<1>14. ASSUME NEW c \in Calls,
              NextTarget(c) \/ ReadActive(c) \/ Answer(c) \/ Swap(c) \/ RemoveJoin(c)
                \/ RemoveGate(c) \/ RemoveSwap(c) \/ Drain(c) \/ Handoff(c)
                \/ StopAll(c) \/ Gate(c) \/ \E r \in Robots : Stop(c, r)
       PROVE  Up(m)'
  <2>1. /\ UNCHANGED <<flag, claim, stopped, call, on, work, episode>>
        /\ forgotten \subseteq forgotten' /\ robots' \subseteq robots /\ (world' => world)
    BY <1>14 DEF NextTarget, ReadActive, Answer, Swap, RemoveJoin, RemoveGate, RemoveSwap,
                 Drain, Handoff, StopAll, Gate, Stop
  <2>2. QED
    BY <1>0, <2>1, UpKept DEF Live, Gone, Kept
<1>15. ASSUME NEW c \in Calls, NEW r \in Robots, Remove(c, r) PROVE Up(m)'
  <2>1. UNCHANGED <<flag, claim, stopped>> \/ RequestStop({r})
    BY <1>15 DEF Remove
  <2>2. UNCHANGED <<world, robots, call, on, work, episode, forgotten>>
    BY <1>15 DEF Remove
  <2>3. CASE UNCHANGED <<flag, claim, stopped>>
    BY <1>0, <2>2, <2>3, UpKept DEF Live, Gone, Kept
  <2>4. CASE RequestStop({r})
    BY <1>0, <2>2, <2>4, UpStopped
  <2>5. QED
    BY <2>1, <2>3, <2>4
<1>16. ASSUME NEW c \in Calls, Cleanup(c) PROVE Up(m)'
  <2>1. UNCHANGED <<flag, claim, stopped>> \/ RequestStop(robots)
    BY <1>16 DEF Cleanup
  <2>2. UNCHANGED <<world, robots, call, on, work, episode, forgotten>>
    BY <1>16 DEF Cleanup
  <2>3. CASE UNCHANGED <<flag, claim, stopped>>
    BY <1>0, <2>2, <2>3, UpKept DEF Live, Gone, Kept
  <2>4. CASE RequestStop(robots)
    BY <1>0, <2>2, <2>4, UpStopped
  <2>5. QED
    BY <2>1, <2>3, <2>4
<1>17. ASSUME NEW c \in Calls, FlagAll(c) PROVE Up(m)'
  BY <1>0, <1>17, UpStopped DEF FlagAll
<1>18. ASSUME NEW c \in Calls, Request(c) PROVE Up(m)'
  BY <1>0, <1>18, UpStopped DEF Request
<1>19. CASE UNCHANGED vars
  BY <1>0, <1>19, UpKept DEF vars, Live, Gone, Kept
<1>20. QED
  BY <1>1, <1>2, <1>3, <1>4, <1>5, <1>6, <1>7, <1>8, <1>9, <1>10, <1>11, <1>12,
     <1>13, <1>14, <1>15, <1>16, <1>17, <1>18, <1>19 DEF Next, Launch, Drive, Call, Continue

-------------------------------------------------------------------------------
\* Call c has yet to turn to robot r, or to request its stop.
Awaits(c, r) ==
  \/ at[c] \in {"next", "read", "request", "join"} /\ r \in todo[c]
  \/ at[c] \in {"read", "request"} /\ target[c] = r

\* Call c will answer that robot r was running.
Names(c, r) == at[c] \in {"request", "join"} /\ target[c] = r /\ found[c]

\* An answer that names r is under way: the evidence is in a call's was_running,
\* or in the record of the pre-pass, which the call that takes it will read.
Reported(r) ==
  \/ preStopped[r] # None /\ \E c \in Calls : Awaits(c, r)
  \/ \E c \in Calls : Names(c, r)

Owing ==
  \A l \in owed :
    /\ call[l] # "idle" /\ on[l] \in Robots
    /\ Kept(on[l]) => Reported(on[l])

\* A step after which the same calls have evidence of robot r.
LEMMA ReportedKept ==
  ASSUME NEW r,
         preStopped[r] # None => preStopped'[r] # None,
         \A c \in Calls : Awaits(c, r) => Awaits(c, r)',
         \A c \in Calls : Names(c, r) => Names(c, r)'
  PROVE  Reported(r) => Reported(r)'
BY DEF Reported

\* A step that halts nothing, and drops what it takes the evidence of.
LEMMA OwingKept ==
  ASSUME Typed, Exclusive, Owing, owed' \subseteq owed, forgotten \subseteq forgotten',
         \A l \in Launches : call[l] # "idle" => call'[l] # "idle" /\ on'[l] = on[l],
         \A r \in Robots : Kept(r)' /\ (\E l \in owed' : on[l] = r) =>
                             (Reported(r) => Reported(r)')
  PROVE  Owing'
<1> SUFFICES ASSUME NEW l \in owed'
             PROVE  /\ call'[l] # "idle" /\ on'[l] \in Robots
                    /\ Kept(on[l])' => Reported(on[l])'
  BY DEF Owing
<1>1. /\ l \in Launches /\ l \in owed /\ call[l] # "idle" /\ on[l] \in Robots
      /\ call'[l] # "idle" /\ on'[l] = on[l]
  BY DEF Owing, Typed, TypeOK
<1>2. PICK r \in Robots : r = on[l] /\ r = on'[l]
  BY <1>1
<1>3. ASSUME Kept(r)' PROVE Reported(r)'
  <2>1. Kept(r)
    <3>1. \A k \in Launches : call[k] = "returned" => on'[k] = on[k]
      OBVIOUS
    <3>2. QED
      BY <1>3, <3>1, KeptBefore DEF Typed, TypeOK
  <2>2. Reported(r)
    BY <1>1, <1>2, <2>1 DEF Owing
  <2>3. QED
    BY <1>1, <1>2, <1>3, <2>2
<1>4. QED
  BY <1>1, <1>2, <1>3

\* A step of a launch or of a rollout.
LEMMA OwingDriven ==
  ASSUME Typed, Exclusive, Owing, UNCHANGED <<owed, forgotten, preStopped, calling>>,
         \A l \in Launches : call[l] # "idle" => call'[l] # "idle" /\ on'[l] = on[l]
  PROVE  Owing'
<1>1. \A r \in Robots : Reported(r) => Reported(r)'
  BY DEF Reported, Awaits, Names, calling
<1>2. QED
  BY <1>1, OwingKept

\* A step of call c, which has no robot to answer for and leaves the record of
\* the pre-pass alone.
LEMMA OwingBeside ==
  ASSUME Typed, Exclusive, Owing, NEW c \in Calls,
         at[c] \notin {"next", "read", "request", "join"},
         \A d \in Calls : d # c => /\ at'[d] = at[d] /\ target'[d] = target[d]
                                   /\ todo'[d] = todo[d] /\ found'[d] = found[d],
         UNCHANGED <<preStopped, call, on>>,
         owed' \subseteq owed, forgotten \subseteq forgotten'
  PROVE  Owing'
<1>1. \A r, d : d \in Calls /\ Awaits(d, r) => Awaits(d, r)'
  BY DEF Awaits
<1>2. \A r, d : d \in Calls /\ Names(d, r) => Names(d, r)'
  BY DEF Names
<1>3. \A r \in Robots : Reported(r) => Reported(r)'
  BY <1>1, <1>2 DEF Reported
<1>4. QED
  BY <1>3, OwingKept

LEMMA OwingStep ==
  Typed /\ Typed' /\ Exclusive /\ Exclusive' /\ AllUp /\ Owing /\ [Next]_vars => Owing'
<1> SUFFICES ASSUME Typed, Typed', Exclusive, Exclusive', AllUp, Owing, [Next]_vars
             PROVE  Owing'
  OBVIOUS
<1> USE NoneAssumption DEF engine, launching, driving, calling, history, Typed, TypeOK
<1>1. ASSUME NEW l \in Launches, Launch(l) \/ Drive(l) PROVE Owing'
  <2>1. ASSUME NEW r \in Robots, Admit(l, r) \/ Refuse(l, r) PROVE Owing'
    BY <2>1, OwingDriven DEF Admit, Refuse
  <2>2. ASSUME Announce(l) \/ Submit(l) \/ Record(l) PROVE Owing'
    BY <2>2, OwingDriven DEF Announce, Submit, Record
  <2>3. ASSUME Drive(l) PROVE Owing'
    <3>1. /\ UNCHANGED <<owed, forgotten, preStopped, calling, on>>
          /\ call' = call \/ call' = [call EXCEPT ![l] = "returned"]
      BY <2>3 DEF Drive, Begin, MakeHook, Frame, Check, Between, NextEpisode, Reset,
                  Release, Lower
    <3>2. QED
      BY <3>1, OwingDriven
  <2>4. QED
    BY <1>1, <2>1, <2>2, <2>3 DEF Launch
<1>2. ASSUME NEW c \in Calls, Call(c) PROVE Owing'
  <2>1. ASSUME NEW r \in Robots, Stop(c, r) PROVE Owing'
    <3>1. at[c] = "idle" /\ UNCHANGED <<call, on, preStopped, found, owed, forgotten>>
      BY <2>1 DEF Stop
    <3>2. \A d \in Calls : d # c => target'[d] = target[d] /\ todo'[d] = todo[d]
      BY <2>1 DEF Stop
    <3>3. \E pc : at' = [at EXCEPT ![c] = pc]
      BY <2>1 DEF Stop, To
    <3>4. \A d \in Calls : d # c => at'[d] = at[d]
      BY <3>3
    <3>5. QED
      BY <3>1, <3>2, <3>4, OwingBeside
  <2>2. ASSUME NEW r \in Robots, Remove(c, r) PROVE Owing'
    <3>1. at[c] = "idle" /\ UNCHANGED <<call, on, preStopped, found, owed, forgotten>>
      BY <2>2 DEF Remove
    <3>2. \A d \in Calls : d # c => target'[d] = target[d] /\ todo'[d] = todo[d]
      BY <2>2 DEF Remove
    <3>3. \E pc : at' = [at EXCEPT ![c] = pc]
      BY <2>2 DEF Remove, To
    <3>4. \A d \in Calls : d # c => at'[d] = at[d]
      BY <3>3
    <3>5. QED
      BY <3>1, <3>2, <3>4, OwingBeside
  <2>3. ASSUME StopAll(c) PROVE Owing'
    <3>1. at[c] = "idle" /\ UNCHANGED <<call, on, preStopped, found, owed, forgotten>>
      BY <2>3 DEF StopAll
    <3>2. \A d \in Calls : d # c => target'[d] = target[d] /\ todo'[d] = todo[d]
      BY <2>3 DEF StopAll
    <3>3. \E pc : at' = [at EXCEPT ![c] = pc]
      BY <2>3 DEF StopAll, To
    <3>4. \A d \in Calls : d # c => at'[d] = at[d]
      BY <3>3
    <3>5. QED
      BY <3>1, <3>2, <3>4, OwingBeside
  <2>4. ASSUME Gate(c) PROVE Owing'
    <3>1. at[c] = "idle" /\ UNCHANGED <<call, on, preStopped, found, owed, forgotten>>
      BY <2>4 DEF Gate
    <3>2. \A d \in Calls : d # c => target'[d] = target[d] /\ todo'[d] = todo[d]
      BY <2>4 DEF Gate
    <3>3. \E pc : at' = [at EXCEPT ![c] = pc]
      BY <2>4 DEF Gate, To
    <3>4. \A d \in Calls : d # c => at'[d] = at[d]
      BY <3>3
    <3>5. QED
      BY <3>1, <3>2, <3>4, OwingBeside
  <2>5. ASSUME Cleanup(c) PROVE Owing'
    <3>1. at[c] = "idle" /\ UNCHANGED <<call, on, preStopped, found, owed, forgotten>>
      BY <2>5 DEF Cleanup
    <3>2. \A d \in Calls : d # c => target'[d] = target[d] /\ todo'[d] = todo[d]
      BY <2>5 DEF Cleanup
    <3>3. \E pc : at' = [at EXCEPT ![c] = pc]
      BY <2>5 DEF Cleanup, To
    <3>4. \A d \in Calls : d # c => at'[d] = at[d]
      BY <3>3
    <3>5. QED
      BY <3>1, <3>2, <3>4, OwingBeside
  <2>6. QED
    BY <1>2, <2>1, <2>2, <2>3, <2>4, <2>5 DEF Call
<1>3. ASSUME NEW c \in Calls, Swap(c) \/ RemoveJoin(c) \/ RemoveSwap(c) \/ Handoff(c)
      PROVE  Owing'
  <2>1. at[c] \in {"swap", "leave", "handoff"}
    BY <1>3 DEF Swap, RemoveJoin, RemoveSwap, Handoff
  <2>2. /\ UNCHANGED <<call, on, preStopped, owed>> /\ forgotten \subseteq forgotten'
        /\ \A d \in Calls : d # c => /\ at'[d] = at[d] /\ target'[d] = target[d]
                                     /\ todo'[d] = todo[d] /\ found'[d] = found[d]
    BY <1>3 DEF Swap, RemoveJoin, RemoveSwap, Handoff, To
  <2>3. QED
    BY <2>1, <2>2, OwingBeside
<1>4. ASSUME NEW c \in Calls, RemoveGate(c) PROVE Owing'
  <2>1. /\ at[c] = "gate" /\ target[c] \in Robots
        /\ \A r \in Robots : r # target[c] => preStopped'[r] = preStopped[r]
        /\ owed' = {l \in owed : on[l] # target[c]}
        /\ UNCHANGED <<call, on, forgotten, target, todo, found>>
        /\ \A d \in Calls : d # c => at'[d] = at[d]
    BY <1>4 DEF RemoveGate, Shapes, To
  <2>2. \A r, d : d \in Calls /\ Awaits(d, r) => Awaits(d, r)'
    BY <2>1 DEF Awaits
  <2>3. \A r, d : d \in Calls /\ Names(d, r) => Names(d, r)'
    BY <2>1 DEF Names
  <2>4. \A r \in Robots : (\E l \in owed' : on[l] = r) => (Reported(r) => Reported(r)')
    BY <2>1, <2>2, <2>3 DEF Reported
  <2>5. QED
    BY <2>1, <2>4, OwingKept
<1>5. ASSUME NEW c \in Calls, Drain(c) PROVE Owing'
  <2>1. /\ at[c] = "drain" /\ UNCHANGED <<call, on, target, todo, found, owed>>
        /\ preStopped' = preStopped \/ preStopped' = [r \in Robots |-> None]
        /\ \A r \in Robots : preStopped[r] # None => preStopped[r] \in forgotten'
        /\ forgotten \subseteq forgotten'
        /\ \A d \in Calls : d # c => at'[d] = at[d]
    BY <1>5 DEF Drain, To
  <2>2. \A r, d : d \in Calls /\ Awaits(d, r) => Awaits(d, r)'
    BY <2>1 DEF Awaits
  <2>3. \A r, d : d \in Calls /\ Names(d, r) => Names(d, r)'
    BY <2>1 DEF Names
  <2>4. \A r \in Robots : Kept(r)' => preStopped[r] = None
    BY <2>1 DEF Kept, Exclusive, Recorded
  <2>5. \A r \in Robots : Kept(r)' => (Reported(r) => Reported(r)')
    BY <2>1, <2>2, <2>3, <2>4 DEF Reported
  <2>6. QED
    BY <2>1, <2>5, OwingKept
<1>6. ASSUME NEW c \in Calls, FlagAll(c) PROVE Owing'
  <2> DEFINE asked == {r \in todo[c] : world /\ r \in robots /\ table[r] # None /\ ~Done(table[r])}
  <2>1. /\ at[c] = "flag" /\ at' = [at EXCEPT ![c] = "next"]
        /\ preStopped' = [r \in Robots |-> IF r \in asked THEN table[r] ELSE preStopped[r]]
        /\ owed' = owed \cup Halting(asked)
        /\ UNCHANGED <<call, on, target, todo, found, forgotten>>
    BY <1>6 DEF FlagAll, To
  <2>2. \A r, d : d \in Calls /\ Awaits(d, r) => Awaits(d, r)'
    BY <2>1 DEF Awaits
  <2>3. \A r, d : d \in Calls /\ Names(d, r) => Names(d, r)'
    BY <2>1 DEF Names
  <2>4. \A r \in Robots : preStopped[r] # None => preStopped'[r] # None
    BY <2>1
  <2>5. \A r \in Robots : Reported(r) => Reported(r)'
    BY <2>2, <2>3, <2>4 DEF Reported
  <2>6. \A r \in asked : r \in Robots /\ Reported(r)'
    <3> SUFFICES ASSUME NEW r \in asked PROVE r \in Robots /\ Reported(r)'
      OBVIOUS
    <3>1. r \in Robots /\ r \in todo[c] /\ table[r] # None
      OBVIOUS
    <3>2. preStopped'[r] # None /\ at'[c] = "next" /\ r \in todo'[c]
      BY <2>1, <3>1
    <3>3. QED
      BY <3>1, <3>2 DEF Reported, Awaits
  <2>7. ASSUME NEW l \in owed' PROVE call[l] # "idle" /\ on[l] \in Robots
                                       /\ (Kept(on[l]) => Reported(on[l])')
    <3>1. CASE l \in owed
      <4>1. PICK r \in Robots : r = on[l]
        BY <3>1 DEF Owing
      <4>2. Kept(r) => Reported(r)'
        BY <2>5, <3>1, <4>1 DEF Owing
      <4>3. QED
        BY <2>1, <3>1, <4>1, <4>2 DEF Owing
    <3>2. CASE l \in Halting(asked)
      <4>1. call[l] # "idle"
        BY <3>2 DEF Halting, Live
      <4>2. PICK r \in asked : r = on[l]
        BY <3>2 DEF Halting
      <4>3. r \in Robots /\ Reported(r)'
        BY <2>6
      <4>4. QED
        BY <2>1, <4>1, <4>2, <4>3
    <3>3. QED
      BY <2>1, <3>1, <3>2
  <2>8. \A r : Kept(r)' <=> Kept(r)
    BY <2>1 DEF Kept
  <2>9. QED
    BY <2>1, <2>7, <2>8 DEF Owing
<1>7. ASSUME NEW c \in Calls, NextTarget(c) PROVE Owing'
  <2>1. /\ at[c] = "next" /\ forgotten' = forgotten
        /\ UNCHANGED <<call, on, preStopped, found>>
        /\ \A d \in Calls : d # c => /\ at'[d] = at[d] /\ target'[d] = target[d]
                                     /\ todo'[d] = todo[d]
    BY <1>7 DEF NextTarget, To
  <2>2. \A r, d : d \in Calls /\ Names(d, r) => Names(d, r)'
    BY <2>1 DEF Names
  <2>3. CASE todo[c] = {}
    <3>1. owed' = owed
      BY <1>7, <2>3 DEF NextTarget
    <3>2. \A r, d : d \in Calls /\ Awaits(d, r) => Awaits(d, r)'
      BY <2>1, <2>3 DEF Awaits
    <3>3. \A r \in Robots : Reported(r) => Reported(r)'
      BY <2>1, <2>2, <3>2 DEF Reported
    <3>4. QED
      BY <2>1, <3>1, <3>3, OwingKept
  <2>4. CASE todo[c] # {}
    <3>1. PICK q \in todo[c] :
            /\ todo' = [todo EXCEPT ![c] = @ \ {q}]
            /\ IF world /\ q \in robots
               THEN /\ target' = [target EXCEPT ![c] = q]
                    /\ at' = [at EXCEPT ![c] = "read"]
                    /\ UNCHANGED owed
               ELSE /\ owed' = {l \in owed : on[l] # q}
                    /\ UNCHANGED <<target, at>>
      BY <1>7, <2>4 DEF NextTarget, To
    <3>2. owed' \subseteq owed
      BY <3>1
    <3>3. at'[c] \in {"read", "next"}
      BY <2>1, <3>1
    <3>4. \A r, d : d \in Calls /\ r # q /\ Awaits(d, r) => Awaits(d, r)'
      BY <2>1, <3>1, <3>3 DEF Awaits
    <3>5. \A r \in Robots : r # q => (Reported(r) => Reported(r)')
      BY <2>1, <2>2, <3>4 DEF Reported
    <3>6. CASE world /\ q \in robots
      <4>1. Awaits(c, q)'
        BY <3>1, <3>6 DEF Awaits
      <4>2. q \in Robots => (Reported(q) => Reported(q)')
        BY <2>1, <2>2, <4>1 DEF Reported
      <4>3. QED
        BY <2>1, <3>2, <3>5, <4>2, OwingKept
    <3>7. CASE ~(world /\ q \in robots)
      <4>1. \A l \in owed' : on[l] # q
        BY <3>1, <3>7
      <4>2. QED
        BY <2>1, <3>2, <3>5, <4>1, OwingKept
    <3>8. QED
      BY <3>6, <3>7
  <2>5. QED
    BY <2>3, <2>4
<1>8. ASSUME NEW c \in Calls, ReadActive(c) PROVE Owing'
  <2>1. /\ at[c] = "read" /\ at' = [at EXCEPT ![c] = "request"]
        /\ UNCHANGED <<call, on, preStopped, owed, forgotten, target, todo>>
        /\ \A d \in Calls : d # c => found'[d] = found[d]
    BY <1>8 DEF ReadActive, To
  <2>2. \A r, d : d \in Calls /\ Awaits(d, r) => Awaits(d, r)'
    BY <2>1 DEF Awaits
  <2>3. \A r, d : d \in Calls /\ Names(d, r) => Names(d, r)'
    BY <2>1 DEF Names
  <2>4. \A r \in Robots : Reported(r) => Reported(r)'
    BY <2>1, <2>2, <2>3 DEF Reported
  <2>5. QED
    BY <2>1, <2>4, OwingKept
<1>9. ASSUME NEW c \in Calls, Request(c) PROVE Owing'
  <2>1. PICK q \in Robots : q = target[c]
    BY <1>9 DEF Request, Shapes
  <2>2. /\ at[c] = "request" /\ at' = [at EXCEPT ![c] = "join"]
        /\ found' = [found EXCEPT ![c] = found[c] \/ preStopped[q] # None \/ flag[q]]
        /\ preStopped' = [preStopped EXCEPT ![q] = None]
        /\ owed' = owed \cup Halting({q})
        /\ UNCHANGED <<call, on, target, todo, forgotten>>
    BY <1>9, <2>1 DEF Request, To
  <2>3. \A r, d : d \in Calls /\ d # c /\ Names(d, r) => Names(d, r)'
    BY <2>1, <2>2 DEF Names
  <2>4. found[c] \/ preStopped[q] # None \/ flag[q] => Names(c, q)'
    <3>1. at'[c] = "join" /\ target'[c] = q
      BY <2>1, <2>2
    <3>2. found'[c] = (found[c] \/ preStopped[q] # None \/ flag[q])
      BY <2>2
    <3>3. QED
      BY <3>1, <3>2, Zenon DEF Names
  <2>5. \A r, d : d \in Calls /\ r # q /\ Awaits(d, r) => Awaits(d, r)'
    BY <2>1, <2>2 DEF Awaits
  <2>6. \A r \in Robots : Reported(r) => Reported(r)'
    <3> SUFFICES ASSUME NEW r \in Robots, Reported(r) PROVE Reported(r)'
      OBVIOUS
    <3>1. CASE r = q
      <4>1. CASE preStopped[q] # None \/ Names(c, q)
        BY <2>4, <3>1, <4>1 DEF Reported, Names
      <4>2. CASE \E d \in Calls : d # c /\ Names(d, q)
        BY <2>3, <3>1, <4>2 DEF Reported
      <4>3. QED
        BY <3>1, <4>1, <4>2 DEF Reported
    <3>2. CASE r # q
      <4>1. ~Names(c, r) /\ preStopped'[r] = preStopped[r]
        BY <2>1, <2>2, <3>2 DEF Names
      <4>2. CASE preStopped[r] # None /\ \E d \in Calls : Awaits(d, r)
        BY <2>5, <3>2, <4>1, <4>2 DEF Reported
      <4>3. CASE \E d \in Calls : Names(d, r)
        BY <2>3, <4>1, <4>3 DEF Reported
      <4>4. QED
        BY <4>2, <4>3 DEF Reported
    <3>3. QED
      BY <3>1, <3>2
  <2>7. \A r : Kept(r)' <=> Kept(r)
    BY <2>2 DEF Kept
  <2>8. ASSUME NEW l \in owed' PROVE call[l] # "idle" /\ on[l] \in Robots
                                       /\ (Kept(on[l]) => Reported(on[l])')
    <3>1. CASE l \in owed
      <4>1. PICK r \in Robots : r = on[l]
        BY <3>1 DEF Owing
      <4>2. Kept(r) => Reported(r)'
        BY <2>6, <3>1, <4>1 DEF Owing
      <4>3. QED
        BY <2>2, <3>1, <4>1, <4>2 DEF Owing
    <3>2. CASE l \in Halting({q})
      <4>1. /\ l \in Launches /\ Live(l) /\ ~Gone(l) /\ on[l] = q /\ stopped[l] = 0
            /\ ~(work[l] = "setup" /\ episode[l] > 1)
        BY <3>2 DEF Halting
      <4>2. Kept(q) => flag[q]
        BY <4>1 DEF AllUp, Up
      <4>3. Kept(q) => Reported(q)'
        BY <2>4, <4>2 DEF Reported
      <4>4. call[l] # "idle"
        BY <4>1 DEF Live
      <4>5. QED
        BY <2>1, <2>2, <4>1, <4>3, <4>4
    <3>3. QED
      BY <2>2, <3>1, <3>2
  <2>9. QED
    BY <2>2, <2>7, <2>8 DEF Owing
<1>10. ASSUME NEW c \in Calls, Answer(c) PROVE Owing'
  <2>1. /\ at[c] = "join" /\ at' = [at EXCEPT ![c] = "next"]
        /\ owed' = IF found[c] THEN {l \in owed : on[l] # target[c]} ELSE owed
        /\ UNCHANGED <<call, on, preStopped, todo, forgotten>>
        /\ \A d \in Calls : d # c => found'[d] = found[d] /\ target'[d] = target[d]
    BY <1>10 DEF Answer, To
  <2>2. \A r, d : d \in Calls /\ Awaits(d, r) => Awaits(d, r)'
    BY <2>1 DEF Awaits
  <2>3. \A r, d : d \in Calls /\ d # c /\ Names(d, r) => Names(d, r)'
    BY <2>1 DEF Names
  <2>4. \A r : Names(c, r) /\ (\E l \in owed' : on[l] = r) => FALSE
    BY <2>1 DEF Names
  <2>5. \A r \in Robots : (\E l \in owed' : on[l] = r) => (Reported(r) => Reported(r)')
    BY <2>1, <2>2, <2>3, <2>4 DEF Reported
  <2>6. QED
    BY <2>1, <2>5, OwingKept
<1>11. CASE UNCHANGED vars
  BY <1>11, OwingDriven DEF vars
<1>12. QED
  BY <1>1, <1>2, <1>3, <1>4, <1>5, <1>6, <1>7, <1>8, <1>9, <1>10, <1>11
     DEF Next, Continue

\* A rollout that a stop halted is named by an answer: once no stop is under
\* way, none is owed one.
THEOREM StopsReportHalts ==
  ASSUME Dispatched = Launches
  PROVE  Spec => []HaltsAreReported
<1>1. Init => Clean /\ Episodic /\ Quiet /\ AllUp /\ Owing
  BY DEF Init, Clean, Episodic, Apart, Quiet, AllUp, Up, Live, Owing
<1>2. Typed /\ Owing => HaltsAreReported
  BY DEF Typed, TypeOK, Owing, Reported, Awaits, Names, HaltsAreReported
<1>3. QED
  BY <1>1, <1>2, TypedAlways, ExclusiveAlways, CleanStep, EpisodicStep, QuietStep, UpStep,
     OwingStep, PTL DEF Spec
===============================================================================

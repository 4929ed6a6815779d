-------------------------- MODULE MeshLifecycleProofs --------------------------
(***************************************************************************)
(* Proofs about MeshLifecycle for any meshes, any threads that start and   *)
(* stop them and any number of starts.                                     *)
(***************************************************************************)
EXTENDS MeshLifecycle, FiniteSetTheorems, TLAPS

\* A call is about a mesh, a start holds the lock of its mesh, which does not run
\* until it is done, and declares its subscribers on a session.
CallsAreOwn ==
  \A k \in Callers :
    /\ call[k] # "idle" => mesh[k] \in Meshes
    /\ call[k] \in Starting =>
         /\ lock[mesh[k]] = k
         /\ ~running[mesh[k]]
         /\ starts[mesh[k]] \in 1..MaxStarts[mesh[k]]
    /\ call[k] \in {"hold", "declare"} => got[k] # 0

Typed == TypeOK /\ CallsAreOwn

LEMMA LoopsAre ==
  /\ \A m \in Meshes : \A n \in 1..MaxStarts[m] : <<m, n>> \in Loops
  /\ \A l \in Loops : /\ l[1] \in Meshes /\ l[2] \in 1..MaxStarts[l[1]]
                      /\ l = <<l[1], l[2]>>
BY DEF Loops

LEMMA TypedInit == Init => Typed
<1> SUFFICES ASSUME Init PROVE Typed
  OBVIOUS
<1>1. /\ running \in [Meshes -> BOOLEAN]
      /\ stopEvent \in [Meshes -> BOOLEAN]
      /\ hasRef \in [Meshes -> BOOLEAN]
  BY DEF Init
<1>2. registered \in [Meshes -> BOOLEAN] /\ overlapped \in [Meshes -> BOOLEAN]
  BY DEF Init
<1>3. CallsAreOwn
  BY DEF Init, CallsAreOwn, Starting
<1>4. QED
  BY <1>1, <1>2, <1>3 DEF Init, Typed, TypeOK

LEMMA TypedStep == Typed /\ [Next]_vars => Typed'
<1> SUFFICES ASSUME Typed, [Next]_vars PROVE Typed'
  OBVIOUS
<1> USE NoCallerAssumption, NoMeshAssumption, BoundAssumption, LoopsAre
    DEF Typed, TypeOK, CallsAreOwn, Starting, Stopping, meshVars, sessionVars,
        threadVars, history
<1>1. CASE Next
  <2>1. ASSUME NEW k \in Callers, NEW m \in Meshes, StartEnter(k, m) PROVE Typed'
    BY <2>1 DEF StartEnter, Goto
  <2>2. ASSUME NEW k \in Callers, NEW m \in Meshes, StopEnter(k, m) PROVE Typed'
    BY <2>2 DEF StopEnter, Goto
  <2>3. ASSUME NEW k \in Callers, StartRefused(k) PROVE Typed'
    BY <2>3 DEF StartRefused, Return, Goto
  <2>4. ASSUME NEW k \in Callers, GetSession(k) PROVE Typed'
    BY <2>4 DEF GetSession, Goto
  <2>5. ASSUME NEW k \in Callers, HoldRef(k) PROVE Typed'
    BY <2>5 DEF HoldRef, Goto
  <2>6. ASSUME NEW k \in Callers, Declare(k) PROVE Typed'
    <3>1. /\ mesh[k] \in Meshes /\ got[k] \in 1..opened
          /\ subs[mesh[k]] \cup {got[k]} \in SUBSET (1..opened)
      BY <2>6 DEF Declare, Goto
    <3>2. CASE Goto(k, "declare", "run")
      <4>1. \/ subs' = [subs EXCEPT ![mesh[k]] = subs[mesh[k]] \cup {got[k]}]
            \/ UNCHANGED subs
        BY <2>6 DEF Declare
      <4>2. subs' \in [Meshes -> SUBSET (1..opened)]
        BY <3>1, <4>1
      <4>3. QED
        BY <2>6, <3>2, <4>2 DEF Declare, Goto
    <3>3. CASE Goto(k, "declare", "fail") /\ UNCHANGED subs
      BY <2>6, <3>3 DEF Declare, Goto
    <3>4. QED
      BY <2>6, <3>2, <3>3 DEF Declare
  <2>7. ASSUME NEW k \in Callers, StartFail(k) PROVE Typed'
    BY <2>7 DEF StartFail, Goto, Release
  <2>8. ASSUME NEW k \in Callers, StartDrop(k) PROVE Typed'
    BY <2>8 DEF StartDrop, Return, Goto
  <2>9. ASSUME NEW k \in Callers, StartRun(k) PROVE Typed'
    BY <2>9 DEF StartRun, Return, Goto
  <2>10. ASSUME NEW k \in Callers, JoinLoops(k) PROVE Typed'
    BY <2>10 DEF JoinLoops, Goto
  <2>11. ASSUME NEW k \in Callers, Leave(k) PROVE Typed'
    BY <2>11 DEF Leave, Goto
  <2>12. ASSUME NEW k \in Callers, CheckRef(k) PROVE Typed'
    <3>1. CASE hasRef[mesh[k]]
      BY <2>12, <3>1 DEF CheckRef, Goto
    <3>2. CASE ~hasRef[mesh[k]]
      <4>1. Return(k, "check") /\ UNCHANGED <<meshVars, sessionVars, loop, history>>
        BY <2>12, <3>2 DEF CheckRef
      <4>2. QED
        BY <4>1 DEF Return, Goto
    <3>3. QED
      BY <3>1, <3>2
  <2>13. ASSUME NEW k \in Callers, StopRelease(k) PROVE Typed'
    BY <2>13 DEF StopRelease, Goto, Release
  <2>14. ASSUME NEW k \in Callers, StopUnhold(k) PROVE Typed'
    BY <2>14 DEF StopUnhold, Return, Goto
  <2>15. ASSUME NEW l \in Loops, LoopTest(l) PROVE Typed'
    BY <2>15 DEF LoopTest, LoopGoto
  <2>16. ASSUME NEW l \in Loops, Publish(l) PROVE Typed'
    BY <2>16 DEF Publish, LoopGoto, Outlived
  <2>17. ASSUME NEW l \in Loops, Wait(l) PROVE Typed'
    BY <2>17 DEF Wait, LoopGoto
  <2>18. QED
    BY <1>1, <2>1, <2>2, <2>3, <2>4, <2>5, <2>6, <2>7, <2>8, <2>9,
       <2>10, <2>11, <2>12, <2>13, <2>14, <2>15, <2>16, <2>17 DEF Next
<1>2. CASE UNCHANGED vars
  BY <1>2 DEF vars
<1>3. QED
  BY <1>1, <1>2

-------------------------------------------------------------------------------
\* A loop begins at the end of its start.
BegunByStart ==
  /\ \A l \in Loops : l[2] > starts[l[1]] => loop[l] = "none"
  /\ \A k \in Callers, l \in Loops :
       /\ call[k] \in Starting
       /\ l[1] = mesh[k]
       /\ l[2] = starts[l[1]]
       => loop[l] = "none"

\* The loop of a start outlives the next stop() only with the stop event set,
\* and the event stays set.
StoppedForGood ==
  \A l \in Loops :
    /\ loop[l] # "none" => stopEvent[l[1]] \/ (running[l[1]] /\ starts[l[1]] = l[2])
    /\ late[l] > 0 => stopEvent[l[1]] /\ loop[l] \in {"wait", "ended"}

BeatInv == BegunByStart /\ StoppedForGood /\ AtMostOneLateBeat

LEMMA BeatStep == Typed /\ BeatInv /\ [Next]_vars => BeatInv'
<1> SUFFICES ASSUME Typed, BeatInv, [Next]_vars PROVE BeatInv'
  OBVIOUS
<1> USE BoundAssumption, LoopsAre
    DEF Typed, TypeOK, CallsAreOwn, Starting, BeatInv, BegunByStart, StoppedForGood,
        AtMostOneLateBeat, meshVars, sessionVars, threadVars, history
<1>1. CASE Next
  <2>1. ASSUME NEW k \in Callers, NEW m \in Meshes, StartEnter(k, m) PROVE BeatInv'
    BY <2>1 DEF StartEnter, Goto
  <2>2. ASSUME NEW k \in Callers, NEW m \in Meshes, StopEnter(k, m) PROVE BeatInv'
    BY <2>2 DEF StopEnter, Goto
  <2>3. ASSUME NEW k \in Callers, StartRefused(k) PROVE BeatInv'
    BY <2>3 DEF StartRefused, Return, Goto
  <2>4. ASSUME NEW k \in Callers, GetSession(k) PROVE BeatInv'
    BY <2>4 DEF GetSession, Goto
  <2>5. ASSUME NEW k \in Callers, HoldRef(k) PROVE BeatInv'
    BY <2>5 DEF HoldRef, Goto
  <2>6. ASSUME NEW k \in Callers, Declare(k) PROVE BeatInv'
    BY <2>6 DEF Declare, Goto
  <2>7. ASSUME NEW k \in Callers, StartFail(k) PROVE BeatInv'
    BY <2>7 DEF StartFail, Goto, Release
  <2>8. ASSUME NEW k \in Callers, StartDrop(k) PROVE BeatInv'
    BY <2>8 DEF StartDrop, Return, Goto
  <2>9. ASSUME NEW k \in Callers, StartRun(k) PROVE BeatInv'
    <3> DEFINE m == mesh[k]
    <3>1. /\ m \in Meshes /\ ~running[m]
          /\ starts[m] \in 1..MaxStarts[m] /\ <<m, starts[m]>> \in Loops
      BY <2>9 DEF StartRun, Return, Goto
    <3>2. /\ running' = [running EXCEPT ![m] = TRUE]
          /\ loop' = [loop EXCEPT ![<<m, starts[m]>>] = "test"]
          /\ UNCHANGED <<stopEvent, starts, late>>
      BY <2>9 DEF StartRun
    <3>3. call[k] = "run" /\ mesh[k] = m /\ call' = [call EXCEPT ![k] = "idle"]
          /\ mesh' = [mesh EXCEPT ![k] = NoMesh]
      BY <2>9 DEF StartRun, Return, Goto
    <3>4. loop[<<m, starts[m]>>] = "none"
      BY <3>1, <3>3
    <3>5. late[<<m, starts[m]>>] = 0
      <4>1. late[<<m, starts[m]>>] \in Nat
        BY <3>1
      <4>2. ~(late[<<m, starts[m]>>] > 0)
        BY <3>1, <3>4
      <4>3. QED
        BY <4>1, <4>2
    <3>6. \A l \in Loops : l[1] = m /\ l[2] = starts[m] <=> l = <<m, starts[m]>>
      BY <3>1
    <3>7. QED
      BY <3>1, <3>2, <3>3, <3>5, <3>6
  <2>10. ASSUME NEW k \in Callers, JoinLoops(k) PROVE BeatInv'
    BY <2>10 DEF JoinLoops, Goto
  <2>11. ASSUME NEW k \in Callers, Leave(k) PROVE BeatInv'
    BY <2>11 DEF Leave, Goto
  <2>12. ASSUME NEW k \in Callers, CheckRef(k) PROVE BeatInv'
    BY <2>12 DEF CheckRef, Goto, Return
  <2>13. ASSUME NEW k \in Callers, StopRelease(k) PROVE BeatInv'
    BY <2>13 DEF StopRelease, Goto, Release
  <2>14. ASSUME NEW k \in Callers, StopUnhold(k) PROVE BeatInv'
    BY <2>14 DEF StopUnhold, Return, Goto
  <2>15. ASSUME NEW l \in Loops, LoopTest(l) PROVE BeatInv'
    BY <2>15 DEF LoopTest, LoopGoto
  <2>16. ASSUME NEW l \in Loops, Publish(l) PROVE BeatInv'
    <3>1. loop[l] = "publish" /\ loop' = [loop EXCEPT ![l] = "wait"]
      BY <2>16 DEF Publish, LoopGoto
    <3>2. late[l] = 0
      <4>1. late[l] \in Nat
        OBVIOUS
      <4>2. ~(late[l] > 0)
        BY <3>1
      <4>3. QED
        BY <4>1, <4>2
    <3>3. CASE Outlived(l)
      <4>1. stopEvent[l[1]]
        BY <3>1, <3>3 DEF Outlived
      <4>2. late' = [late EXCEPT ![l] = 1]
        BY <2>16, <3>2, <3>3 DEF Publish
      <4>3. QED
        BY <2>16, <3>1, <4>1, <4>2 DEF Publish
    <3>4. CASE ~Outlived(l)
      <4>1. late' = late
        BY <2>16, <3>4 DEF Publish
      <4>2. QED
        BY <2>16, <3>1, <3>2, <4>1 DEF Publish
    <3>5. QED
      BY <3>3, <3>4
  <2>17. ASSUME NEW l \in Loops, Wait(l) PROVE BeatInv'
    BY <2>17 DEF Wait, LoopGoto
  <2>18. QED
    BY <1>1, <2>1, <2>2, <2>3, <2>4, <2>5, <2>6, <2>7, <2>8, <2>9,
       <2>10, <2>11, <2>12, <2>13, <2>14, <2>15, <2>16, <2>17 DEF Next
<1>2. CASE UNCHANGED vars
  BY <1>2 DEF vars
<1>3. QED
  BY <1>1, <1>2

-------------------------------------------------------------------------------
Inv == Typed /\ BeatInv

\* Inv holds in every reachable state, however the threads call start() and
\* stop().
THEOREM Invariance == Spec => []Inv
<1>1. Init => Inv
  <2> SUFFICES ASSUME Init PROVE Inv
    OBVIOUS
  <2>1. BeatInv
    BY LoopsAre DEF Init, BeatInv, BegunByStart, StoppedForGood, AtMostOneLateBeat
  <2>2. QED
    BY <2>1, TypedInit DEF Inv
<1>2. Inv /\ [Next]_vars => Inv'
  BY TypedStep, BeatStep DEF Inv
<1>3. QED
  BY <1>1, <1>2, PTL DEF Spec

\* Every variable stays in its domain, and the session is open just while its
\* references are counted (get_session, release_session).
THEOREM TypeCorrect == Spec => []TypeOK
<1>1. Inv => TypeOK
  BY DEF Inv, Typed
<1>2. QED
  BY <1>1, Invariance, PTL

\* A loop that outlasts the join of its stop() publishes at most once more
\* (_join_loops, Ticker.wait).
THEOREM LateBeatIsTheLast == Spec => []AtMostOneLateBeat
<1>1. Inv => AtMostOneLateBeat
  BY DEF Inv, BeatInv
<1>2. QED
  BY <1>1, Invariance, PTL
-------------------------------------------------------------------------------
(***************************************************************************)
(* The count of references.  A mesh that runs holds one, and so does a     *)
(* call between the step that takes it and the step that gives it back.    *)
(* There are at least as many references as holders, since a stop() that   *)
(* finds the flag of its mesh lowered by another leaves one behind, and    *)
(* just as many as long as no start() overlaps a stop().                   *)
(***************************************************************************)
Holding == {"hold", "declare", "run", "fail", "join", "leave", "check", "release"}

Holders ==
  {<<"mesh", m>> : m \in {n \in Meshes : running[n]}}
    \cup {<<"call", k>> : k \in {j \in Callers : call[j] \in Holding}}

Apart == \A m \in Meshes : ~overlapped[m]

Counted ==
  /\ IsFiniteSet(Holders)
  /\ Cardinality(Holders) <= refs
  /\ Apart => Cardinality(Holders) = refs

\* Whoever holds a reference holds it on the session that is open.
Shared ==
  /\ \A m \in Meshes : running[m] => session = home[m]
  /\ \A k \in Callers : call[k] \in {"hold", "declare", "run"} => got[k] = session

\* What a mesh has between two calls ...
Settled(m) ==
  /\ hasRef[m] <=> running[m]
  /\ registered[m] <=> running[m]
  /\ subs[m] = IF running[m] THEN {session} ELSE {}

\* ... and during one.
Underway(k) ==
  LET m == mesh[k] IN
  /\ ~running[m]
  /\ hasRef[m] <=> call[k] \notin {"get", "hold"}
  /\ registered[m] <=> call[k] \in {"join", "leave"}
  /\ call[k] \notin {"join", "leave"} =>
       subs[m] = IF call[k] = "run" THEN {session} ELSE {}

OneCall ==
  \A j, k \in Callers :
    call[j] # "idle" /\ call[k] # "idle" /\ mesh[j] = mesh[k] => j = k

Complete ==
  Apart =>
    /\ OneCall
    /\ \A m \in Meshes : Quiet(m) => Settled(m)
    /\ \A k \in Callers : call[k] # "idle" => Underway(k)

\* One of at most n is taken away.
LEMMA OneLess ==
  ASSUME NEW S, IsFiniteSet(S), NEW x \in S, NEW n \in Nat, Cardinality(S) <= n
  PROVE  /\ n > 0
         /\ IsFiniteSet(S \ {x})
         /\ Cardinality(S) \in Nat
         /\ Cardinality(S \ {x}) = Cardinality(S) - 1
         /\ n <= 1 => S = {x}
<1>1. IsFiniteSet(S \ {x}) /\ Cardinality(S \ {x}) = Cardinality(S) - 1
  BY FS_RemoveElement
<1>2. Cardinality(S) \in Nat /\ Cardinality(S \ {x}) \in Nat
  BY <1>1, FS_CardinalityType
<1>3. n <= 1 => Cardinality(S \ {x}) = 0
  BY <1>1, <1>2
<1>4. n <= 1 => S \ {x} = {}
  BY <1>1, <1>3, FS_EmptySet
<1>5. QED
  BY <1>1, <1>2, <1>4

\* A reference that is held is counted, and the last one has one holder.
LEMMA HeldIsCounted ==
  ASSUME Typed, Counted, NEW x \in Holders
  PROVE  /\ refs > 0 /\ session # 0
         /\ refs <= 1 => Holders = {x}
<1>1. refs \in Nat /\ IsFiniteSet(Holders) /\ Cardinality(Holders) <= refs
  BY DEF Typed, TypeOK, Counted
<1>2. refs > 0 /\ (refs <= 1 => Holders = {x})
  BY <1>1, OneLess
<1>3. QED
  BY <1>2 DEF Typed, TypeOK

LEMMA CountKept ==
  ASSUME Counted, Holders' = Holders, refs' = refs, Apart' => Apart
  PROVE  Counted'
BY DEF Counted

LEMMA CountDropped ==
  ASSUME Typed, Counted, NEW x \in Holders, Holders' = Holders \ {x},
         refs' = refs - 1, Apart' => Apart
  PROVE  Counted'
<1>1. /\ IsFiniteSet(Holders \ {x}) /\ Cardinality(Holders) \in Nat
      /\ Cardinality(Holders \ {x}) = Cardinality(Holders) - 1
  BY OneLess DEF Typed, TypeOK, Counted
<1>2. QED
  BY <1>1 DEF Typed, TypeOK, Counted

LEMMA CountMoved ==
  ASSUME Typed, Counted, NEW x \in Holders, NEW y, y \notin Holders,
         Holders' = (Holders \ {x}) \cup {y}, refs' = refs, Apart' => Apart
  PROVE  Counted'
<1>1. /\ IsFiniteSet(Holders \ {x}) /\ Cardinality(Holders) \in Nat
      /\ Cardinality(Holders \ {x}) = Cardinality(Holders) - 1
  BY OneLess DEF Typed, TypeOK, Counted
<1>2. /\ IsFiniteSet((Holders \ {x}) \cup {y})
      /\ Cardinality((Holders \ {x}) \cup {y}) = Cardinality(Holders \ {x}) + 1
  BY <1>1, FS_AddElement
<1>3. QED
  BY <1>1, <1>2 DEF Counted

\* overlapped is never lowered.
LEMMA ApartBefore == Typed /\ [Next]_vars => (Apart' => Apart)
<1> SUFFICES ASSUME Typed, [Next]_vars, Apart' PROVE Apart
  OBVIOUS
<1> USE DEF Typed, TypeOK, Apart, history
<1>1. ASSUME NEW k \in Callers, NEW m \in Meshes, StartEnter(k, m) PROVE Apart
  BY <1>1 DEF StartEnter
<1>2. CASE UNCHANGED overlapped
  BY <1>2
<1>3. QED
  BY <1>1, <1>2 DEF Next, StopEnter, StartRefused, GetSession, HoldRef, Declare,
     StartFail, StartDrop, StartRun, JoinLoops, Leave, CheckRef, StopRelease,
     StopUnhold, LoopTest, Publish, Wait, vars

LEMMA CountedStep == Typed /\ Counted /\ Complete /\ [Next]_vars => Counted'
<1> SUFFICES ASSUME Typed, Counted, Complete, [Next]_vars PROVE Counted'
  OBVIOUS
<1>0. Apart' => Apart
  BY ApartBefore
<1> USE DEF Typed, TypeOK, CallsAreOwn, Starting, Stopping, Holding, meshVars,
            sessionVars, threadVars, history
<1>1. CASE Next
  <2>1. ASSUME NEW k \in Callers, NEW m \in Meshes, StartEnter(k, m) PROVE Counted'
    <3>1. Holders' = Holders
      BY <2>1 DEF StartEnter, Goto, Holders
    <3>2. QED
      BY <1>0, <2>1, <3>1, CountKept DEF StartEnter
  <2>2. ASSUME NEW k \in Callers, NEW m \in Meshes, StopEnter(k, m) PROVE Counted'
    <3>1. <<"mesh", m>> \in Holders /\ <<"call", k>> \notin Holders
      BY <2>2 DEF StopEnter, Goto, Holders
    <3>2. Holders' = (Holders \ {<<"mesh", m>>}) \cup {<<"call", k>>}
      BY <2>2 DEF StopEnter, Goto, Holders
    <3>3. QED
      BY <1>0, <2>2, <3>1, <3>2, CountMoved DEF StopEnter
  <2>3. ASSUME NEW k \in Callers, StartRefused(k) PROVE Counted'
    <3>1. Holders' = Holders
      BY <2>3 DEF StartRefused, Return, Goto, Holders
    <3>2. QED
      BY <1>0, <2>3, <3>1, CountKept DEF StartRefused
  <2>4. ASSUME NEW k \in Callers, GetSession(k) PROVE Counted'
    <3>1. <<"call", k>> \notin Holders
      BY <2>4 DEF GetSession, Goto, Holders
    <3>2. Holders' = Holders \cup {<<"call", k>>}
      BY <2>4 DEF GetSession, Goto, Holders
    <3>3. /\ IsFiniteSet(Holders') /\ Cardinality(Holders) \in Nat
          /\ Cardinality(Holders') = Cardinality(Holders) + 1
      BY <3>1, <3>2, FS_AddElement, FS_CardinalityType DEF Counted
    <3>4. refs' = refs + 1
      BY <2>4 DEF GetSession
    <3>5. QED
      BY <1>0, <3>3, <3>4 DEF Counted
  <2>5. ASSUME NEW k \in Callers, HoldRef(k) PROVE Counted'
    <3>1. Holders' = Holders
      BY <2>5 DEF HoldRef, Goto, Holders
    <3>2. QED
      BY <1>0, <2>5, <3>1, CountKept DEF HoldRef
  <2>6. ASSUME NEW k \in Callers, Declare(k) PROVE Counted'
    <3>1. Holders' = Holders
      BY <2>6 DEF Declare, Goto, Holders
    <3>2. QED
      BY <1>0, <2>6, <3>1, CountKept DEF Declare
  <2>7. ASSUME NEW k \in Callers, StartFail(k) PROVE Counted'
    <3>1. <<"call", k>> \in Holders /\ Holders' = Holders \ {<<"call", k>>}
      BY <2>7 DEF StartFail, Goto, Holders
    <3>2. refs' = refs - 1
      BY <2>7, <3>1, HeldIsCounted DEF StartFail, Release
    <3>3. QED
      BY <1>0, <3>1, <3>2, CountDropped
  <2>8. ASSUME NEW k \in Callers, StartDrop(k) PROVE Counted'
    <3>1. Holders' = Holders
      BY <2>8 DEF StartDrop, Return, Goto, Holders
    <3>2. QED
      BY <1>0, <2>8, <3>1, CountKept DEF StartDrop
  <2>9. ASSUME NEW k \in Callers, StartRun(k) PROVE Counted'
    <3>1. <<"call", k>> \in Holders /\ <<"mesh", mesh[k]>> \notin Holders
      BY <2>9 DEF StartRun, Return, Goto, Holders
    <3>2. Holders' = (Holders \ {<<"call", k>>}) \cup {<<"mesh", mesh[k]>>}
      BY <2>9 DEF StartRun, Return, Goto, Holders
    <3>3. QED
      BY <1>0, <2>9, <3>1, <3>2, CountMoved DEF StartRun
  <2>10. ASSUME NEW k \in Callers, JoinLoops(k) PROVE Counted'
    <3>1. Holders' = Holders
      BY <2>10 DEF JoinLoops, Goto, Holders
    <3>2. QED
      BY <1>0, <2>10, <3>1, CountKept DEF JoinLoops
  <2>11. ASSUME NEW k \in Callers, Leave(k) PROVE Counted'
    <3>1. Holders' = Holders
      BY <2>11 DEF Leave, Goto, Holders
    <3>2. QED
      BY <1>0, <2>11, <3>1, CountKept DEF Leave
  \* A stop() that does not release what it holds has been overlapped.
  <2>12. ASSUME NEW k \in Callers, CheckRef(k) PROVE Counted'
    <3>1. CASE hasRef[mesh[k]]
      <4>1. Holders' = Holders
        BY <2>12, <3>1 DEF CheckRef, Goto, Holders
      <4>2. QED
        BY <1>0, <2>12, <4>1, CountKept DEF CheckRef
    <3>2. CASE ~hasRef[mesh[k]]
      <4>1. ~Apart
        BY <2>12, <3>2 DEF CheckRef, Complete, Underway
      <4>2. <<"call", k>> \in Holders /\ Holders' = Holders \ {<<"call", k>>}
        BY <2>12, <3>2 DEF CheckRef, Return, Goto, Holders
      <4>3. /\ IsFiniteSet(Holders') /\ Cardinality(Holders) \in Nat
            /\ Cardinality(Holders') = Cardinality(Holders) - 1
        BY <4>2, OneLess DEF Counted
      <4>4. refs' = refs
        BY <2>12 DEF CheckRef
      <4>5. QED
        BY <1>0, <4>1, <4>3, <4>4 DEF Counted
    <3>3. QED
      BY <3>1, <3>2
  <2>13. ASSUME NEW k \in Callers, StopRelease(k) PROVE Counted'
    <3>1. <<"call", k>> \in Holders /\ Holders' = Holders \ {<<"call", k>>}
      BY <2>13 DEF StopRelease, Goto, Holders
    <3>2. refs' = refs - 1
      BY <2>13, <3>1, HeldIsCounted DEF StopRelease, Release
    <3>3. QED
      BY <1>0, <3>1, <3>2, CountDropped
  <2>14. ASSUME NEW k \in Callers, StopUnhold(k) PROVE Counted'
    <3>1. Holders' = Holders
      BY <2>14 DEF StopUnhold, Return, Goto, Holders
    <3>2. QED
      BY <1>0, <2>14, <3>1, CountKept DEF StopUnhold
  <2>15. ASSUME NEW l \in Loops, LoopTest(l) \/ Publish(l) \/ Wait(l) PROVE Counted'
    <3>1. Holders' = Holders
      BY <2>15 DEF LoopTest, Publish, Wait, LoopGoto, Holders
    <3>2. QED
      BY <1>0, <2>15, <3>1, CountKept DEF LoopTest, Publish, Wait
  <2>16. QED
    BY <1>1, <2>1, <2>2, <2>3, <2>4, <2>5, <2>6, <2>7, <2>8, <2>9,
       <2>10, <2>11, <2>12, <2>13, <2>14, <2>15 DEF Next
<1>2. CASE UNCHANGED vars
  <2>1. Holders' = Holders
    BY <1>2 DEF vars, Holders
  <2>2. QED
    BY <1>0, <1>2, <2>1, CountKept DEF vars
<1>3. QED
  BY <1>1, <1>2

\* A release closes the session under nobody, and a session is opened only when
\* nobody holds one.
LEMMA ReleaseSpares ==
  ASSUME Typed, Counted, NEW k \in Callers, call[k] \in Holding, Release
  PROVE  /\ \A m \in Meshes : running[m] => session' = session
         /\ \A j \in Callers : call[j] \in Holding /\ j # k => session' = session
<1>1. <<"call", k>> \in Holders
  BY DEF Holders
<1>2. refs <= 1 => Holders = {<<"call", k>>}
  BY <1>1, HeldIsCounted
<1>3. refs > 1 => session' = session
  BY DEF Release
<1>4. /\ \A m \in Meshes : running[m] => <<"mesh", m>> \in Holders
      /\ \A j \in Callers : call[j] \in Holding => <<"call", j>> \in Holders
  BY DEF Holders
<1>5. \A j : <<"call", j>> \in {<<"call", k>>} => j = k
  OBVIOUS
<1>6. \A m : <<"mesh", m>> \notin {<<"call", k>>}
  OBVIOUS
<1>7. refs <= 1 \/ refs > 1
  BY DEF Typed, TypeOK
<1>8. QED
  BY <1>2, <1>3, <1>4, <1>5, <1>6, <1>7

LEMMA OpenSpares ==
  ASSUME Typed, Counted, NEW k \in Callers, GetSession(k)
  PROVE  /\ got'[k] = session' /\ session' # 0
         /\ session' # session => /\ \A m \in Meshes : ~running[m]
                                  /\ \A j \in Callers : call[j] \notin Holding
<1>1. /\ \A m \in Meshes : running[m] => <<"mesh", m>> \in Holders
      /\ \A j \in Callers : call[j] \in Holding => <<"call", j>> \in Holders
  BY DEF Holders
<1>2. session = 0 => Holders = {}
  BY HeldIsCounted
<1>3. session # 0 => session' = session
  BY DEF GetSession
<1>4. got'[k] = session' /\ session' # 0
  BY DEF GetSession, Typed, TypeOK
<1>5. QED
  BY <1>1, <1>2, <1>3, <1>4

LEMMA SharedStep == Typed /\ Counted /\ Shared /\ [Next]_vars => Shared'
<1> SUFFICES ASSUME Typed, Counted, Shared, [Next]_vars PROVE Shared'
  OBVIOUS
<1> USE DEF Typed, TypeOK, CallsAreOwn, Starting, Stopping, Holding, Shared, meshVars,
            sessionVars, threadVars, history
<1>1. CASE Next
  <2>1. ASSUME NEW k \in Callers, NEW m \in Meshes, StartEnter(k, m) PROVE Shared'
    BY <2>1 DEF StartEnter, Goto
  <2>2. ASSUME NEW k \in Callers, NEW m \in Meshes, StopEnter(k, m) PROVE Shared'
    BY <2>2 DEF StopEnter, Goto
  <2>3. ASSUME NEW k \in Callers, StartRefused(k) PROVE Shared'
    BY <2>3 DEF StartRefused, Return, Goto
  <2>4. ASSUME NEW k \in Callers, GetSession(k) PROVE Shared'
    <3>1. /\ got'[k] = session'
          /\ session' # session => /\ \A m \in Meshes : ~running[m]
                                   /\ \A j \in Callers : call[j] \notin Holding
      BY <2>4, OpenSpares
    <3>2. QED
      BY <2>4, <3>1 DEF GetSession, Goto
  <2>5. ASSUME NEW k \in Callers, HoldRef(k) PROVE Shared'
    BY <2>5 DEF HoldRef, Goto
  <2>6. ASSUME NEW k \in Callers, Declare(k) PROVE Shared'
    BY <2>6 DEF Declare, Goto
  <2>7. ASSUME NEW k \in Callers, StartFail(k) PROVE Shared'
    <3>1. /\ \A m \in Meshes : running[m] => session' = session
          /\ \A j \in Callers : call[j] \in Holding /\ j # k => session' = session
      BY <2>7, ReleaseSpares DEF StartFail, Goto
    <3>2. QED
      BY <2>7, <3>1 DEF StartFail, Goto
  <2>8. ASSUME NEW k \in Callers, StartDrop(k) PROVE Shared'
    BY <2>8 DEF StartDrop, Return, Goto
  <2>9. ASSUME NEW k \in Callers, StartRun(k) PROVE Shared'
    BY <2>9 DEF StartRun, Return, Goto
  <2>10. ASSUME NEW k \in Callers, JoinLoops(k) PROVE Shared'
    BY <2>10 DEF JoinLoops, Goto
  <2>11. ASSUME NEW k \in Callers, Leave(k) PROVE Shared'
    BY <2>11 DEF Leave, Goto
  <2>12. ASSUME NEW k \in Callers, CheckRef(k) PROVE Shared'
    BY <2>12 DEF CheckRef, Return, Goto
  <2>13. ASSUME NEW k \in Callers, StopRelease(k) PROVE Shared'
    <3>1. /\ \A m \in Meshes : running[m] => session' = session
          /\ \A j \in Callers : call[j] \in Holding /\ j # k => session' = session
      BY <2>13, ReleaseSpares DEF StopRelease, Goto
    <3>2. QED
      BY <2>13, <3>1 DEF StopRelease, Goto
  <2>14. ASSUME NEW k \in Callers, StopUnhold(k) PROVE Shared'
    BY <2>14 DEF StopUnhold, Return, Goto
  <2>15. ASSUME NEW l \in Loops, LoopTest(l) \/ Publish(l) \/ Wait(l) PROVE Shared'
    BY <2>15 DEF LoopTest, Publish, Wait, LoopGoto
  <2>16. QED
    BY <1>1, <2>1, <2>2, <2>3, <2>4, <2>5, <2>6, <2>7, <2>8, <2>9,
       <2>10, <2>11, <2>12, <2>13, <2>14, <2>15 DEF Next
<1>2. CASE UNCHANGED vars
  BY <1>2 DEF vars
<1>3. QED
  BY <1>1, <1>2

\* A step of call k about mesh m leaves every other call and mesh as it is, and
\* no other call is about m.
About(k, m) ==
  /\ \A j \in Callers \ {k} : call'[j] = call[j] /\ mesh'[j] = mesh[j]
  /\ \A n \in Meshes \ {m} :
       /\ running'[n] = running[n] /\ hasRef'[n] = hasRef[n]
       /\ registered'[n] = registered[n] /\ subs'[n] = subs[n]
  /\ \A n \in Meshes \ {m} : running[n] => session' = session
  /\ \A j \in Callers \ {k} : call[j] = "run" => session' = session
  /\ call[k] # "idle" => mesh[k] = m
  /\ call[k] = "idle" => Quiet(m)
  /\ IF call'[k] = "idle" THEN mesh'[k] = NoMesh ELSE mesh'[k] = m

\* Such a step keeps the whole complete if it leaves m as it should.
LEMMA AboutOne ==
  ASSUME Typed, Apart, Complete, NEW k \in Callers, NEW m \in Meshes, About(k, m),
         call'[k] # "idle" => Underway(k)',
         call'[k] = "idle" => Settled(m)'
  PROVE  Complete'
<1>0. OneCall /\ (\A n \in Meshes : Quiet(n) => Settled(n))
              /\ (\A j \in Callers : call[j] # "idle" => Underway(j))
  BY DEF Complete
<1>1. \A j \in Callers \ {k} : call[j] # "idle" => mesh[j] \in Meshes \ {m}
  BY <1>0 DEF About, OneCall, Quiet, Typed, CallsAreOwn
<1>2. OneCall'
  BY <1>0, <1>1 DEF About, OneCall
<1>3. ASSUME NEW n \in Meshes, Quiet(n)' PROVE Settled(n)'
  <2>1. CASE n = m
    <3>1. call'[k] = "idle"
      BY <1>3, <2>1 DEF About, Quiet
    <3>2. QED
      BY <2>1, <3>1
  <2>2. CASE n # m
    <3>1. Quiet(n)
      BY <1>3, <2>2 DEF About, Quiet
    <3>2. Settled(n)
      BY <1>0, <3>1
    <3>3. /\ running'[n] = running[n] /\ hasRef'[n] = hasRef[n]
          /\ registered'[n] = registered[n] /\ subs'[n] = subs[n]
          /\ running[n] => session' = session
      BY <2>2 DEF About
    <3>4. QED
      BY <3>2, <3>3 DEF Settled
  <2>3. QED
    BY <2>1, <2>2
<1>4. ASSUME NEW j \in Callers, call'[j] # "idle" PROVE Underway(j)'
  <2>1. CASE j # k
    <3>1. /\ call'[j] = call[j] /\ mesh'[j] = mesh[j]
          /\ call[j] = "run" => session' = session
      BY <2>1 DEF About
    <3>2. mesh[j] \in Meshes \ {m}
      BY <1>1, <1>4, <2>1, <3>1
    <3>3. LET n == mesh[j] IN
            /\ running'[n] = running[n] /\ hasRef'[n] = hasRef[n]
            /\ registered'[n] = registered[n] /\ subs'[n] = subs[n]
      BY <3>2 DEF About
    <3>4. Underway(j)
      BY <1>0, <1>4, <3>1
    <3>5. QED
      BY <3>1, <3>3, <3>4 DEF Underway
  <2>2. QED
    BY <1>4, <2>1
<1>5. QED
  BY <1>2, <1>3, <1>4 DEF Complete

LEMMA CompleteStep ==
  Typed /\ Counted /\ Shared /\ Complete /\ [Next]_vars => Complete'
<1> SUFFICES ASSUME Typed, Counted, Shared, Complete, [Next]_vars, Apart'
             PROVE  Complete'
  BY DEF Complete
<1>0. Apart /\ OneCall /\ (\A m \in Meshes : Quiet(m) => Settled(m))
            /\ (\A k \in Callers : call[k] # "idle" => Underway(k))
  BY ApartBefore DEF Complete
<1> USE NoMeshAssumption, <1>0
    DEF Typed, TypeOK, CallsAreOwn, Starting, Stopping, Holding, meshVars,
        sessionVars, threadVars, history
<1>1. CASE Next
  <2>1. ASSUME NEW k \in Callers, NEW m \in Meshes, StartEnter(k, m) PROVE Complete'
    <3>0. \A j \in Callers : mesh[j] = m => call[j] \notin Stopping
      <4>1. ~overlapped'[m]
        BY DEF Apart
      <4>2. QED
        BY <2>1, <4>1 DEF StartEnter
    <3>1. Quiet(m)
      BY <2>1, <3>0, NoCallerAssumption DEF StartEnter, Quiet
    <3>2. About(k, m)
      BY <2>1, <3>1 DEF StartEnter, Goto, About
    <3>3. Underway(k)' /\ call'[k] # "idle"
      BY <2>1, <3>1 DEF StartEnter, Goto, Underway, Settled
    <3>4. QED
      BY <3>2, <3>3, AboutOne
  <2>2. ASSUME NEW k \in Callers, NEW m \in Meshes, StopEnter(k, m) PROVE Complete'
    <3>1. Quiet(m)
      BY <2>2 DEF StopEnter, Underway, Quiet
    <3>2. About(k, m)
      BY <2>2, <3>1 DEF StopEnter, Goto, About
    <3>3. Underway(k)' /\ call'[k] # "idle"
      BY <2>2, <3>1 DEF StopEnter, Goto, Underway, Settled
    <3>4. QED
      BY <3>2, <3>3, AboutOne
  <2>3. ASSUME NEW k \in Callers, StartRefused(k) PROVE Complete'
    <3>0. PICK m \in Meshes : m = mesh[k]
      BY <2>3 DEF StartRefused, Return, Goto
    <3>1. About(k, m)
      BY <2>3, <3>0 DEF StartRefused, Return, Goto, About
    <3>2. Settled(m)' /\ call'[k] = "idle"
      BY <2>3, <3>0 DEF StartRefused, Return, Goto, Underway, Settled
    <3>3. QED
      BY <3>1, <3>2, AboutOne
  <2>4. ASSUME NEW k \in Callers, GetSession(k) PROVE Complete'
    <3>0. PICK m \in Meshes : m = mesh[k]
      BY <2>4 DEF GetSession, Goto
    <3>1. /\ got'[k] = session'
          /\ session' # session => /\ \A n \in Meshes : ~running[n]
                                   /\ \A j \in Callers : call[j] \notin Holding
      BY <2>4, OpenSpares
    <3>2. About(k, m)
      BY <2>4, <3>0, <3>1 DEF GetSession, Goto, About
    <3>3. Underway(k)' /\ call'[k] # "idle"
      BY <2>4, <3>0 DEF GetSession, Goto, Underway
    <3>4. QED
      BY <3>2, <3>3, AboutOne
  <2>5. ASSUME NEW k \in Callers, HoldRef(k) PROVE Complete'
    <3>0. PICK m \in Meshes : m = mesh[k]
      BY <2>5 DEF HoldRef, Goto
    <3>1. About(k, m)
      BY <2>5, <3>0 DEF HoldRef, Goto, About
    <3>2. Underway(k)' /\ call'[k] # "idle"
      BY <2>5, <3>0 DEF HoldRef, Goto, Underway, Settled
    <3>3. QED
      BY <3>1, <3>2, AboutOne
  <2>6. ASSUME NEW k \in Callers, Declare(k) PROVE Complete'
    <3>0. PICK m \in Meshes : m = mesh[k]
      BY <2>6 DEF Declare, Goto
    <3>1. About(k, m)
      BY <2>6, <3>0 DEF Declare, Goto, About
    <3>2. Underway(k)' /\ call'[k] # "idle"
      <4>1. call[k] = "declare" /\ got[k] = session /\ Underway(k)
        BY <2>6 DEF Declare, Goto, Shared
      <4>2. \/ call'[k] = "run" /\ subs' = [subs EXCEPT ![m] = subs[m] \cup {session}]
            \/ call'[k] = "fail" /\ UNCHANGED subs
        BY <2>6, <3>0, <4>1 DEF Declare, Goto
      <4>3. /\ UNCHANGED <<running, hasRef, registered, session, mesh>>
            /\ call[k] \notin {"join", "leave"}
        BY <2>6, <4>1 DEF Declare
      <4>4. subs[m] = {}
        BY <3>0, <4>1 DEF Underway
      <4>5. subs'[m] = IF call'[k] = "run" THEN {session'} ELSE {}
        BY <4>2, <4>3, <4>4
      <4>6. QED
        BY <3>0, <4>1, <4>2, <4>3, <4>5 DEF Underway
    <3>3. QED
      BY <3>1, <3>2, AboutOne
  <2>7. ASSUME NEW k \in Callers, StartFail(k) PROVE Complete'
    <3>0. PICK m \in Meshes : m = mesh[k]
      BY <2>7 DEF StartFail, Goto
    <3>1. /\ \A n \in Meshes : running[n] => session' = session
          /\ \A j \in Callers : call[j] \in Holding /\ j # k => session' = session
      BY <2>7, ReleaseSpares DEF StartFail, Goto
    <3>2. About(k, m)
      BY <2>7, <3>0, <3>1 DEF StartFail, Goto, About
    <3>3. Underway(k)' /\ call'[k] # "idle"
      BY <2>7, <3>0 DEF StartFail, Goto, Underway
    <3>4. QED
      BY <3>2, <3>3, AboutOne
  <2>8. ASSUME NEW k \in Callers, StartDrop(k) PROVE Complete'
    <3>0. PICK m \in Meshes : m = mesh[k]
      BY <2>8 DEF StartDrop, Return, Goto
    <3>1. About(k, m)
      BY <2>8, <3>0 DEF StartDrop, Return, Goto, About
    <3>2. Settled(m)' /\ call'[k] = "idle"
      BY <2>8, <3>0 DEF StartDrop, Return, Goto, Underway, Settled
    <3>3. QED
      BY <3>1, <3>2, AboutOne
  <2>9. ASSUME NEW k \in Callers, StartRun(k) PROVE Complete'
    <3>0. PICK m \in Meshes : m = mesh[k]
      BY <2>9 DEF StartRun, Return, Goto
    <3>1. About(k, m)
      BY <2>9, <3>0 DEF StartRun, Return, Goto, About
    <3>2. Settled(m)' /\ call'[k] = "idle"
      BY <2>9, <3>0 DEF StartRun, Return, Goto, Underway, Settled
    <3>3. QED
      BY <3>1, <3>2, AboutOne
  <2>10. ASSUME NEW k \in Callers, JoinLoops(k) PROVE Complete'
    <3>0. PICK m \in Meshes : m = mesh[k]
      BY <2>10 DEF JoinLoops, Goto
    <3>1. About(k, m)
      BY <2>10, <3>0 DEF JoinLoops, Goto, About
    <3>2. Underway(k)' /\ call'[k] # "idle"
      BY <2>10, <3>0 DEF JoinLoops, Goto, Underway, Settled
    <3>3. QED
      BY <3>1, <3>2, AboutOne
  <2>11. ASSUME NEW k \in Callers, Leave(k) PROVE Complete'
    <3>0. PICK m \in Meshes : m = mesh[k]
      BY <2>11 DEF Leave, Goto
    <3>1. About(k, m)
      BY <2>11, <3>0 DEF Leave, Goto, About
    <3>2. Underway(k)' /\ call'[k] # "idle"
      BY <2>11, <3>0 DEF Leave, Goto, Underway, Settled
    <3>3. QED
      BY <3>1, <3>2, AboutOne
  <2>12. ASSUME NEW k \in Callers, CheckRef(k) PROVE Complete'
    <3>0. PICK m \in Meshes : m = mesh[k]
      BY <2>12 DEF CheckRef, Goto, Return
    <3>1. hasRef[mesh[k]]
      BY <2>12, <3>0 DEF CheckRef, Underway
    <3>2. About(k, m)
      BY <2>12, <3>0, <3>1 DEF CheckRef, Goto, About
    <3>3. Underway(k)' /\ call'[k] # "idle"
      BY <2>12, <3>0, <3>1 DEF CheckRef, Goto, Underway
    <3>4. QED
      BY <3>2, <3>3, AboutOne
  <2>13. ASSUME NEW k \in Callers, StopRelease(k) PROVE Complete'
    <3>0. PICK m \in Meshes : m = mesh[k]
      BY <2>13 DEF StopRelease, Goto
    <3>1. /\ \A n \in Meshes : running[n] => session' = session
          /\ \A j \in Callers : call[j] \in Holding /\ j # k => session' = session
      BY <2>13, ReleaseSpares DEF StopRelease, Goto
    <3>2. About(k, m)
      BY <2>13, <3>0, <3>1 DEF StopRelease, Goto, About
    <3>3. Underway(k)' /\ call'[k] # "idle"
      BY <2>13, <3>0 DEF StopRelease, Goto, Underway
    <3>4. QED
      BY <3>2, <3>3, AboutOne
  <2>14. ASSUME NEW k \in Callers, StopUnhold(k) PROVE Complete'
    <3>0. PICK m \in Meshes : m = mesh[k]
      BY <2>14 DEF StopUnhold, Return, Goto
    <3>1. About(k, m)
      BY <2>14, <3>0 DEF StopUnhold, Return, Goto, About
    <3>2. Settled(m)' /\ call'[k] = "idle"
      BY <2>14, <3>0 DEF StopUnhold, Return, Goto, Underway, Settled
    <3>3. QED
      BY <3>1, <3>2, AboutOne
  <2>15. ASSUME NEW l \in Loops, LoopTest(l) \/ Publish(l) \/ Wait(l) PROVE Complete'
    <3>1. UNCHANGED <<running, hasRef, registered, subs, session, call, mesh>>
      BY <2>15 DEF LoopTest, Publish, Wait
    <3>2. OneCall'
      BY <3>1 DEF OneCall
    <3>3. ASSUME NEW m \in Meshes, Quiet(m)' PROVE Settled(m)'
      BY <3>1, <3>3 DEF Quiet, Settled
    <3>4. ASSUME NEW k \in Callers, call'[k] # "idle" PROVE Underway(k)'
      BY <3>1, <3>4 DEF Underway
    <3>5. QED
      BY <3>2, <3>3, <3>4 DEF Complete
  <2>16. QED
    BY <1>1, <2>1, <2>2, <2>3, <2>4, <2>5, <2>6, <2>7, <2>8, <2>9,
       <2>10, <2>11, <2>12, <2>13, <2>14, <2>15 DEF Next
<1>2. CASE UNCHANGED vars
  <2>1. UNCHANGED <<running, hasRef, registered, subs, session, call, mesh>>
    BY <1>2 DEF vars
  <2>2. OneCall'
    BY <2>1 DEF OneCall
  <2>3. ASSUME NEW m \in Meshes, Quiet(m)' PROVE Settled(m)'
    BY <2>1, <2>3 DEF Quiet, Settled
  <2>4. ASSUME NEW k \in Callers, call'[k] # "idle" PROVE Underway(k)'
    BY <2>1, <2>4 DEF Underway
  <2>5. QED
    BY <2>2, <2>3, <2>4 DEF Complete
<1>3. QED
  BY <1>1, <1>2

LEMMA SharingAlways == Spec => [](Typed /\ Counted /\ Shared /\ Complete)
<1>1. Init => Typed /\ Counted /\ Shared /\ Complete
  <2> SUFFICES ASSUME Init PROVE Typed /\ Counted /\ Shared /\ Complete
    OBVIOUS
  <2>1. Holders = {}
    BY DEF Init, Holders, Holding
  <2>2. Counted
    BY <2>1, FS_EmptySet DEF Init, Counted
  <2>3. Shared
    BY DEF Init, Shared
  <2>4. Complete
    BY DEF Init, Complete, OneCall, Settled
  <2>5. QED
    BY <2>2, <2>3, <2>4, TypedInit
<1>2. Typed /\ Counted /\ Shared /\ Complete /\ [Next]_vars
        => (Typed /\ Counted /\ Shared /\ Complete)'
  BY TypedStep, CountedStep, SharedStep, CompleteStep
<1>3. QED
  BY <1>1, <1>2, PTL DEF Spec

\* The session a mesh was started with stays open under it (get_session,
\* release_session), however the calls of the process interleave.
THEOREM SessionOutlivesItsUsers == Spec => []RunningMeshHasItsSession
<1>1. Typed /\ Counted /\ Shared => RunningMeshHasItsSession
  <2> SUFFICES ASSUME Typed, Counted, Shared, NEW m \in Meshes, running[m]
               PROVE  session # 0 /\ session = home[m]
    BY DEF RunningMeshHasItsSession
  <2>1. <<"mesh", m>> \in Holders
    BY DEF Holders
  <2>2. session # 0
    BY <2>1, HeldIsCounted
  <2>3. QED
    BY <2>2 DEF Shared
<1>2. QED
  BY <1>1, SharingAlways, PTL

\* Between two calls a mesh has all it takes or nothing, and the last to leave
\* closes the session, as long as no start() overlaps the rest of a stop().
THEOREM CallsAreAllOrNothing == Spec => []AllOrNothing
<1>1. Typed /\ Counted /\ Complete => AllOrNothing
  <2> SUFFICES ASSUME Typed, Counted, Complete, Apart PROVE
        /\ \A m \in Meshes : Quiet(m) => Settled(m)
        /\ (\A m \in Meshes : Quiet(m) /\ ~running[m]) => session = 0
    BY DEF AllOrNothing, Settled, Apart
  <2>1. ASSUME \A m \in Meshes : Quiet(m) /\ ~running[m] PROVE session = 0
    <3>1. \A k \in Callers : call[k] = "idle"
      BY <2>1 DEF Quiet, Typed, CallsAreOwn
    <3>2. Holders = {}
      BY <2>1, <3>1 DEF Holders, Holding
    <3>3. refs = 0
      BY <3>2, FS_EmptySet DEF Counted
    <3>4. QED
      BY <3>3 DEF Typed, TypeOK
  <2>2. QED
    BY <2>1 DEF Complete
<1>2. QED
  BY <1>1, SharingAlways, PTL
===============================================================================

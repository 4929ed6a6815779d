----------------------------- MODULE MeshLifecycle -----------------------------
(***************************************************************************)
(* Joining and leaving the mesh: Mesh.start() and Mesh.stop() of           *)
(* strands_robots/mesh/core.py, called from any thread, over the transport *)
(* session that the meshes of a process share and count references of      *)
(* (strands_robots/mesh/session.py).                                       *)
(*                                                                         *)
(* start() holds the lifecycle lock of its mesh from end to end; stop()    *)
(* holds it only while it lowers the running flag.  Of the loops a mesh    *)
(* runs the heartbeat stands for all: each start() begins one, and every   *)
(* one is paced by the mesh's one stop event.                              *)
(***************************************************************************)
EXTENDS Naturals

CONSTANTS
  Meshes,     \* the meshes of one process
  Callers,    \* the threads that call start() and stop()
  NoCaller,
  NoMesh,
  MaxStarts   \* bounds the calls of start() on each mesh that get to run

ASSUME NoCallerAssumption == NoCaller \notin Callers
ASSUME NoMeshAssumption == NoMesh \notin Meshes
ASSUME BoundAssumption == MaxStarts \in [Meshes -> Nat]

\* The heartbeat loop of each start of each mesh.
Loops == UNION {{m} \X (1..MaxStarts[m]) : m \in Meshes}

VARIABLES
  \* each mesh
  lock,        \* _lifecycle_lock, as the thread that holds it
  running,     \* _running
  stopEvent,   \* _stop_event
  hasRef,      \* _has_session_ref
  subs,        \* _subs, as the sessions they are declared on
  registered,  \* in _LOCAL_ROBOTS
  starts,      \* the starts so far
  \* the process
  refs,        \* _SESSION_REFS
  session,     \* _SESSION; 0 when there is none
  opened,      \* sessions opened so far
  \* the threads
  call,        \* where the call of a thread is
  mesh,        \* the mesh it is about
  got,         \* the session a start() got
  loop,        \* where each heartbeat loop is
  \* history, read by the properties only
  home,        \* the session a running mesh was started with
  overlapped,  \* a start() has run beside the rest of an earlier stop()
  late         \* what a loop published after the stop() of its mesh

meshVars == <<lock, running, stopEvent, hasRef, subs, registered, starts>>
sessionVars == <<refs, session, opened>>
threadVars == <<call, mesh, got, loop>>
history == <<home, overlapped, late>>
vars == <<meshVars, sessionVars, threadVars, history>>

Starting == {"get", "hold", "declare", "run", "fail", "drop"}
Stopping == {"join", "leave", "check", "release", "unhold"}

Init ==
  /\ lock = [m \in Meshes |-> NoCaller]
  /\ running = [m \in Meshes |-> FALSE]
  /\ stopEvent = [m \in Meshes |-> FALSE]
  /\ hasRef = [m \in Meshes |-> FALSE]
  /\ subs = [m \in Meshes |-> {}]
  /\ registered = [m \in Meshes |-> FALSE]
  /\ starts = [m \in Meshes |-> 0]
  /\ refs = 0 /\ session = 0 /\ opened = 0
  /\ call = [k \in Callers |-> "idle"]
  /\ mesh = [k \in Callers |-> NoMesh]
  /\ got = [k \in Callers |-> 0]
  /\ loop = [l \in Loops |-> "none"]
  /\ home = [m \in Meshes |-> 0]
  /\ overlapped = [m \in Meshes |-> FALSE]
  /\ late = [l \in Loops |-> 0]

Goto(k, from, to) == call[k] = from /\ call' = [call EXCEPT ![k] = to]

\* The call returns, and its locals are gone.
Return(k, from) ==
  /\ Goto(k, from, "idle")
  /\ mesh' = [mesh EXCEPT ![k] = NoMesh]
  /\ got' = [got EXCEPT ![k] = 0]

-------------------------------------------------------------------------------
(***************************************************************************)
(* start(), under the lifecycle lock.                                      *)
(***************************************************************************)

StartEnter(k, m) ==
  /\ lock[m] = NoCaller /\ ~running[m] /\ starts[m] < MaxStarts[m]
  /\ Goto(k, "idle", "get")
  /\ lock' = [lock EXCEPT ![m] = k]
  /\ mesh' = [mesh EXCEPT ![k] = m]
  /\ starts' = [starts EXCEPT ![m] = @ + 1]
  /\ overlapped' = [overlapped EXCEPT ![m] =
                      @ \/ \E j \in Callers : call[j] \in Stopping /\ mesh[j] = m]
  /\ UNCHANGED <<running, stopEvent, hasRef, subs, registered, sessionVars, got,
                 loop, home, late>>

\* The start is refused, or there is no transport.
StartRefused(k) ==
  /\ Return(k, "get")
  /\ lock' = [lock EXCEPT ![mesh[k]] = NoCaller]
  /\ UNCHANGED <<running, stopEvent, hasRef, subs, registered, starts, sessionVars,
                 loop, history>>

\* get_session, under the session lock.
GetSession(k) ==
  /\ Goto(k, "get", "hold")
  /\ IF session # 0
     THEN refs' = refs + 1 /\ UNCHANGED <<session, opened>>
     ELSE refs' = 1 /\ opened' = opened + 1 /\ session' = opened'
  /\ got' = [got EXCEPT ![k] = session']
  /\ UNCHANGED <<meshVars, mesh, loop, history>>

HoldRef(k) ==
  /\ Goto(k, "hold", "declare")
  /\ hasRef' = [hasRef EXCEPT ![mesh[k]] = TRUE]
  /\ UNCHANGED <<lock, running, stopEvent, subs, registered, starts, sessionVars,
                 mesh, got, loop, history>>

\* The subscribers are declared; a failure gives the session back.
Declare(k) ==
  /\ \/ /\ Goto(k, "declare", "run")
        /\ subs' = [subs EXCEPT ![mesh[k]] = @ \cup {got[k]}]
     \/ Goto(k, "declare", "fail") /\ UNCHANGED subs
  /\ UNCHANGED <<lock, running, stopEvent, hasRef, registered, starts, sessionVars,
                 mesh, got, loop, history>>

\* Variant: the last release leaves the closed session in place.
ReleaseKeepsSession ==
  /\ refs' = IF refs > 0 THEN refs - 1 ELSE 0
  /\ UNCHANGED <<session, opened>>

\* release_session, under the session lock; the last release closes it.
Release ==
  /\ refs' = IF refs > 0 THEN refs - 1 ELSE 0
  /\ session' = IF refs > 1 THEN session ELSE 0
  /\ UNCHANGED opened

StartFail(k) ==
  /\ Goto(k, "fail", "drop")
  /\ Release
  /\ UNCHANGED <<meshVars, mesh, got, loop, history>>

StartDrop(k) ==
  /\ Return(k, "drop")
  /\ hasRef' = [hasRef EXCEPT ![mesh[k]] = FALSE]
  /\ lock' = [lock EXCEPT ![mesh[k]] = NoCaller]
  /\ UNCHANGED <<running, stopEvent, subs, registered, starts, sessionVars,
                 loop, history>>

\* Variant: the stop event is cleared, whatever still waits on it.
StartRunRearmed(k) ==
  LET m == mesh[k] IN
  /\ Return(k, "run")
  /\ running' = [running EXCEPT ![m] = TRUE]
  /\ stopEvent' = [stopEvent EXCEPT ![m] = FALSE]
  /\ registered' = [registered EXCEPT ![m] = TRUE]
  /\ loop' = [loop EXCEPT ![<<m, starts[m]>>] = "test"]
  /\ lock' = [lock EXCEPT ![m] = NoCaller]
  /\ home' = [home EXCEPT ![m] = got[k]]
  /\ UNCHANGED <<hasRef, subs, starts, sessionVars, overlapped, late>>

\* The mesh is up: its flag, its place in the registry, its loop.
StartRun(k) ==
  LET m == mesh[k] IN
  /\ Return(k, "run")
  /\ running' = [running EXCEPT ![m] = TRUE]
  /\ registered' = [registered EXCEPT ![m] = TRUE]
  /\ loop' = [loop EXCEPT ![<<m, starts[m]>>] = "test"]
  /\ lock' = [lock EXCEPT ![m] = NoCaller]
  /\ home' = [home EXCEPT ![m] = got[k]]
  /\ UNCHANGED <<stopEvent, hasRef, subs, starts, sessionVars, overlapped, late>>

-------------------------------------------------------------------------------
(***************************************************************************)
(* stop().                                                                 *)
(***************************************************************************)

\* Variant: a stop() of a mesh that has been stopped goes on.
StopEnterAgain(k, m) ==
  /\ lock[m] = NoCaller
  /\ Goto(k, "idle", "join")
  /\ running' = [running EXCEPT ![m] = FALSE]
  /\ stopEvent' = [stopEvent EXCEPT ![m] = TRUE]
  /\ mesh' = [mesh EXCEPT ![k] = m]
  /\ UNCHANGED <<lock, hasRef, subs, registered, starts, sessionVars, got, loop,
                 history>>

\* The only step of stop() under the lifecycle lock.
StopEnter(k, m) ==
  /\ lock[m] = NoCaller /\ running[m]
  /\ Goto(k, "idle", "join")
  /\ running' = [running EXCEPT ![m] = FALSE]
  /\ stopEvent' = [stopEvent EXCEPT ![m] = TRUE]
  /\ mesh' = [mesh EXCEPT ![k] = m]
  /\ UNCHANGED <<lock, hasRef, subs, registered, starts, sessionVars, got, loop,
                 history>>

\* _join_loops: the wait is bounded, whether or not the loops have ended.
JoinLoops(k) ==
  /\ Goto(k, "join", "leave")
  /\ UNCHANGED <<meshVars, sessionVars, mesh, got, loop, history>>

\* Variant: the subscribers stay.
LeaveSubscribed(k) ==
  /\ Goto(k, "leave", "check")
  /\ registered' = [registered EXCEPT ![mesh[k]] = FALSE]
  /\ UNCHANGED <<lock, running, stopEvent, hasRef, subs, starts, sessionVars, mesh,
                 got, loop, history>>

\* The mesh leaves the registry and drops the subscribers it finds.
Leave(k) ==
  /\ Goto(k, "leave", "check")
  /\ registered' = [registered EXCEPT ![mesh[k]] = FALSE]
  /\ subs' = [subs EXCEPT ![mesh[k]] = {}]
  /\ UNCHANGED <<lock, running, stopEvent, hasRef, starts, sessionVars, mesh, got,
                 loop, history>>

CheckRef(k) ==
  /\ call[k] = "check"
  /\ IF hasRef[mesh[k]]
     THEN Goto(k, "check", "release") /\ UNCHANGED <<mesh, got>>
     ELSE Return(k, "check")
  /\ UNCHANGED <<meshVars, sessionVars, loop, history>>

StopRelease(k) ==
  /\ Goto(k, "release", "unhold")
  /\ Release
  /\ UNCHANGED <<meshVars, mesh, got, loop, history>>

StopUnhold(k) ==
  /\ Return(k, "unhold")
  /\ hasRef' = [hasRef EXCEPT ![mesh[k]] = FALSE]
  /\ UNCHANGED <<lock, running, stopEvent, subs, registered, starts, sessionVars,
                 loop, history>>

-------------------------------------------------------------------------------
(***************************************************************************)
(* _heartbeat_loop.                                                        *)
(***************************************************************************)

LoopGoto(l, from, to) == loop[l] = from /\ loop' = [loop EXCEPT ![l] = to]

LoopTest(l) ==
  /\ LoopGoto(l, "test", IF running[l[1]] THEN "publish" ELSE "ended")
  /\ UNCHANGED <<meshVars, sessionVars, call, mesh, got, history>>

\* Its start() was followed by a stop().
Outlived(l) == starts[l[1]] > l[2] \/ stopEvent[l[1]]

\* put() goes through whichever session is open, if one is.
Publish(l) ==
  /\ LoopGoto(l, "publish", "wait")
  /\ late' = [late EXCEPT ![l] = IF Outlived(l) THEN @ + 1 ELSE @]
  /\ UNCHANGED <<meshVars, sessionVars, call, mesh, got, home, overlapped>>

\* Ticker.wait: the stop event ends the loop.
Wait(l) ==
  /\ LoopGoto(l, "wait", IF stopEvent[l[1]] THEN "ended" ELSE "test")
  /\ UNCHANGED <<meshVars, sessionVars, call, mesh, got, history>>

-------------------------------------------------------------------------------
Next ==
  \/ \E k \in Callers :
       \/ \E m \in Meshes : StartEnter(k, m) \/ StopEnter(k, m)
       \/ StartRefused(k) \/ GetSession(k) \/ HoldRef(k) \/ Declare(k)
       \/ StartFail(k) \/ StartDrop(k) \/ StartRun(k)
       \/ JoinLoops(k) \/ Leave(k) \/ CheckRef(k) \/ StopRelease(k) \/ StopUnhold(k)
  \/ \E l \in Loops : LoopTest(l) \/ Publish(l) \/ Wait(l)

Spec == Init /\ [][Next]_vars

-------------------------------------------------------------------------------
(***************************************************************************)
(* Safety.                                                                 *)
(***************************************************************************)

\* Every variable stays in its domain, and there is a session just when it is
\* counted.
TypeOK ==
  /\ lock \in [Meshes -> Callers \cup {NoCaller}]
  /\ running \in [Meshes -> BOOLEAN]
  /\ stopEvent \in [Meshes -> BOOLEAN]
  /\ hasRef \in [Meshes -> BOOLEAN]
  /\ subs \in [Meshes -> SUBSET (1..opened)]
  /\ registered \in [Meshes -> BOOLEAN]
  /\ starts \in [Meshes -> Nat]
  /\ refs \in Nat /\ opened \in Nat /\ session \in 0..opened
  /\ (refs = 0) <=> (session = 0)
  /\ call \in [Callers -> {"idle"} \cup Starting \cup Stopping]
  /\ mesh \in [Callers -> Meshes \cup {NoMesh}]
  /\ got \in [Callers -> 0..opened]
  /\ loop \in [Loops -> {"none", "test", "publish", "wait", "ended"}]
  /\ home \in [Meshes -> 0..opened]
  /\ overlapped \in [Meshes -> BOOLEAN]
  /\ late \in [Loops -> Nat]

(***************************************************************************)
(* A mesh that runs has the session it was started with, however starts,   *)
(* failing starts and stops of the meshes of the process interleave: no    *)
(* release closes the session under another user of it.                    *)
(***************************************************************************)
RunningMeshHasItsSession ==
  \A m \in Meshes : running[m] => session # 0 /\ session = home[m]

(***************************************************************************)
(* A loop publishes at most once more after the stop() of its mesh, even   *)
(* one that outlasts the join and finds the mesh running again             *)
(* (_join_loops: "free to publish once more").                             *)
(***************************************************************************)
AtMostOneLateBeat == \A l \in Loops : late[l] <= 1

Quiet(m) == \A k \in Callers : mesh[k] = m => call[k] = "idle"

(***************************************************************************)
(* As long as no start() overlaps the rest of a stop(), a mesh between two *)
(* calls is on the mesh with all it takes or off it with nothing left: its *)
(* subscribers, its place in the registry and its session reference; and   *)
(* the last to leave closes the session.                                   *)
(***************************************************************************)
AllOrNothing ==
  (\A m \in Meshes : ~overlapped[m]) =>
    /\ \A m \in Meshes : Quiet(m) =>
         /\ hasRef[m] <=> running[m]
         /\ registered[m] <=> running[m]
         /\ subs[m] = IF running[m] THEN {session} ELSE {}
    /\ (\A m \in Meshes : Quiet(m) /\ ~running[m]) => session = 0

-------------------------------------------------------------------------------
(***************************************************************************)
(* What the repository says and the code does not do.                      *)
(***************************************************************************)

(***************************************************************************)
(* docs/mesh.md: "stop() then start() is how a peer leaves and rejoins".   *)
(* A peer that has rejoined, with no call in progress, keeps a heartbeat.  *)
(***************************************************************************)
RunningMeshHasAHeartbeat ==
  \A m \in Meshes : running[m] /\ Quiet(m) /\ ~overlapped[m] =>
    loop[<<m, starts[m]>>] \in {"test", "publish", "wait"}
===============================================================================

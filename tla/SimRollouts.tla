------------------------------ MODULE SimRollouts ------------------------------
(***************************************************************************)
(* The rollouts of the MuJoCo engine, strands_robots/simulation/mujoco/    *)
(* simulation.py: how start_policy and run_policy claim a robot, how the   *)
(* thread that drives one takes its frames, and how stop_policy, the       *)
(* mesh's stop of every rollout, a scene mutation, remove_robot and        *)
(* cleanup act on rollouts of other threads.                               *)
(*                                                                         *)
(* A call is made by a thread of its own.  A call an agent makes comes in  *)
(* through _dispatch_action and holds the engine's lock from start to end; *)
(* a call of the mesh or of a Python program holds no lock.  A rollout is  *)
(* named by the call that launches it: the Future of a start_policy and    *)
(* the thread of a run_policy are the launch itself.                       *)
(*                                                                         *)
(* What a policy computes and what a step of the physics does is left out: *)
(* a frame is one send_action, and it moves the robot.                     *)
(***************************************************************************)
EXTENDS Naturals, FiniteSets

CONSTANTS
  Robots,      \* the robots of the world
  Launches,    \* calls of start_policy and run_policy
  Kind,        \* which of the two each launch is: "start" or "run"
  Dispatched,  \* the launches that an agent makes
  Calls,       \* every other call: a stop_policy, a "stop" of the mesh, a scene
               \* mutation of an agent, a remove_robot or a cleanup
  Workers,     \* threads of the executor
  Horizon,     \* frames of an episode
  Episodes,    \* the largest n_episodes of a run_policy
  None

ASSUME KindAssumption == Kind \in [Launches -> {"start", "run"}]
ASSUME DispatchedAssumption == Dispatched \subseteq Launches
ASSUME CallsAssumption == Calls \cap Launches = {}
ASSUME BoundsAssumption ==
  /\ Workers \in Nat \ {0}
  /\ Horizon \in Nat \ {0}
  /\ Episodes \in Nat \ {0}
ASSUME NoneAssumption == None \notin Robots \cup Launches \cup Calls

VARIABLES
  \* the engine
  world,       \* _world is not None
  robots,      \* _world.robots
  flag,        \* policy_running of each robot
  claim,       \* policy_claim_stops: "none", or whether it equals policy_stops
  table,       \* _policy_threads
  driver,      \* _rollout_driver_threads
  preStopped,  \* _pre_stopped
  lock,        \* the call that holds _lock, or None
  shut,        \* the executor is shut down
  \* the launches and the rollouts they launch
  call,        \* how far the launching call is
  on,          \* the robot it names
  work,        \* how far the thread that drives the rollout is
  episode,     \* the number of the episode it is in
  step,        \* frames taken in that episode
  \* the other calls
  at,          \* how far the call is
  target,      \* the robot it is at
  todo,        \* the robots the mesh's stop has yet to turn to
  found,       \* was_running
  fut,         \* the future it joins
  \* history, read by the properties only
  stopped,     \* the episode in which a stop reached the rollout, or 0
  late,        \* frames it has taken since
  owed,        \* rollouts halted by a stop that no answer has named yet
  after,       \* the mutations that had passed their gate when it was launched
  overrun,     \* rollouts under which the model was swapped all the same
  forgotten    \* rollouts whose record was dropped before they had ended

engine == <<world, robots, flag, claim, table, driver, preStopped, lock, shut>>
launching == <<call, on>>
driving == <<work, episode, step>>
calling == <<at, target, todo, found, fut>>
history == <<stopped, late, owed, after, overrun, forgotten>>
vars == <<engine, launching, driving, calling, history>>

Init ==
  /\ world = TRUE
  /\ robots = Robots
  /\ flag = [r \in Robots |-> FALSE]
  /\ claim = [r \in Robots |-> "none"]
  /\ table = [r \in Robots |-> None]
  /\ driver = [r \in Robots |-> None]
  /\ preStopped = [r \in Robots |-> None]
  /\ lock = None
  /\ shut = FALSE
  /\ call = [l \in Launches |-> "idle"]
  /\ on = [l \in Launches |-> None]
  /\ work = [l \in Launches |-> "none"]
  /\ episode = [l \in Launches |-> 1]
  /\ step = [l \in Launches |-> 0]
  /\ at = [c \in Calls |-> "idle"]
  /\ target = [c \in Calls |-> None]
  /\ todo = [c \in Calls |-> {}]
  /\ found = [c \in Calls |-> FALSE]
  /\ fut = [c \in Calls |-> None]
  /\ stopped = [l \in Launches |-> 0]
  /\ late = [l \in Launches |-> 0]
  /\ owed = {}
  /\ after = [l \in Launches |-> {}]
  /\ overrun = {}
  /\ forgotten = {}
-------------------------------------------------------------------------------
(***************************************************************************)
(* What the calls read.                                                    *)
(***************************************************************************)

\* The rollout has claimed its robot and its thread has not ended.
Live(l) ==
  /\ call[l] \in {"announced", "submitted", "driving", "returned"}
  /\ work[l] # "done"

\* The rollout is in its frame loop, on the compiled model.
InLoop(l) == work[l] \in {"loop", "check"}

\* A future of start_policy is done once its thread has returned.
Done(l) == work[l] = "done"

\* _prune_done_futures
Pruned ==
  [r \in Robots |-> IF table[r] # None /\ Done(table[r]) THEN None ELSE table[r]]

\* Variant: only the flag of a robot says that it is driven.
ActiveByFlag == IF world THEN {r \in robots : flag[r]} ELSE {}

\* _active_policy_robots, and the gate's population when no call that passes
\* the gate is the driver of a rollout
Active ==
  {r \in Robots : Pruned[r] # None} \cup
  (IF world THEN {r \in robots : flag[r]} ELSE {})

\* _rollouts_driven_by_other_threads, for the thread that drives rollout l
DrivenByOthers(l) == {r \in Active : driver[r] # l}

\* The robot object the rollout drives is gone from the world.
Gone(l) == ~world \/ on[l] \notin robots

\* Whether the thread that drives rollout l can enter a section of _lock: a
\* run_policy is driven by the thread that made the call, a start_policy by a
\* thread of the executor.
CanEnter(l) == lock = None \/ (Kind[l] = "run" /\ lock = l)

\* The lock after call l has returned.
Left(l) == IF lock = l THEN None ELSE lock

\* The mutations that have passed their gate and not swapped the model yet.
PastGate == {c \in Calls : at[c] = "swap"}

\* request_policy_stop on each robot of rs; the counters of the history.
RequestStop(rs) ==
  /\ flag' = [r \in Robots |-> IF r \in rs THEN FALSE ELSE flag[r]]
  /\ claim' = [r \in Robots |->
                 IF r \in rs /\ claim[r] = "current" THEN "outdated" ELSE claim[r]]
  /\ stopped' = [l \in Launches |->
                   IF Live(l) /\ on[l] \in rs /\ stopped[l] = 0
                   THEN episode[l] ELSE stopped[l]]

\* The rollouts that a request on the robots rs is the first to halt.  One
\* that waits between two episodes, its flag lowered by reset(), is not among
\* them: the stop is kept, but the answer says that nothing was running.
Halting(rs) ==
  {l \in Launches : /\ Live(l) /\ ~Gone(l)
                    /\ on[l] \in rs
                    /\ stopped[l] = 0
                    /\ ~(work[l] = "setup" /\ episode[l] > 1)}
-------------------------------------------------------------------------------
(***************************************************************************)
(* start_policy and run_policy.                                            *)
(***************************************************************************)

\* The world and registry checks, and the gate of the robot.
Admit(l, r) ==
  /\ call[l] = "idle"
  /\ world
  /\ r \in robots
  /\ l \in Dispatched => lock = None
  /\ r \notin Active
  /\ table' = Pruned
  /\ lock' = IF l \in Dispatched THEN l ELSE lock
  /\ call' = [call EXCEPT ![l] = "admitted"]
  /\ on' = [on EXCEPT ![l] = r]
  /\ UNCHANGED <<world, robots, flag, claim, driver, preStopped, shut>>
  /\ UNCHANGED <<driving, calling, history>>

\* No such world or robot, or the gate refuses one that a rollout is driving.
Refuse(l, r) ==
  /\ call[l] = "idle"
  /\ l \in Dispatched => lock = None
  /\ world /\ r \in robots => r \in Active
  /\ table' = IF world /\ r \in robots THEN Pruned ELSE table
  /\ call' = [call EXCEPT ![l] = "refused"]
  /\ UNCHANGED <<world, robots, flag, claim, driver, preStopped, lock, shut>>
  /\ UNCHANGED <<on, driving, calling, history>>

\* _announce_rollout; a run_policy goes on to drive on its own thread.
Announce(l) ==
  /\ call[l] = "admitted"
  /\ IF Gone(l)
     THEN UNCHANGED <<flag, claim>>
     ELSE /\ flag' = [flag EXCEPT ![on[l]] = TRUE]
          /\ claim' = [claim EXCEPT ![on[l]] = "current"]
  /\ IF Kind[l] = "run"
     THEN /\ call' = [call EXCEPT ![l] = "driving"]
          /\ work' = [work EXCEPT ![l] = "queued"]
     ELSE /\ call' = [call EXCEPT ![l] = "announced"]
          /\ UNCHANGED work
  /\ after' = [after EXCEPT ![l] = PastGate]
  /\ UNCHANGED <<world, robots, table, driver, preStopped, lock, shut>>
  /\ UNCHANGED <<on, episode, step, calling>>
  /\ UNCHANGED <<stopped, late, owed, overrun, forgotten>>

\* The submit to the executor, which raises once that is shut down.
Submit(l) ==
  /\ call[l] = "announced"
  /\ IF shut
     THEN /\ call' = [call EXCEPT ![l] = "refused"]
          /\ lock' = Left(l)
          /\ UNCHANGED work
     ELSE /\ call' = [call EXCEPT ![l] = "submitted"]
          /\ work' = [work EXCEPT ![l] = "queued"]
          /\ UNCHANGED lock
  /\ UNCHANGED <<world, robots, flag, claim, table, driver, preStopped, shut>>
  /\ UNCHANGED <<on, episode, step, calling, history>>

\* The future enters _policy_threads, and start_policy returns.
Record(l) ==
  /\ call[l] = "submitted"
  /\ table' = [table EXCEPT ![on[l]] = l]
  /\ call' = [call EXCEPT ![l] = "returned"]
  /\ lock' = Left(l)
  /\ after' = [after EXCEPT ![l] = PastGate]
  /\ UNCHANGED <<world, robots, flag, claim, driver, preStopped, shut>>
  /\ UNCHANGED <<on, driving, calling, stopped, late, owed, overrun, forgotten>>
-------------------------------------------------------------------------------
(***************************************************************************)
(* _drive_rollout, on the thread that drives the rollout.                  *)
(***************************************************************************)

Goto(l, pc) == work' = [work EXCEPT ![l] = pc]

Busy == {l \in Launches : Kind[l] = "start" /\ work[l] \notin {"none", "queued", "done"}}

\* A thread of the executor takes the rollout up; the thread records itself.
Begin(l) ==
  /\ work[l] = "queued"
  /\ Kind[l] = "start" => Cardinality(Busy) < Workers
  /\ driver' = [driver EXCEPT ![on[l]] = l]
  /\ Goto(l, "setup")
  /\ UNCHANGED <<world, robots, flag, claim, table, preStopped, lock, shut>>
  /\ UNCHANGED <<launching, episode, step, calling, history>>

\* Variant: the flag goes up whatever became of the claim.
MakeHookAnyway(l) ==
  /\ work[l] = "setup"
  /\ IF Gone(l)
     THEN /\ Goto(l, "release")
          /\ UNCHANGED flag
     ELSE /\ Goto(l, "loop")
          /\ flag' = [flag EXCEPT ![on[l]] = TRUE]
  /\ UNCHANGED <<world, robots, claim, table, driver, preStopped, lock, shut>>
  /\ UNCHANGED <<launching, episode, step, calling, history>>

\* _make_run_policy_hook: the flag goes up unless a stop has outdated the claim.
MakeHook(l) ==
  /\ work[l] = "setup"
  /\ IF Gone(l)
     THEN /\ Goto(l, "release")
          /\ UNCHANGED flag
     ELSE /\ Goto(l, "loop")
          /\ flag' = [flag EXCEPT ![on[l]] = @ \/ claim[on[l]] # "outdated"]
  /\ UNCHANGED <<world, robots, claim, table, driver, preStopped, lock, shut>>
  /\ UNCHANGED <<launching, episode, step, calling, history>>

\* One inference and one send_action.  Once the robot is gone nothing moves: the
\* policy fails for want of an observation, or the send is answered with an error.
Frame(l) ==
  /\ work[l] = "loop"
  /\ CanEnter(l)
  /\ \/ /\ Gone(l)
        /\ Goto(l, "release")
        /\ UNCHANGED step
     \/ /\ Goto(l, "check")
        /\ step' = [step EXCEPT ![l] = @ + 1]
  /\ late' = [late EXCEPT ![l] =
                IF Gone(l) \/ stopped[l] = 0 THEN @ ELSE @ + 1]
  /\ UNCHANGED <<engine, launching, episode, calling>>
  /\ UNCHANGED <<stopped, owed, after, overrun, forgotten>>

\* Where a rollout goes from the end of an episode: out, or, a run_policy of
\* several episodes, on to the next.
AfterEpisode(l) ==
  IF Kind[l] = "run" /\ episode[l] < Episodes THEN {"release", "between"} ELSE {"release"}

\* Variant: one frame more than the budget.
CheckOneMore(l) ==
  /\ work[l] = "check"
  /\ \/ /\ flag[on[l]]
        /\ step[l] <= Horizon
        /\ Goto(l, "loop")
        /\ UNCHANGED step
     \/ /\ \E pc \in AfterEpisode(l) : Goto(l, pc)
        /\ step' = [step EXCEPT ![l] = 0]
  /\ UNCHANGED <<engine, launching, episode, calling, history>>

\* The hook after each frame, which ends the episode when the flag is down,
\* and the budget and the other reasons an episode may end for.
Check(l) ==
  /\ work[l] = "check"
  /\ \/ /\ flag[on[l]]
        /\ step[l] < Horizon
        /\ Goto(l, "loop")
        /\ UNCHANGED step
     \/ /\ \E pc \in AfterEpisode(l) : Goto(l, pc)
        /\ step' = [step EXCEPT ![l] = 0]
  /\ UNCHANGED <<engine, launching, episode, calling, history>>

NextEpisode(l) ==
  /\ Goto(l, "setup")
  /\ episode' = [episode EXCEPT ![l] = @ + 1]

\* _run_episodes between two episodes: reset() passes its gate or refuses, or
\* reset_between is off.
Between(l) ==
  /\ work[l] = "between"
  /\ \/ /\ NextEpisode(l)
        /\ UNCHANGED table
     \/ /\ Goto(l, IF ~world \/ DrivenByOthers(l) # {} THEN "release" ELSE "reset")
        /\ table' = IF world THEN Pruned ELSE table
        /\ UNCHANGED episode
  /\ UNCHANGED <<world, robots, flag, claim, driver, preStopped, lock, shut>>
  /\ UNCHANGED <<launching, step, calling, history>>

\* reset() under the lock lowers the flag of every robot.
Reset(l) ==
  /\ work[l] = "reset"
  /\ CanEnter(l)
  /\ IF world
     THEN /\ flag' = [r \in Robots |-> flag[r] /\ r \notin robots]
          /\ NextEpisode(l)
     ELSE /\ Goto(l, "release")
          /\ UNCHANGED <<flag, episode>>
  /\ UNCHANGED <<world, robots, claim, table, driver, preStopped, lock, shut>>
  /\ UNCHANGED <<launching, step, calling, history>>

\* The finally of _drive_rollout: the driver's record goes first ...
Release(l) ==
  /\ work[l] = "release"
  /\ driver' = [driver EXCEPT ![on[l]] = None]
  /\ Goto(l, "lower")
  /\ UNCHANGED <<world, robots, flag, claim, table, preStopped, lock, shut>>
  /\ UNCHANGED <<launching, episode, step, calling, history>>

\* Variant: the claim goes, the flag is left to the hook.
LowerClaimOnly(l) ==
  /\ work[l] = "lower"
  /\ IF Gone(l)
     THEN UNCHANGED claim
     ELSE claim' = [claim EXCEPT ![on[l]] = "none"]
  /\ Goto(l, "done")
  /\ IF Kind[l] = "run"
     THEN /\ call' = [call EXCEPT ![l] = "returned"]
          /\ lock' = Left(l)
     ELSE UNCHANGED <<call, lock>>
  /\ UNCHANGED <<world, robots, flag, table, driver, preStopped, shut>>
  /\ UNCHANGED <<on, episode, step, calling, history>>

\* ... then the claim; a run_policy returns with it.
Lower(l) ==
  /\ work[l] = "lower"
  /\ IF Gone(l)
     THEN UNCHANGED <<flag, claim>>
     ELSE /\ flag' = [flag EXCEPT ![on[l]] = FALSE]
          /\ claim' = [claim EXCEPT ![on[l]] = "none"]
  /\ Goto(l, "done")
  /\ IF Kind[l] = "run"
     THEN /\ call' = [call EXCEPT ![l] = "returned"]
          /\ lock' = Left(l)
     ELSE UNCHANGED <<call, lock>>
  /\ UNCHANGED <<world, robots, table, driver, preStopped, shut>>
  /\ UNCHANGED <<on, episode, step, calling, history>>
-------------------------------------------------------------------------------
(***************************************************************************)
(* stop_policy, and the mesh's "stop" that names no robot.                 *)
(***************************************************************************)

To(c, pc) == at' = [at EXCEPT ![c] = pc]

Stop(c, r) ==
  /\ at[c] = "idle"
  /\ world
  /\ r \in robots
  /\ target' = [target EXCEPT ![c] = r]
  /\ To(c, "read")
  /\ UNCHANGED <<engine, launching, driving, todo, found, fut, history>>

\* The mesh's stop lists the robots once.
StopAll(c) ==
  /\ at[c] = "idle"
  /\ todo' = [todo EXCEPT ![c] = Active]
  /\ table' = Pruned
  /\ To(c, IF Active = {} THEN "done" ELSE "flag")
  /\ UNCHANGED <<world, robots, flag, claim, driver, preStopped, lock, shut>>
  /\ UNCHANGED <<launching, driving, target, found, fut, history>>

\* Variant: the pre-pass leaves no record of the robots it asked.
FlagAllUnrecorded(c) ==
  LET asked == {r \in todo[c] : /\ world
                                /\ r \in robots
                                /\ table[r] # None
                                /\ ~Done(table[r])}
  IN
  /\ at[c] = "flag"
  /\ RequestStop(asked)
  /\ owed' = owed \cup Halting(asked)
  /\ To(c, "next")
  /\ UNCHANGED <<world, robots, table, driver, preStopped, lock, shut>>
  /\ UNCHANGED <<launching, driving, target, todo, found, fut, late, after, overrun, forgotten>>

\* _request_policy_stop_all: the robots of the list that have a live future.
\* It asks them one after the other; no call reads two of them in between.
FlagAll(c) ==
  LET asked == {r \in todo[c] : /\ world
                                /\ r \in robots
                                /\ table[r] # None
                                /\ ~Done(table[r])}
  IN
  /\ at[c] = "flag"
  /\ preStopped' = [r \in Robots |-> IF r \in asked THEN table[r] ELSE preStopped[r]]
  /\ RequestStop(asked)
  /\ owed' = owed \cup Halting(asked)
  /\ To(c, "next")
  /\ UNCHANGED <<world, robots, table, driver, lock, shut>>
  /\ UNCHANGED <<launching, driving, target, todo, found, fut, late, after, overrun, forgotten>>

\* The stop turns to its next robot; one that has been removed meanwhile is
\* answered with a refusal.
NextTarget(c) ==
  /\ at[c] = "next"
  /\ IF todo[c] = {}
     THEN /\ To(c, "done")
          /\ UNCHANGED <<target, todo, owed>>
     ELSE \E r \in todo[c] :
            /\ todo' = [todo EXCEPT ![c] = @ \ {r}]
            /\ IF world /\ r \in robots
               THEN /\ target' = [target EXCEPT ![c] = r]
                    /\ To(c, "read")
                    /\ UNCHANGED owed
               ELSE /\ owed' = {l \in owed : on[l] # r}
                    /\ UNCHANGED <<target, at>>
  /\ UNCHANGED <<engine, launching, driving, found, fut, stopped, late, after, overrun, forgotten>>

ReadActive(c) ==
  /\ at[c] = "read"
  /\ found' = [found EXCEPT ![c] = target[c] \in Active]
  /\ table' = Pruned
  /\ To(c, "request")
  /\ UNCHANGED <<world, robots, flag, claim, driver, preStopped, lock, shut>>
  /\ UNCHANGED <<launching, driving, target, todo, fut, history>>

\* The record of the pre-pass is taken, the robot's stop requested, and the
\* future looked up that is to be joined.
Request(c) ==
  LET r == target[c]
      was == found[c] \/ preStopped[r] # None \/ flag[r]
  IN
  /\ at[c] = "request"
  /\ found' = [found EXCEPT ![c] = was]
  /\ fut' = [fut EXCEPT ![c] =
               IF was /\ table[r] # None THEN table[r] ELSE preStopped[r]]
  /\ preStopped' = [preStopped EXCEPT ![r] = None]
  /\ RequestStop({r})
  /\ owed' = owed \cup Halting({r})
  /\ To(c, "join")
  /\ UNCHANGED <<world, robots, table, driver, lock, shut>>
  /\ UNCHANGED <<launching, driving, target, todo, late, after, overrun, forgotten>>

\* Variant: the future is forgotten when the join has run out of time too.
AnswerForgetting(c) ==
  /\ at[c] = "join"
  /\ table' = [table EXCEPT ![target[c]] = None]
  /\ owed' = IF found[c] THEN {l \in owed : on[l] # target[c]} ELSE owed
  /\ target' = [target EXCEPT ![c] = None]
  /\ found' = [found EXCEPT ![c] = FALSE]
  /\ fut' = [fut EXCEPT ![c] = None]
  /\ To(c, "next")
  /\ UNCHANGED <<world, robots, flag, claim, driver, preStopped, lock, shut>>
  /\ UNCHANGED <<launching, driving, todo, stopped, late, after, overrun, forgotten>>

\* The bounded join ends, with the thread or without it, and the robot is
\* answered for.
Answer(c) ==
  LET exited == fut[c] # None /\ Done(fut[c]) IN
  /\ at[c] = "join"
  /\ table' = IF exited THEN Pruned ELSE table
  /\ owed' = IF found[c] THEN {l \in owed : on[l] # target[c]} ELSE owed
  /\ target' = [target EXCEPT ![c] = None]
  /\ found' = [found EXCEPT ![c] = FALSE]
  /\ fut' = [fut EXCEPT ![c] = None]
  /\ To(c, "next")
  /\ UNCHANGED <<world, robots, flag, claim, driver, preStopped, lock, shut>>
  /\ UNCHANGED <<launching, driving, todo, stopped, late, after, overrun, forgotten>>
-------------------------------------------------------------------------------
(***************************************************************************)
(* Scene mutations, remove_robot, cleanup.                                 *)
(***************************************************************************)

\* The rollouts in their frame loop, on the model that call c swaps, that were
\* launched before c passed the gate.
Overrun(c) == {l \in Launches : InLoop(l) /\ c \notin after[l]}

\* An agent's mutation: the gate, under the lock.
Gate(c) ==
  /\ at[c] = "idle"
  /\ lock = None
  /\ IF world /\ Active = {}
     THEN /\ To(c, "swap")
          /\ lock' = c
     ELSE /\ To(c, "done")
          /\ UNCHANGED lock
  /\ table' = IF world THEN Pruned ELSE table
  /\ UNCHANGED <<world, robots, flag, claim, driver, preStopped, shut>>
  /\ UNCHANGED <<launching, driving, target, todo, found, fut, history>>

\* The model is swapped.
Swap(c) ==
  /\ at[c] = "swap"
  /\ target[c] = None
  /\ To(c, "done")
  /\ lock' = None
  /\ overrun' = IF world THEN overrun \cup Overrun(c) ELSE overrun
  /\ UNCHANGED <<world, robots, flag, claim, table, driver, preStopped, shut>>
  /\ UNCHANGED <<launching, driving, target, todo, found, fut>>
  /\ UNCHANGED <<stopped, late, owed, after, forgotten>>

\* remove_robot: the robot's own rollout is asked to stop first, if it has a
\* future, pruned or not.
Remove(c, r) ==
  /\ at[c] = "idle"
  /\ world
  /\ r \in robots
  /\ target' = [target EXCEPT ![c] = r]
  /\ fut' = [fut EXCEPT ![c] = table[r]]
  /\ IF table[r] = None
     THEN /\ To(c, "gate")
          /\ UNCHANGED <<flag, claim, stopped>>
     ELSE /\ To(c, "leave")
          /\ RequestStop({r})
  /\ UNCHANGED <<world, robots, table, driver, preStopped, lock, shut>>
  /\ UNCHANGED <<launching, driving, todo, found, late, owed, after, overrun, forgotten>>

\* The bounded join ends.  A thread that lives on refuses the removal.  If it
\* is done the robot's entry is deleted, which raises when a prune of another
\* call has deleted it already, and deletes the record of the next rollout
\* when one has been launched since.
RemoveJoin(c) ==
  LET r == target[c] IN
  /\ at[c] = "leave"
  /\ IF ~Done(fut[c]) \/ table[r] = None
     THEN /\ To(c, "done")
          /\ UNCHANGED <<table, forgotten>>
     ELSE /\ To(c, "gate")
          /\ table' = [table EXCEPT ![r] = None]
          /\ forgotten' = forgotten \cup ({table[r]} \ {fut[c]})
  /\ fut' = [fut EXCEPT ![c] = None]
  /\ UNCHANGED <<world, robots, flag, claim, driver, preStopped, lock, shut>>
  /\ UNCHANGED <<launching, driving, target, todo, found>>
  /\ UNCHANGED <<stopped, late, owed, after, overrun>>

\* No rollout of another robot may be driving: read without the lock.  From
\* here on the removal answers for the robot, and a mesh's stop that had
\* flagged it loses its record.
RemoveGate(c) ==
  /\ at[c] = "gate"
  /\ preStopped' = [preStopped EXCEPT ![target[c]] = None]
  /\ table' = Pruned
  /\ To(c, IF Active = {} THEN "swap" ELSE "done")
  /\ owed' = {l \in owed : on[l] # target[c]}
  /\ UNCHANGED <<world, robots, flag, claim, driver, lock, shut>>
  /\ UNCHANGED <<launching, driving, target, todo, found, fut>>
  /\ UNCHANGED <<stopped, late, after, overrun, forgotten>>

\* The robot leaves the registry and the model is rebuilt, under the lock.
RemoveSwap(c) ==
  /\ at[c] = "swap"
  /\ target[c] # None
  /\ lock = None
  /\ To(c, "done")
  /\ IF world /\ target[c] \in robots
     THEN /\ robots' = robots \ {target[c]}
          /\ overrun' = overrun \cup Overrun(c)
     ELSE UNCHANGED <<robots, overrun>>
  /\ UNCHANGED <<world, flag, claim, table, driver, preStopped, lock, shut>>
  /\ UNCHANGED <<launching, driving, target, todo, found, fut>>
  /\ UNCHANGED <<stopped, late, owed, after, forgotten>>

\* cleanup() asks every rollout to stop ...
Cleanup(c) ==
  /\ at[c] = "idle"
  /\ IF world THEN RequestStop(robots) ELSE UNCHANGED <<flag, claim, stopped>>
  /\ To(c, "drain")
  /\ UNCHANGED <<world, robots, table, driver, preStopped, lock, shut>>
  /\ UNCHANGED <<launching, driving, target, todo, found, fut, late, owed, after, overrun, forgotten>>

\* ... joins each future for a bounded time, and forgets them all ...
Drain(c) ==
  /\ at[c] = "drain"
  /\ To(c, "handoff")
  /\ table' = [r \in Robots |-> None]
  /\ preStopped' = IF \E r \in Robots : Pruned[r] # None
                   THEN [r \in Robots |-> None] ELSE preStopped
  /\ forgotten' = forgotten \cup
                    {l \in Launches : \E r \in Robots : l \in {table[r], preStopped[r]}}
  /\ UNCHANGED <<world, robots, flag, claim, driver, lock, shut>>
  /\ UNCHANGED <<launching, driving, target, todo, found, fut>>
  /\ UNCHANGED <<stopped, late, owed, after, overrun>>

\* ... and lets go of the world and the executor.  It waits for the lock for a
\* bounded time only.
Handoff(c) ==
  /\ at[c] = "handoff"
  /\ To(c, "done")
  /\ world' = FALSE
  /\ shut' = TRUE
  /\ UNCHANGED <<robots, flag, claim, table, driver, preStopped, lock>>
  /\ UNCHANGED <<launching, driving, target, todo, found, fut, history>>
-------------------------------------------------------------------------------
Launch(l) ==
  \/ \E r \in Robots : Admit(l, r) \/ Refuse(l, r)
  \/ Announce(l) \/ Submit(l) \/ Record(l)

Drive(l) ==
  \/ Begin(l) \/ MakeHook(l) \/ Frame(l) \/ Check(l)
  \/ Between(l) \/ Reset(l) \/ Release(l) \/ Lower(l)

Call(c) ==
  \/ \E r \in Robots : Stop(c, r) \/ Remove(c, r)
  \/ StopAll(c) \/ Gate(c) \/ Cleanup(c)

Continue(c) ==
  \/ NextTarget(c) \/ FlagAll(c) \/ ReadActive(c) \/ Request(c) \/ Answer(c)
  \/ Swap(c) \/ RemoveJoin(c) \/ RemoveGate(c) \/ Drain(c) \/ Handoff(c)

Next ==
  \/ \E l \in Launches : Launch(l) \/ Drive(l)
  \/ \E c \in Calls : Call(c) \/ Continue(c) \/ RemoveSwap(c)

Spec == Init /\ [][Next]_vars

-------------------------------------------------------------------------------
TypeOK ==
  /\ world \in BOOLEAN /\ shut \in BOOLEAN
  /\ robots \subseteq Robots
  /\ flag \in [Robots -> BOOLEAN]
  /\ claim \in [Robots -> {"none", "current", "outdated"}]
  /\ table \in [Robots -> Launches \cup {None}]
  /\ driver \in [Robots -> Launches \cup {None}]
  /\ preStopped \in [Robots -> Launches \cup {None}]
  /\ lock \in Launches \cup Calls \cup {None}
  /\ call \in [Launches -> {"idle", "admitted", "announced", "submitted", "driving",
                            "returned", "refused"}]
  /\ on \in [Launches -> Robots \cup {None}]
  /\ work \in [Launches -> {"none", "queued", "setup", "loop", "check", "between",
                            "reset", "release", "lower", "done"}]
  /\ episode \in [Launches -> 1 .. Episodes]
  /\ step \in [Launches -> 0 .. Horizon]
  /\ at \in [Calls -> {"idle", "flag", "next", "read", "request", "join", "leave",
                       "gate", "swap", "drain", "handoff", "done"}]
  /\ target \in [Calls -> Robots \cup {None}]
  /\ todo \in [Calls -> SUBSET Robots]
  /\ found \in [Calls -> BOOLEAN]
  /\ fut \in [Calls -> Launches \cup {None}]
  /\ stopped \in [Launches -> 0 .. Episodes]
  /\ late \in [Launches -> Nat]
  /\ owed \subseteq Launches
  /\ after \in [Launches -> SUBSET Calls]
  /\ overrun \subseteq Launches
  /\ forgotten \subseteq Launches

\* No record of a rollout of that robot was dropped while it was needed: by a
\* cleanup() that gave up on it, or by the removal of an earlier one.
Kept(r) == \A l \in forgotten : on[l] # r

\* A launch that holds no lock was admitted to the robot.
Unlocked(r) == \E l \in Launches \ Dispatched : on[l] = r

(***************************************************************************)
(* A robot is driven by one rollout at a time, of either kind: two write   *)
(* the same controls.  The engine's lock, from the gate to the record of   *)
(* the future, and the table keep it so among the launches of agents,      *)
(* whatever stops, removals and mutations come in between; two launches of *)
(* the mesh or of a program may race through the gate of one robot.        *)
(***************************************************************************)
OneRolloutPerRobot ==
  \A l1, l2 \in Launches :
    Live(l1) /\ Live(l2) /\ on[l1] = on[l2] /\ Kept(on[l1]) /\ ~Unlocked(on[l1])
      => l1 = l2

(***************************************************************************)
(* A stop holds, at whatever stage it reaches the rollout: the robot moves *)
(* for one more frame at most in the episode the stop fell into, and for   *)
(* one in each episode the rollout begins after it.                        *)
(***************************************************************************)
StopBoundsFrames ==
  \A l \in Launches :
    stopped[l] # 0 /\ Kept(on[l]) => late[l] <= episode[l] - stopped[l] + 1

(***************************************************************************)
(* A rollout that a stop halted is never answered for by everyone as "was  *)
(* not running": once the stops have answered, one of them has named it,   *)
(* even when its thread ended before the answer was composed.              *)
(***************************************************************************)
HaltsAreReported ==
  (\A c \in Calls : at[c] \in {"idle", "done"}) => \A l \in owed : ~Kept(on[l])

(***************************************************************************)
(* The model is never swapped under a rollout that was launched before the *)
(* swapping call passed its gate, in either shape of rollout.  A           *)
(* start_policy counts as launched once it has returned: until its future  *)
(* is in the table, a stop makes the rollout invisible to the gate.        *)
(***************************************************************************)
SwapWaitsForRollouts == \A l \in overrun : ~Kept(on[l])

(***************************************************************************)
(* However a rollout ends, its robot is free again: nothing is left up     *)
(* that would refuse the next rollout of it.                               *)
(***************************************************************************)
RobotIsGivenBack ==
  world => \A r \in robots :
    (\A l \in Launches : on[l] = r => ~Live(l)) =>
      ~flag[r] /\ driver[r] = None /\ claim[r] = "none"
===============================================================================

----------------------------- MODULE HardwareTask -----------------------------
(***************************************************************************)
(* The rollout state machine of strands_robots/hardware_robot.py: how a    *)
(* rollout request claims the motors bus, connects the arm, prepares its   *)
(* policy and drives the arm, while stop_task() and cleanup() run on       *)
(* threads of their own.                                                   *)
(*                                                                         *)
(* Every task is one call of start_task (kind "start", driven by the       *)
(* single worker of the robot's executor), of _execute_task_sync (kind     *)
(* "execute") or of run_policy (kind "run"; both drive on the caller's     *)
(* thread).  A step is what a thread does between two places where another *)
(* thread's write can reach it, so every read and every write of the       *)
(* shared task state is a step of its own.                                 *)
(***************************************************************************)
EXTENDS Naturals

CONSTANTS
  Tasks,      \* rollout requests
  Kind,       \* the entry point each request comes in by
  Stoppers,   \* threads that call stop_task() once
  Cleaners,   \* threads that call cleanup() once, and through it stop_task()
  NoTask,
  MaxSteps,   \* the cap on applied actions (n_steps) of every rollout; start_task
              \* passes none, and there it bounds the model
  Horizon     \* the longest action chunk a policy returns

ASSUME KindAssumption == Kind \in [Tasks -> {"start", "execute", "run"}]
ASSUME NoTaskAssumption == NoTask \notin Tasks
ASSUME CleanersAssumption == Cleaners \cap Stoppers = {}
ASSUME BoundAssumption == MaxSteps \in Nat /\ Horizon \in Nat

VARIABLES
  \* the Robot object
  status,         \* _task_state.status
  steps,          \* _task_state.step_count
  note,           \* whether error_message says the arm is still energised
  future,         \* _task_state.task_future, as the task it will run
  claimed,        \* _task_claimed
  stopRequested,  \* _stop_requested
  shutdown,       \* _shutdown_event
  executorDown,   \* the executor refuses work
  connected,      \* robot.is_connected
  \* the threads that drive rollouts
  pc,             \* where each task is
  connectedHere,  \* whether this task's call opened the connection
  left,           \* actions of the current chunk not applied yet
  elapsed,        \* whether the task's duration has run out
  unrecorded,     \* submitted, task_future not assigned yet
  reply,          \* the status and step count the rollout's result reports
  \* the threads that interrupt them
  spc,            \* where each stop_task() call is
  cpc,            \* where each cleanup() call is
  \* history, read by the properties only
  written,        \* actions each task wrote to the arm
  overtaken,      \* calls of run_policy still to compose their result when
                  \* another rollout reset the task state
  aim,            \* the rollout in flight when an interrupt was latched
  phase,          \* how far that rollout was then
  mark            \* what it had written when the interrupt returned

robotVars == <<status, steps, note, future, claimed, stopRequested, shutdown,
               executorDown, connected>>
taskVars == <<pc, connectedHere, left, elapsed, unrecorded, reply>>
interruptVars == <<spc, cpc>>
history == <<written, overtaken, aim, phase, mark>>
vars == <<robotVars, taskVars, interruptVars, history>>

TaskStatus ==
  {"IDLE", "CONNECTING", "RUNNING", "COMPLETED", "STOPPED", "ERROR"}

\* What the results of the rollouts report.
Replies == [Tasks -> [status : TaskStatus, steps : Nat]]

Interrupters == Stoppers \cup Cleaners

(***************************************************************************)
(* Where a task can be.  Waiting: the claim is taken, no thread drives it. *)
(* BringUp: from the cleared stop latch to the RUNNING write.  Control:    *)
(* the control loop.  Closing: from the terminal status to the release of  *)
(* the claim.  "answer" and "tally" are run_policy building its result.    *)
(***************************************************************************)
Waiting == {"claimed", "queued", "begin"}
BringUp ==
  {"starting", "probe", "connect", "gate1", "prepare", "gate2", "launch"}
Control == {"loop", "observe", "chunk", "write", "settle"}
Closing == {"conclude", "abandon", "report", "release"}
Holding == Waiting \cup BringUp \cup Control \cup Closing
Labels ==
  Holding \cup
    {"new", "checked", "refused", "cancelled", "answer", "tally", "done"}

InFlight == {t \in Tasks : pc[t] \in Holding}

\* A job of the executor's one worker that has begun and not ended.
OnWorker(t) == Kind[t] = "start" /\ pc[t] \in Holding \ {"claimed", "queued"}

\* Variant: the stop latch alone ends a rollout.
LatchedByStopOnly == stopRequested

\* _rollout_stop_latched
Latched == stopRequested \/ shutdown

Init ==
  /\ status = "IDLE"
  /\ steps = 0
  /\ note = "none"
  /\ future = NoTask
  /\ claimed = FALSE
  /\ stopRequested = FALSE
  /\ shutdown = FALSE
  /\ executorDown = FALSE
  /\ connected \in BOOLEAN   \* the caller may have connected the arm already
  /\ pc = [t \in Tasks |-> "new"]
  /\ connectedHere = [t \in Tasks |-> FALSE]
  /\ left = [t \in Tasks |-> 0]
  /\ elapsed = [t \in Tasks |-> FALSE]
  /\ unrecorded = {}
  /\ reply = [t \in Tasks |-> [status |-> "IDLE", steps |-> 0]]
  /\ spc = [s \in Interrupters |-> IF s \in Cleaners THEN "done" ELSE "new"]
  /\ cpc = [c \in Cleaners |-> "new"]
  /\ written = [t \in Tasks |-> 0]
  /\ overtaken = {}
  /\ aim = [s \in Interrupters |-> NoTask]
  /\ phase = [s \in Interrupters |-> "none"]
  /\ mark = [s \in Interrupters |-> 0]

Goto(t, from, to) == pc[t] = from /\ pc' = [pc EXCEPT ![t] = to]

-------------------------------------------------------------------------------
(***************************************************************************)
(* Admission.                                                              *)
(***************************************************************************)

\* _shutdown_error: refused once cleanup() has latched the shutdown.
CheckShutdown(t) ==
  /\ Goto(t, "new", IF shutdown THEN "refused" ELSE "checked")
  /\ UNCHANGED <<robotVars, connectedHere, left, elapsed, unrecorded, reply,
                 interruptVars, history>>

\* Variant: admission decided by the status.
ClaimTaskByStatus(t) ==
  /\ IF status = "RUNNING"
     THEN Goto(t, "checked", "refused") /\ UNCHANGED claimed
     ELSE /\ Goto(t, "checked", IF Kind[t] = "start" THEN "claimed" ELSE "begin")
          /\ claimed' = TRUE
  /\ UNCHANGED <<status, steps, note, future, stopRequested, shutdown,
                 executorDown, connected, connectedHere, left, elapsed,
                 unrecorded, reply, interruptVars, history>>

\* Variant: a refused request releases the claim it did not get.
ClaimTaskReleasing(t) ==
  /\ IF claimed
     THEN Goto(t, "checked", "refused") /\ claimed' = FALSE
     ELSE /\ Goto(t, "checked", IF Kind[t] = "start" THEN "claimed" ELSE "begin")
          /\ claimed' = TRUE
  /\ UNCHANGED <<status, steps, note, future, stopRequested, shutdown,
                 executorDown, connected, connectedHere, left, elapsed,
                 unrecorded, reply, interruptVars, history>>

\* _claim_task: check and claim under the admission lock.
ClaimTask(t) ==
  /\ IF claimed
     THEN Goto(t, "checked", "refused") /\ UNCHANGED claimed
     ELSE /\ Goto(t, "checked", IF Kind[t] = "start" THEN "claimed" ELSE "begin")
          /\ claimed' = TRUE
  /\ UNCHANGED <<status, steps, note, future, stopRequested, shutdown,
                 executorDown, connected, connectedHere, left, elapsed,
                 unrecorded, reply, interruptVars, history>>

\* executor.submit; one that raises (the executor is down) releases the claim.
Submit(t) ==
  /\ IF executorDown
     THEN /\ Goto(t, "claimed", "done")
          /\ claimed' = FALSE
          /\ UNCHANGED unrecorded
     ELSE /\ Goto(t, "claimed", "queued")
          /\ unrecorded' = unrecorded \cup {t}
          /\ UNCHANGED claimed
  /\ UNCHANGED <<status, steps, note, future, stopRequested, shutdown,
                 executorDown, connected, connectedHere, left, elapsed, reply,
                 interruptVars, history>>

\* start_task assigns task_future after the submit: the job may have begun.
RecordFuture(t) ==
  /\ t \in unrecorded
  /\ unrecorded' = unrecorded \ {t}
  /\ future' = t
  /\ UNCHANGED <<status, steps, note, claimed, stopRequested, shutdown,
                 executorDown, connected, pc, connectedHere, left, elapsed,
                 reply, interruptVars, history>>

\* The worker takes the next job when it has none.
PickUp(t) ==
  /\ \A u \in Tasks : ~OnWorker(u)
  /\ Goto(t, "queued", "begin")
  /\ UNCHANGED <<robotVars, connectedHere, left, elapsed, unrecorded, reply,
                 interruptVars, history>>

\* _release_task, in the finally of _drive_claimed_task.
ReleaseTask(t) ==
  /\ Goto(t, "release", IF Kind[t] = "run" THEN "answer" ELSE "done")
  /\ claimed' = FALSE
  /\ UNCHANGED <<status, steps, note, future, stopRequested, shutdown,
                 executorDown, connected, connectedHere, left, elapsed,
                 unrecorded, reply, interruptVars, history>>

\* run_policy builds its result from the shared task state after the release:
\* the status first, the step count after it.  A rollout admitted meanwhile may
\* have reset both.
Answer(t) ==
  /\ Goto(t, "answer", "tally")
  /\ reply' = [reply EXCEPT ![t].status = status]
  /\ UNCHANGED <<robotVars, connectedHere, left, elapsed, unrecorded,
                 interruptVars, history>>

Tally(t) ==
  /\ Goto(t, "tally", "done")
  /\ reply' = [reply EXCEPT ![t].steps = steps]
  /\ UNCHANGED <<robotVars, connectedHere, left, elapsed, unrecorded,
                 interruptVars, history>>

-------------------------------------------------------------------------------
(***************************************************************************)
(* Bring-up: _execute_task_async up to the RUNNING write.                  *)
(***************************************************************************)

ClearStop(t) ==
  /\ Goto(t, "begin", "starting")
  /\ stopRequested' = FALSE
  /\ UNCHANGED <<status, steps, note, future, claimed, shutdown, executorDown,
                 connected, connectedHere, left, elapsed, unrecorded, reply,
                 interruptVars, history>>

\* The state of the rollouts that have let go is reset with the rest.
Overtake ==
  overtaken' = overtaken \cup {u \in Tasks : pc[u] \in {"answer", "tally"}}

\* Variant: the step count is not reset.
EnterConnectingKeepsSteps(t) ==
  /\ Goto(t, "starting", "probe")
  /\ status' = "CONNECTING"
  /\ note' = "none"
  /\ Overtake
  /\ UNCHANGED <<steps, future, claimed, stopRequested, shutdown, executorDown,
                 connected, connectedHere, left, elapsed, unrecorded, reply,
                 interruptVars, written, aim, phase, mark>>

EnterConnecting(t) ==
  /\ Goto(t, "starting", "probe")
  /\ status' = "CONNECTING"
  /\ steps' = 0
  /\ note' = "none"
  /\ Overtake
  /\ UNCHANGED <<future, claimed, stopRequested, shutdown, executorDown,
                 connected, connectedHere, left, elapsed, unrecorded, reply,
                 interruptVars, written, aim, phase, mark>>

\* connected_here = not self._robot_is_connected()
ProbeConnection(t) ==
  /\ Goto(t, "probe", "connect")
  /\ connectedHere' = [connectedHere EXCEPT ![t] = ~connected]
  /\ UNCHANGED <<robotVars, left, elapsed, unrecorded, reply, interruptVars,
                 history>>

\* _connect_robot.  A refused or failed attempt closes what is open on a
\* best-effort basis, so the arm may stay connected when the close fails.
ConnectRobot(t) ==
  /\ \/ /\ Goto(t, "connect", "gate1")
        /\ connected' = TRUE
        /\ UNCHANGED status
     \/ /\ Goto(t, "connect", "report")
        /\ connected' \in BOOLEAN
        /\ status' = "ERROR"
  /\ UNCHANGED <<steps, note, future, claimed, stopRequested, shutdown,
                 executorDown, connectedHere, left, elapsed, unrecorded, reply,
                 interruptVars, history>>

\* Variant: an abandoned bring-up keeps its status.
GateSilent(t, from, to) ==
  /\ Goto(t, from, IF Latched THEN "abandon" ELSE to)
  /\ UNCHANGED <<robotVars, connectedHere, left, elapsed, unrecorded, reply,
                 interruptVars, history>>

\* Variant: an abandoned bring-up leaves the arm as it is.
GateLeavingArm(t, from, to) ==
  /\ IF Latched
     THEN Goto(t, from, "report") /\ status' = "STOPPED"
     ELSE Goto(t, from, to) /\ UNCHANGED status
  /\ UNCHANGED <<steps, note, future, claimed, stopRequested, shutdown,
                 executorDown, connected, connectedHere, left, elapsed,
                 unrecorded, reply, interruptVars, history>>

\* _honor_stop_request at one of the two stage gates.
Gate(t, from, to) ==
  /\ IF Latched
     THEN Goto(t, from, "abandon") /\ status' = "STOPPED"
     ELSE Goto(t, from, to) /\ UNCHANGED status
  /\ UNCHANGED <<steps, note, future, claimed, stopRequested, shutdown,
                 executorDown, connected, connectedHere, left, elapsed,
                 unrecorded, reply, interruptVars, history>>

\* The policy is built, initialised from one observation, given the control
\* rate and reset (a reset that fails is only logged).  A policy that cannot be
\* built or initialised abandons the bring-up; one that refuses the control rate
\* raises to the handler at the bottom, which records the error and nothing else.
PreparePolicy(t) ==
  /\ \/ connected /\ Goto(t, "prepare", "gate2") /\ UNCHANGED status
     \/ Goto(t, "prepare", "abandon") /\ status' = "ERROR"
     \/ connected /\ Goto(t, "prepare", "report") /\ status' = "ERROR"
  /\ UNCHANGED <<steps, note, future, claimed, stopRequested, shutdown,
                 executorDown, connected, connectedHere, left, elapsed,
                 unrecorded, reply, interruptVars, history>>

\* _release_uncommanded_arm; a disconnect that fails is reported.
ReleaseArm(t) ==
  /\ Goto(t, "abandon", "report")
  /\ IF connectedHere[t] /\ connected
     THEN \/ connected' = FALSE /\ UNCHANGED note
          \/ note' = "held" /\ UNCHANGED connected
     ELSE UNCHANGED <<connected, note>>
  /\ UNCHANGED <<status, steps, future, claimed, stopRequested, shutdown,
                 executorDown, connectedHere, left, elapsed, unrecorded, reply,
                 interruptVars, history>>

\* The RUNNING write, over whatever the status held.
Launch(t) ==
  /\ Goto(t, "launch", "loop")
  /\ status' = "RUNNING"
  /\ UNCHANGED <<steps, note, future, claimed, stopRequested, shutdown,
                 executorDown, connected, connectedHere, left, elapsed,
                 unrecorded, reply, interruptVars, written, overtaken, aim,
                 phase, mark>>

-------------------------------------------------------------------------------
(***************************************************************************)
(* The control loop.                                                       *)
(***************************************************************************)

\* Time passes: the duration the rollout was given runs out.
Elapse(t) ==
  /\ pc[t] \in Control /\ ~elapsed[t]
  /\ elapsed' = [elapsed EXCEPT ![t] = TRUE]
  /\ UNCHANGED <<robotVars, pc, connectedHere, left, unrecorded, reply,
                 interruptVars, history>>

\* Variants: the loop condition without the latches, and without the duration.
LoopTestStatusOnly(t) ==
  /\ Goto(t, "loop",
          IF ~elapsed[t] /\ steps < MaxSteps /\ status = "RUNNING"
          THEN "observe" ELSE "settle")
  /\ UNCHANGED <<robotVars, connectedHere, left, elapsed, unrecorded, reply,
                 interruptVars, history>>

LoopTestNoDuration(t) ==
  /\ Goto(t, "loop",
          IF steps < MaxSteps /\ status = "RUNNING" /\ ~Latched
          THEN "observe" ELSE "settle")
  /\ UNCHANGED <<robotVars, connectedHere, left, elapsed, unrecorded, reply,
                 interruptVars, history>>

\* The loop condition: duration, step cap, status and both latches.
LoopTest(t) ==
  /\ Goto(t, "loop",
          IF ~elapsed[t] /\ steps < MaxSteps /\ status = "RUNNING" /\ ~Latched
          THEN "observe" ELSE "settle")
  /\ UNCHANGED <<robotVars, connectedHere, left, elapsed, unrecorded, reply,
                 interruptVars, history>>

\* An exception anywhere in the loop ends the rollout in ERROR.
Fail(t, from) ==
  /\ Goto(t, from, "report")
  /\ status' = "ERROR"
  /\ UNCHANGED <<steps, note, future, claimed, stopRequested, shutdown,
                 executorDown, connected, connectedHere, left, elapsed,
                 unrecorded, reply, interruptVars, history>>

\* One observation, one inference: a chunk of at most Horizon actions.
Observe(t) ==
  \/ /\ connected
     /\ Goto(t, "observe", "chunk")
     /\ \E n \in 0..Horizon : left' = [left EXCEPT ![t] = n]
     /\ UNCHANGED <<robotVars, connectedHere, elapsed, unrecorded, reply,
                    interruptVars, history>>
  \/ Fail(t, "observe")

\* Variant: the end of the chunk is not looked at.
ChunkTestUnbounded(t) ==
  /\ Goto(t, "chunk",
          IF status = "RUNNING" /\ steps < MaxSteps THEN "write" ELSE "loop")
  /\ UNCHANGED <<robotVars, connectedHere, left, elapsed, unrecorded, reply,
                 interruptVars, history>>

\* Between two actions of a chunk the status and the cap are read, the
\* latches are not.
ChunkTest(t) ==
  /\ Goto(t, "chunk",
          IF left[t] > 0 /\ status = "RUNNING" /\ steps < MaxSteps
          THEN "write" ELSE "loop")
  /\ UNCHANGED <<robotVars, connectedHere, left, elapsed, unrecorded, reply,
                 interruptVars, history>>

\* Variant: a write connects the arm when it finds it disconnected.
WriteActionLazy(t) ==
  \/ /\ Goto(t, "write", "chunk")
     /\ connected' = TRUE
     /\ left' = [left EXCEPT ![t] = @ - 1]
     /\ steps' = steps + 1
     /\ written' = [written EXCEPT ![t] = @ + 1]
     /\ UNCHANGED <<status, note, future, claimed, stopRequested, shutdown,
                    executorDown, connectedHere, elapsed, unrecorded, reply,
                    interruptVars, overtaken, aim, phase,
                    mark>>
  \/ Fail(t, "write")

\* write_action and the step count.
WriteAction(t) ==
  \/ /\ connected
     /\ Goto(t, "write", "chunk")
     /\ left' = [left EXCEPT ![t] = @ - 1]
     /\ steps' = steps + 1
     /\ written' = [written EXCEPT ![t] = @ + 1]
     /\ UNCHANGED <<status, note, future, claimed, stopRequested, shutdown,
                    executorDown, connected, connectedHere, elapsed,
                    unrecorded, reply, interruptVars, overtaken, aim,
                    phase, mark>>
  \/ Fail(t, "write")

\* Variant: a rollout still RUNNING is completed.
SettleUnlatched(t) ==
  /\ Goto(t, "settle", IF status = "RUNNING" THEN "conclude" ELSE "report")
  /\ UNCHANGED <<robotVars, connectedHere, left, elapsed, unrecorded, reply,
                 interruptVars, history>>

\* After the loop: a rollout still RUNNING is STOPPED if a latch is set and
\* COMPLETED otherwise.  The latches are read here, the status is written by
\* Conclude, and stop_task may come in between.
Settle(t) ==
  /\ IF status = "RUNNING"
     THEN IF Latched
          THEN Goto(t, "settle", "report") /\ status' = "STOPPED"
          ELSE Goto(t, "settle", "conclude") /\ UNCHANGED status
     ELSE Goto(t, "settle", "report") /\ UNCHANGED status
  /\ UNCHANGED <<steps, note, future, claimed, stopRequested, shutdown,
                 executorDown, connected, connectedHere, left, elapsed,
                 unrecorded, reply, interruptVars, history>>

Conclude(t) ==
  /\ Goto(t, "conclude", "report")
  /\ status' = "COMPLETED"
  /\ UNCHANGED <<steps, note, future, claimed, stopRequested, shutdown,
                 executorDown, connected, connectedHere, left, elapsed,
                 unrecorded, reply, interruptVars, history>>

\* _execute_task_async has returned, its locals are gone, and
\* _run_control_loop builds its result from the shared status.
Report(t) ==
  /\ Goto(t, "report", "release")
  /\ reply' = [reply EXCEPT ![t] = [status |-> status, steps |-> steps]]
  /\ connectedHere' = [connectedHere EXCEPT ![t] = FALSE]
  /\ left' = [left EXCEPT ![t] = 0]
  /\ elapsed' = [elapsed EXCEPT ![t] = FALSE]
  /\ UNCHANGED <<robotVars, unrecorded, interruptVars, history>>

-------------------------------------------------------------------------------
(***************************************************************************)
(* Interrupts.  aim, phase and mark note which rollout was in flight when  *)
(* an interrupt was latched, how far it was, and what it had written when  *)
(* the interrupt had done what it does.                                    *)
(***************************************************************************)

PhaseOf(t) ==
  CASE pc[t] \in Waiting -> "pending"
    [] pc[t] \in BringUp -> "bringup"
    [] pc[t] \in Control -> "driving"
    [] OTHER -> "closing"

TakeAim(s) ==
  IF InFlight = {}
  THEN UNCHANGED <<aim, phase>>
  ELSE \E t \in InFlight : /\ aim' = [aim EXCEPT ![s] = t]
                           /\ phase' = [phase EXCEPT ![s] = PhaseOf(t)]

TakeMark(s) ==
  mark' = [mark EXCEPT ![s] = IF aim[s] = NoTask THEN 0 ELSE written[aim[s]]]

\* The request is latched before the status is read.
StopLatch(s) ==
  /\ spc[s] = "new"
  /\ spc' = [spc EXCEPT ![s] = "read"]
  /\ stopRequested' = TRUE
  /\ IF s \in Cleaners THEN UNCHANGED <<aim, phase>> ELSE TakeAim(s)
  /\ UNCHANGED <<status, steps, note, future, claimed, shutdown, executorDown,
                 connected, taskVars, cpc, written, overtaken, mark>>

\* "No task running to stop" unless the status is RUNNING or CONNECTING.
StopRead(s) ==
  /\ spc[s] = "read"
  /\ IF status \in {"RUNNING", "CONNECTING"}
     THEN spc' = [spc EXCEPT ![s] = "signal"] /\ UNCHANGED mark
     ELSE spc' = [spc EXCEPT ![s] = "done"] /\ TakeMark(s)
  /\ UNCHANGED <<robotVars, taskVars, cpc, written, overtaken, aim,
                 phase>>

StopSignal(s) ==
  /\ spc[s] = "signal"
  /\ spc' = [spc EXCEPT ![s] = "cancel"]
  /\ status' = "STOPPED"
  /\ UNCHANGED <<steps, note, future, claimed, stopRequested, shutdown,
                 executorDown, connected, taskVars, cpc, history>>

\* task_future.cancel() succeeds only on a job the worker has not begun, which
\* then never runs.
StopCancel(s) ==
  /\ spc[s] = "cancel"
  /\ spc' = [spc EXCEPT ![s] = "done"]
  /\ IF future \in Tasks /\ pc[future] = "queued"
     THEN pc' = [pc EXCEPT ![future] = "cancelled"]
     ELSE UNCHANGED pc
  /\ TakeMark(s)
  /\ UNCHANGED <<robotVars, connectedHere, left, elapsed, unrecorded, reply,
                 cpc, written, overtaken, aim, phase>>

CGoto(c, from, to) == cpc[c] = from /\ cpc' = [cpc EXCEPT ![c] = to]

CleanupLatch(c) ==
  /\ CGoto(c, "new", "check")
  /\ shutdown' = TRUE
  /\ TakeAim(c)
  /\ UNCHANGED <<status, steps, note, future, claimed, stopRequested,
                 executorDown, connected, taskVars, spc, written,
                 overtaken, mark>>

\* cleanup() calls stop_task() only for a status of RUNNING.
CleanupCheck(c) ==
  /\ CGoto(c, "check", "stopping")
  /\ IF status = "RUNNING"
     THEN spc' = [spc EXCEPT ![c] = "new"] /\ UNCHANGED mark
     ELSE UNCHANGED spc /\ TakeMark(c)
  /\ UNCHANGED <<robotVars, taskVars, written, overtaken, aim, phase>>

\* executor.shutdown(wait=True): no new work, then wait for the worker.
CleanupExecutor(c) ==
  /\ CGoto(c, "stopping", "joining")
  /\ spc[c] = "done"
  /\ executorDown' = TRUE
  /\ UNCHANGED <<status, steps, note, future, claimed, stopRequested, shutdown,
                 connected, taskVars, spc, history>>

CleanupJoin(c) ==
  /\ CGoto(c, "joining", "closing")
  /\ \A t \in Tasks : ~OnWorker(t) /\ pc[t] # "queued"
  /\ UNCHANGED <<robotVars, taskVars, spc, history>>

\* _disconnect_devices; left open when a close fails or when the teleop loop
\* did not join.
CleanupClose(c) ==
  /\ \/ CGoto(c, "closing", "closed") /\ connected' = FALSE
     \/ CGoto(c, "closing", "left") /\ UNCHANGED connected
  /\ UNCHANGED <<status, steps, note, future, claimed, stopRequested, shutdown,
                 executorDown, taskVars, spc, history>>

-------------------------------------------------------------------------------
\* What the thread of a task does once the task is claimed.
Drive(t) ==
  \/ Submit(t) \/ RecordFuture(t) \/ PickUp(t) \/ ReleaseTask(t) \/ Answer(t)
  \/ Tally(t) \/ ClearStop(t) \/ EnterConnecting(t) \/ ProbeConnection(t)
  \/ ConnectRobot(t) \/ Gate(t, "gate1", "prepare") \/ PreparePolicy(t)
  \/ Gate(t, "gate2", "launch") \/ ReleaseArm(t) \/ Launch(t)
  \/ LoopTest(t) \/ Observe(t) \/ ChunkTest(t) \/ WriteAction(t)
  \/ Settle(t) \/ Conclude(t) \/ Report(t)

\* What a call of stop_task() does once it has latched the request.
StopRest(s) == StopRead(s) \/ StopSignal(s) \/ StopCancel(s)

CleanupRest(c) ==
  CleanupCheck(c) \/ CleanupExecutor(c) \/ CleanupJoin(c) \/ CleanupClose(c)

\* Every thread has come to its end: no call is left to be made.
Finished ==
  /\ \A t \in Tasks : pc[t] \in {"refused", "cancelled", "done"} /\ t \notin unrecorded
  /\ \A s \in Interrupters : spc[s] = "done"
  /\ \A c \in Cleaners : cpc[c] \in {"closed", "left"}
  /\ UNCHANGED vars

Next ==
  \/ \E t \in Tasks : CheckShutdown(t) \/ ClaimTask(t) \/ Drive(t) \/ Elapse(t)
  \/ \E s \in Interrupters : StopLatch(s) \/ StopRest(s)
  \/ \E c \in Cleaners : CleanupLatch(c) \/ CleanupRest(c)
  \/ Finished

Spec == Init /\ [][Next]_vars

(***************************************************************************)
(* A thread that has begun keeps running.  No caller need ever start a     *)
(* rollout, press stop or call cleanup(), and nothing is assumed of the    *)
(* length of a rollout's duration.                                         *)
(***************************************************************************)
Fairness ==
  /\ \A t \in Tasks : WF_vars(Drive(t))
  /\ \A s \in Interrupters : WF_vars(StopRest(s))
  /\ \A c \in Cleaners : WF_vars(StopLatch(c)) /\ WF_vars(CleanupRest(c))

FairSpec == Spec /\ Fairness
-------------------------------------------------------------------------------
(***************************************************************************)
(* Safety.                                                                 *)
(***************************************************************************)

\* Every variable stays in its domain.
TypeOK ==
  /\ status \in TaskStatus
  /\ steps \in Nat
  /\ note \in {"none", "held"}
  /\ future \in Tasks \cup {NoTask}
  /\ claimed \in BOOLEAN
  /\ stopRequested \in BOOLEAN
  /\ shutdown \in BOOLEAN
  /\ executorDown \in BOOLEAN
  /\ connected \in BOOLEAN
  /\ pc \in [Tasks -> Labels]
  /\ connectedHere \in [Tasks -> BOOLEAN]
  /\ left \in [Tasks -> 0..Horizon]
  /\ elapsed \in [Tasks -> BOOLEAN]
  /\ unrecorded \subseteq Tasks
  /\ reply \in Replies
  /\ spc \in [Interrupters -> {"new", "read", "signal", "cancel", "done"}]
  /\ cpc \in [Cleaners -> {"new", "check", "stopping", "joining", "closing",
                           "closed", "left"}]
  /\ written \in [Tasks -> Nat]
  /\ overtaken \subseteq Tasks
  /\ aim \in [Interrupters -> Tasks \cup {NoTask}]
  /\ phase \in [Interrupters ->
                  {"none", "pending", "bringup", "driving", "closing"}]
  /\ mark \in [Interrupters -> Nat]

(***************************************************************************)
(* The arm has one command bus: from the claim to its release no two       *)
(* rollouts are in flight, through whichever entry points they came, and   *)
(* however stops and a shutdown fall between their steps (_claim_task).    *)
(***************************************************************************)
OneRollout ==
  /\ \A t, u \in InFlight : t = u
  /\ InFlight # {} => claimed

\* The result of t is composed, from the task state as t left it: under the
\* claim, or by run_policy before another rollout has reset that state.
Composed(t) == pc[t] = "release" \/ (pc[t] = "done" /\ t \notin overtaken)

(***************************************************************************)
(* The step count in the result of a rollout is the number of actions it   *)
(* wrote itself, although the count is kept in a slot all rollouts share   *)
(* and run_policy reads it when the bus is no longer its own (_claim_task: *)
(* two admitted rollouts "overwrite each other's step count").             *)
(***************************************************************************)
StepCountIsOwn ==
  \A t \in Tasks : Composed(t) => reply[t].steps = written[t]

\* The interrupt has done everything it does to the rollout.
Returned(s) ==
  IF s \in Cleaners
  THEN cpc[s] \in {"joining", "closing", "closed", "left"}
  ELSE spc[s] = "done"

\* The latch of s covered the rollout t: it came after t had cleared the stop
\* latch, or it is the shutdown latch, which nothing clears.
Covers(s, t) ==
  /\ aim[s] = t
  /\ phase[s] \in {"bringup", "driving"} \/ (s \in Cleaners /\ phase[s] = "pending")

(***************************************************************************)
(* A stop or a shutdown holds, whatever stage the rollout is in: one that  *)
(* was latched during bring-up means the arm is never commanded, although  *)
(* the rollout writes RUNNING over the STOPPED that stop_task recorded;    *)
(* one latched while the arm is driven lets at most the action already     *)
(* past its check reach the arm once the interrupt has returned            *)
(* (stop_task, _rollout_stop_latched).                                     *)
(***************************************************************************)
StopHolds ==
  \A s \in Interrupters, t \in Tasks : Covers(s, t) =>
    /\ phase[s] # "driving" => written[t] = 0
    /\ Returned(s) => written[t] <= mark[s] + 1

(***************************************************************************)
(* A rollout that was interrupted before its last look at the latches is   *)
(* not completed in its result ("otherwise an interrupted task reports     *)
(* itself completed", _execute_task_async).                                *)
(***************************************************************************)
InterruptedIsNotCompleted ==
  \A s \in Interrupters, t \in Tasks :
    Covers(s, t) /\ Composed(t) => reply[t].status # "COMPLETED"

(***************************************************************************)
(* A rollout that connected the arm and ends before it drives it has       *)
(* disconnected it, or its result says that the arm is still energised,    *)
(* whatever stage it ended in (_release_uncommanded_arm); all but one that *)
(* ends because its policy refuses the control rate.                       *)
(***************************************************************************)
UndrivenArmIsReleased ==
  [][\A t \in Tasks :
       /\ pc[t] \in {"gate1", "gate2", "launch", "abandon"}
       /\ pc'[t] = "report"
       /\ connectedHere[t] /\ connected'
       => note' = "held"]_vars

(***************************************************************************)
(* While no rollout is in flight the robot does not say that one is        *)
(* connecting or running: whatever ends a rollout leaves a terminal        *)
(* status, and a late stop_task does not undo it.                          *)
(***************************************************************************)
IdleArmIsNotRunning ==
  InFlight = {} => status \notin {"CONNECTING", "RUNNING"}

(***************************************************************************)
(* Once cleanup() has closed the devices no action reaches the arm, not    *)
(* even from a rollout on a caller's thread, which cleanup() does not wait *)
(* for and which may open the arm again behind it.                         *)
(***************************************************************************)
NoCommandAfterClose ==
  [][(\E c \in Cleaners : cpc[c] = "closed") => UNCHANGED written]_vars

(***************************************************************************)
(* The rollouts share the arm as the abstract lease promises.              *)
(***************************************************************************)
Lease ==
  INSTANCE ArmLease WITH
    holders <- InFlight,
    served <- {t \in Tasks : pc[t] \in {"cancelled", "answer", "tally", "done"}}

LeaseSpec == Lease!Spec

-------------------------------------------------------------------------------
(***************************************************************************)
(* Liveness, under FairSpec.                                               *)
(***************************************************************************)

(***************************************************************************)
(* A stop or a shutdown that covers a rollout ends it, even one whose      *)
(* duration never runs out and whose policy returns empty chunks.          *)
(***************************************************************************)
StopEndsRollout ==
  \A s \in Interrupters, t \in Tasks :
    Covers(s, t) ~> pc[t] \in {"answer", "tally", "done"}

(***************************************************************************)
(* A rollout whose duration has run out ends, and its claim on the bus     *)
(* with it.                                                                *)
(***************************************************************************)
BudgetEndsRollout ==
  \A t \in Tasks : elapsed[t] ~> pc[t] \in {"answer", "tally", "done"}

(***************************************************************************)
(* cleanup() comes to its end: the worker it waits for is let go by the    *)
(* shutdown latch, whatever job it has taken or still has queued.          *)
(***************************************************************************)
CleanupFinishes ==
  \A c \in Cleaners : cpc[c] = "check" ~> cpc[c] \in {"closed", "left"}

-------------------------------------------------------------------------------
(***************************************************************************)
(* What the repository says and the code does not do.                      *)
(***************************************************************************)

(***************************************************************************)
(* stop_task's docstring: the interrupt "has to hold for a task in ANY     *)
(* stage that can still command the arm", an admitted one that has not     *)
(* cleared the latch yet included.                                         *)
(***************************************************************************)
StopHoldsAtAnyStage ==
  \A s \in Interrupters :
    aim[s] # NoTask /\ Returned(s) => written[aim[s]] <= mark[s] + 1

(***************************************************************************)
(* _drive_claimed_task's docstring: the claim is always released, so a     *)
(* task never leaves the robot permanently refusing new ones.              *)
(***************************************************************************)
ClaimIsHeldByARollout == claimed => InFlight # {}

===============================================================================

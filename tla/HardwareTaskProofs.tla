-------------------------- MODULE HardwareTaskProofs --------------------------
(***************************************************************************)
(* Proofs about HardwareTask for any rollouts, stops and shutdowns, any    *)
(* cap and any horizon.                                                    *)
(***************************************************************************)
EXTENDS HardwareTask, TLAPS

\* An action is written only while the chunk holds one.
WriteHasAction == \A t \in Tasks : pc[t] = "write" => left[t] > 0

Typed == TypeOK /\ WriteHasAction

LEMMA TypedInit == Init => Typed
<1> SUFFICES ASSUME Init PROVE Typed
  OBVIOUS
<1>1. /\ claimed \in BOOLEAN /\ stopRequested \in BOOLEAN
      /\ shutdown \in BOOLEAN /\ executorDown \in BOOLEAN
      /\ connected \in BOOLEAN
  BY DEF Init
<1>2. /\ connectedHere \in [Tasks -> BOOLEAN]
      /\ elapsed \in [Tasks -> BOOLEAN]
  BY DEF Init
<1>3. /\ pc \in [Tasks -> Labels]
      /\ left \in [Tasks -> 0..Horizon]
      /\ reply \in Replies
      /\ spc \in [Interrupters -> {"new", "read", "signal", "cancel", "done"}]
  BY BoundAssumption DEF Init, Labels, TaskStatus, Replies
<1>4. WriteHasAction
  BY DEF Init, WriteHasAction
<1>5. QED
  BY <1>1, <1>2, <1>3, <1>4 DEF Init, Typed, TypeOK, TaskStatus

LEMMA TypedStep == Typed /\ [Next]_vars => Typed'
<1> SUFFICES ASSUME Typed, [Next]_vars PROVE Typed'
  OBVIOUS
<1> USE KindAssumption, BoundAssumption
    DEF Typed, TypeOK, WriteHasAction, TaskStatus, Labels, Holding, Waiting,
        BringUp, Control, Closing, Interrupters, Goto, robotVars, taskVars,
        interruptVars, history
<1>1. CASE Next
  <2>1. ASSUME NEW t \in Tasks, CheckShutdown(t) PROVE Typed'
    BY <2>1 DEF CheckShutdown
  <2>2. ASSUME NEW t \in Tasks, ClaimTask(t) PROVE Typed'
    <3>1. CASE claimed
      BY <2>2, <3>1 DEF ClaimTask
    <3>2. CASE ~claimed
      BY <2>2, <3>2 DEF ClaimTask
    <3>3. QED
      BY <3>1, <3>2
  <2>3. ASSUME NEW t \in Tasks, Submit(t) PROVE Typed'
    <3>1. CASE executorDown
      <4>1. claimed' \in BOOLEAN
        BY <2>3, <3>1 DEF Submit
      <4>2. pc' \in [Tasks -> Labels] /\ WriteHasAction'
        BY <2>3, <3>1 DEF Submit
      <4>3. UNCHANGED <<status, steps, note, future, stopRequested, shutdown,
                        executorDown, connected, connectedHere, left, elapsed,
                        unrecorded, reply, spc, cpc, written, overtaken, aim,
                        phase, mark>>
        BY <2>3, <3>1 DEF Submit
      <4>4. QED
        BY <4>1, <4>2, <4>3
    <3>2. CASE ~executorDown
      BY <2>3, <3>2 DEF Submit
    <3>3. QED
      BY <3>1, <3>2
  <2>4. ASSUME NEW t \in Tasks, RecordFuture(t) PROVE Typed'
    BY <2>4 DEF RecordFuture
  <2>5. ASSUME NEW t \in Tasks, PickUp(t) PROVE Typed'
    BY <2>5 DEF PickUp
  <2>6. ASSUME NEW t \in Tasks, ReleaseTask(t) PROVE Typed'
    <3>1. claimed' \in BOOLEAN
      BY <2>6 DEF ReleaseTask
    <3>2. pc' \in [Tasks -> Labels] /\ WriteHasAction'
      BY <2>6 DEF ReleaseTask
    <3>3. UNCHANGED <<status, steps, note, future, stopRequested, shutdown,
                      executorDown, connected, connectedHere, left, elapsed,
                      unrecorded, reply, spc, cpc, written, overtaken, aim, phase,
                      mark>>
      BY <2>6 DEF ReleaseTask
    <3>4. QED
      BY <3>1, <3>2, <3>3
  <2>7. ASSUME NEW t \in Tasks, Answer(t) PROVE Typed'
    BY <2>7 DEF Answer, Replies
  <2>35. ASSUME NEW t \in Tasks, Tally(t) PROVE Typed'
    BY <2>35 DEF Tally, Replies
  <2>8. ASSUME NEW t \in Tasks, ClearStop(t) PROVE Typed'
    <3>1. stopRequested' \in BOOLEAN
      BY <2>8 DEF ClearStop
    <3>2. pc' \in [Tasks -> Labels] /\ WriteHasAction'
      BY <2>8 DEF ClearStop
    <3>3. UNCHANGED <<status, steps, note, future, claimed, shutdown,
                      executorDown, connected, connectedHere, left, elapsed,
                      unrecorded, reply, spc, cpc, written, overtaken, aim, phase,
                      mark>>
      BY <2>8 DEF ClearStop
    <3>4. QED
      BY <3>1, <3>2, <3>3
  <2>9. ASSUME NEW t \in Tasks, EnterConnecting(t) PROVE Typed'
    BY <2>9 DEF EnterConnecting, Overtake
  <2>10. ASSUME NEW t \in Tasks, ProbeConnection(t) PROVE Typed'
    BY <2>10 DEF ProbeConnection
  <2>11. ASSUME NEW t \in Tasks, ConnectRobot(t) PROVE Typed'
    <3>1. connected' \in BOOLEAN
      <4>1. connected' = TRUE \/ connected' \in BOOLEAN
        BY <2>11 DEF ConnectRobot
      <4>2. QED
        BY <4>1
    <3>2. pc' \in [Tasks -> Labels] /\ WriteHasAction'
      BY <2>11 DEF ConnectRobot
    <3>3. status' \in TaskStatus
      BY <2>11 DEF ConnectRobot
    <3>4. UNCHANGED <<steps, note, future, claimed, stopRequested, shutdown,
                      executorDown, connectedHere, left, elapsed, unrecorded,
                      reply, spc, cpc, written, overtaken, aim, phase,
                      mark>>
      BY <2>11 DEF ConnectRobot
    <3>5. QED
      BY <3>1, <3>2, <3>3, <3>4
  <2>12. ASSUME NEW t \in Tasks, Gate(t, "gate1", "prepare") PROVE Typed'
    BY <2>12 DEF Gate
  <2>13. ASSUME NEW t \in Tasks, PreparePolicy(t) PROVE Typed'
    BY <2>13 DEF PreparePolicy
  <2>14. ASSUME NEW t \in Tasks, Gate(t, "gate2", "launch") PROVE Typed'
    BY <2>14 DEF Gate
  <2>15. ASSUME NEW t \in Tasks, ReleaseArm(t) PROVE Typed'
    <3>1. connected' \in BOOLEAN /\ note' \in {"none", "held"}
      <4>1. (connected' = FALSE \/ connected' = connected) /\ note' \in {note, "held"}
        BY <2>15 DEF ReleaseArm
      <4>2. QED
        BY <4>1
    <3>2. pc' \in [Tasks -> Labels] /\ WriteHasAction'
      BY <2>15 DEF ReleaseArm
    <3>3. UNCHANGED <<status, steps, future, claimed, stopRequested, shutdown,
                      executorDown, connectedHere, left, elapsed, unrecorded,
                      reply, spc, cpc, written, overtaken, aim, phase, mark>>
      BY <2>15 DEF ReleaseArm
    <3>4. QED
      BY <3>1, <3>2, <3>3
  <2>16. ASSUME NEW t \in Tasks, Launch(t) PROVE Typed'
    BY <2>16 DEF Launch
  <2>17. ASSUME NEW t \in Tasks, LoopTest(t) PROVE Typed'
    BY <2>17 DEF LoopTest
  <2>18. ASSUME NEW t \in Tasks, Observe(t) PROVE Typed'
    BY <2>18 DEF Observe, Fail
  <2>19. ASSUME NEW t \in Tasks, ChunkTest(t) PROVE Typed'
    BY <2>19 DEF ChunkTest
  <2>20. ASSUME NEW t \in Tasks, WriteAction(t) PROVE Typed'
    BY <2>20 DEF WriteAction, Fail
  <2>21. ASSUME NEW t \in Tasks, Settle(t) PROVE Typed'
    BY <2>21 DEF Settle
  <2>22. ASSUME NEW t \in Tasks, Conclude(t) PROVE Typed'
    BY <2>22 DEF Conclude
  <2>23. ASSUME NEW t \in Tasks, Report(t) PROVE Typed'
    BY <2>23 DEF Report, Replies
  <2>24. ASSUME NEW t \in Tasks, Elapse(t) PROVE Typed'
    BY <2>24 DEF Elapse
  <2>25. ASSUME NEW s \in Interrupters, StopLatch(s) PROVE Typed'
    BY <2>25 DEF StopLatch, TakeAim, PhaseOf, InFlight
  <2>26. ASSUME NEW s \in Interrupters, StopRead(s) PROVE Typed'
    BY <2>26 DEF StopRead, TakeMark
  <2>27. ASSUME NEW s \in Interrupters, StopSignal(s) PROVE Typed'
    BY <2>27 DEF StopSignal
  <2>28. ASSUME NEW s \in Interrupters, StopCancel(s) PROVE Typed'
    BY <2>28 DEF StopCancel, TakeMark
  <2>29. ASSUME NEW c \in Cleaners, CleanupLatch(c) PROVE Typed'
    BY <2>29 DEF CleanupLatch, TakeAim, CGoto, PhaseOf, InFlight
  <2>30. ASSUME NEW c \in Cleaners, CleanupCheck(c) PROVE Typed'
    BY <2>30 DEF CleanupCheck, TakeMark, CGoto
  <2>31. ASSUME NEW c \in Cleaners, CleanupExecutor(c) PROVE Typed'
    BY <2>31 DEF CleanupExecutor, CGoto
  <2>32. ASSUME NEW c \in Cleaners, CleanupJoin(c) PROVE Typed'
    BY <2>32 DEF CleanupJoin, CGoto
  <2>33. ASSUME NEW c \in Cleaners, CleanupClose(c) PROVE Typed'
    <3>1. connected' \in BOOLEAN
      BY <2>33 DEF CleanupClose
    <3>2. QED
      BY <2>33, <3>1 DEF CleanupClose, CGoto
  <2>34. QED
    <3> HIDE DEF Typed, Goto, robotVars, taskVars, interruptVars, history
    <3>1. CASE Finished
      BY <3>1 DEF Finished, vars, robotVars, taskVars, interruptVars, history,
                  Typed
    <3>2. ASSUME NEW t \in Tasks, Drive(t) PROVE Typed'
      BY <3>2, <2>3, <2>4, <2>5, <2>6, <2>7, <2>8, <2>9, <2>10, <2>11, <2>12,
         <2>13, <2>14, <2>15, <2>16, <2>17, <2>18, <2>19, <2>20, <2>21, <2>22,
         <2>23, <2>35 DEF Drive
    <3>3. QED
      BY <1>1, <2>1, <2>2, <2>24, <2>25, <2>26, <2>27, <2>28, <2>29, <2>30,
         <2>31, <2>32, <2>33, <3>1, <3>2 DEF Next, StopRest, CleanupRest
<1>2. CASE UNCHANGED vars
  BY <1>2 DEF vars
<1>3. QED
  BY <1>1, <1>2
-------------------------------------------------------------------------------
(***************************************************************************)
(* The rollouts.  One holds the bus at a time, because the claim is        *)
(* checked and taken in one step and given back only by the rollout that   *)
(* holds it.  While it does, the shared step count is its own, and the     *)
(* shared status is what its stage writes, or the STOPPED of a stop_task().*)
(***************************************************************************)
Undriven ==
  {"new", "checked", "refused", "cancelled"} \cup Waiting \cup BringUp

CountInv ==
  /\ \A t \in Tasks :
       /\ pc[t] \in Undriven => written[t] = 0
       /\ pc[t] \in {"new", "checked", "claimed"}
            => reply[t] = [status |-> "IDLE", steps |-> 0]
       /\ pc[t] \in (BringUp \ {"starting"}) \cup Control \cup Closing
            => steps = written[t]
  /\ StepCountIsOwn

(***************************************************************************)
(* A call of run_policy that composes its result after the release still   *)
(* finds the state its rollout left: until another has reset it, those in  *)
(* flight have not begun to write.                                         *)
(***************************************************************************)
AnswerInv ==
  \A t \in Tasks : pc[t] \in {"answer", "tally"} /\ t \notin overtaken =>
    /\ steps = written[t]
    /\ \A u \in InFlight : pc[u] \in Waiting \cup {"starting"}

Active == {"CONNECTING", "RUNNING"}

StatusInv ==
  /\ IdleArmIsNotRunning
  /\ \A t \in Tasks :
       /\ pc[t] \in Waiting \cup {"starting", "abandon", "report", "release"}
            => status \notin Active
       /\ pc[t] \in BringUp \ {"starting"} => status \in {"CONNECTING", "STOPPED"}
       /\ pc[t] \in Control \cup {"conclude"} => status \in {"RUNNING", "STOPPED"}

RolloutInv == OneRollout /\ CountInv /\ AnswerInv /\ StatusInv

LEMMA RolloutStep == Typed /\ RolloutInv /\ [Next]_vars => RolloutInv'
<1> SUFFICES ASSUME Typed, RolloutInv, [Next]_vars PROVE RolloutInv'
  OBVIOUS
<1> USE DEF Typed, TypeOK, RolloutInv, OneRollout, InFlight, CountInv, AnswerInv,
            Undriven, StepCountIsOwn, Composed, Overtake, StatusInv, Active,
            IdleArmIsNotRunning, TaskStatus, Labels, Holding,
            Waiting, BringUp, Control, Closing, Goto, robotVars,
            taskVars, interruptVars, history
<1>1. CASE Next
  <2>1. ASSUME NEW t \in Tasks, CheckShutdown(t) PROVE RolloutInv'
    BY <2>1 DEF CheckShutdown
  <2>2. ASSUME NEW t \in Tasks, ClaimTask(t) PROVE RolloutInv'
    BY <2>2 DEF ClaimTask
  <2>3. ASSUME NEW t \in Tasks, Submit(t) PROVE RolloutInv'
    BY <2>3 DEF Submit
  <2>4. ASSUME NEW t \in Tasks, RecordFuture(t) PROVE RolloutInv'
    BY <2>4 DEF RecordFuture
  <2>5. ASSUME NEW t \in Tasks, PickUp(t) PROVE RolloutInv'
    BY <2>5 DEF PickUp
  <2>6. ASSUME NEW t \in Tasks, ReleaseTask(t) PROVE RolloutInv'
    BY <2>6 DEF ReleaseTask
  <2>7. ASSUME NEW t \in Tasks, Answer(t) PROVE RolloutInv'
    BY <2>7 DEF Answer, Replies
  <2>35. ASSUME NEW t \in Tasks, Tally(t) PROVE RolloutInv'
    BY <2>35 DEF Tally, Replies
  <2>8. ASSUME NEW t \in Tasks, ClearStop(t) PROVE RolloutInv'
    BY <2>8 DEF ClearStop
  <2>9. ASSUME NEW t \in Tasks, EnterConnecting(t) PROVE RolloutInv'
    BY <2>9 DEF EnterConnecting, Overtake
  <2>10. ASSUME NEW t \in Tasks, ProbeConnection(t) PROVE RolloutInv'
    BY <2>10 DEF ProbeConnection
  <2>11. ASSUME NEW t \in Tasks, ConnectRobot(t) PROVE RolloutInv'
    BY <2>11 DEF ConnectRobot
  <2>12. ASSUME NEW t \in Tasks, Gate(t, "gate1", "prepare") PROVE RolloutInv'
    BY <2>12 DEF Gate
  <2>13. ASSUME NEW t \in Tasks, PreparePolicy(t) PROVE RolloutInv'
    BY <2>13 DEF PreparePolicy
  <2>14. ASSUME NEW t \in Tasks, Gate(t, "gate2", "launch") PROVE RolloutInv'
    BY <2>14 DEF Gate
  <2>15. ASSUME NEW t \in Tasks, ReleaseArm(t) PROVE RolloutInv'
    BY <2>15 DEF ReleaseArm
  <2>16. ASSUME NEW t \in Tasks, Launch(t) PROVE RolloutInv'
    BY <2>16 DEF Launch
  <2>17. ASSUME NEW t \in Tasks, LoopTest(t) PROVE RolloutInv'
    BY <2>17 DEF LoopTest
  <2>18. ASSUME NEW t \in Tasks, Observe(t) PROVE RolloutInv'
    BY <2>18 DEF Observe, Fail
  <2>19. ASSUME NEW t \in Tasks, ChunkTest(t) PROVE RolloutInv'
    BY <2>19 DEF ChunkTest
  <2>20. ASSUME NEW t \in Tasks, WriteAction(t) PROVE RolloutInv'
    BY <2>20 DEF WriteAction, Fail
  <2>21. ASSUME NEW t \in Tasks, Settle(t) PROVE RolloutInv'
    BY <2>21 DEF Settle
  <2>22. ASSUME NEW t \in Tasks, Conclude(t) PROVE RolloutInv'
    BY <2>22 DEF Conclude
  <2>23. ASSUME NEW t \in Tasks, Report(t) PROVE RolloutInv'
    BY <2>23 DEF Report, Replies
  <2>24. ASSUME NEW t \in Tasks, Elapse(t) PROVE RolloutInv'
    BY <2>24 DEF Elapse
  <2>25. ASSUME NEW s \in Interrupters, StopLatch(s) PROVE RolloutInv'
    BY <2>25 DEF StopLatch
  <2>26. ASSUME NEW s \in Interrupters, StopRead(s) PROVE RolloutInv'
    BY <2>26 DEF StopRead
  <2>27. ASSUME NEW s \in Interrupters, StopSignal(s) PROVE RolloutInv'
    BY <2>27 DEF StopSignal
  <2>28. ASSUME NEW s \in Interrupters, StopCancel(s) PROVE RolloutInv'
    BY <2>28 DEF StopCancel
  <2>29. ASSUME NEW c \in Cleaners, CleanupLatch(c) PROVE RolloutInv'
    BY <2>29 DEF CleanupLatch, CGoto
  <2>30. ASSUME NEW c \in Cleaners, CleanupCheck(c) PROVE RolloutInv'
    BY <2>30 DEF CleanupCheck, CGoto
  <2>31. ASSUME NEW c \in Cleaners, CleanupExecutor(c) PROVE RolloutInv'
    BY <2>31 DEF CleanupExecutor, CGoto
  <2>32. ASSUME NEW c \in Cleaners, CleanupJoin(c) PROVE RolloutInv'
    BY <2>32 DEF CleanupJoin, CGoto
  <2>33. ASSUME NEW c \in Cleaners, CleanupClose(c) PROVE RolloutInv'
    BY <2>33 DEF CleanupClose, CGoto
  <2>34. QED
    <3> HIDE DEF Typed, TypeOK, RolloutInv, OneRollout, InFlight, CountInv, AnswerInv,
                 Undriven, StepCountIsOwn, Composed, StatusInv, Active,
                 IdleArmIsNotRunning, TaskStatus, Labels,
                 Holding, Waiting, BringUp, Control, Closing,
                 Goto, robotVars, taskVars, interruptVars,
                 history
    <3>1. CASE Finished
      BY <3>1 DEF Finished, vars, Typed, TypeOK, RolloutInv, OneRollout, InFlight, CountInv, AnswerInv,
                  Undriven, StepCountIsOwn, Composed, StatusInv,
                  Active, IdleArmIsNotRunning, TaskStatus,
                  Labels, Holding, Waiting, BringUp, Control,
                  Closing, Goto, robotVars, taskVars,
                  interruptVars, history
    <3>2. ASSUME NEW t \in Tasks, Drive(t) PROVE RolloutInv'
      BY <3>2, <2>3, <2>4, <2>5, <2>6, <2>7, <2>8, <2>9, <2>10, <2>11, <2>12,
         <2>13, <2>14, <2>15, <2>16, <2>17, <2>18, <2>19, <2>20, <2>21, <2>22,
         <2>23, <2>35 DEF Drive
    <3>3. QED
      BY <1>1, <2>1, <2>2, <2>24, <2>25, <2>26, <2>27, <2>28, <2>29, <2>30,
         <2>31, <2>32, <2>33, <3>1, <3>2 DEF Next, StopRest, CleanupRest
<1>2. CASE UNCHANGED vars
  BY <1>2 DEF vars
<1>3. QED
  BY <1>1, <1>2

(***************************************************************************)
(* The latches.  A stop that covers a rollout keeps _stop_requested set    *)
(* until the rollout has left its control loop, because only a rollout     *)
(* that starts clears it; a shutdown latch is never cleared.               *)
(***************************************************************************)
LatchInv ==
  /\ \A c \in Cleaners : cpc[c] # "new" => shutdown
  /\ \A c \in Cleaners : cpc[c] = "new" => aim[c] = NoTask
  /\ \A s \in Stoppers : spc[s] = "new" => aim[s] = NoTask
  /\ \A s \in Interrupters, t \in Tasks : Covers(s, t) =>
       /\ pc[t] \notin {"new", "checked"}
       /\ s \in Stoppers => pc[t] \notin Waiting
       /\ s \in Stoppers /\ pc[t] \in BringUp \cup Control => stopRequested

\* The interrupt has done to the status all it will do.
Marked(s) ==
  IF s \in Cleaners
  THEN cpc[s] \notin {"new", "check"} /\ spc[s] = "done"
  ELSE spc[s] = "done"

(***************************************************************************)
(* What an interrupt that covers a rollout leaves it: nothing of its       *)
(* control loop if it was latched during bring-up, and otherwise, once it  *)
(* is marked, the one action that is past its check.                       *)
(***************************************************************************)
GraceInv ==
  /\ \A c \in Cleaners : cpc[c] # "stopping" => spc[c] = "done"
  /\ \A s \in Interrupters, t \in Tasks : Covers(s, t) =>
       /\ phase[s] # "driving" =>
            /\ written[t] = 0
            /\ pc[t] \notin {"observe", "chunk", "write"}
       /\ phase[s] = "driving" => pc[t] \notin Undriven
       /\ spc[s] = "cancel" \/ Marked(s) =>
            (phase[s] = "driving" /\ pc[t] \in Control => status # "RUNNING")
       /\ Marked(s) =>
            written[t] + (IF pc[t] = "write" THEN 1 ELSE 0) <= mark[s] + 1

(***************************************************************************)
(* A rollout that an interrupt covers goes from its control loop to        *)
(* STOPPED or ERROR: the latch is set when it settles its status, and no   *)
(* rollout but itself writes COMPLETED while it is in flight.              *)
(***************************************************************************)
OutcomeInv ==
  /\ \A s \in Interrupters, t \in Tasks : Covers(s, t) =>
       /\ pc[t] # "conclude"
       /\ pc[t] \in {"abandon", "report", "release"} => status # "COMPLETED"
       /\ pc[t] = "answer" /\ t \notin overtaken => status # "COMPLETED"
       /\ pc[t] = "tally" /\ t \notin overtaken => reply[t].status # "COMPLETED"
       /\ Composed(t) => reply[t].status # "COMPLETED"

(***************************************************************************)
(* Once cleanup() has closed the devices, a rollout still in its control   *)
(* loop finds the arm disconnected: it cannot connect it, and any rollout  *)
(* that does has not passed the gates of its bring-up.                     *)
(***************************************************************************)
ClosedInv ==
  \A c \in Cleaners : cpc[c] = "closed" =>
    \A t \in Tasks : pc[t] \in {"observe", "chunk", "write"} => ~connected

InterruptInv == LatchInv /\ GraceInv /\ OutcomeInv /\ ClosedInv

LEMMA InterruptStep == Typed /\ RolloutInv /\ InterruptInv /\ [Next]_vars => InterruptInv'
<1> SUFFICES ASSUME Typed, RolloutInv, InterruptInv, [Next]_vars PROVE InterruptInv'
  OBVIOUS
<1> USE NoTaskAssumption, CleanersAssumption DEF Typed, TypeOK, RolloutInv, OneRollout, InFlight, CountInv, AnswerInv,
            Undriven, StatusInv, InterruptInv, LatchInv, GraceInv,
            OutcomeInv, Composed, Overtake, ClosedInv, Marked, Covers, Latched, Active,
            Interrupters, Labels, Holding, Waiting, BringUp,
            Control, Closing, Goto, robotVars, taskVars,
            interruptVars, history
<1>1. CASE Next
  <2>1. ASSUME NEW t \in Tasks, CheckShutdown(t) PROVE InterruptInv'
    BY <2>1 DEF CheckShutdown
  <2>2. ASSUME NEW t \in Tasks, ClaimTask(t) PROVE InterruptInv'
    BY <2>2 DEF ClaimTask
  <2>3. ASSUME NEW t \in Tasks, Submit(t) PROVE InterruptInv'
    BY <2>3 DEF Submit
  <2>4. ASSUME NEW t \in Tasks, RecordFuture(t) PROVE InterruptInv'
    BY <2>4 DEF RecordFuture
  <2>5. ASSUME NEW t \in Tasks, PickUp(t) PROVE InterruptInv'
    BY <2>5 DEF PickUp
  <2>6. ASSUME NEW t \in Tasks, ReleaseTask(t) PROVE InterruptInv'
    BY <2>6 DEF ReleaseTask
  <2>7. ASSUME NEW t \in Tasks, Answer(t) PROVE InterruptInv'
    BY <2>7 DEF Answer, Replies
  <2>35. ASSUME NEW t \in Tasks, Tally(t) PROVE InterruptInv'
    BY <2>35 DEF Tally, Replies
  <2>8. ASSUME NEW t \in Tasks, ClearStop(t) PROVE InterruptInv'
    BY <2>8 DEF ClearStop
  <2>9. ASSUME NEW t \in Tasks, EnterConnecting(t) PROVE InterruptInv'
    BY <2>9 DEF EnterConnecting, Overtake
  <2>10. ASSUME NEW t \in Tasks, ProbeConnection(t) PROVE InterruptInv'
    BY <2>10 DEF ProbeConnection
  <2>11. ASSUME NEW t \in Tasks, ConnectRobot(t) PROVE InterruptInv'
    BY <2>11 DEF ConnectRobot
  <2>12. ASSUME NEW t \in Tasks, Gate(t, "gate1", "prepare") PROVE InterruptInv'
    BY <2>12 DEF Gate
  <2>13. ASSUME NEW t \in Tasks, PreparePolicy(t) PROVE InterruptInv'
    BY <2>13 DEF PreparePolicy
  <2>14. ASSUME NEW t \in Tasks, Gate(t, "gate2", "launch") PROVE InterruptInv'
    BY <2>14 DEF Gate
  <2>15. ASSUME NEW t \in Tasks, ReleaseArm(t) PROVE InterruptInv'
    BY <2>15 DEF ReleaseArm
  <2>16. ASSUME NEW t \in Tasks, Launch(t) PROVE InterruptInv'
    BY <2>16 DEF Launch
  <2>17. ASSUME NEW t \in Tasks, LoopTest(t) PROVE InterruptInv'
    BY <2>17 DEF LoopTest
  <2>18. ASSUME NEW t \in Tasks, Observe(t) PROVE InterruptInv'
    BY <2>18 DEF Observe, Fail
  <2>19. ASSUME NEW t \in Tasks, ChunkTest(t) PROVE InterruptInv'
    BY <2>19 DEF ChunkTest
  <2>20. ASSUME NEW t \in Tasks, WriteAction(t) PROVE InterruptInv'
    BY <2>20 DEF WriteAction, Fail
  <2>21. ASSUME NEW t \in Tasks, Settle(t) PROVE InterruptInv'
    BY <2>21 DEF Settle
  <2>22. ASSUME NEW t \in Tasks, Conclude(t) PROVE InterruptInv'
    BY <2>22 DEF Conclude
  <2>23. ASSUME NEW t \in Tasks, Report(t) PROVE InterruptInv'
    BY <2>23 DEF Report, Replies
  <2>24. ASSUME NEW t \in Tasks, Elapse(t) PROVE InterruptInv'
    BY <2>24 DEF Elapse
  <2>25. ASSUME NEW s \in Interrupters, StopLatch(s) PROVE InterruptInv'
    BY <2>25 DEF StopLatch, TakeAim, PhaseOf
  <2>26. ASSUME NEW s \in Interrupters, StopRead(s) PROVE InterruptInv'
    BY <2>26 DEF StopRead, TakeMark
  <2>27. ASSUME NEW s \in Interrupters, StopSignal(s) PROVE InterruptInv'
    BY <2>27 DEF StopSignal
  <2>28. ASSUME NEW s \in Interrupters, StopCancel(s) PROVE InterruptInv'
    BY <2>28 DEF StopCancel, TakeMark
  <2>29. ASSUME NEW c \in Cleaners, CleanupLatch(c) PROVE InterruptInv'
    BY <2>29 DEF CleanupLatch, CGoto, TakeAim, PhaseOf
  <2>30. ASSUME NEW c \in Cleaners, CleanupCheck(c) PROVE InterruptInv'
    BY <2>30 DEF CleanupCheck, CGoto, TakeMark
  <2>31. ASSUME NEW c \in Cleaners, CleanupExecutor(c) PROVE InterruptInv'
    BY <2>31 DEF CleanupExecutor, CGoto
  <2>32. ASSUME NEW c \in Cleaners, CleanupJoin(c) PROVE InterruptInv'
    BY <2>32 DEF CleanupJoin, CGoto
  <2>33. ASSUME NEW c \in Cleaners, CleanupClose(c) PROVE InterruptInv'
    BY <2>33 DEF CleanupClose, CGoto
  <2>34. QED
    <3> HIDE DEF Typed, TypeOK, RolloutInv, OneRollout, InFlight, CountInv, AnswerInv,
                 Undriven, StatusInv, InterruptInv, LatchInv,
                 GraceInv, OutcomeInv, Composed, ClosedInv, Marked,
                 Covers, Latched, Active, Interrupters,
                 Labels, Holding, Waiting, BringUp, Control,
                 Closing, Goto, robotVars, taskVars,
                 interruptVars, history
    <3>1. CASE Finished
      BY <3>1 DEF Finished, vars, Typed, TypeOK, RolloutInv, OneRollout, InFlight, CountInv, AnswerInv,
                  Undriven, StatusInv, InterruptInv,
                  LatchInv, GraceInv, OutcomeInv, Composed, ClosedInv,
                  Marked, Covers, Latched, Active,
                  Interrupters, Labels, Holding, Waiting,
                  BringUp, Control, Closing, Goto, robotVars,
                  taskVars, interruptVars, history
    <3>2. ASSUME NEW t \in Tasks, Drive(t) PROVE InterruptInv'
      BY <3>2, <2>3, <2>4, <2>5, <2>6, <2>7, <2>8, <2>9, <2>10, <2>11, <2>12,
         <2>13, <2>14, <2>15, <2>16, <2>17, <2>18, <2>19, <2>20, <2>21, <2>22,
         <2>23, <2>35 DEF Drive
    <3>3. QED
      BY <1>1, <2>1, <2>2, <2>24, <2>25, <2>26, <2>27, <2>28, <2>29, <2>30,
         <2>31, <2>32, <2>33, <3>1, <3>2 DEF Next, StopRest, CleanupRest
<1>2. CASE UNCHANGED vars
  BY <1>2 DEF vars
<1>3. QED
  BY <1>1, <1>2
-------------------------------------------------------------------------------
LEMMA InvInit == Init => RolloutInv /\ InterruptInv
  BY NoTaskAssumption
     DEF Init, RolloutInv, OneRollout, InFlight, CountInv, AnswerInv,
         StepCountIsOwn, Composed, StatusInv, Active, IdleArmIsNotRunning, InterruptInv, LatchInv,
         GraceInv, OutcomeInv, ClosedInv, Covers, Marked, Interrupters,
         Undriven, Holding, Waiting, BringUp, Control, Closing

Inv == Typed /\ RolloutInv /\ InterruptInv

(***************************************************************************)
(* The inductive invariant: the types, the rollouts' part and the          *)
(* interrupts' part.                                                       *)
(***************************************************************************)
THEOREM Invariance == Spec => []Inv
<1>1. Init => Inv
  BY TypedInit, InvInit DEF Inv
<1>2. Inv /\ [Next]_vars => Inv'
  BY TypedStep, RolloutStep, InterruptStep DEF Inv
<1>3. QED
  BY <1>1, <1>2, PTL DEF Spec

(***************************************************************************)
(* Every variable stays in its domain, for any number of rollouts, stops   *)
(* and shutdowns.                                                          *)
(***************************************************************************)
THEOREM TypeCorrect == Spec => []TypeOK
<1>1. Inv => TypeOK
  BY DEF Inv, Typed
<1>2. QED
  BY <1>1, Invariance, PTL

(***************************************************************************)
(* The motors bus has one rollout at a time, whatever entry points the     *)
(* rollouts come in by (_claim_task, _release_task).                       *)
(***************************************************************************)
THEOREM BusIsExclusive == Spec => []OneRollout
<1>1. Inv => OneRollout
  BY DEF Inv, RolloutInv
<1>2. QED
  BY <1>1, Invariance, PTL

(***************************************************************************)
(* The step count in the result of a rollout is the number of actions it   *)
(* wrote, composed under the claim or, by run_policy, after the release    *)
(* and before another rollout has reset the shared count.                  *)
(***************************************************************************)
THEOREM StepCountIsRight == Spec => []StepCountIsOwn
<1>1. Inv => StepCountIsOwn
  BY DEF Inv, RolloutInv, CountInv
<1>2. QED
  BY <1>1, Invariance, PTL

(***************************************************************************)
(* An arm without a rollout never reports CONNECTING or RUNNING.           *)
(***************************************************************************)
THEOREM IdleStatusIsRight == Spec => []IdleArmIsNotRunning
<1>1. Inv => IdleArmIsNotRunning
  BY DEF Inv, RolloutInv, StatusInv
<1>2. QED
  BY <1>1, Invariance, PTL

(***************************************************************************)
(* A stop or shutdown that covers a rollout holds: none of its actions     *)
(* reaches the arm when it was latched during bring-up, at most one more   *)
(* does when the arm was being driven (stop_task, _rollout_stop_latched).  *)
(***************************************************************************)
THEOREM StopIsHonoured == Spec => []StopHolds
<1>1. Inv => StopHolds
  <2> SUFFICES ASSUME Inv, NEW s \in Interrupters, NEW t \in Tasks, Covers(s, t)
               PROVE  /\ phase[s] # "driving" => written[t] = 0
                      /\ Returned(s) => written[t] <= mark[s] + 1
    BY DEF StopHolds
  <2>1. Returned(s) => Marked(s)
    BY DEF Inv, InterruptInv, GraceInv, Returned, Marked
  <2>2. written[t] \in Nat /\ mark[s] \in Nat
    BY DEF Inv, Typed, TypeOK
  <2>3. QED
    BY <2>1, <2>2 DEF Inv, InterruptInv, GraceInv
<1>2. QED
  BY <1>1, Invariance, PTL

(***************************************************************************)
(* The result of a rollout that an interrupt covers is not COMPLETED, even *)
(* one that run_policy composes after the release, unless another rollout  *)
(* has reset the shared status by then.                                    *)
(***************************************************************************)
THEOREM InterruptIsReported == Spec => []InterruptedIsNotCompleted
<1>1. Inv => InterruptedIsNotCompleted
  BY DEF Inv, InterruptInv, OutcomeInv, InterruptedIsNotCompleted
<1>2. QED
  BY <1>1, Invariance, PTL

(***************************************************************************)
(* Once cleanup() has closed the devices no action reaches the arm: the    *)
(* only step that writes one needs the arm connected.                      *)
(***************************************************************************)
THEOREM ClosedArmIsStill == Spec => NoCommandAfterClose
<1>1. Inv /\ [Next]_vars =>
        [(\E c \in Cleaners : cpc[c] = "closed") => UNCHANGED written]_vars
  <2> SUFFICES ASSUME Inv, Next, NEW c \in Cleaners, cpc[c] = "closed"
               PROVE  UNCHANGED written
    OBVIOUS
  <2>1. ASSUME NEW t \in Tasks, WriteAction(t) PROVE UNCHANGED written
    <3>1. pc[t] = "write"
      BY <2>1 DEF WriteAction, Goto, Fail
    <3>2. ~connected
      BY <3>1 DEF Inv, InterruptInv, ClosedInv
    <3>3. QED
      BY <2>1, <3>2 DEF WriteAction, Fail, history
  <2>2. ASSUME NEW t \in Tasks, Drive(t) PROVE UNCHANGED written
    BY <2>1, <2>2
       DEF Drive, Submit, RecordFuture, PickUp, ReleaseTask, Answer, Tally,
           ClearStop,
           EnterConnecting, ProbeConnection, ConnectRobot, Gate, PreparePolicy,
           ReleaseArm, Launch, LoopTest, Observe, Fail, ChunkTest, Settle,
           Conclude, Report, history
  <2>3. QED
    BY <2>2 DEF Next, CheckShutdown, ClaimTask, Elapse, StopLatch, StopRest,
                StopRead, StopSignal, StopCancel, CleanupLatch, CleanupRest,
                CleanupCheck, CleanupExecutor, CleanupJoin, CleanupClose,
                Finished, vars, history
<1>2. QED
  BY <1>1, Invariance, PTL DEF Spec, NoCommandAfterClose

(***************************************************************************)
(* A rollout that ends after the connect and before it drives the arm has  *)
(* released it or says that it holds it: neither gate leads past the       *)
(* release, whoever latched the stop.                                      *)
(***************************************************************************)
THEOREM UndrivenArmIsLetGo == Spec => UndrivenArmIsReleased
<1>1. ASSUME Typed, Next, NEW t \in Tasks,
             pc[t] \in {"gate1", "gate2", "launch", "abandon"}, pc'[t] = "report",
             connectedHere[t], connected'
      PROVE  note' = "held"
  <2>1. ASSUME NEW u \in Tasks, Drive(u) PROVE u = t /\ ReleaseArm(t)
    <3>1. u = t
      BY <1>1, <2>1
         DEF Typed, TypeOK, Labels, Drive, Goto, Submit, RecordFuture, PickUp, ReleaseTask,
             Answer, Tally, ClearStop, EnterConnecting, ProbeConnection, ConnectRobot,
             Gate, PreparePolicy, ReleaseArm, Launch, LoopTest, Observe, Fail, ChunkTest,
             WriteAction, Settle, Conclude, Report, taskVars
    <3>2. QED
      BY <1>1, <2>1, <3>1
         DEF Typed, TypeOK, Labels, Drive, Goto, Submit, RecordFuture, PickUp, ReleaseTask,
             Answer, Tally, ClearStop, EnterConnecting, ProbeConnection, ConnectRobot,
             Gate, PreparePolicy, Launch, LoopTest, Observe, Fail, ChunkTest,
             WriteAction, Settle, Conclude, Report, taskVars
  <2>2. \/ \E u \in Tasks : Drive(u)
        \/ UNCHANGED pc
        \/ \E u \in Tasks : CheckShutdown(u) \/ ClaimTask(u)
        \/ \E s \in Interrupters : StopCancel(s)
    BY <1>1 DEF Next, Elapse, StopLatch, StopRest, StopRead, StopSignal, CleanupLatch,
                CleanupRest, CleanupCheck, CleanupExecutor, CleanupJoin, CleanupClose,
                Finished, vars, taskVars
  <2>3. \E u \in Tasks : Drive(u)
    <3>1. pc \in [Tasks -> Labels]
      BY <1>1 DEF Typed, TypeOK
    <3>2. ASSUME NEW u \in Tasks, CheckShutdown(u) \/ ClaimTask(u) PROVE pc'[t] # "report"
      BY <1>1, <3>1, <3>2 DEF CheckShutdown, ClaimTask, Goto
    <3>3. ASSUME NEW s, StopCancel(s) PROVE pc'[t] # "report"
      BY <1>1, <3>1, <3>3 DEF StopCancel
    <3>4. QED
      BY <1>1, <2>2, <3>2, <3>3
  <2>4. QED
    BY <1>1, <2>1, <2>3 DEF ReleaseArm
<1>2. Typed /\ [Next]_vars =>
        [\A t \in Tasks :
           /\ pc[t] \in {"gate1", "gate2", "launch", "abandon"}
           /\ pc'[t] = "report"
           /\ connectedHere[t] /\ connected'
           => note' = "held"]_vars
  BY <1>1
<1>3. QED
  BY <1>2, Invariance, PTL DEF Spec, Inv, UndrivenArmIsReleased

-------------------------------------------------------------------------------
(***************************************************************************)
(* Refinement: the rollouts in flight are the holders of the lease.  A     *)
(* claim admits, the release of a claim and the cancelling of a queued     *)
(* future yield, an action written commands, every other step stutters.    *)
(***************************************************************************)
LEMMA LeaseStep == Inv /\ [Next]_vars => [Lease!Next]_Lease!vars
<1> SUFFICES ASSUME Inv, [Next]_vars PROVE [Lease!Next]_Lease!vars
  OBVIOUS
<1> USE DEF Inv, Typed, TypeOK, RolloutInv, OneRollout, InFlight, Labels,
            Holding, Waiting, BringUp, Control, Closing, Goto, robotVars,
            taskVars, interruptVars, history, Lease!Next, Lease!vars,
            Lease!Admit, Lease!Command, Lease!Yield
<1>1. CASE Next
  <2>1. ASSUME NEW t \in Tasks, CheckShutdown(t) PROVE [Lease!Next]_Lease!vars
    BY <2>1 DEF CheckShutdown
  <2>2. ASSUME NEW t \in Tasks, ClaimTask(t) PROVE [Lease!Next]_Lease!vars
    BY <2>2 DEF ClaimTask
  <2>3. ASSUME NEW t \in Tasks, Submit(t) PROVE [Lease!Next]_Lease!vars
    BY <2>3 DEF Submit
  <2>4. ASSUME NEW t \in Tasks, RecordFuture(t) PROVE [Lease!Next]_Lease!vars
    BY <2>4 DEF RecordFuture
  <2>5. ASSUME NEW t \in Tasks, PickUp(t) PROVE [Lease!Next]_Lease!vars
    BY <2>5 DEF PickUp
  <2>6. ASSUME NEW t \in Tasks, ReleaseTask(t) PROVE [Lease!Next]_Lease!vars
    BY <2>6 DEF ReleaseTask
  <2>7. ASSUME NEW t \in Tasks, Answer(t) PROVE [Lease!Next]_Lease!vars
    BY <2>7 DEF Answer, Replies
  <2>35. ASSUME NEW t \in Tasks, Tally(t) PROVE [Lease!Next]_Lease!vars
    BY <2>35 DEF Tally, Replies
  <2>8. ASSUME NEW t \in Tasks, ClearStop(t) PROVE [Lease!Next]_Lease!vars
    BY <2>8 DEF ClearStop
  <2>9. ASSUME NEW t \in Tasks, EnterConnecting(t) PROVE [Lease!Next]_Lease!vars
    BY <2>9 DEF EnterConnecting, Overtake
  <2>10. ASSUME NEW t \in Tasks, ProbeConnection(t) PROVE [Lease!Next]_Lease!vars
    BY <2>10 DEF ProbeConnection
  <2>11. ASSUME NEW t \in Tasks, ConnectRobot(t) PROVE [Lease!Next]_Lease!vars
    BY <2>11 DEF ConnectRobot
  <2>12. ASSUME NEW t \in Tasks, Gate(t, "gate1", "prepare") PROVE [Lease!Next]_Lease!vars
    BY <2>12 DEF Gate
  <2>13. ASSUME NEW t \in Tasks, PreparePolicy(t) PROVE [Lease!Next]_Lease!vars
    BY <2>13 DEF PreparePolicy
  <2>14. ASSUME NEW t \in Tasks, Gate(t, "gate2", "launch") PROVE [Lease!Next]_Lease!vars
    BY <2>14 DEF Gate
  <2>15. ASSUME NEW t \in Tasks, ReleaseArm(t) PROVE [Lease!Next]_Lease!vars
    BY <2>15 DEF ReleaseArm
  <2>16. ASSUME NEW t \in Tasks, Launch(t) PROVE [Lease!Next]_Lease!vars
    BY <2>16 DEF Launch
  <2>17. ASSUME NEW t \in Tasks, LoopTest(t) PROVE [Lease!Next]_Lease!vars
    BY <2>17 DEF LoopTest
  <2>18. ASSUME NEW t \in Tasks, Observe(t) PROVE [Lease!Next]_Lease!vars
    BY <2>18 DEF Observe, Fail
  <2>19. ASSUME NEW t \in Tasks, ChunkTest(t) PROVE [Lease!Next]_Lease!vars
    BY <2>19 DEF ChunkTest
  <2>20. ASSUME NEW t \in Tasks, WriteAction(t) PROVE [Lease!Next]_Lease!vars
    BY <2>20 DEF WriteAction, Fail
  <2>21. ASSUME NEW t \in Tasks, Settle(t) PROVE [Lease!Next]_Lease!vars
    BY <2>21 DEF Settle
  <2>22. ASSUME NEW t \in Tasks, Conclude(t) PROVE [Lease!Next]_Lease!vars
    BY <2>22 DEF Conclude
  <2>23. ASSUME NEW t \in Tasks, Report(t) PROVE [Lease!Next]_Lease!vars
    BY <2>23 DEF Report, Replies
  <2>24. ASSUME NEW t \in Tasks, Elapse(t) PROVE [Lease!Next]_Lease!vars
    BY <2>24 DEF Elapse
  <2>25. ASSUME NEW s \in Interrupters, StopLatch(s) PROVE [Lease!Next]_Lease!vars
    BY <2>25 DEF StopLatch
  <2>26. ASSUME NEW s \in Interrupters, StopRead(s) PROVE [Lease!Next]_Lease!vars
    BY <2>26 DEF StopRead
  <2>27. ASSUME NEW s \in Interrupters, StopSignal(s) PROVE [Lease!Next]_Lease!vars
    BY <2>27 DEF StopSignal
  <2>28. ASSUME NEW s \in Interrupters, StopCancel(s) PROVE [Lease!Next]_Lease!vars
    BY <2>28 DEF StopCancel
  <2>29. ASSUME NEW c \in Cleaners, CleanupLatch(c) PROVE [Lease!Next]_Lease!vars
    BY <2>29 DEF CleanupLatch, CGoto
  <2>30. ASSUME NEW c \in Cleaners, CleanupCheck(c) PROVE [Lease!Next]_Lease!vars
    BY <2>30 DEF CleanupCheck, CGoto
  <2>31. ASSUME NEW c \in Cleaners, CleanupExecutor(c) PROVE [Lease!Next]_Lease!vars
    BY <2>31 DEF CleanupExecutor, CGoto
  <2>32. ASSUME NEW c \in Cleaners, CleanupJoin(c) PROVE [Lease!Next]_Lease!vars
    BY <2>32 DEF CleanupJoin, CGoto
  <2>33. ASSUME NEW c \in Cleaners, CleanupClose(c) PROVE [Lease!Next]_Lease!vars
    BY <2>33 DEF CleanupClose, CGoto
  <2>34. QED
    <3> HIDE DEF Inv, Typed, TypeOK, RolloutInv, OneRollout, InFlight, Labels,
                 Holding, Waiting, BringUp, Control, Closing, Goto, robotVars,
                 taskVars, interruptVars, history, Lease!Next, Lease!vars,
                 Lease!Admit, Lease!Command, Lease!Yield
    <3>1. CASE Finished
      BY <3>1 DEF Finished, vars, robotVars, taskVars, history, Lease!vars,
                  InFlight
    <3>2. ASSUME NEW t \in Tasks, Drive(t) PROVE [Lease!Next]_Lease!vars
      BY <3>2, <2>3, <2>4, <2>5, <2>6, <2>7, <2>8, <2>9, <2>10, <2>11, <2>12,
         <2>13, <2>14, <2>15, <2>16, <2>17, <2>18, <2>19, <2>20, <2>21, <2>22,
         <2>23, <2>35 DEF Drive
    <3>3. QED
      BY <1>1, <2>1, <2>2, <2>24, <2>25, <2>26, <2>27, <2>28, <2>29, <2>30,
         <2>31, <2>32, <2>33, <3>1, <3>2 DEF Next, StopRest, CleanupRest
<1>2. CASE UNCHANGED vars
  BY <1>2 DEF vars
<1>3. QED
  BY <1>1, <1>2

(***************************************************************************)
(* The rollout state machine implements the lease: at most one rollout     *)
(* holds the bus, only the holder moves the arm, and one that has let go   *)
(* never comes back.                                                       *)
(***************************************************************************)
THEOREM ImplementsLease == Spec => LeaseSpec
<1>1. Init => Lease!Init
  BY DEF Init, Lease!Init, InFlight, Holding, Waiting, BringUp, Control, Closing
<1>2. QED
  BY <1>1, LeaseStep, Invariance, PTL DEF Spec, LeaseSpec, Lease!Spec
===============================================================================

# A specification of strands_robots in TLA+

`strands_robots` turns a physical robot into a tool an agent can call, and joins
robots into a mesh over which they see, command and stop one another. This
directory models the parts of it where threads, messages and failures meet, checks
them with TLC on small instances, and proves what matters most with TLAPS for
instances of any size.

Modules: `HardwareTask` (a rollout on one arm), `ArmLease` (what the arm promises
its callers), `EStop` (the fleet emergency stop), `MeshLifecycle` (joining and
leaving the mesh), `MeshRpc` (a command over a bridged mesh), `CommandOnce` (what a
send promises its caller), `SimRollouts` (rollouts in the MuJoCo engine), `AuditLog`
(the audit log of a host). `MC*` modules give them constants for TLC, `*Proofs` modules
hold the theorems. `PROJECT.json` maps every definition to the lines it stands for.
Source paths below are relative to `src/strands_robots/`.

## 1. The system

| Component | State it keeps | Operations | What makes it hard |
| --- | --- | --- | --- |
| Hardware rollouts, `hardware_robot.py` | shared task state (status, step count, future, message), claim flag under an admission lock, stop latch, shutdown latch, one-worker executor, open devices | `start_task`, `_execute_task_sync`, `run_policy`, `stop_task`, `cleanup` | three entry points on their own threads share one bus and one task state; stops and shutdowns fall between any two steps; a bring-up fails half way |
| Fleet emergency stop, `mesh/core.py` | `_estop_lockout`, its stamp, replay caches, resume throttle, pending turns | `emergency_stop`, `_resume_lockout`, `_on_safety_estop`, `_on_safety_resume`, `_dispatch`, `broadcast` | messages late, repeated, reordered or lost; a check of the lockout some steps before the robot is called; answers of two presses on the wire |
| Mesh lifecycle, `mesh/core.py`, `mesh/session.py`, `mesh/pacing.py` | running flag, stop event, subscribers, loops, a reference to a session all meshes of the process share | `start`, `stop`, `get_session`, `release_session`, the publishing loops | `stop` leaves its lock before it tears anything down; loops outlast the bounded join; a start may fail half way |
| Mesh RPC, `mesh/core.py` | pending turns with their expected responders, the replay cache of commands | `send`, `_on_response`, `_on_cmd`, `_exec_cmd`, `broadcast`, `tell` | late and repeated answers; timeouts; a thread per command |
| MuJoCo rollouts, `simulation/mujoco/simulation.py`, `simulation/base.py`, `simulation/policy_runner.py` | claim and flag of each robot, futures, driver threads, stops already taken, the engine's lock, an executor | `start_policy`, `run_policy`, `stop_policy`, the mesh's stop, scene mutations, `remove_robot`, `cleanup` | agents' calls hold the lock, the mesh's and the program's do not; a stop falls between claim, hook, frames and episodes; a mutation swaps the model |
| Peer registry, `mesh/session.py` | peers with the time they were last seen | `update_peer`, `prune_peers`, `get_peer` | a late beacon against a prune |
| Bus arbitration and device ledger, `bus_access.py`, `hardware_observe.py`, `hardware_robot.py` 1646-1904 | one lock per motors bus, which devices a connect opened | observe, connect, close | observation beside control; one device of several failing |
| Teleoperation, `teleop_mixin.py`, `teleoperator.py`, `mesh/input.py` | loop thread, receiver, watchdog stamps | start, stop, apply, watchdog | a stop that does not join; input that arrives after it |
| Bridge transport, `mesh/transport/` | the deduplicator's entries with their stamps | `put`, `is_duplicate` | one command over two transports; entries are chosen outside the lock and dropped inside it |
| Audit log, `mesh/audit.py` | a sidecar of numbers, the active file and its rotations, counters in each process | `log_safety_event`, `_next_seq`, `_rotate_log_if_needed`, `read_audit_log`, `verify_audit_integrity` | several processes number, rotate and append; each step may crash or fail |
| Motion grants and command gate | grants with a count and a deadline | grant, consume, revoke | a grant consumed twice or after its deadline |
| Mesh validation and configuration | none, or set once | predicates on payloads | sequential |
| Sensor loops, mobile bases, ROS, cloud | loops and watchdogs over external middleware | publish, command | as the heartbeat loop; external systems |
| Datasets, registry, other engines, policies, drivers, dashboard, tools, training, utilities | files, engines, models | - | data and external systems |

How they interact. An agent's tool call or a mesh command ends in an entry point of
the hardware rollouts. `Mesh._dispatch` reads the lockout and then calls the robot;
the broadcast stop is dispatched as well and calls `stop_task`. `cleanup` of the
robot calls `stop_task`, closes the devices and leaves the mesh. All meshes of a
process share one transport session; teleoperation, observation and rollouts share
the motors bus.

The properties that make each correct:

- Rollouts: one at a time; a stop or shutdown holds; what a rollout reports is its
  own; the claim is released; no command to a closed arm; bounded rollouts end.
- Emergency stop: a locked peer starts nothing new; the count of stopped peers is
  honest; replays of an envelope change nothing; a press ends.
- Lifecycle: a running mesh has its session; a stopped one leaves nothing; a loop
  that outlasts its stop does not go on.
- RPC and bridge: a robot acts on a command once, what a caller is told stays true,
  a late answer leaves nothing.
- MuJoCo rollouts: one per robot; a stop holds and its answer does not deny it; the
  model is not swapped under a rollout; a robot is given back.
- Audit log: a number is given once and none is skipped; the log gives a thread's events back in order; a
  reported gap is one; a rotation removes the oldest file only.
- Registry: a peer that beats is listed, a silent one is pruned.
- Bus and ledger: one owner of the bus; a failed connect closes just what it opened.
- Teleoperation: nothing is applied after the stop; silence halts the robot.
- Grants: a grant is consumed at most as often as it was given.

The hazards behind these are in `PROJECT.json`, each at its line.

## 2. What is modelled

### HardwareTask and ArmLease

A *task* is one request for a rollout; `Kind` says through which entry point it came.
`pc[t]` says where its thread is, and a step is what a thread does between two places
where a write of another thread can reach it, so each read and each write of shared
state is a step.

| Model | Code |
| --- | --- |
| `status`, `steps`, `note`, `future` | `_task_state` (status, step_count, error_message, task_future) |
| `claimed`; `ClaimTask`, `ReleaseTask` | `_task_claimed`; `_claim_task`, `_release_task` |
| `stopRequested`, `shutdown`; `Latched` | `_stop_requested`, `_shutdown_event`; `_rollout_stop_latched` |
| `CheckShutdown`, `Submit`, `RecordFuture`, `PickUp` | `_shutdown_error`, `start_task`, the executor |
| `reply`; `Report`, `Answer`, `Tally` | the result of `_run_control_loop`; that of `run_policy`, read from the shared state after the release |
| `ClearStop` ... `Launch` | the bring-up of `_execute_task_async` with its two gates |
| `LoopTest` ... `Settle`, `Conclude` | its control loop and terminal status |
| `ReleaseArm` | `_release_uncommanded_arm` |
| `StopLatch`, `StopRead`, `StopSignal`, `StopCancel` | `stop_task` |
| `CleanupLatch` ... `CleanupClose` | `cleanup` |

`written`, `overtaken`, `aim`, `phase` and `mark` are history that only properties read.
`run_policy` reads the status and the step count from the shared task state when it
has let go of the bus, so a rollout admitted meanwhile may have reset them: `overtaken`
notes the calls this happens to, and what is said of a reply (`StepCountIsOwn`,
`InterruptedIsNotCompleted`) is said of the others (section 4). The summary text and the
payload of a reply read the state one after the other; the model has one read of each
value, as the payload.
A policy is a source of chunks of 0 to `Horizon` actions that may fail; the duration
of a rollout may run out at any time in the loop (`Elapse`).

`ArmLease` is what the arm promises: one holder, only the holder writes, and a rollout
that let go never comes back. `HardwareTask` implements it (`LeaseSpec`), with the
tasks from the claim to its release as holders.

### EStop

Peers exchange messages over a network that keeps all it was ever sent; a receiver
takes a message at any later time, as often as it comes, or never. What stands between
a repetition and its effect are the replay caches (`seen`) and, for envelopes, the
freshness of the stamp by the receiver's own clock. A press goes through `engaged`
(lockout and stamp set), `halted` (own robot asked), `waiting` (stop broadcast, answers
collected), `counted` (window closed), `done` (envelope published), or `failed` when
its mesh has left and `broadcast` raises, or `unheard` when its mesh has left and the
envelope does not go out.

| Model | Code |
| --- | --- |
| `Press`, `HaltOwn`, `Broadcast`, `Collect`, `CloseWindow`, `Announce` | `emergency_stop`, `broadcast`, `_on_response`, `_peers_that_did_not_stop` |
| `TakeStop`, `PerformStop` | the broadcast stop in `_exec_cmd`: past the replay check; the stop of the robot and its answer |
| `RefuseStop` | a repeated one, answered with an error on the same turn while the first may still run |
| `Fresh`; `Survivors`, `TTL`; `Slots`, `IssuerCap` | `_check_safety_envelope_timing`; `_evict_replay_cache`; `_per_issuer_cap_exceeded` |
| `OnEstop`, `Engage` | `_on_safety_estop` |
| `CheckCommand`, `PerformCommand` | `_exec_cmd` and `_dispatch`: the replay check and the check of the lockout, then the call of the robot |
| `VerifyResume`, `ClearLockout`, `AnnounceResume` | `_resume_lockout` |
| `OnResume` | `_on_safety_resume` |
| `Leave`, `Join` | `stop`, `start` of a mesh, as far as the stop is concerned |

Time is the fleet's, and each peer's wall clock is ahead of it by its `Offset`. A stamp
is a time of day; two stamps of one unit of time are told apart by a number, as two
readings of a fine clock are. `forgotten` notes the envelopes that a full cache dropped
or did not take, `applied` and `repeated` those that changed a lockout, `halted` what a
robot carried out, `cut` the presses whose mesh was stopped under them.

Left out: the throttle against guessing the code, the audit of a corroborated stop, and
a process restart, which forgets the lockout and the caches. The check of the stamp and
the write to the cache are one step; in the code the cache's time of acceptance is read
a little later, which keeps the entry longer.

### MeshLifecycle

Threads call `start` and `stop` on the meshes of one process. `start` holds the
mesh's lifecycle lock from end to end; `stop` holds it only in `StopEnter`, and the
rest of it (`JoinLoops`, `Leave`, `CheckRef`, `StopRelease`, `StopUnhold`) runs
unlocked. `GetSession` and `Release` are `get_session` and `release_session` under the
session lock. `LoopTest`, `Publish` and `Wait` are the heartbeat loop with its
`Ticker`; each start of each mesh has its own loop, and all are paced by one
`stopEvent`. `overlapped` notes that a start ran beside the rest of a stop.

### MeshRpc and CommandOnce

A command is published with `send` and comes to the robot in several *copies*, one or
more over each transport. A copy is handled by the thread of its transport as far as
`Deduplicate`, and from `Begin` by the thread `_on_cmd` starts for it.

| Model | Code |
| --- | --- |
| `Send`, `Return`, `Accept` | `send` (register and publish; wait and take out), `_on_response` |
| `Arrive`, `Purge`, `DropOldest`, `Deduplicate` | `is_duplicate`: the clock, the first critical section, the eviction of what was chosen outside the lock, the check |
| `Begin`, `CheckReplay` | `_exec_cmd`: the clock, then eviction, look-up and entry in one critical section |
| `Refuse`, `Run` | `_dispatch` of a locked robot, and of another |

`seen` and `cache` are the tables as stamps; the clock has whole seconds and is read
before the lock, as in the code. A copy is on its way for `MaxDelay` at most; that this
is no more than what the deduplicator remembers (`DelayAssumption`) is the one thing
assumed of the network: the code has no check of a command's age, so a copy later than
that is a new command to it. `last`, `dropped` and `crowded` are history.

`CommandOnce` is the promise without copies, clocks and tables: a command is carried
out once or refused, its caller is told which or that time was up, and the promise is
withdrawn from a command that the deduplicator had to forget. `MeshRpc` implements it
(`CommandSpec`) with `runs` as the acts, the calls of a refused copy as the refusals,
the returned results as what was told and `dropped` as what is withdrawn.

### SimRollouts

A *launch* is a call of `start_policy` or `run_policy` together with the rollout it
launches; `Calls` are the calls of other threads, any of a `stop_policy`, the mesh's
stop of all rollouts, a scene mutation, a `remove_robot` and a `cleanup`. `Dispatched`
launches come through the agent's tool and hold the engine's lock; the others do not.

| Model | Code |
| --- | --- |
| `Admit`, `Refuse`, `Announce`, `Submit`, `Record` | `start_policy`, `run_policy` up to the thread that drives |
| `Begin`, `MakeHook`, `Frame`, `Check`, `AfterEpisode`, `NextEpisode`, `Reset`, `Release`, `Lower` | `_drive_rollout`, the hook of a rollout, `send_action`, `_run_episodes`, `reset` |
| `Stop`, `ReadActive`, `Request`, `Answer` | `stop_policy` |
| `StopAll`, `FlagAll`, `NextTarget` | the mesh's stop: `_request_policy_stop_all`, then one `stop_policy` per robot |
| `Gate`, `Swap` | a scene mutation |
| `Remove`, `RemoveJoin`, `RemoveGate`, `RemoveSwap` | `remove_robot` |
| `Cleanup`, `Drain`, `Handoff` | `cleanup` |

Left out: `run_multi_policy`, motion primitives, recording, a robot added again under
its old name, and what a frame computes. `forgotten` names the rollouts whose record
was dropped before they had ended, by a later launch or by `cleanup`; the properties
do not speak of their robots, since the code has no way left to reach them.

### AuditLog

`Writers` are threads of processes that share one audit directory; each logs for one
peer. A file keeps its identity when it is renamed (`content` by file, `dir` by place),
so a descriptor that was opened before a rotation writes where the file has gone.

| Model | Code |
| --- | --- |
| `LockSeq`, `LockSeqUnguarded`, `LockSeqFails` | `_seq_flock`, and its two ways to fail |
| `Load`, `Store`, `StoreFails` | `_load_seq_counters` with its walk of the log, `_persist_seq_counters` |
| `Spoil` | the poison record of a payload that cannot be serialised |
| `LockLog`, `Measure`, `Shift`, `ShiftFails`, `Open`, `Write`, `Drop` | the second half of `log_safety_event`, `_rotate_log_if_needed` one rename at a time |
| `Gaps`, `Trusted`, `Precedes` | `verify_audit_integrity`, `_audit_log_files_in_order` |
| `Crash` | a process ends, which frees its locks, and starts again |

A write of one line is one step. `_SEQ_LOCK` and the lock file are taken in one step,
since who waits for the second keeps out only threads that would wait with it. The
verifier is evaluated in a single state; one that reads while another process rotates
may skip a file. Signatures are left out, and with them the records a verifier with a
key refuses. `degraded` and `torn` are history: a number was given out without the
lock or the sidecar; a rotation was disturbed.

## 3. What TLC checks

Every run is exhaustive within its constants. "Press", "stop" and the like are calls.

| Run | Instance | Shows |
| --- | --- | --- |
| `hw_stop` | a rollout of the executor and one of a caller's thread, one `stop_task`, two actions each in chunks of up to two | `TypeOK`, `OneRollout`, `StepCountIsOwn`, `StopHolds`, `InterruptedIsNotCompleted`, `LeaseSpec`, and under fairness `StopEndsRollout` |
| `hw_cleanup` | a rollout of the executor, one of a caller's thread, one `cleanup` | `StopHolds` for the shutdown, `IdleArmIsNotRunning`, `UndrivenArmIsReleased`, `NoCommandAfterClose`, and under fairness `BudgetEndsRollout` and `CleanupFinishes` |
| `estop_press` | an operator who leaves and joins, a robot that may fail to stop, two presses, one command; time stands still | `TypeOK`, `AckIsHonest`, `LockedPeerStartsNothingNew`, and under fairness `PressCompletes` |
| `estop_resume` | an operator whose clock is a unit ahead, a peer that leaves and joins, two presses, one resume; time passes the freshness of every first envelope; caches that take one envelope of an issuer | `NothingIsAppliedTwice` |
| `mesh_lifecycle` | two meshes, one of which joins again, two threads | `TypeOK`, `RunningMeshHasItsSession`, `AtMostOneLateBeat`, `AllOrNothing` |
| `sim_rollouts` | two robots, an agent's `start_policy` and `run_policy` of two episodes of two frames, two other calls of any kind | `TypeOK`, `OneRolloutPerRobot`, `StopBoundsFrames`, `HaltsAreReported`, `SwapWaitsForRollouts`, `RobotIsGivenBack` |
| `mesh_rpc` | one robot, two sends, two copies of one and one of the other, a deduplicator of one entry and a replay cache of two, three seconds | `TypeOK`, `ActsOnce`, `AnswerIsTruthful`, `LateAnswersLeaveNothing`, `ReplayWindowHolds`, `CommandSpec` |
| `audit_log` | two processes, three threads, two peers, five events, files of one record, two rotations kept, one crash or failing call | `TypeOK`, `NumbersAreUnique`, `NumbersAreConsecutive`, `ReadsInOrder`, `GapsAreReal`, `RetainedWindow` |

Why the bounds are enough. Two rollouts are what a race for the bus takes, and two
actions in chunks of two cover a stop before, between and after the writes of a chunk
and at its end, an empty chunk and the cap. Two presses are what it takes to confuse
their answers, and to lock a peer again after a resume; one command suffices for the
race with the lockout because commands do not interact. In `estop_press` the caches are
large enough never to be full and no time passes, so that a repeated stop meets its own
first copy and nothing else; the operator's mesh (`Leavers`) leaves at any point of a
press; the robot that fails to stop (`Faulty`) is the other's, and in `estop_resume` the
operator's own. In `estop_resume` a window of zero and a skew of one give entries a life
of one unit, the clocks differ by exactly the skew, and two units of time are what it
takes for an envelope to be taken, forgotten and delivered again at the edge of its
freshness; commands and broadcasts reach nobody there (`Reached`), since they touch no
lockout. Two threads suffice for a start beside a stop, and one rejoin for
a loop that meets the next start. In `sim_rollouts` two launches make a pair that may
meet on a robot, of either shape, and two other calls are what it takes for a stop to
meet a removal, or a mutation to meet a stop. In `mesh_rpc` two copies of one command
race each other, and the other command is what fills the tables; three seconds exceed
both memories of one second. In `audit_log` three events of one thread make a gap in
the middle possible, the third thread makes two of one process meet under its locks,
and five records in files of one exceed the two rotations kept. The theorems of section
5 remove the bounds for most of these properties.

Bounds by name: `MaxSteps` is the code's `n_steps` cap, which `start_task` does not
pass and where it bounds the model only; `Horizon` bounds a chunk; `MaxStarts` bounds
the starts of a mesh that get to run. `EStop` is bounded by its sets of presses,
commands and resumes and by `MaxClock`; `Pressers`, `Reached`, `Leavers` and `Faulty`
limit who may press, be reached, leave and fail, and keep the runs small.
`Horizon` and `Episodes` bound a
rollout of the engine as the caller's arguments do; `MaxTime` bounds the clock of
`MeshRpc`; `MaxEvents` and `MaxFaults` bound `AuditLog`. Symmetry: presses in
`estop_resume`, threads in `mesh_lifecycle`, robots and other calls in `sim_rollouts`;
none of these runs checks liveness.

Deadlock. `HardwareTask` says itself when it may stop (`Finished`: every call has
come to its end), and TLC checks that it stops nowhere else. In the other modules
nobody need call anything and every call made may end, so the runs turn the check
off.

Fairness. `HardwareTask`: a thread that has begun keeps running (weak fairness of
`Drive`, `StopRest`, `CleanupRest`, and of the `stop_task` inside a `cleanup`): these
are threads of one process that block on nothing but each other. No caller need ever
come, and no duration need ever run out, so `StopEndsRollout` holds for a rollout
without end. `EStop`: only the thread of a press (`Carry`), whose waits have
timeouts; nothing is assumed of the network or of other peers. The other modules: none.

## 4. Where code and documentation part

Each is a run that TLC must find violated, with the promise quoted in `PROJECT.json`.

- `hw_lost_stop`: a `stop_task` between a rollout's admission and the point where its
  thread clears the latch is lost; the rollout drives the arm.
- `hw_leaked_claim`: `stop_task` reads the status of one rollout and cancels the
  future of the next, which then never runs and never releases the claim.
- `estop_duplicate`: a second copy of the broadcast stop is answered with an error on
  the turn of the first, and `emergency_stop` counts the peer as stopped while its robot
  still moves. `AckIsHonest` says what the count does mean.
- `mesh_rejoin`: nothing clears the stop event, so a mesh that stops and starts again
  publishes one beacon and then falls silent.

The following are disagreements of the same kind without a run of their own; each is a
behaviour of the model or of code that is not modelled, as said.

- Hardware rollouts (modelled). `run_policy` composes its reply from the shared task
  state after it has released the bus (`hardware_robot.py` 3323-3333). A rollout admitted
  in between resets that state, and the reply then tells of the other rollout: an
  interrupted call may report `completed` or `connecting` and a step count that is not
  its own, against "reported `STOPPED`" (3274-3276) and against what the claim is for
  (2888-2891). Rollouts of the other two entry points report under the claim.
- Hardware rollouts (modelled; `UndrivenArmIsReleased` leaves it out).
  `_release_uncommanded_arm` is "Called from every bring-up exit that ends the task
  after `_connect_robot` and before the loop commands the arm" (2411-2413). A policy whose
  `set_control_frequency` raises leaves through the handler at the bottom (2384), which
  records the error and does not call it: the arm stays energised and the reply does not
  say so. (A `reset` that raises is caught, and the bring-up goes on.)
- Emergency stop (modelled). An envelope over its issuer's share of the cache is obeyed
  and not remembered (`mesh/core.py` 3023-3033), and a full cache drops its oldest
  entries; such an envelope acts again when it is delivered again while fresh.
  `NothingIsAppliedTwice` leaves out just these (`forgotten`).
- Emergency stop (modelled). A resume envelope issued before a press and delivered after
  it clears the lockout of that press, and so does a `_resume_lockout` that a press
  overtakes between its check and its clear: no stamp is compared (3184, 3748).
- Emergency stop (modelled). `start` subscribes to the safety topics so that receivers
  are not "willing to accept the next command after they've stopped the current task"
  (`mesh/core.py` 889-894). The envelope that locks them is published after the window
  for the answers, 3 s later, and a peer that has stopped takes a command in between.
  `LockedPeerStartsNothingNew` states the guarantee the code does give: a command that
  had passed the check before the lockout may still begin after it.
- Audit log (modelled). "Sequence gaps (records were deleted)", says the module's head,
  and that values of one peer "are guaranteed to be adjacent" (`mesh/audit.py` 121-126).
  A number is taken under one lock and its record appended under another, so the
  records of two threads of a peer change places and the verifier reports a gap, and
  `ok` as false, in a log nobody touched. `GapsAreReal` is therefore about peers with one
  thread and `ReadsInOrder` about each thread.
- Audit log (modelled). A record that could not be serialised or signed keeps its number
  and carries a poison mark, so that the number "still has a record naming the failure
  rather than reading as a deletion" (`mesh/audit.py` 1031-1035, 26-32). The verifier
  skips such records before it advances (1427-1453), so it reports their numbers as a gap
  all the same, which its docstring explains by deleted records (42-44). `GapsAreReal`
  says that no record the verifier trusts has a number of the gap; a poison record may.
- Audit log (modelled). `read_audit_log` calls what it reads "the full retained window"
  (1272-1274). Two processes that find the file full together both rotate: the second
  moves a fresh file up, or renames onto a place the first has just filled, and a file
  is lost early. So does a rotation after a crash in the middle of one. `RetainedWindow`
  says when neither happens.
- Bridge (the model has the copies, not `broadcast`). Answers carry no sender and no
  command, so the deduplicator passes both copies of an answer; `broadcast` collects
  each twice, and `emergency_stop` reports twice as many `responses_received` on a
  bridged mesh.
- Commands (modelled; in `MeshRpc` as `DelayAssumption`). No command and no broadcast stop
  is checked for its age, so a copy that is later than the deduplicator and the replay
  cache remember runs again.
- MuJoCo rollouts (modelled). A stop of a `run_policy` of several episodes ends the
  episode it falls into; each remaining episode still takes a frame, and its `reset`
  lowers the flag, so that a stop in between answers that nothing was running
  (`simulation/base.py` 3905-4000, 4572; `docs/simulation/rollouts.md` 66-74).
  `StopBoundsFrames` says what is left: one frame for each episode.
- MuJoCo rollouts (modelled; the properties leave such robots and rollouts out). Two
  `start_policy` calls without the engine's lock both pass the gate (`simulation/mujoco/simulation.py`
  6850 and 6949), `remove_robot` may delete the record of the next rollout (3417), and a
  launch beside `cleanup` is forgotten by it.
- Teleoperation (not modelled). After a `stop_teleoperate` whose join timed out,
  `teleoperate` finds `_teleop_running` false, clears the stop event under the old loop
  and starts another beside it: two loops drive the follower, and the handle of the old
  one, kept "so a later call re-joins that loop", is gone (`teleop_mixin.py` 597, 697,
  720). `InputPublisher.start` does the same (`mesh/input.py` 333).

## 5. What is proved

For all values of the constants, from these assumptions only: `Kind` maps tasks to
entry points, `MaxSteps` and `Horizon` are naturals, `MaxStarts` gives naturals,
cleaners are not stoppers, the sets of places in `EStop` are peers, `Target` maps calls to
robots, times and sizes are naturals, `DelayAssumption`, calls are not launches, and
the null values are not members of the sets they stand beside.

`HardwareTaskProofs`: `TypeCorrect`, `BusIsExclusive` (`OneRollout`),
`StepCountIsRight`, `IdleStatusIsRight`, `StopIsHonoured` (`StopHolds`),
`InterruptIsReported`, `ClosedArmIsStill` (`NoCommandAfterClose`), `UndrivenArmIsLetGo`,
`ImplementsLease` (`LeaseSpec`). The invariant has three layers, each preserved given the ones before:

1. `Typed`: types, and that a write has an action left in its chunk, without which the
   remaining actions could go below zero.
2. `RolloutInv`: `OneRollout`; `CountInv` (a rollout that has not begun to drive has
   written nothing, and the result of one that has been composed has its own count);
   `StatusInv` (what each stage leaves in the shared status). The step count is a
   rollout's own only because no other is in flight to write it; between the release and
   the reply of `run_policy` it stays so until another rollout resets it.
3. `InterruptInv`: `LatchInv` (the latch of an interrupt that covers a rollout stays
   set while the rollout is in flight), `GraceInv` (what that leaves the rollout, stage
   by stage, with the write on its way counted), `OutcomeInv` (it does not settle as
   completed), `ClosedInv` (a rollout in its loop finds a closed arm disconnected).
   `StopHolds` alone is not inductive: it says neither that the latch is still set when
   a gate or the loop condition reads it, nor that one write may be on its way.

`EStopProofs`: `TypeCorrect`, `CountIsHonest` (`AckIsHonest`), `ReplaysAreDropped`
(`NothingIsAppliedTwice`), `LockoutHolds` (`LockedPeerStartsNothingNew`). The invariant
is `Typed` (with the callers of a press and a resume known) and three independent parts.
`JobsAreOvertaken`: a job of a locked peer was overtaken. `ReplayInv`: an entry was
accepted while the stamp of its envelope was fresh, so it is forgotten only when the
envelope is stale for good (`DroppedIsStale`: freshness and skew together are the life of
an entry, whatever the clocks of the two peers say); and what changed a lockout is in
the cache, or stale, or was lost to a full cache. `CountInv`: an answer says what the
robot did or is that of a repeated copy, and who is counted has answered so.

`MeshLifecycleProofs`: `TypeCorrect`, `LateBeatIsTheLast` (`AtMostOneLateBeat`),
`SessionOutlivesItsUsers` (`RunningMeshHasItsSession`), `CallsAreAllOrNothing`
(`AllOrNothing`). A starting thread holds its mesh's lock and the mesh does not run; a
loop is either the one of the current run or meets a stop event that stays set. Without
the latter a loop could find its mesh running again and its event unset, which is what
the mutant of this property does. The other two count references. `Counted`: the
running meshes and the calls that still have to release (`Holders`) are finitely many
and no more than `refs`, and just as many while no start overlaps the rest of a stop:
the end of such a stop clears the mark of the reference the start has just taken, and
the next stop of that mesh gives nothing back. So an overlap leaks a session and never
closes one, which is why `RunningMeshHasItsSession` needs no hypothesis and
`AllOrNothing` has one. `Shared`: each holder has its reference on the open session. `Complete`: what a
mesh has between two calls, and at each stage of its one call.

`MeshRpcProofs`: `TypeCorrect`, `CommandActsOnce` (`ActsOnce`), `AnswersStayTrue`
(`AnswerIsTruthful`), `NothingIsLeft` (`LateAnswersLeaveNothing`), `ReplayWindow`
(`ReplayWindowHolds`), `CommandImplementsOnce` (`CommandSpec`). `OneCopy` carries the second and third: of the copies of a
command whose entry was not dropped, at most one is past the deduplicator, and while
one is, the entry's stamp is no earlier than the sending and no copy arrives later than
the entry lasts. That is where `DelayAssumption` is used, and nowhere else. `Windowed`
carries `ReplayWindowHolds`: `last` is the stamp in the cache, or the entry was
dropped, or its window is over. The refinement adds `Traced` to `OneCopy`: an answer is
what some copy of the command came to, for a dropped command as well, and only a call
that has returned has a result; then a run is an `Act`, a refusal a `Refuse`, a return a
`Tell`, the two evictions of the deduplicator a `Withdraw`.

`SimRolloutsProofs`: `TypeCorrect`, `RobotsAreGivenBack` (`RobotIsGivenBack`) and
`OneRollout` (`OneRolloutPerRobot`) for any launches; and, if every launch is an agent's
(`Dispatched = Launches`), `StopsBound` (`StopBoundsFrames`), `SwapWaits`
(`SwapWaitsForRollouts`), `StopsReportHalts` (`HaltsAreReported`). That assumption is
what the code itself rests on: between the gate and the record of a launch only the
engine's lock keeps the next one out (section 4). `Guarded` says, robot by robot, that
an agent's launch holds the lock while it is between the two, and that a live rollout of
a returned call is in the table, whatever launches without the lock do on other robots;
`Exclusive` is what it comes to when there are none. `Bounded` follows the frames after
a stop by stage; `Overlap` says that a call past its gate has seen every launch that was
live.

The last theorem is about evidence that changes hands. A stop that
halts a rollout finds it up: `Up` says that a live rollout no stop has reached has its
claim current and its flag up, but for the time between its own reset and the next
hook. Another rollout's reset, which lowers every flag, is kept from it by `Quiet`: a
rollout at its reset has found that nobody else drives, and holds the lock, so nobody
launches. `Owing` then follows the evidence: it is in the `was_running` of a call that
has yet to answer for the robot, or in the record of the pre-pass with a call that has
yet to come to the robot and will read it, whichever call takes the record first.
`HaltsAreReported` alone says nothing of a state in which a stop is under way.

`AuditLogProofs`: `WellTyped` (`TypeOK`), `UniqueNumbers` (`NumbersAreUnique`),
`ConsecutiveNumbers` (`NumbersAreConsecutive`), `ReadInLoggedOrder` (`ReadsInOrder`),
`ReportedGapsAreReal` (`GapsAreReal`), `LastFilesAreKept` (`RetainedWindow`), for any
writers, processes, peers, sizes and faults. The invariant has three parts:

1. `Numbered`, while lock and sidecar have not failed. `Exclusive`: one thread at a time
   is between the load and the store. `Covered`: the sidecar is as high as any number of
   its peer in the files, in a process's memory or with a thread, and who is about to
   store has just what is in it. So the next number is new, wherever the highest comes
   from. The highest exists because the files are finite (`Bounded`); it is found by the
   well-founded order of the naturals.
2. `Told` adds `Ordered` (the places hold the files from the newest to the oldest, with
   holes only) and `Chronicle` (a thread has the file open that its last record is in or
   a newer one; its records come in the order of their numbers, and before the number
   it has been given). The order of reading is that of the places; the order of writing is
   that of the files, which no rename changes. Both hold even while two processes
   rename at once.
3. `Rotation`, while no rotation was disturbed: outside a rotation the directory is full
   from the active place or from the next, and at place `k` of one the files below are
   where they were and the others have gone up. `RetainedWindow` is true in the middle
   of a rotation only for that reason.

Only model-checked: liveness (`StopEndsRollout`, `BudgetEndsRollout`,
`CleanupFinishes`, `PressCompletes`), which the prover does not reach. Every invariant
and action property that a passing run checks is a theorem.

## 6. What is not modelled

`hardware_robot.py`: the device ledger inside the bring-up, ROS telemetry beside the
loop, recording, argument checks. In particular a device that fails to open is one
outcome of `ConnectRobot`, whichever device it was. `mesh/core.py`: the resume throttle,
the audit of corroborated stops, access control, user subscriptions, process restarts. What is left out of the other
modules is said with each in section 2. The components of section 1
below the lifecycle are not modelled yet (section 7) or hold no state of their own that
several actors share: formats, numeric models, external middleware and services.

## 7. Plan

In this order; each module brings a run or takes a place in one.

| Module | Code | Properties |
| --- | --- | --- |
| `SafeFleet`, composing `EStop` with `HardwareTask` | both | a press reaches the arm: what `PerformStop` assumes of the robot is what `stop_task` does |
| `BusDevices` | `bus_access.py`, `hardware_observe.py`, ledger in `hardware_robot.py` | a failed connect closes what it opened and nothing else |
| `Teleop` | `teleop_mixin.py` 296-1144, `mesh/input.py` 501-692 | one loop per follower while no join times out; the watchdog halts |
| `MotionGrants` | `_motion_grants.py` | no grant used twice |

Abstract specifications to state: `ArmLease` and `CommandOnce` (done), a numbering that gives each number
once (`AuditLog` implements it while nothing fails).

Theorems to come: the numbering as a refinement.

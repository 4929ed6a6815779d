---------------------------- MODULE MCHardwareTask ----------------------------
(***************************************************************************)
(* Instances of HardwareTask for TLC: which entry point each of the model  *)
(* values a and b comes in by.                                             *)
(***************************************************************************)
EXTENDS HardwareTask, TLC

CONSTANTS a, b

\* One rollout on the executor and one on a caller's thread.
OneOfEach == (a :> "start") @@ (b :> "run")

\* Every rollout comes in by start_task.
AllStarts == [t \in Tasks |-> "start"]

\* One rollout on the executor and one through _execute_task_sync.
StartAndExecute == (a :> "start") @@ (b :> "execute")
===============================================================================

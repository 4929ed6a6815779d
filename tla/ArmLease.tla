------------------------------- MODULE ArmLease -------------------------------
(***************************************************************************)
(* What strands_robots/hardware_robot.py promises its callers about the    *)
(* arm: it has a single command bus, so at most one rollout holds it, only *)
(* the holder moves the arm, and a rollout that has let go of the bus      *)
(* never comes back to it.  How admission is decided, what bring-up does   *)
(* and who may interrupt it is left to the implementing specification.     *)
(***************************************************************************)
EXTENDS Naturals

CONSTANT Tasks       \* the rollout requests made in a behaviour

VARIABLES holders,   \* the rollouts that hold the bus
          served,    \* the rollouts that held it and let go
          written    \* the number of actions each rollout wrote to the arm

vars == <<holders, served, written>>

Init ==
  /\ holders = {}
  /\ served = {}
  /\ written = [t \in Tasks |-> 0]

Admit(t) ==
  /\ holders = {}
  /\ t \notin served
  /\ holders' = {t}
  /\ UNCHANGED <<served, written>>

Command(t) ==
  /\ t \in holders
  /\ written' = [written EXCEPT ![t] = @ + 1]
  /\ UNCHANGED <<holders, served>>

Yield(t) ==
  /\ t \in holders
  /\ holders' = holders \ {t}
  /\ served' = served \cup {t}
  /\ UNCHANGED written

Next == \E t \in Tasks : Admit(t) \/ Command(t) \/ Yield(t)

Spec == Init /\ [][Next]_vars
===============================================================================

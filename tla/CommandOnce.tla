------------------------------ MODULE CommandOnce ------------------------------
(***************************************************************************)
(* What strands_robots/mesh/core.py promises the caller of send() over a   *)
(* transport that delivers a command more than once: the robot carries the *)
(* command out once or refuses it, never both and never twice, and the     *)
(* caller is told nothing but what became of it, or that time was up.  The *)
(* promise is withdrawn from a command that the robot had to forget.       *)
(* Copies, queues, clocks and the tables that tell a copy from a command   *)
(* are left to the implementing specification.                             *)
(***************************************************************************)
EXTENDS Naturals

CONSTANT Calls       \* the commands sent in a behaviour

VARIABLES acts,      \* how often the robot carried out each command
          refused,   \* the commands it refused
          told,      \* what the caller of each was told, or "none"
          withdrawn  \* the commands about which nothing is promised any more

vars == <<acts, refused, told, withdrawn>>

Init ==
  /\ acts = [c \in Calls |-> 0]
  /\ refused = {}
  /\ told = [c \in Calls |-> "none"]
  /\ withdrawn = {}

Open(c) == c \in withdrawn \/ (acts[c] = 0 /\ c \notin refused)

Act(c) ==
  /\ Open(c)
  /\ acts' = [acts EXCEPT ![c] = @ + 1]
  /\ UNCHANGED <<refused, told, withdrawn>>

Refuse(c) ==
  /\ Open(c)
  /\ refused' = refused \cup {c}
  /\ UNCHANGED <<acts, told, withdrawn>>

\* What the caller of c may be told.
Truths(c) ==
  {"timeout"} \cup {a \in {"ran"} : acts[c] # 0}
              \cup {a \in {"refused"} : c \in refused}
              \cup {a \in {"replayed"} : c \in withdrawn}

Tell(c) ==
  /\ told[c] = "none"
  /\ \E a \in Truths(c) : told' = [told EXCEPT ![c] = a]
  /\ UNCHANGED <<acts, refused, withdrawn>>

Withdraw ==
  /\ \E S \in SUBSET Calls : withdrawn' = withdrawn \cup S
  /\ UNCHANGED <<acts, refused, told>>

Next ==
  \/ Withdraw
  \/ \E c \in Calls : Act(c) \/ Refuse(c) \/ Tell(c)

Spec == Init /\ [][Next]_vars
===============================================================================

------------------------------ MODULE MCAuditLog ------------------------------
(***************************************************************************)
(* Instances of AuditLog for TLC: writers v and w are threads of process A *)
(* and u is one of process B.                                              *)
(***************************************************************************)
EXTENDS AuditLog, TLC

CONSTANTS u, v, w, A, B, a, b

\* Peer a logs in both processes, peer b from one thread.
Processes2 == (u :> B) @@ (v :> A) @@ (w :> A)
Peers2 == (u :> a) @@ (v :> a) @@ (w :> b)

\* Three events of the lone thread, so that one in the middle may be missing.
Events113 == (u :> 1) @@ (v :> 1) @@ (w :> 3)
Events212 == (u :> 2) @@ (v :> 1) @@ (w :> 2)
Events203 == (u :> 2) @@ (v :> 0) @@ (w :> 3)
Events112 == (u :> 1) @@ (v :> 1) @@ (w :> 2)
===============================================================================

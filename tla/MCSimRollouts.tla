---------------------------- MODULE MCSimRollouts -----------------------------
(***************************************************************************)
(* Instances of SimRollouts for TLC: which call each of the model values   *)
(* a and b is.                                                          *)
(***************************************************************************)
EXTENDS SimRollouts, TLC

CONSTANTS a, b

\* A rollout on the executor and one on the thread of its caller.
OneOfEach == (a :> "start") @@ (b :> "run")

\* Robots and calls are interchangeable: no definition tells one from another.
Interchangeable == Permutations(Robots) \cup Permutations(Calls)
===============================================================================

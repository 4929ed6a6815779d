---------------------------- MODULE MCMeshLifecycle ----------------------------
(***************************************************************************)
(* Constants of MeshLifecycle for TLC.                                     *)
(***************************************************************************)
EXTENDS MeshLifecycle, TLC

CONSTANTS m1, m2

\* One mesh joins up to twice, the other once.
OneRejoins == [m \in Meshes |-> IF m = m1 THEN 2 ELSE 1]

\* Threads are interchangeable.
Interchangeable == Permutations(Callers)
===============================================================================

------------------------------- MODULE MCMeshRpc -------------------------------
(***************************************************************************)
(* Instances of MeshRpc for TLC: the calls are the model values x and y.   *)
(***************************************************************************)
EXTENDS MeshRpc, TLC

CONSTANTS x, y, k1, k2, robot

\* Both calls go to one robot.
ToOne == (x :> robot) @@ (y :> robot)

\* Two copies of one command and one of the other.
TwoAndOne == (x :> {k1, k2}) @@ (y :> {k1})
===============================================================================

-------------------------------- MODULE MCEStop --------------------------------
(***************************************************************************)
(* Constants of EStop for TLC.                                             *)
(***************************************************************************)
EXTENDS EStop, TLC

CONSTANT op

\* Presses are interchangeable: no definition tells one from another.
Interchangeable == Permutations(Presses)

\* All clocks agree, or the operator's is one unit ahead.
Agreeing == [p \in Peers |-> 0]
OperatorAhead == [p \in Peers |-> IF p = op THEN 1 ELSE 0]
===============================================================================

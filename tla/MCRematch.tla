------------------------------ MODULE MCRematch ------------------------------
(* Rematch with its loss budget.                                            *)
EXTENDS Rematch

LossNone == [f \in Frames |-> 0]
=============================================================================

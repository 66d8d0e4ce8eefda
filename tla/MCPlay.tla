-------------------------------- MODULE MCPlay --------------------------------
(* Play with a catalog of three, of which the table holds two, and an id the  *)
(* game does not know.  One undefined input bit.                              *)
EXTENDS Play

MCDefs == <<"hold", "first", "late">>
MCIds == {"hold", "first", "late"}
MCTrigger == [id \in {"hold"} |-> 1]
=============================================================================

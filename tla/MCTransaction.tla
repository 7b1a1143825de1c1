--------------------------- MODULE MCTransaction ---------------------------
(***************************************************************************)
(* An instance of Transaction for TLC: w1 nests a call in its own, may      *)
(* panic and may be cancelled; w2 takes a connection and runs nothing; w3   *)
(* carries a Transaction of another type.                                   *)
(***************************************************************************)
EXTENDS Transaction

CONSTANTS w1, w2, w3

MCWorkers       == {w1, w2, w3}
MCForeign       == {w3}
MCNested        == {w1}
MCMaxDepth      == [w \in MCWorkers |-> IF w = w1 THEN 2 ELSE 1]
MCMaxStatements == [w \in MCWorkers |-> IF w = w2 THEN 0 ELSE 1]
=============================================================================

------------------------------ MODULE MCLoader ------------------------------
(***************************************************************************)
(* Loader for TLC: the sizes of rows, and a checkpoint that may lack the   *)
(* second half of the first expert of the first layer.                     *)
(***************************************************************************)
EXTENDS Loader

MCRowSize == [name \in Names |-> IF name = "w13" THEN 6 ELSE 4]
MCPitchSize == [name \in Names |-> IF name = "w13" THEN 5 ELSE 3]
MCMayLack == {<<<<0, 1>>, "w3">>}
=============================================================================

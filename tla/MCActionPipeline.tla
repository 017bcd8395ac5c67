---------------------------- MODULE MCActionPipeline ----------------------------
(***************************************************************************)
(* A room where actions meet on one cell: one paints it, the other blanks  *)
(* it although its type says "draw" (the type does not count).             *)
(***************************************************************************)
EXTENDS ActionPipeline, TLC

CONSTANTS paint, blank, x1, x2, red

MCCellOf  == [a \in Actions |-> x1]
MCColorOf == [a \in Actions |-> IF a = paint THEN red ELSE NoColor]
MCTypeOf  == [a \in Actions |-> "draw"]
================================================================================

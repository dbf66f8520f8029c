----------------------------- MODULE MCToolBatch -----------------------------
(***************************************************************************)
(* ToolBatch for TLC: caps that are not finite, below one, and small.      *)
(***************************************************************************)
EXTENDS ToolBatch

Caps == {[finite |-> FALSE, floor |-> 0], [finite |-> TRUE, floor |-> 0],
         [finite |-> TRUE, floor |-> 2]}
=============================================================================

---------------------------- MODULE MCBurnNodeId ----------------------------
(***************************************************************************)
(* What the stack may hold where the line buffer of burn_node_id lies.     *)
(***************************************************************************)
EXTENDS BurnNodeId

DirtyStack == {Letter, NL}
=============================================================================

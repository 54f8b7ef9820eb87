-------------------------- MODULE ChainRefinement ---------------------------
(***************************************************************************)
(* The engine as an implementation of the one-step fork choice of module   *)
(* ForkChoice.  While a side block is decided on, the node still answers   *)
(* with the chain it had and has not yet accepted the block.               *)
(***************************************************************************)
EXTENDS ChainState

Self == "self"

Choice == INSTANCE ForkChoice WITH
  Node  <- {Self},
  known <- [n \in {Self} |-> IF Deciding THEN DOMAIN store \ {op.blk} ELSE DOMAIN store],
  tip   <- [n \in {Self} |-> IF Deciding THEN Last(op.before) ELSE Tip]

(* The engine implements the fork-choice specification: with orphans,      *)
(* invalid blocks, refused and failed reorganisations, the tip moves only  *)
(* as the comparison of branches says, one accepted block at a time.       *)
FollowsForkChoice == Choice!Spec
=============================================================================

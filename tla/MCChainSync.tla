----------------------------- MODULE MCChainSync -----------------------------
(***************************************************************************)
(* Instance of ChainSync for TLC.  Round 1 is one that members may link.   *)
(***************************************************************************)
EXTENDS ChainSync, TLC

Sym == Permutations(Members) \cup Permutations(Syncers)
=============================================================================

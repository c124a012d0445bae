------------------------------- MODULE MCAbr --------------------------------
(***************************************************************************)
(* Abr with a small heap.  The blocks are interchangeable: no definition   *)
(* of Abr compares two of them or depends on the one that malloc returns.  *)
(***************************************************************************)
EXTENDS Abr, TLC

Blocks == Permutations(Block)
=============================================================================

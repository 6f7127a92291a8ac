---------------------------- MODULE MCCompaction ----------------------------
(***************************************************************************)
(* A small instance of Compaction for TLC: constants are in the .cfg.      *)
(* Nothing distinguishes one compactor from the other.                     *)
(***************************************************************************)
EXTENDS Compaction, TLC

CompactorSymmetry == Permutations(Compactors)
=============================================================================

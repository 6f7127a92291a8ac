--------------------------- MODULE MCSessionTree ---------------------------
(***************************************************************************)
(* A small instance of SessionTree for TLC: constants are in the .cfg.     *)
(* Nothing distinguishes one file name from another.                       *)
(***************************************************************************)
EXTENDS SessionTree, TLC

FileSymmetry == Permutations(Files)
=============================================================================

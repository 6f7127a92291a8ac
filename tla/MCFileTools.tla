---------------------------- MODULE MCFileTools ----------------------------
(***************************************************************************)
(* A small instance of FileTools for TLC: three calls of two runs, and a   *)
(* file that is reached by its path and through a link.                    *)
(***************************************************************************)
EXTENDS FileTools, TLC

CONSTANTS c1, c2, c3, r1, r2, real, link

MCRunOf  == c1 :> r1 @@ c2 :> r1 @@ c3 :> r2
MCTarget == real :> real @@ link :> real
=============================================================================

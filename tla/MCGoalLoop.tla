----------------------------- MODULE MCGoalLoop -----------------------------
(***************************************************************************)
(* A small instance of GoalLoop for TLC: the constants are in the .cfg.    *)
(***************************************************************************)
EXTENDS GoalLoop
=============================================================================

--------------------------- MODULE MCAgentSession ---------------------------
(***************************************************************************)
(* A small instance of AgentSession for TLC: constants are in the .cfg.    *)
(***************************************************************************)
EXTENDS AgentSession

CallerSymmetry == Permutations(Callers)
=============================================================================

---------------------------- MODULE MCAgentLoop ----------------------------
(***************************************************************************)
(* A small instance of AgentLoop for TLC: the constants are in the .cfg.   *)
(***************************************************************************)
EXTENDS AgentLoop
=============================================================================

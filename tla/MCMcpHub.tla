------------------------------ MODULE MCMcpHub ------------------------------
(* Three calls to one server; each may make a connection of its own. *)
EXTENDS McpHub, TLC

Symmetry == Permutations(Calls)
=============================================================================

------------------------------ MODULE MCDaemon ------------------------------
(***************************************************************************)
(* A small instance of Daemon for TLC: two clients, two messages and a     *)
(* reply of two tokens.                                                    *)
(***************************************************************************)
EXTENDS Daemon

CONSTANTS a, b
=============================================================================

--------------------------- MODULE MCAuthStorage ---------------------------
(***************************************************************************)
(* A small instance of AuthStorage for TLC: two processes, each with one   *)
(* call.  A process and its call change their names together.              *)
(***************************************************************************)
EXTENDS AuthStorage, TLC

CONSTANTS p1, p2, c1, c2, q1, q2

Callers == c1 :> p1 @@ c2 :> p2

Names ==
    {f \in Permutations(Processes \cup Calls) :
        \A c \in Calls : f[c] \in Calls /\ Callers[f[c]] = f[Callers[c]]}
=============================================================================

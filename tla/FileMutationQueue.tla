------------------------- MODULE FileMutationQueue -------------------------
(***************************************************************************)
(* withFileMutationQueue (coding-agent, tools/file-mutation-queue.ts): the *)
(* calls that change one file take turns.  There is no lock: each call     *)
(* leaves a promise in a map, under the key of its file, and waits for the *)
(* promise it found there.                                                 *)
(***************************************************************************)
EXTENDS Naturals, Sequences

CONSTANTS
    Calls,  \* calls of withFileMutationQueue
    Keys,   \* what a file is known by
    NoCall

ASSUME QueueAssumption == NoCall \notin Calls

VARIABLES
    phase,   \* new, waiting (for the promise it found), holding (in fn) or done
    keyOf,   \* the key of a call
    before,  \* currentQueue: the call whose promise it waits for, or NoCall
    tail     \* fileMutationQueues: the call whose promise is in the map

(* History: who asked for a key and is not done, in the order they asked. *)
VARIABLE line

queueVars == <<phase, keyOf, before, tail, line>>

QueueInit ==
    /\ phase = [c \in Calls |-> "new"]
    /\ keyOf \in [Calls -> Keys]
    /\ before = [c \in Calls |-> NoCall]
    /\ tail = [k \in Keys |-> NoCall]
    /\ line = [k \in Keys |-> <<>>]

Request(c, k) ==
    /\ phase[c] = "new"
    /\ phase' = [phase EXCEPT ![c] = "waiting"]
    /\ keyOf' = [keyOf EXCEPT ![c] = k]
    /\ before' = [before EXCEPT ![c] = tail[k]]
    /\ tail' = [tail EXCEPT ![k] = c]
    /\ line' = [line EXCEPT ![k] = Append(@, c)]

(* Mutant of Ready: the promise is not awaited *)
BugReadyAtOnce(c) == TRUE

(* chainedQueue resolves when the one before it has and fn is over. *)
Ready(c) == before[c] # NoCall => phase[before[c]] = "done"

Enter(c) ==
    /\ phase[c] = "waiting"
    /\ Ready(c)
    /\ phase' = [phase EXCEPT ![c] = "holding"]
    /\ before' = [before EXCEPT ![c] = NoCall]
    /\ UNCHANGED <<keyOf, tail, line>>

(* The turn of c is over, and the first of the line goes. *)
Done(c) ==
    /\ phase[c] = "holding"
    /\ phase' = [phase EXCEPT ![c] = "done"]
    /\ line' = [line EXCEPT ![keyOf[c]] = Tail(@)]
    /\ UNCHANGED <<keyOf, before>>

(* fn is over, with a result or not. *)
Leave(c) ==
    /\ Done(c)
    /\ tail' = [tail EXCEPT ![keyOf[c]] = IF @ = c THEN NoCall ELSE @]

QueueNext ==
    \E c \in Calls :
        \/ \E k \in Keys : Request(c, k)
        \/ Enter(c)
        \/ Leave(c)

QueueSpec == QueueInit /\ [][QueueNext]_queueVars

-----------------------------------------------------------------------------
(* Properties *)

QueueTypeOK ==
    /\ phase \in [Calls -> {"new", "waiting", "holding", "done"}]
    /\ keyOf \in [Calls -> Keys]
    /\ before \in [Calls -> Calls \cup {NoCall}]
    /\ tail \in [Keys -> Calls \cup {NoCall}]
    /\ line \in [Keys -> Seq(Calls)]

(* A call that is in fn is the first of those that asked for its key and   *)
(* are not done: the queues exclude and do not reorder, although entries   *)
(* of the map are replaced and deleted while calls wait.                   *)
Exclusive ==
    \A c \in Calls :
        phase[c] = "holding" => line[keyOf[c]] # <<>> /\ c = Head(line[keyOf[c]])

(* The map holds the last promise of every key that is in use, and of no   *)
(* other: it neither loses a queue nor grows with every file touched.      *)
MapExact ==
    \A k \in Keys :
        tail[k] = IF line[k] = <<>> THEN NoCall ELSE line[k][Len(line[k])]
=============================================================================

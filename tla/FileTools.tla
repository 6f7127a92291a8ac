----------------------------- MODULE FileTools -----------------------------
(***************************************************************************)
(* The edit and write tools (coding-agent, tools/edit.ts and write.ts) on  *)
(* top of the mutation queue: what the calls of several runs that go on at *)
(* once do to the files, when runs are aborted and file operations fail.   *)
(*                                                                         *)
(* A tool's promise and its body are two things: an abort settles the      *)
(* promise at once, and with it the call's turn in the queue, while the    *)
(* body goes on until it looks at the signal.  Between two awaits a body   *)
(* is one action.                                                          *)
(*                                                                         *)
(* External: the file system.  A written file is emptied, then filled; a   *)
(* read is atomic; directories exist or can be made; nobody else changes   *)
(* files or links.  Left out: an edit with several replacements, line      *)
(* endings, and what the text is: a file holds the changes made to it.     *)
(***************************************************************************)
EXTENDS FileMutationQueue

CONSTANTS
    Runs,     \* runs of agents, each with a signal
    RunOf,    \* whose call it is
    Target    \* the path each path stands for: other than itself for a link

ASSUME ToolsAssumption ==
    /\ RunOf \in [Calls -> Runs]
    /\ Target \in [Keys -> Keys]
    /\ \A p \in Keys : Target[Target[p]] = Target[p]

VARIABLES
    disk,     \* what each file holds: changes, or torn while it is written
    tool,     \* edit or write
    path,     \* the path a call was given
    body,     \* the file operation the body of a call is waiting for
    text,     \* what the body is about to write
    outcome,  \* what the promise of a call was settled with
    signals   \* the runs that were aborted

(* History: per file, the last call that wrote it with success, and the    *)
(* calls that edited it with success since; the files that a call was cut  *)
(* short on, aborted at work or by a write that failed half way, or that   *)
(* two queues served at a time; the calls that asked through a link before *)
(* there was a file.                                                       *)
VARIABLES succeeded, spoiled, early

toolVars == <<disk, tool, path, body, text, outcome, signals, succeeded, spoiled, early>>
vars == <<queueVars, toolVars>>

Files   == {Target[p] : p \in Keys}
Missing == [state |-> "missing", changes |-> {}]
Torn    == [state |-> "torn", changes |-> {}]
Whole(changes) == [state |-> "whole", changes |-> changes]

File(c) == Target[path[c]]

(* Mutant of Key: links are not followed *)
BugKeyOfPath(p) == p

(* getMutationQueueKey: the real path, if there is a file *)
Key(p) == IF disk[Target[p]] = Missing THEN p ELSE Target[p]

Init ==
    /\ QueueInit
    /\ keyOf = [c \in Calls |-> CHOOSE k \in Keys : TRUE]
    /\ disk \in [Files -> {Missing, Whole({})}]
    /\ tool = [c \in Calls |-> "none"]
    /\ path = keyOf
    /\ body = [c \in Calls |-> "none"]
    /\ text = [c \in Calls |-> Missing]
    /\ outcome = [c \in Calls |-> "none"]
    /\ signals = {}
    /\ succeeded = [f \in Files |-> {}]
    /\ spoiled = {} /\ early = {}

-----------------------------------------------------------------------------
(* A call *)

Execute(c, p, t) ==
    /\ Request(c, Key(p))
    /\ tool' = [tool EXCEPT ![c] = t]
    /\ path' = [path EXCEPT ![c] = p]
    /\ spoiled' = IF \E d \in Calls : /\ phase[d] \in {"waiting", "holding"}
                                       /\ File(d) = Target[p]
                                       /\ keyOf[d] # Key(p)
                  THEN spoiled \cup {Target[p]} ELSE spoiled
    /\ early' = IF disk[Target[p]] = Missing /\ p # Target[p] THEN early \cup {c} ELSE early
    /\ UNCHANGED <<disk, body, text, outcome, signals, succeeded>>

(* Mutant of Begin: fn runs while the call waits *)
BugBeginAtOnce(c) ==
    /\ phase[c] = "waiting"
    /\ phase' = [phase EXCEPT ![c] = "holding"]
    /\ body' = [body EXCEPT ![c] = IF tool[c] = "edit" THEN "access" ELSE "mkdir"]
    /\ UNCHANGED <<keyOf, before, tail, line, disk, tool, path, text, outcome, signals,
                   succeeded, spoiled, early>>

(* fn begins: it looks at the signal, and then at the file. *)
Begin(c) ==
    /\ Enter(c)
    /\ IF RunOf[c] \in signals
       THEN /\ outcome' = [outcome EXCEPT ![c] = "aborted"]
            /\ body' = [body EXCEPT ![c] = "over"]
       ELSE /\ body' = [body EXCEPT ![c] = IF tool[c] = "edit" THEN "access" ELSE "mkdir"]
            /\ UNCHANGED outcome
    /\ UNCHANGED <<disk, tool, path, text, signals, succeeded, spoiled, early>>

AtWork(c)  == body[c] \in {"access", "mkdir", "read", "open", "fill"}
Settled(c) == outcome[c] # "none"

(* Mutant of Return: a rejected call keeps its turn *)
BugReturnOnSuccess(c) ==
    /\ outcome[c] = "ok"
    /\ Leave(c)
    /\ UNCHANGED toolVars

(* The promise is settled: the turn passes on. *)
Return(c) ==
    /\ Settled(c)
    /\ Leave(c)
    /\ UNCHANGED toolVars

-----------------------------------------------------------------------------
(* The body: after each await it returns if the call was aborted. *)

Operation(c, from) ==
    /\ body[c] = from
    /\ UNCHANGED <<queueVars, tool, path, signals>>

GoesOn(c, next) == body' = [body EXCEPT ![c] = IF Settled(c) THEN "over" ELSE next]

Fails(c) ==
    /\ body' = [body EXCEPT ![c] = "over"]
    /\ outcome' = [outcome EXCEPT ![c] = IF Settled(c) THEN @ ELSE "error"]

Access(c) ==
    /\ Operation(c, "access")
    /\ IF disk[File(c)] = Missing THEN Fails(c) ELSE GoesOn(c, "read") /\ UNCHANGED outcome
    /\ UNCHANGED <<disk, text, succeeded, spoiled, early>>

(* The old text is found unless the file is torn; it may also not be there. *)
Read(c) ==
    /\ Operation(c, "read")
    /\ IF disk[File(c)].state = "whole"
       THEN /\ GoesOn(c, "open")
            /\ text' = [text EXCEPT ![c] = Whole(disk[File(c)].changes \cup {c})]
            /\ UNCHANGED outcome
       ELSE Fails(c) /\ UNCHANGED text
    /\ UNCHANGED <<disk, succeeded, spoiled, early>>

MakeDirectory(c) ==
    /\ Operation(c, "mkdir")
    /\ GoesOn(c, "open")
    /\ text' = [text EXCEPT ![c] = Whole({c})]
    /\ UNCHANGED <<disk, outcome, succeeded, spoiled, early>>

Open(c) ==
    /\ Operation(c, "open")
    /\ disk' = [disk EXCEPT ![File(c)] = Torn]
    /\ body' = [body EXCEPT ![c] = "fill"]
    /\ UNCHANGED <<text, outcome, succeeded, spoiled, early>>

Fill(c) ==
    /\ Operation(c, "fill")
    /\ disk' = [disk EXCEPT ![File(c)] = text[c]]
    /\ body' = [body EXCEPT ![c] = "over"]
    /\ text' = [text EXCEPT ![c] = Missing]
    /\ IF Settled(c) THEN UNCHANGED <<outcome, succeeded>>
       ELSE /\ outcome' = [outcome EXCEPT ![c] = "ok"]
            /\ succeeded' = [succeeded EXCEPT ![File(c)] =
                               IF tool[c] = "write" THEN {c} ELSE @ \cup {c}]
    /\ UNCHANGED <<spoiled, early>>

(* An operation fails: a file that is being filled stays torn. *)
OperationFails(c) ==
    /\ \E operation \in {"access", "mkdir", "read", "open", "fill"} : Operation(c, operation)
    /\ Fails(c)
    /\ spoiled' = IF body[c] = "fill" THEN spoiled \cup {File(c)} ELSE spoiled
    /\ UNCHANGED <<disk, text, succeeded, early>>

Abort(r) ==
    LET hit == {c \in Calls : RunOf[c] = r /\ AtWork(c) /\ ~Settled(c)}
    IN  /\ r \notin signals
        /\ signals' = signals \cup {r}
        /\ outcome' = [c \in Calls |-> IF c \in hit THEN "aborted" ELSE outcome[c]]
        /\ spoiled' = spoiled \cup {File(c) : c \in hit}
        /\ UNCHANGED <<queueVars, disk, tool, path, body, text, succeeded, early>>

-----------------------------------------------------------------------------
BodyStep(c) ==
    \/ Access(c) \/ Read(c) \/ MakeDirectory(c) \/ Open(c) \/ Fill(c)
    \/ OperationFails(c)

Next ==
    \/ \E c \in Calls :
         \/ \E p \in Keys, t \in {"edit", "write"} : Execute(c, p, t)
         \/ Begin(c) \/ Return(c) \/ BodyStep(c)
    \/ \E r \in Runs : Abort(r)

(* A promise that is settled is looked at, and the file system answers, as *)
(* long as there is one: nothing is asked of which comes first.            *)
Fairness == WF_vars(\E c \in Calls : Begin(c) \/ Return(c) \/ BodyStep(c))

Spec == Init /\ [][Next]_vars /\ Fairness

-----------------------------------------------------------------------------
(* Properties *)

Contents == [state : {"missing", "torn", "whole"}, changes : SUBSET Calls]

TypeOK ==
    /\ QueueTypeOK
    /\ disk \in [Files -> Contents]
    /\ tool \in [Calls -> {"none", "edit", "write"}]
    /\ path \in [Calls -> Keys]
    /\ body \in [Calls -> {"none", "access", "mkdir", "read", "open", "fill", "over"}]
    /\ text \in [Calls -> Contents]
    /\ outcome \in [Calls -> {"none", "ok", "error", "aborted"}]
    /\ signals \subseteq Runs
    /\ succeeded \in [Files -> SUBSET Calls]
    /\ spoiled \subseteq Files /\ early \subseteq Calls
    /\ \A c \in Calls : body[c] \in {"open", "fill"} => text[c] # Missing

(* Two calls work on one file at the same time only if one of them was     *)
(* aborted and works on although its turn is over, or asked through a link *)
(* before there was a file.                                                *)
OneAtATimeOr ==
    \A c, d \in Calls :
        AtWork(c) /\ AtWork(d) /\ c # d /\ File(c) = File(d)
          => \E x \in {c, d} : Settled(x) \/ x \in early

(* What the tools reported is there: unless a call was cut short, or two   *)
(* queues served one file, a file at rest is whole, and holds the last     *)
(* text written and every edit since that was said to have succeeded.      *)
ChangesKept ==
    \A f \in Files \ spoiled :
        (\A c \in Calls : File(c) = f => ~AtWork(c)) =>
            disk[f].state # "torn" /\ succeeded[f] = disk[f].changes

(* Every call is answered, however those before it in its queue ended: the *)
(* queues are empty again and again.                                       *)
CallsAnswered == []<>(\A c \in Calls : phase[c] \in {"new", "done"})

(* The tools use the queue as it is meant to be used. *)
ImplementsQueue == QueueSpec
=============================================================================

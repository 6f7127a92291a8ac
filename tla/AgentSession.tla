---------------------------- MODULE AgentSession ----------------------------
(***************************************************************************)
(* AgentSession (coding-agent, agent-session.ts) between the agent, whose  *)
(* promise AgentRun states, and the session file: it saves what the agent  *)
(* announces, retries replies that failed for a passing reason, compacts   *)
(* a context that is full, and holds back the output of commands.          *)
(*                                                                         *)
(* Events are handled one at a time, from a queue of promises: a handler   *)
(* may be slow (extensions are awaited first) and may sleep or compact in  *)
(* the middle, while the agent, the callers and the timers go on.  Between *)
(* two awaits a piece of code is one action.                               *)
(*                                                                         *)
(* A compaction keeps the branch from some message on; which one, and what *)
(* the summary says, is Compaction's.  The auth lookup before it is part   *)
(* of the step that prepares it.                                           *)
(*                                                                         *)
(* Left out: several calls in one reply (AgentLoop's), follow-ups (queued  *)
(* as steering is), images, custom messages, extensions that answer or     *)
(* change a prompt or hold up a tool, replies that overflow without an     *)
(* error, a compact() during another, navigation between branches,         *)
(* and the settings that turn retries and compaction off.  Two messages    *)
(* differ in their text, and a reply is dated when it is complete.         *)
(***************************************************************************)
EXTENDS AgentRun, FiniteSets, SequencesExt

CONSTANTS
    Callers,     \* who may be in prompt()
    MaxRetries,  \* settings.maxRetries
    MaxId,       \* bound: messages and compactions
    MaxCalls,    \* bound: calls in a reply
    MaxCommands  \* bound: commands the user runs

ASSUME SessionAssumption ==
    /\ MaxRetries \in Nat
    /\ {MaxId, MaxCalls, MaxCommands} \subseteq Nat
    /\ IsFiniteSet(Callers) /\ Callers \cap {"handler", "manual"} = {}

VARIABLES
    queued,         \* the agent's steering queue
    aborted,        \* the run's signal
    answered,       \* the last message of the run is a reply that ended well
    events,         \* _agentEventQueue
    lastReply,      \* _lastAssistantMessage, or NoMessage
    retryPromise,   \* _retryPromise is there
    retryAttempt,
    overflowTried,  \* _overflowRecoveryAttempted
    autoCompacting, \* _autoCompactionAbortController is there
    shown,          \* _steeringMessages, what the UI lists as queued
    pendingBash,
    branch,         \* what the session manager saved
    timers,         \* scheduled calls of agent.continue()
    at,             \* what the event handler, compact() and each caller of
                    \* prompt() are waiting for
    nextId

(* History: what was announced to the session; what was announced while it *)
(* did not listen; what was announced but not yet saved when the           *)
(* transcript was rebuilt; the good replies that were taken from the       *)
(* transcript in place of a failed one; whether a run failed with an       *)
(* exception, and whether an idle agent had nothing to continue from.      *)
VARIABLES heard, unheard, overtaken, mistaken, thrown, refused

agentVars   == <<agent, queued, aborted, answered>>
compactVars == <<overflowTried, autoCompacting>>
listVars    == <<shown, pendingBash>>
historyVars == <<heard, unheard, overtaken, mistaken, thrown, refused>>
vars == <<agentVars, events, lastReply, retryPromise, retryAttempt, compactVars,
          listVars, branch, timers, at, nextId, historyVars>>

-----------------------------------------------------------------------------
(* Messages, and the entries of the branch: messages and compactions *)

Message(role, id, stop, why) ==
    [role |-> role, id |-> id, stop |-> stop, why |-> why, calls |-> 0]

User(id)  == Message("user", id, "none", "none")
Bash(id)  == Message("bash", id, "none", "none")
NoMessage == Message("none", 0, "none", "none")
AgentEnd  == Message("agent_end", 0, "none", "none")

(* A reply ends well, or aborted, or with an error that is worth a retry,  *)
(* that says the context is too long, or that is neither.                  *)
FailedReplies == {Message("assistant", nextId, e[1], e[2]) :
                    e \in {<<"aborted", "none">>} \cup
                          ({"error"} \X {"retryable", "overflow", "fatal"})}
GoodReplies   == {[Message("assistant", nextId, "stop", "none") EXCEPT !.calls = n] :
                    n \in 0 .. MaxCalls}
Result(call)  == [role |-> "toolResult", id |-> nextId, stop |-> "none",
                  why |-> "none", calls |-> 0, call |-> call]

IsReply(m)   == m.role = "assistant"
Failed(m)    == IsReply(m) /\ m.stop \in FailedStops
Good(m)      == IsReply(m) /\ ~Failed(m)
IdSeq(ms)    == [i \in DOMAIN ms |-> ms[i].id]
Idset(ms)    == {m.id : m \in ToSet(ms)}

(* The elements of s that are in S, in their order *)
Keep(s, S) ==
    LET kept[i \in 0 .. Len(s)] ==
            IF i = 0 THEN <<>>
            ELSE IF s[i] \in S THEN Append(kept[i - 1], s[i]) ELSE kept[i - 1]
    IN  kept[Len(s)]

(* The failed reply at the end is taken out of the transcript: what is     *)
(* taken is whichever reply the transcript ends with by then.              *)
Strip(ms) ==
    LET found == ms # <<>> /\ IsReply(Last(ms))
    IN  /\ transcript' = IF found THEN Front(ms) ELSE ms
        /\ mistaken' = mistaken \cup (IF found /\ Good(Last(ms)) THEN {Last(ms).id} ELSE {})

Compactions(entries) ==
    {i \in DOMAIN entries : entries[i].role = "compaction"}
LastCompaction(entries) ==
    CHOOSE i \in {0} \cup Compactions(entries) :
        \A j \in Compactions(entries) : j <= i

(* buildSessionContext: the summary and what was kept, or everything *)
Rebuilt(entries) ==
    LET c    == LastCompaction(entries)
        from == IF c = 0 THEN 1 ELSE entries[c].kept
    IN  (IF c = 0 THEN <<>> ELSE <<Message("summary", entries[c].id, "none", "none")>>)
        \o Keep(SubSeq(entries, from, Len(entries)),
                {e \in ToSet(entries) : e.role # "compaction"})

-----------------------------------------------------------------------------
(* Who is waiting for what.  The handler is free, sleeping, cancelled (its *)
(* sleep was) or compacting.  compact() is out, aborting (until the agent  *)
(* is idle), ready or compacting; while it is not out, the session does    *)
(* not listen to the agent.  A caller is out of prompt(), compacting, with *)
(* the extensions (hooks), running, or waits for a retry or for the agent  *)
(* to be idle.                                                             *)

Actors == Callers \cup {"handler", "manual"}

(* kept: the place of the first entry a compaction keeps; retry: the run   *)
(* continues after it; reply: the one a sleeping handler retries.          *)
Place(where) == [where |-> where, kept |-> 0, retry |-> FALSE, reply |-> NoMessage]
Out(x)       == Place(IF x = "handler" THEN "free" ELSE "out")
Listening    == at["manual"].where = "out"

(* prepareCompaction: nothing to do after a compaction *)
CanCompact(entries) == entries # <<>> /\ Last(entries).role # "compaction"
Compacting(entries, retry) ==
    LET c == LastCompaction(entries)
        k == {i \in DOMAIN entries \ Compactions(entries) :
                c > 0 => i >= entries[c].kept}
    IN  {[Place("compacting") EXCEPT !.kept = i, !.retry = retry] : i \in k}

(* _resolveRetry: who waited for it now waits until the agent is idle *)
Resolved(places) ==
    [x \in Actors |->
        IF places[x].where # "retry" THEN places[x]
        ELSE IF status = "idle" THEN Out(x) ELSE Place("idle")]

(* _handleAgentEvent for some messages and perhaps the end of the run: the *)
(* retry promise is made at once, before any handling.                     *)
Hear(ms, ends) ==
    IF Listening
    THEN /\ events' = events \o ms \o (IF ends = NoMessage THEN <<>> ELSE <<AgentEnd>>)
         /\ heard' = heard \o IdSeq(ms)
         /\ retryPromise' = (retryPromise \/ ends.why = "retryable")
         /\ UNCHANGED unheard
    ELSE /\ unheard' = unheard \cup Idset(ms)
                       \cup (IF ends = NoMessage THEN {} ELSE {AgentEnd.id})
         /\ UNCHANGED <<events, heard, retryPromise>>

-----------------------------------------------------------------------------
(* The agent *)

Init ==
    /\ Idle
    /\ queued = <<>> /\ aborted = FALSE /\ answered = FALSE
    /\ events = <<>> /\ lastReply = NoMessage
    /\ retryPromise = FALSE /\ retryAttempt = 0
    /\ overflowTried = FALSE /\ autoCompacting = FALSE
    /\ shown = <<>> /\ pendingBash = <<>>
    /\ branch = <<>>
    /\ timers = 0
    /\ at = [x \in Actors |-> Out(x)]
    /\ nextId = 1
    /\ heard = <<>> /\ unheard = {} /\ overtaken = {} /\ mistaken = {}
    /\ thrown = FALSE /\ refused = FALSE

(* Between the announced end of a run and finishRun there is nothing to    *)
(* wait for: the session is the agent's only listener and does not hold up *)
(* the event.  No timer fires then, and no caller or model is heard.       *)
Calm == status # "over"

Fresh == nextId <= MaxId /\ nextId' = nextId + 1

sessionVars == <<lastReply, retryAttempt, compactVars, listVars, branch>>

(* A run begins with these messages, or continues. *)
BeginRun(ms) ==
    /\ Begin(ms)
    /\ aborted' = FALSE
    /\ answered' = FALSE
    /\ Hear(ms, NoMessage)
    /\ UNCHANGED <<sessionVars, overtaken, mistaken, thrown, refused>>

Inject ==
    /\ queued # <<>>
    /\ Say(<<Head(queued)>>)
    /\ queued' = Tail(queued)
    /\ answered' = FALSE
    /\ Hear(<<Head(queued)>>, NoMessage)
    /\ UNCHANGED <<sessionVars, aborted, timers, at, nextId, overtaken, mistaken,
                   thrown, refused>>

ModelReplies ==
    /\ Fresh
    /\ ~answered
    /\ \E reply \in GoodReplies \cup FailedReplies :
         /\ reply.stop = "aborted" => aborted
         /\ Answer(reply)
         /\ answered' = (Good(reply) /\ reply.calls = 0)
         /\ Hear(<<reply>>, IF Failed(reply) THEN reply ELSE NoMessage)
    /\ UNCHANGED <<sessionVars, queued, aborted, timers, at, overtaken, mistaken,
                   thrown, refused>>

ToolReturns ==
    /\ Fresh
    /\ \E call \in owed :
         /\ Deliver(Result(call))
         /\ Hear(<<Result(call)>>, NoMessage)
    /\ UNCHANGED <<sessionVars, queued, aborted, answered, timers, at, overtaken,
                   mistaken, thrown, refused>>

RunStops ==
    /\ answered /\ queued = <<>>
    /\ Stop
    /\ Hear(<<>>, AgentEnd)
    /\ UNCHANGED <<sessionVars, queued, aborted, answered, timers, at, nextId,
                   overtaken, mistaken, thrown, refused>>

(* handleRunFailure: the failure is a message of the transcript, but only  *)
(* the end of the run is announced.                                        *)
RunThrows ==
    /\ Fresh
    /\ \E reply \in FailedReplies :
         /\ (reply.stop = "aborted" <=> aborted)
         /\ Break(reply)
         /\ Hear(<<>>, reply)
    /\ answered' = FALSE
    /\ thrown' = TRUE
    /\ UNCHANGED <<sessionVars, queued, aborted, timers, at, overtaken, mistaken, refused>>

(* finishRun: agent.prompt() returns, and waitForIdle().  waitForRetry()   *)
(* looks for the promise then.                                             *)
RunSettles ==
    /\ Settle
    /\ at' = [x \in Actors |->
                CASE at[x].where = "running" ->
                        IF retryPromise THEN Place("retry") ELSE Out(x)
                  [] at[x].where = "idle"     -> Out(x)
                  [] at[x].where = "aborting" -> Place("ready")
                  [] OTHER -> at[x]]
    /\ UNCHANGED <<sessionVars, queued, aborted, answered, events, retryPromise,
                   timers, nextId, historyVars>>

(* A timer calls agent.continue(), and a rejection is swallowed. *)
TimerFires ==
    /\ Calm
    /\ timers > 0
    /\ timers' = timers - 1
    /\ CASE status # "idle" \/ transcript = <<>> \/
            (IsReply(Last(transcript)) /\ queued = <<>>) ->
              /\ refused' = (refused \/ status = "idle")
              /\ UNCHANGED <<agentVars, events, retryPromise, heard, unheard,
                             overtaken, mistaken, thrown, sessionVars>>
         [] status = "idle" /\ transcript # <<>> /\
            IsReply(Last(transcript)) /\ queued # <<>> ->
              /\ queued' = Tail(queued)
              /\ BeginRun(<<Head(queued)>>)
         [] OTHER -> UNCHANGED queued /\ BeginRun(<<>>)
    /\ UNCHANGED <<at, nextId>>

-----------------------------------------------------------------------------
(* _checkCompaction of the reply m by x, and the start of the compaction   *)
(* it decides on; t and entries are the transcript and the branch as they  *)
(* are by then, and next is where x goes when there is nothing to compact. *)

CheckCompaction(x, places, m, skipAborted, next, t, entries) ==
    LET c      == LastCompaction(entries)
        since  == c > 0 => m.id > entries[c].id
        usable == {i \in DOMAIN t : Good(t[i])}
        usage  == usable # {} /\ \E i \in usable :
                      /\ \A j \in usable : j <= i
                      /\ c > 0 => t[i].id > entries[c].id
        begin(retry) ==
            IF CanCompact(entries)
            THEN /\ autoCompacting' = TRUE
                 /\ \E place \in Compacting(entries, retry) :
                      at' = [places EXCEPT ![x] = place]
            ELSE /\ autoCompacting' = FALSE
                 /\ at' = [places EXCEPT ![x] = next]
        ready  == since /\ ~(skipAborted /\ m.stop = "aborted")
    IN  \/ /\ ready /\ m.why = "overflow" /\ ~overflowTried
           /\ overflowTried' = TRUE
           /\ Strip(t)
           /\ begin(TRUE)
        \/ /\ ready /\ m.why # "overflow" /\ (m.stop = "error" => usage)
           /\ transcript' = t
           /\ UNCHANGED <<overflowTried, mistaken>>
           /\ begin(FALSE)
        \/ /\ ~(ready /\ m.why = "overflow" /\ ~overflowTried)
           /\ transcript' = t
           /\ at' = [places EXCEPT ![x] = next]
           /\ UNCHANGED <<compactVars, mistaken>>

(* What x does once its compaction is over. *)
After(x) == IF x \in Callers THEN Place("hooks") ELSE Out(x)

(* The transcript is rebuilt from what is saved. *)
Rebuild(kept) ==
    /\ Fresh
    /\ branch' = Append(branch, [role |-> "compaction", id |-> nextId, kept |-> kept])
    /\ overtaken' = overtaken \cup Idset(events)

(* The end of _runAutoCompaction: the run continues if it overflowed, or   *)
(* if messages are queued.  Its controller is shared: an earlier end of    *)
(* another compaction has cleared it, and this one fails.                  *)
AutoCompacted(x) ==
    /\ Calm
    /\ x # "manual"
    /\ at[x].where = "compacting"
    /\ autoCompacting
    /\ Rebuild(at[x].kept)
    /\ transcript' = LET t == Rebuilt(branch')
                     IN  IF at[x].retry /\ IsReply(Last(t)) /\ Last(t).stop = "error"
                         THEN Front(t) ELSE t
    /\ timers' = IF at[x].retry \/ queued # <<>> THEN timers + 1 ELSE timers
    /\ autoCompacting' = FALSE
    /\ at' = [at EXCEPT ![x] = After(x)]
    /\ UNCHANGED <<status, owed, queued, aborted, answered, events, lastReply,
                   retryPromise, retryAttempt, overflowTried, listVars, heard,
                   unheard, mistaken, thrown, refused>>

CompactionFails(x) ==
    /\ Calm
    /\ at[x].where = "compacting"
    /\ autoCompacting' = (autoCompacting /\ x = "manual")
    /\ at' = [at EXCEPT ![x] = After(x)]
    /\ UNCHANGED <<agentVars, events, lastReply, retryPromise, retryAttempt,
                   overflowTried, listVars, branch, timers, nextId, historyVars>>

-----------------------------------------------------------------------------
(* The event handler *)

(* Mutant of Due: handlers are not chained, each starts with its event *)
BugDueAtOnce == DOMAIN events

(* An event is handled when the ones before it have been. *)
Due == IF at["handler"].where = "free" THEN DOMAIN events \cap {1} ELSE {}

(* Mutant of Recovered: the counter is reset by whatever reply *)
BugRecoveredByError(m) == IsReply(m)

Recovered(m) == IsReply(m) /\ m.stop # "error"

(* Mutant of AttemptsLeft: off by one *)
BugAttemptsOneMore == retryAttempt <= MaxRetries

AttemptsLeft == retryAttempt < MaxRetries

(* The start and the end of a message are one event here, which waits in   *)
(* the queue until the extensions have seen it.                            *)
ProcessMessage ==
    /\ \E i \in Due :
         LET m == events[i]
         IN  /\ m # AgentEnd
             /\ events' = RemoveAt(events, i)
             /\ branch' = Append(branch, m)
             /\ shown' = Keep(shown, ToSet(shown) \ {m})
             /\ lastReply' = IF IsReply(m) THEN m ELSE lastReply
             /\ overflowTried' = (overflowTried /\ m.role # "user" /\ ~Recovered(m))
             /\ retryAttempt' = IF Recovered(m) THEN 0 ELSE retryAttempt
    /\ UNCHANGED <<agentVars, retryPromise, autoCompacting, pendingBash, timers,
                   at, nextId, historyVars>>

unchangedByEnd == <<status, owed, queued, aborted, answered, listVars, branch,
                    timers, nextId, heard, unheard, overtaken, thrown, refused>>

(* Mutant of NoRetry: who waits is told only of success *)
BugNoRetryUntold(reply) ==
    /\ UNCHANGED retryPromise
    /\ CheckCompaction("handler", at, reply, TRUE, Out("handler"), transcript, branch)

(* The reply is not retried, or no longer: who waits for that is told. *)
NoRetry(reply) ==
    /\ retryPromise' = FALSE
    /\ CheckCompaction("handler", Resolved(at), reply, TRUE, Out("handler"),
                       transcript, branch)

ProcessEnd ==
    /\ \E i \in Due : events[i] = AgentEnd /\ events' = RemoveAt(events, i)
    /\ lastReply' = NoMessage
    /\ CASE lastReply = NoMessage ->
              UNCHANGED <<transcript, mistaken, retryPromise, retryAttempt,
                          compactVars, at>>
         [] lastReply # NoMessage /\ lastReply.why = "retryable" /\
            AttemptsLeft ->
              /\ retryPromise' = TRUE
              /\ retryAttempt' = retryAttempt + 1
              /\ Strip(transcript)
              /\ at' = [at EXCEPT !["handler"] =
                           [Place("sleeping") EXCEPT !.reply = lastReply]]
              /\ UNCHANGED compactVars
         [] OTHER ->
              /\ retryAttempt' = IF lastReply.why = "retryable" THEN 0
                                 ELSE retryAttempt
              /\ NoRetry(lastReply)
    /\ UNCHANGED unchangedByEnd

SleepEnds ==
    /\ at["handler"].where = "sleeping"
    /\ at' = [at EXCEPT !["handler"] = Out("handler")]
    /\ timers' = timers + 1
    /\ UNCHANGED <<agentVars, events, lastReply, retryPromise, retryAttempt,
                   compactVars, listVars, branch, nextId, historyVars>>

RetryCancelled ==
    /\ at["handler"].where = "cancelled"
    /\ retryAttempt' = 0
    /\ NoRetry(at["handler"].reply)
    /\ UNCHANGED <<events, lastReply>>
    /\ UNCHANGED unchangedByEnd

-----------------------------------------------------------------------------
(* The callers *)

(* prompt() of an idle agent, up to its first long wait *)
Prompt(c) ==
    /\ Calm
    /\ at[c].where = "out"
    /\ status = "idle"
    /\ LET t       == transcript \o pendingBash
           entries == branch \o pendingBash
           replies == Keep(t, {m \in ToSet(t) : IsReply(m)})
       IN  /\ branch' = entries
           /\ IF replies # <<>>
              THEN CheckCompaction(c, at, Last(replies), FALSE, Place("hooks"), t, entries)
              ELSE /\ transcript' = t
                   /\ at' = [at EXCEPT ![c] = Place("hooks")]
                   /\ UNCHANGED <<compactVars, mistaken>>
    /\ pendingBash' = <<>>
    /\ UNCHANGED <<status, owed, queued, aborted, answered, events, lastReply,
                   retryPromise, retryAttempt, shown, timers, nextId,
                   heard, unheard, overtaken, thrown, refused>>

(* agent.prompt(), which rejects when a run has begun since *)
SendPrompt(c) ==
    /\ Calm
    /\ at[c].where = "hooks"
    /\ IF status = "idle"
       THEN /\ Fresh
            /\ BeginRun(<<User(nextId)>>)
            /\ at' = [at EXCEPT ![c] = Place("running")]
            /\ UNCHANGED queued
       ELSE /\ at' = [at EXCEPT ![c] = Out(c)]
            /\ UNCHANGED <<agentVars, events, retryPromise, nextId, historyVars, sessionVars>>
    /\ UNCHANGED timers

QueueSteer ==
    /\ Calm
    /\ Fresh
    /\ shown' = Append(shown, User(nextId))
    /\ queued' = Append(queued, User(nextId))
    /\ UNCHANGED <<agent, aborted, answered, events, lastReply, retryPromise,
                   retryAttempt, compactVars, pendingBash, branch, timers, at,
                   historyVars>>

(* Mutant of ClearQueue: the agent keeps its queue *)
BugClearQueueShownOnly ==
    /\ Calm
    /\ shown # <<>>
    /\ shown' = <<>>
    /\ UNCHANGED <<agentVars, events, lastReply, retryPromise, retryAttempt, compactVars,
                   pendingBash, branch, timers, at, nextId, historyVars>>

ClearQueue ==
    /\ Calm
    /\ shown # <<>> \/ queued # <<>>
    /\ shown' = <<>>
    /\ queued' = <<>>
    /\ UNCHANGED <<agent, aborted, answered, events, lastReply, retryPromise,
                   retryAttempt, compactVars, pendingBash, branch, timers, at,
                   nextId, historyVars>>

(* What was retried no longer is: abortRetry(), and the run's signal. *)
AbortAll(places) ==
    /\ aborted' = (status = "running")
    /\ retryPromise' = FALSE
    /\ at' = [Resolved(places) EXCEPT
                !["handler"] = IF @.where = "sleeping"
                               THEN [@ EXCEPT !.where = "cancelled"] ELSE @]

Abort ==
    /\ Calm
    /\ AbortAll(at)
    /\ UNCHANGED <<agent, queued, answered, events, lastReply, retryAttempt,
                   compactVars, listVars, branch, timers, nextId, historyVars>>

Commands(entries) == {e \in ToSet(entries) : e.role = "bash"}

(* Mutant of RecordBashResult: what is shown to the agent is not saved *)
BugRecordBashUnsaved ==
    /\ Calm
    /\ Cardinality(Commands(transcript \o branch \o pendingBash)) < MaxCommands
    /\ Fresh
    /\ IF status # "idle"
       THEN pendingBash' = Append(pendingBash, Bash(nextId)) /\ UNCHANGED transcript
       ELSE transcript' = Append(transcript, Bash(nextId)) /\ UNCHANGED pendingBash
    /\ UNCHANGED <<status, owed, queued, aborted, answered, events, lastReply,
                   retryPromise, retryAttempt, compactVars, shown, branch, timers, at,
                   historyVars>>

RecordBashResult ==
    /\ Calm
    /\ Cardinality(Commands(branch \o pendingBash)) < MaxCommands
    /\ Fresh
    /\ IF status # "idle"
       THEN /\ pendingBash' = Append(pendingBash, Bash(nextId))
            /\ UNCHANGED <<transcript, branch>>
       ELSE /\ transcript' = Append(transcript, Bash(nextId))
            /\ branch' = Append(branch, Bash(nextId))
            /\ UNCHANGED pendingBash
    /\ UNCHANGED <<status, owed, queued, aborted, answered, events, lastReply,
                   retryPromise, retryAttempt, compactVars, shown, timers, at,
                   historyVars>>

(* compact(): the session stops listening, and the agent is aborted *)
StartManual ==
    /\ Calm
    /\ Listening
    /\ AbortAll([at EXCEPT !["manual"] =
                    Place(IF status = "idle" THEN "ready" ELSE "aborting")])
    /\ UNCHANGED <<agent, queued, answered, events, lastReply, retryAttempt,
                   compactVars, listVars, branch, timers, nextId, historyVars>>

PrepareManual ==
    /\ Calm
    /\ at["manual"].where = "ready"
    /\ IF CanCompact(branch)
       THEN \E place \in Compacting(branch, FALSE) :
                at' = [at EXCEPT !["manual"] = place]
       ELSE at' = [at EXCEPT !["manual"] = Out("manual")]
    /\ UNCHANGED <<agentVars, events, lastReply, retryPromise, retryAttempt,
                   compactVars, listVars, branch, timers, nextId, historyVars>>

ManualCompacted ==
    /\ Calm
    /\ at["manual"].where = "compacting"
    /\ Rebuild(at["manual"].kept)
    /\ transcript' = Rebuilt(branch')
    /\ at' = [at EXCEPT !["manual"] = Out("manual")]
    /\ UNCHANGED <<status, owed, queued, aborted, answered, events, lastReply,
                   retryPromise, retryAttempt, compactVars, listVars, timers,
                   heard, unheard, mistaken, thrown, refused>>

-----------------------------------------------------------------------------
AgentStep   == Inject \/ ModelReplies \/ ToolReturns \/ RunStops \/ RunThrows \/ RunSettles
HandlerStep == ProcessMessage \/ ProcessEnd \/ SleepEnds \/ RetryCancelled
CallerStep  ==
    \/ \E c \in Callers : Prompt(c) \/ SendPrompt(c)
    \/ QueueSteer \/ ClearQueue \/ Abort \/ RecordBashResult
    \/ StartManual \/ PrepareManual \/ ManualCompacted
    \/ \E x \in Actors : AutoCompacted(x) \/ CompactionFails(x)

Next == AgentStep \/ TimerFires \/ HandlerStep \/ CallerStep

Spec == Init /\ [][Next]_vars

-----------------------------------------------------------------------------
(* Properties *)

TypeOK ==
    /\ status \in {"idle", "running", "over"}
    /\ retryAttempt \in 0 .. MaxRetries
    /\ timers \in Nat /\ nextId \in 1 .. MaxId + 1
    /\ {retryPromise, overflowTried, autoCompacting, aborted, answered, thrown}
          \subseteq BOOLEAN
    /\ Idset(transcript) \cup Idset(branch) \cup Idset(events) \cup unheard
          \subseteq 0 .. nextId - 1
    /\ at["handler"].where \in {"free", "sleeping", "cancelled", "compacting"}
    /\ at["manual"].where \in {"out", "aborting", "ready", "compacting"}
    /\ \A c \in Callers :
         at[c].where \in {"out", "compacting", "hooks", "running", "retry", "idle"}

(* Every message the agent announced while the session listened is saved   *)
(* once, in the order it was announced, whatever sleeps, compactions and   *)
(* commands come between: what is saved, and then what the queue holds.    *)
SavedInOrder ==
    LET saved   == {e \in ToSet(branch) : e.role \notin {"bash", "compaction"}}
        pending == ToSet(events) \ {AgentEnd}
    IN  IdSeq(Keep(branch, saved)) \o IdSeq(Keep(events, pending)) = heard

Quiet ==
    /\ status = "idle" /\ events = <<>>
    /\ \A x \in Actors : at[x] = Out(x)

(* Memory and disk agree: once everything has settled, a session that is   *)
(* opened from its file shows the model the messages this one does, but    *)
(* for replies that failed; for messages the session did not hear; for     *)
(* those a compaction overtook on their way to the file; and for the good  *)
(* replies that were taken for the failed one of an earlier run.           *)
ContextAgrees ==
    LET alive(ms) == Idset(ms) \ {m.id : m \in {r \in ToSet(ms) : Failed(r)}}
        but       == overtaken \cup mistaken
    IN  Quiet => (alive(transcript) \ unheard) \cup but = alive(Rebuilt(branch)) \cup but

(* What the UI lists as queued is what the agent has queued, once the      *)
(* events are handled: nothing is shown that was delivered, nothing queued *)
(* that is not shown.                                                      *)
QueueShown ==
    events = <<>> =>
        Keep(shown, {u \in ToSet(shown) : u.id \notin unheard}) = queued

(* Whoever waits for a retry in prompt() waits for something that is going *)
(* on: a sleep, a timer, a run, or an end of a run that is yet to be       *)
(* handled.                                                                *)
RetryHasOwner ==
    (\E c \in Callers : at[c].where = "retry") =>
        \/ at["handler"].where \in {"sleeping", "cancelled"}
        \/ timers > 0 \/ status # "idle" \/ AgentEnd \in ToSet(events)

(* So it is, unless a run was thrown or not heard, or an idle agent had    *)
(* nothing to continue from.                                               *)
RetryResolves == ~thrown /\ unheard = {} /\ ~refused => RetryHasOwner

(* What the session has yet to do by itself: every timer, run, end of a    *)
(* run, sleep and compaction before a retry may lead to the next, as often *)
(* as there are attempts left, all of which are there again when it ends.  *)
Effort ==
    LET ends     == Len(Keep(events, {AgentEnd}))
        runs     == IF status = "running" THEN 1 ELSE 0
        sleeps   == IF at["handler"].where \in {"sleeping", "cancelled"} THEN 1 ELSE 0
        recovers == Cardinality({x \in Actors : at[x].where = "compacting" /\ at[x].retry})
        tries    == (MaxRetries - retryAttempt) + (IF overflowTried THEN 0 ELSE 1)
    IN  4 * ((MaxRetries + 1) * (timers + ends + runs + sleeps + recovers) + tries)
        + 2 * timers + runs + 3 * sleeps + 3 * recovers

(* A caller goes on with its prompt; a message of a user, or a reply that  *)
(* is not an error, is handled; a compaction finds messages waiting.       *)
Prompted   == \E c \in Callers : at[c].where \in {"out", "hooks"} /\ at'[c] # at[c]
Encouraged ==
    /\ events # <<>> /\ events' = Tail(events)
    /\ LET m == Head(events)
       IN  m.role = "user" \/ (IsReply(m) /\ m.stop # "error")
Kicked     == queued # <<>> /\ timers' > timers

(* A session does not go on by itself for ever: unless one of these gives  *)
(* it a reason, nothing adds to what it has yet to do, and every timer     *)
(* that fires takes from it.                                               *)
ComesToRest ==
    [][Prompted \/ Encouraged \/ Kicked \/
       (Effort' <= Effort /\ (timers' < timers => Effort' < Effort))]_vars
=============================================================================

----------------------------- MODULE AgentLoop -----------------------------
(***************************************************************************)
(* The agent runtime of packages/agent: class Agent (agent.ts), which owns *)
(* the transcript, the two message queues and the active run, and the turn *)
(* loop it drives (agent-loop.ts).                                         *)
(*                                                                         *)
(* The transcript lives twice.  `messages' is the Agent's: processEvents   *)
(* appends to it on every message_end event.  `context' is the loop's own  *)
(* copy, taken when the run starts and sent to the model on each turn.     *)
(*                                                                         *)
(* One action is the code between two awaits at which another callback can *)
(* run: a caller may steer, queue, clear, abort or reset at any of them.   *)
(* `phase' is where the run is suspended:                                  *)
(*   idle       no active run                                              *)
(*   start      prompts taken, their events not yet emitted                *)
(*   firstPoll  about to poll the steering queue for the first time        *)
(*   top        head of the inner loop, where the turn cap is tested       *)
(*   inject     emitting the pending messages one by one                   *)
(*   llm        transforming the context and opening the model's stream    *)
(*   streaming  waiting for the model's reply                              *)
(*   prepare    between two tool calls of the preflight                    *)
(*   gate       a started call is being looked up, validated and approved  *)
(*   run        waiting for the oldest launched call, to finalize it       *)
(*   settle     all results are in                                         *)
(*   poll       turn_end emitted, about to poll the steering queue         *)
(*   followUp   about to poll the follow-up queue                          *)
(*   ending     agent_end emitted, its listeners still awaited             *)
(***************************************************************************)
EXTENDS Naturals, Sequences, FiniteSets

CONSTANTS
    Caps,        \* values Agent.maxTurns may have when a run starts; 0: no cap
    MaxInputs,   \* bound: user messages ever handed to the agent
    MaxReplies,  \* bound: replies after which no run starts or calls a tool
    MaxCalls     \* bound: tool calls of one reply

ASSUME BoundsAssumption ==
    /\ Caps \subseteq Nat
    /\ MaxInputs \in Nat
    /\ MaxReplies \in Nat
    /\ MaxCalls \in Nat

VARIABLES
    messages,          \* Agent._state.messages
    isStreaming,       \* Agent._state.isStreaming
    pendingToolCalls,  \* Agent._state.pendingToolCalls
    steeringQueue,     \* Agent.steeringQueue
    followUpQueue,     \* Agent.followUpQueue
    aborted,           \* the active run's abort signal
    phase,             \* where the active run is suspended
    mode,              \* config.toolExecution of the active run
    cap,               \* config.maxTurns of the active run
    skipPoll,          \* skipInitialSteeringPoll of the active run
    context,           \* currentContext.messages
    pending,           \* prompts (in phase start), then pendingMessages
    turnCount,
    calls,             \* number of tool calls in the last reply
    started,           \* how many of them have been started
    runnable,          \* prepared calls not finalized yet, in source order
    results,           \* toolResults of this turn
    executing,         \* calls whose tool.execute has not settled
    inputs, replies,   \* how many user messages and replies there have been
    delivered,         \* history: queued and prompted messages announced
    discarded,         \* history: ids removed by clear and reset
    cutOff,            \* history: ids pending when the turn cap ended a run
    wiped              \* history: reset() was called during the active run

agentVars   == <<messages, isStreaming, pendingToolCalls>>
queueVars   == <<steeringQueue, followUpQueue, discarded>>
configVars  == <<mode, cap>>
toolVars    == <<calls, started, runnable, results, executing>>
turnVars    == <<context, pending, turnCount, skipPoll>>
historyVars == <<inputs, replies, delivered, cutOff, wiped>>
vars == <<agentVars, queueVars, configVars, toolVars, turnVars, historyVars,
          aborted, phase>>

----------------------------------------------------------------------------
(* Messages.  A user message is its number and the way it came in; a reply *)
(* is its number, its count of tool calls and its stopReason.              *)

Vias   == {"prompt", "steer", "followUp"}
Stops  == {"stop", "error", "aborted"}
CallId == Nat \X Nat

UserMessage == [role: {"user"}, id: Nat, via: Vias]
Assistant   == [role: {"assistant"}, id: Nat, calls: Nat, stop: Stops]
ToolResult  == [role: {"toolResult"}, call: CallId]
Message     == UserMessage \union Assistant \union ToolResult

ReplyMessage(n, k, s) == [role |-> "assistant", id |-> n, calls |-> k, stop |-> s]
ResultMessage(c)      == [role |-> "toolResult", call |-> c]
NewInput(via)         == [role |-> "user", id |-> inputs + 1, via |-> via]

Modes      == {"parallel", "sequential"}
QueueModes == {"all", "one-at-a-time"}
Phases     == {"idle", "start", "firstPoll", "top", "inject", "llm",
               "streaming", "prepare", "gate", "run", "settle", "poll",
               "followUp", "ending"}

Ids(s) == {s[i].id : i \in 1 .. Len(s)}
Active == phase # "idle"
Failed(stop) == stop \in {"error", "aborted"}

(* The calls of the last reply. *)
CallAt(i) == <<replies, i>>
CallOf(r) == r.call
RangeOf(s) == {s[i] : i \in 1 .. Len(s)}

(* PendingMessageQueue.drain: what it returns and what it leaves. *)
Taken(m, q) == IF m = "all" \/ q = <<>> THEN q ELSE <<Head(q)>>
Kept(m, q)  == IF m = "all" \/ q = <<>> THEN <<>> ELSE Tail(q)

----------------------------------------------------------------------------
Init ==
    /\ messages = <<>> /\ isStreaming = FALSE /\ pendingToolCalls = {}
    /\ steeringQueue = <<>> /\ followUpQueue = <<>>
    /\ aborted = FALSE /\ phase = "idle"
    /\ mode \in Modes /\ cap \in Caps
    /\ skipPoll = FALSE
    /\ context = <<>> /\ pending = <<>> /\ turnCount = 0
    /\ calls = 0 /\ started = 0 /\ runnable = <<>> /\ results = <<>>
    /\ executing = {}
    /\ inputs = 0 /\ replies = 0
    /\ delivered = <<>> /\ discarded = {} /\ cutOff = {} /\ wiped = FALSE

----------------------------------------------------------------------------
(* Callers: they run between any two steps of the loop.                    *)

(* Mutant of Steer: the message goes to the front of the queue. *)
BugSteerFirst ==
    /\ inputs < MaxInputs
    /\ steeringQueue' = <<NewInput("steer")>> \o steeringQueue
    /\ inputs' = inputs + 1
    /\ UNCHANGED <<agentVars, followUpQueue, discarded, configVars, toolVars,
                   turnVars, replies, delivered, cutOff, wiped, aborted, phase>>

(* steer *)
Steer ==
    /\ inputs < MaxInputs
    /\ steeringQueue' = Append(steeringQueue, NewInput("steer"))
    /\ inputs' = inputs + 1
    /\ UNCHANGED <<agentVars, followUpQueue, discarded, configVars, toolVars,
                   turnVars, replies, delivered, cutOff, wiped, aborted, phase>>

(* followUp *)
FollowUp ==
    /\ inputs < MaxInputs
    /\ followUpQueue' = Append(followUpQueue, NewInput("followUp"))
    /\ inputs' = inputs + 1
    /\ UNCHANGED <<agentVars, steeringQueue, discarded, configVars, toolVars,
                   turnVars, replies, delivered, cutOff, wiped, aborted, phase>>

(* clearSteeringQueue and clearFollowUpQueue; clearAllQueues is both. *)
ClearSteeringQueue ==
    /\ steeringQueue' = <<>>
    /\ discarded' = discarded \union Ids(steeringQueue)
    /\ UNCHANGED <<agentVars, followUpQueue, configVars, toolVars, turnVars,
                   historyVars, aborted, phase>>

ClearFollowUpQueue ==
    /\ followUpQueue' = <<>>
    /\ discarded' = discarded \union Ids(followUpQueue)
    /\ UNCHANGED <<agentVars, steeringQueue, configVars, toolVars, turnVars,
                   historyVars, aborted, phase>>

(* abort: signals the active run, and does nothing without one. *)
Abort ==
    /\ Active
    /\ aborted' = TRUE
    /\ UNCHANGED <<agentVars, queueVars, configVars, toolVars, turnVars,
                   historyVars, phase>>

(* reset: clears the Agent's state and queues, and leaves activeRun alone, *)
(* so that a run in progress goes on with its own context.                 *)
Reset ==
    /\ messages' = <<>> /\ isStreaming' = FALSE /\ pendingToolCalls' = {}
    /\ steeringQueue' = <<>> /\ followUpQueue' = <<>>
    /\ discarded' = discarded \union Ids(steeringQueue) \union Ids(followUpQueue)
    /\ wiped' = Active
    /\ UNCHANGED <<configVars, toolVars, turnVars, inputs, replies, delivered,
                   cutOff, aborted, phase>>

----------------------------------------------------------------------------
(* Starting a run.                                                         *)

(* runWithLifecycle up to the loop's first await: a new abort signal, a    *)
(* snapshot of the transcript and of the options, and the prompts, which   *)
(* runAgentLoop adds to its context before it emits anything.              *)
StartRun(prompts, skip, next) ==
    /\ replies < MaxReplies
    /\ isStreaming' = TRUE /\ aborted' = FALSE /\ wiped' = FALSE
    /\ mode' \in Modes /\ cap' \in Caps
    /\ context' = messages \o prompts
    /\ pending' = prompts
    /\ skipPoll' = skip
    /\ turnCount' = 0
    /\ phase' = next
    /\ UNCHANGED <<messages, pendingToolCalls, toolVars, replies, delivered, cutOff>>

(* prompt(message); with a run active it throws and changes nothing. *)
Prompt ==
    /\ ~Active
    /\ inputs < MaxInputs
    /\ StartRun(<<NewInput("prompt")>>, FALSE, "start")
    /\ inputs' = inputs + 1
    /\ UNCHANGED queueVars

(* continue() with a transcript that ends in a reply: steering messages    *)
(* first, and the loop must not poll for more before its first turn.       *)
ContinueWithSteering ==
    /\ ~Active
    /\ messages # <<>>
    /\ messages[Len(messages)].role = "assistant"
    /\ steeringQueue # <<>>
    /\ \E m \in QueueModes :
          /\ StartRun(Taken(m, steeringQueue), TRUE, "start")
          /\ steeringQueue' = Kept(m, steeringQueue)
    /\ UNCHANGED <<followUpQueue, discarded, inputs>>

ContinueWithFollowUps ==
    /\ ~Active
    /\ messages # <<>>
    /\ messages[Len(messages)].role = "assistant"
    /\ steeringQueue = <<>>
    /\ followUpQueue # <<>>
    /\ \E m \in QueueModes :
          /\ StartRun(Taken(m, followUpQueue), FALSE, "start")
          /\ followUpQueue' = Kept(m, followUpQueue)
    /\ UNCHANGED <<steeringQueue, discarded, inputs>>

(* continue() with a transcript that ends in a user message or a tool      *)
(* result: runAgentLoopContinue, with no prompt.                           *)
ContinueTranscript ==
    /\ ~Active
    /\ messages # <<>>
    /\ messages[Len(messages)].role # "assistant"
    /\ StartRun(<<>>, FALSE, "firstPoll")
    /\ UNCHANGED <<queueVars, inputs>>

(* runAgentLoop: message_start and message_end of every prompt. *)
EmitPrompts ==
    /\ phase = "start"
    /\ messages' = messages \o pending
    /\ delivered' = delivered \o pending
    /\ pending' = <<>>
    /\ phase' = "firstPoll"
    /\ UNCHANGED <<isStreaming, pendingToolCalls, queueVars, configVars, toolVars,
                   context, turnCount, skipPoll, inputs, replies, cutOff, wiped,
                   aborted>>

----------------------------------------------------------------------------
(* runLoop.                                                                *)

(* The poll before the first turn; continue() may ask to skip it. *)
FirstPoll ==
    /\ phase = "firstPoll"
    /\ phase' = "top"
    /\ skipPoll' = FALSE
    /\ \/ /\ skipPoll
          /\ UNCHANGED <<pending, steeringQueue>>
       \/ /\ ~skipPoll
          /\ \E m \in QueueModes :
                /\ pending' = Taken(m, steeringQueue)
                /\ steeringQueue' = Kept(m, steeringQueue)
    /\ UNCHANGED <<agentVars, followUpQueue, discarded, configVars, toolVars,
                   context, turnCount, historyVars, aborted>>

CapReached == cap > 0 /\ turnCount >= cap

(* The inner loop's guard holds: another turn, unless the cap is reached.  *)
NextTurn ==
    /\ phase = "top"
    /\ ~CapReached
    /\ turnCount' = turnCount + 1
    /\ phase' = IF pending = <<>> THEN "llm" ELSE "inject"
    /\ UNCHANGED <<agentVars, queueVars, configVars, toolVars, context, pending,
                   skipPoll, historyVars, aborted>>

(* agent_end at the cap; pendingMessages goes away with the loop's frame.  *)
StopAtCap ==
    /\ phase = "top"
    /\ CapReached
    /\ cutOff' = cutOff \union Ids(pending)
    /\ pending' = <<>>
    /\ phase' = "ending"
    /\ UNCHANGED <<agentVars, queueVars, configVars, toolVars, context, turnCount,
                   skipPoll, inputs, replies, delivered, wiped, aborted>>

(* Mutant of Inject: only the events, not the loop's own copy. *)
BugInjectStateOnly ==
    /\ phase = "inject"
    /\ messages' = Append(messages, Head(pending))
    /\ delivered' = Append(delivered, Head(pending))
    /\ pending' = Tail(pending)
    /\ phase' = IF Tail(pending) = <<>> THEN "llm" ELSE "inject"
    /\ UNCHANGED <<isStreaming, pendingToolCalls, queueVars, configVars, toolVars,
                   context, turnCount, skipPoll, inputs, replies, cutOff, wiped, aborted>>

(* Mutant of Inject: what is pending is reset after one message. *)
BugInjectFirstOnly ==
    /\ phase = "inject"
    /\ messages' = Append(messages, Head(pending))
    /\ context' = Append(context, Head(pending))
    /\ delivered' = Append(delivered, Head(pending))
    /\ pending' = <<>>
    /\ phase' = "llm"
    /\ UNCHANGED <<isStreaming, pendingToolCalls, queueVars, configVars, toolVars,
                   turnCount, skipPoll, inputs, replies, cutOff, wiped, aborted>>

(* One pending message: its events, then the loop's own copy. *)
Inject ==
    /\ phase = "inject"
    /\ messages' = Append(messages, Head(pending))
    /\ context' = Append(context, Head(pending))
    /\ delivered' = Append(delivered, Head(pending))
    /\ pending' = Tail(pending)
    /\ phase' = IF Tail(pending) = <<>> THEN "llm" ELSE "inject"
    /\ UNCHANGED <<isStreaming, pendingToolCalls, queueVars, configVars, toolVars,
                   turnCount, skipPoll, inputs, replies, cutOff, wiped, aborted>>

(* streamAssistantResponse, up to the call of the stream function. *)
OpenStream ==
    /\ phase = "llm"
    /\ phase' = "streaming"
    /\ UNCHANGED <<agentVars, queueVars, configVars, toolVars, turnVars,
                   historyVars, aborted>>

(* The reply's message_end.  A provider reports "aborted" only after the   *)
(* abort signal; a failed or aborted reply ends the run, calls untouched.  *)
Reply(k, stop) ==
    /\ phase = "streaming"
    /\ stop = "aborted" => aborted
    /\ replies < MaxReplies \/ k = 0
    /\ messages' = Append(messages, ReplyMessage(replies + 1, k, stop))
    /\ context' = Append(context, ReplyMessage(replies + 1, k, stop))
    /\ replies' = replies + 1
    /\ calls' = k
    /\ started' = 0 /\ runnable' = <<>> /\ results' = <<>>
    /\ phase' = CASE Failed(stop) -> "ending"
                  [] ~Failed(stop) /\ k > 0 -> "prepare"
                  [] OTHER -> "poll"
    /\ UNCHANGED <<isStreaming, pendingToolCalls, queueVars, configVars, pending,
                   turnCount, skipPoll, executing, inputs, delivered, cutOff, wiped,
                   aborted>>

----------------------------------------------------------------------------
(* executeToolCallsParallel and executeToolCallsSequential.                *)

(* tool_execution_start of the next call; a sequential turn first waits    *)
(* for the call before it.                                                 *)
StartCall ==
    /\ phase = "prepare"
    /\ started < calls
    /\ started' = started + 1
    /\ pendingToolCalls' = pendingToolCalls \union {CallAt(started + 1)}
    /\ phase' = "gate"
    /\ UNCHANGED <<messages, isStreaming, queueVars, configVars, calls, runnable,
                   results, executing, turnVars, historyVars, aborted>>

(* emitToolCallOutcome: tool_execution_end, then the result's message_end. *)
EmitOutcome(c) ==
    /\ pendingToolCalls' = pendingToolCalls \ {c}
    /\ messages' = Append(messages, ResultMessage(c))
    /\ results' = Append(results, ResultMessage(c))

(* prepareToolCall answers at once: no such tool, invalid arguments,       *)
(* blocked by beforeToolCall, or one of these threw.                       *)
RefuseCall ==
    /\ phase = "gate"
    /\ EmitOutcome(CallAt(started))
    /\ phase' = "prepare"
    /\ UNCHANGED <<isStreaming, queueVars, configVars, calls, started, runnable,
                   executing, turnVars, historyVars, aborted>>

(* prepareToolCall approves the call: a sequential turn runs it now.       *)
ApproveCall ==
    /\ phase = "gate"
    /\ runnable' = Append(runnable, CallAt(started))
    /\ \/ /\ mode = "parallel"
          /\ phase' = "prepare"
          /\ UNCHANGED executing
       \/ /\ mode = "sequential"
          /\ phase' = "run"
          /\ executing' = executing \union {CallAt(started)}
    /\ UNCHANGED <<agentVars, queueVars, configVars, calls, started, results,
                   turnVars, historyVars, aborted>>

(* The preflight is over: a parallel turn launches every approved call.    *)
LaunchCalls ==
    /\ phase = "prepare"
    /\ started = calls
    /\ executing' = executing \union RangeOf(runnable)
    /\ phase' = IF runnable = <<>> THEN "settle" ELSE "run"
    /\ UNCHANGED <<agentVars, queueVars, configVars, calls, started, runnable,
                   results, turnVars, historyVars, aborted>>

(* A tool's execute settles, whatever became of the run that launched it.  *)
ToolReturns(c) ==
    /\ c \in executing
    /\ executing' = executing \ {c}
    /\ UNCHANGED <<agentVars, queueVars, configVars, calls, started, runnable,
                   results, turnVars, historyVars, aborted, phase>>

(* Mutant of FinalizeCall: the call stays in pendingToolCalls. *)
BugFinalizeKeepsPending ==
    /\ phase = "run"
    /\ Head(runnable) \notin executing
    /\ messages' = Append(messages, ResultMessage(Head(runnable)))
    /\ results' = Append(results, ResultMessage(Head(runnable)))
    /\ runnable' = Tail(runnable)
    /\ phase' = IF Tail(runnable) # <<>> THEN "run"
                ELSE IF started < calls THEN "prepare" ELSE "settle"
    /\ UNCHANGED <<isStreaming, pendingToolCalls, queueVars, configVars, calls, started,
                   executing, turnVars, historyVars, aborted>>

(* Mutant of FinalizeCall: the calls launched after it are forgotten. *)
BugFinalizeForgetsRest ==
    /\ phase = "run"
    /\ Head(runnable) \notin executing
    /\ EmitOutcome(Head(runnable))
    /\ runnable' = Tail(runnable)
    /\ phase' = IF started < calls THEN "prepare" ELSE "settle"
    /\ UNCHANGED <<isStreaming, queueVars, configVars, calls, started, executing,
                   turnVars, historyVars, aborted>>

(* finalizeExecutedToolCall of the oldest launched call.                   *)
FinalizeCall ==
    /\ phase = "run"
    /\ Head(runnable) \notin executing
    /\ EmitOutcome(Head(runnable))
    /\ runnable' = Tail(runnable)
    /\ phase' = IF Tail(runnable) # <<>> THEN "run"
                ELSE IF started < calls THEN "prepare" ELSE "settle"
    /\ UNCHANGED <<isStreaming, queueVars, configVars, calls, started, executing,
                   turnVars, historyVars, aborted>>

(* Mutant of CloseTurn: off by one in the results. *)
BugCloseTurnLosesLast ==
    /\ phase = "settle"
    /\ context' = context \o SubSeq(results, 1, Len(results) - 1)
    /\ phase' = "poll"
    /\ UNCHANGED <<agentVars, queueVars, configVars, toolVars, pending, turnCount,
                   skipPoll, historyVars, aborted>>

(* The results join the loop's context; turn_end. *)
CloseTurn ==
    /\ phase = "settle"
    /\ context' = context \o results
    /\ phase' = "poll"
    /\ UNCHANGED <<agentVars, queueVars, configVars, toolVars, pending, turnCount,
                   skipPoll, historyVars, aborted>>

(* After a turn: steering messages, or more tool calls, mean another turn. *)
PollSteering ==
    /\ phase = "poll"
    /\ \E m \in QueueModes :
          /\ pending' = Taken(m, steeringQueue)
          /\ steeringQueue' = Kept(m, steeringQueue)
    /\ phase' = IF calls > 0 \/ steeringQueue # <<>> THEN "top" ELSE "followUp"
    /\ UNCHANGED <<agentVars, followUpQueue, discarded, configVars, toolVars,
                   context, turnCount, skipPoll, historyVars, aborted>>

(* The agent would stop: follow-ups start another turn, or agent_end.      *)
PollFollowUps ==
    /\ phase = "followUp"
    /\ \E m \in QueueModes :
          /\ pending' = Taken(m, followUpQueue)
          /\ followUpQueue' = Kept(m, followUpQueue)
    /\ phase' = IF followUpQueue # <<>> THEN "top" ELSE "ending"
    /\ UNCHANGED <<agentVars, steeringQueue, discarded, configVars, toolVars,
                   context, turnCount, skipPoll, historyVars, aborted>>

----------------------------------------------------------------------------
(* Leaving a run.                                                          *)

(* A hook, the stream function or the stream itself throws: the loop is    *)
(* abandoned, and handleRunFailure appends a failure reply and emits       *)
(* agent_end.  Tools already launched go on executing.                     *)
RunThrows ==
    /\ \/ phase \in {"llm", "streaming"}
       \/ phase = "run" /\ Head(runnable) \notin executing
    /\ messages' = Append(messages,
                          ReplyMessage(0, 0, IF aborted THEN "aborted" ELSE "error"))
    /\ phase' = "ending"
    /\ UNCHANGED <<isStreaming, pendingToolCalls, queueVars, configVars, toolVars,
                   turnVars, historyVars, aborted>>

(* Mutant of FinishRun: an aborted run is not cleaned up. *)
BugFinishUnlessAborted ==
    /\ phase = "ending"
    /\ ~aborted
    /\ isStreaming' = FALSE
    /\ pendingToolCalls' = {}
    /\ wiped' = FALSE
    /\ phase' = "idle"
    /\ UNCHANGED <<messages, queueVars, configVars, executing, pending, skipPoll,
                   inputs, replies, delivered, cutOff, aborted>>
    /\ context' = <<>> /\ turnCount' = 0
    /\ calls' = 0 /\ started' = 0 /\ runnable' = <<>> /\ results' = <<>>

(* finishRun, once the listeners of agent_end have settled. *)
FinishRun ==
    /\ phase = "ending"
    /\ isStreaming' = FALSE
    /\ pendingToolCalls' = {}
    /\ aborted' = FALSE /\ wiped' = FALSE
    /\ phase' = "idle"
    /\ UNCHANGED <<messages, queueVars, configVars, executing, pending, skipPoll,
                   inputs, replies, delivered, cutOff>>
    /\ context' = <<>> /\ turnCount' = 0
    /\ calls' = 0 /\ started' = 0 /\ runnable' = <<>> /\ results' = <<>>

----------------------------------------------------------------------------
Callers ==
    \/ Steer \/ FollowUp \/ ClearSteeringQueue \/ ClearFollowUpQueue
    \/ Abort \/ Reset
    \/ Prompt \/ ContinueWithSteering \/ ContinueWithFollowUps \/ ContinueTranscript

LoopStep ==
    \/ EmitPrompts \/ FirstPoll \/ NextTurn \/ StopAtCap \/ Inject \/ OpenStream
    \/ \E k \in 0 .. MaxCalls, stop \in Stops : Reply(k, stop)
    \/ StartCall \/ RefuseCall \/ ApproveCall \/ LaunchCalls \/ FinalizeCall
    \/ CloseTurn \/ PollSteering \/ PollFollowUps \/ RunThrows \/ FinishRun

ToolStep == \E c \in executing : ToolReturns(c)

Next == Callers \/ LoopStep \/ ToolStep

Spec == Init /\ [][Next]_vars

(* The event loop resumes every ready continuation, and the model and the  *)
(* tools answer in the end; nothing makes a caller act.                    *)
FairSpec == Spec /\ WF_vars(LoopStep) /\ WF_vars(ToolStep)

----------------------------------------------------------------------------
(* Properties.                                                             *)

(* Every part of the state has its shape: in particular what drain returns *)
(* is always a list of messages, whichever mode the queue is in.           *)
TypeOK ==
    /\ messages \in Seq(Message)
    /\ isStreaming \in BOOLEAN
    /\ pendingToolCalls \subseteq CallId
    /\ steeringQueue \in Seq(UserMessage)
    /\ followUpQueue \in Seq(UserMessage)
    /\ aborted \in BOOLEAN
    /\ phase \in Phases
    /\ mode \in Modes
    /\ cap \in Nat
    /\ skipPoll \in BOOLEAN
    /\ context \in Seq(Message)
    /\ pending \in Seq(UserMessage)
    /\ turnCount \in Nat
    /\ calls \in Nat
    /\ started \in Nat
    /\ runnable \in Seq(CallId)
    /\ results \in Seq(ToolResult)
    /\ executing \subseteq CallId
    /\ inputs \in Nat
    /\ replies \in Nat
    /\ delivered \in Seq(UserMessage)
    /\ discarded \subseteq Nat
    /\ cutOff \subseteq Nat
    /\ wiped \in BOOLEAN

(* What the model is sent is what the Agent shows and AgentSession saves:  *)
(* the loop's copy of the transcript and the one rebuilt from its events   *)
(* are equal whenever the model is called, unless reset() cut the run off  *)
(* from the Agent's state.                                                 *)
TranscriptAgrees ==
    phase \in {"llm", "streaming"} /\ ~wiped => messages = context

(* The replies of the active run: one per turn, the current turn's once it *)
(* has arrived.                                                            *)
RunReplies ==
    LET awaited == IF phase \in {"inject", "llm", "streaming"} THEN 1 ELSE 0
    IN  (replies + 1 + awaited - turnCount) .. replies

(* Providers reject a conversation in which a tool call lacks its result:  *)
(* when the model is called, each earlier reply of this run is followed at *)
(* once by one result for each of its tool calls, and none of these calls  *)
(* is still executing and changing the disk.                               *)
CallsAnswered ==
    phase = "streaming" =>
      /\ \A c \in executing : c[1] \notin RunReplies
      /\ \A n \in RunReplies :
            \E p \in 1 .. Len(context) :
                /\ context[p].role = "assistant"
                /\ context[p].id = n
                /\ \A i \in 1 .. context[p].calls :
                      \E q \in p + 1 .. Len(context) :
                          /\ q <= p + context[p].calls
                          /\ context[q] = ResultMessage(<<n, i>>)

(* A message handed to the agent by prompt, steer or followUp is neither   *)
(* lost nor delivered twice: it is in exactly one of the queues, the loop's *)
(* hands, the announced messages, or the messages a caller cleared; the    *)
(* one exception is a run that its turn cap ends.                          *)
Whereabouts(id) ==
    {<<"steering", i>> : i \in {j \in 1 .. Len(steeringQueue) : steeringQueue[j].id = id}}
    \union {<<"followUp", i>> : i \in {j \in 1 .. Len(followUpQueue) : followUpQueue[j].id = id}}
    \union {<<"pending", i>> : i \in {j \in 1 .. Len(pending) : pending[j].id = id}}
    \union {<<"delivered", i>> : i \in {j \in 1 .. Len(delivered) : delivered[j].id = id}}
    \union {<<"cleared", 0>> : x \in {id} \intersect discarded}
    \union {<<"cut off", 0>> : x \in {id} \intersect cutOff}

EachMessageOnce == \A id \in 1 .. inputs : Cardinality(Whereabouts(id)) = 1

(* Messages of one queue reach the transcript in the order in which they   *)
(* were queued, across turns, runs, and both drain modes.                  *)
DeliveredInOrder ==
    \A i, j \in 1 .. Len(delivered) :
        i < j /\ delivered[i].via = delivered[j].via => delivered[i].id < delivered[j].id

(* The set of running tool calls that the interface shows is exact: the    *)
(* calls of the turn that have started and have no result yet.             *)
PendingCallsExact ==
    Active /\ ~wiped =>
        pendingToolCalls =
            {CallAt(i) : i \in 1 .. started} \ {CallOf(r) : r \in RangeOf(results)}

(* A run with a turn cap ends, whatever the model, the tools and the       *)
(* callers do, as long as the model and the tools answer.                  *)
RunTerminates == (Active /\ cap > 0) ~> ~Active

----------------------------------------------------------------------------
(* What a listener sees of all this is an AgentRun: its run begins with    *)
(* the first event, and calls are owed from their reply to their result.   *)

Owed ==
    IF phase \in {"idle", "start", "ending"} THEN {}
    ELSE {CallAt(i) : i \in 1 .. calls} \ {CallOf(r) : r \in RangeOf(results)}

Run == INSTANCE AgentRun WITH
    transcript <- messages,
    status     <- CASE phase \in {"idle", "start"} -> "idle"
                    [] phase = "ending" -> "over"
                    [] OTHER -> "running",
    owed       <- Owed

(* The loop, with its queues, polls, preflight and parallel tools, is an   *)
(* AgentRun: between a reply and its last result nothing but its results   *)
(* is announced, nothing follows a failed reply, and agent_end is followed *)
(* by idle.                                                                *)
ImplementsAgentRun == Run!Promise

=============================================================================

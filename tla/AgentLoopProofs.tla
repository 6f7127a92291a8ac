-------------------------- MODULE AgentLoopProofs --------------------------
(***************************************************************************)
(* Proofs about AgentLoop, for every turn cap and every bound.             *)
(*                                                                         *)
(* TypeOK is inductive once the two phases that take the head of a list    *)
(* are known to find one there.  TranscriptAgrees needs to know, for every *)
(* phase, by how much the Agent's transcript is ahead of the loop's copy:  *)
(* not at all between turns, by the results already announced during a     *)
(* tool phase, while the prompts that are not announced yet make it late.  *)
(*                                                                         *)
(* CallsAnswered looks back at turns that are over, so TurnInv adds what   *)
(* the current turn knows of its calls and results in every phase.  That   *)
(* AgentLoop implements AgentRun needs one more fact, OwedInv: a call is   *)
(* answered or runnable, never both, and outside a turn none is owed.      *)
(***************************************************************************)
EXTENDS AgentLoop, SequenceTheorems, FiniteSetTheorems, TLAPS

(* The phases in which the loop holds something to take the head of. *)
Nonempty ==
    /\ phase = "inject" => pending # <<>>
    /\ phase = "run" => runnable # <<>>

TypeInv == TypeOK /\ Nonempty

(* How far the two copies of the transcript are apart in each phase. *)
Agreement ==
    ~wiped =>
        /\ phase \in {"firstPoll", "top", "inject", "llm", "streaming", "poll", "followUp"}
              => messages = context
        /\ phase = "start" => context = messages \o pending
        /\ phase \in {"prepare", "gate", "run", "settle"}
              => messages = context \o results

----------------------------------------------------------------------------
(* What the helpers return. *)

(* Draining a queue in either mode returns a list of its messages and      *)
(* leaves one.                                                             *)
LEMMA DrainType ==
    ASSUME NEW q \in Seq(UserMessage), NEW m
    PROVE  /\ Taken(m, q) \in Seq(UserMessage)
           /\ Kept(m, q) \in Seq(UserMessage)
           /\ q # <<>> => Taken(m, q) # <<>>
BY HeadTailProperties, EmptySeq DEF Taken, Kept

(* User messages and tool results may stand where messages do. *)
LEMMA SubMessages ==
    /\ \A s : s \in Seq(UserMessage) => s \in Seq(Message)
    /\ \A s : s \in Seq(ToolResult) => s \in Seq(Message)
<1>1. UserMessage \subseteq Message /\ ToolResult \subseteq Message
    BY DEF Message
<1>2. QED
    BY <1>1, SeqMonotonic

(* The messages the model builds have the shape of messages. *)
LEMMA NewMessages ==
    /\ \A n, k \in Nat : \A s \in Stops : ReplyMessage(n, k, s) \in Message
    /\ \A c \in CallId : ResultMessage(c) \in ToolResult
    /\ inputs \in Nat => \A via \in Vias : NewInput(via) \in UserMessage
BY DEF ReplyMessage, ResultMessage, NewInput, Message, Assistant, ToolResult,
       UserMessage

(* The ids of a list of user messages are numbers. *)
LEMMA IdsType ==
    ASSUME NEW q \in Seq(UserMessage)
    PROVE  Ids(q) \subseteq Nat
<1>1. \A i \in 1 .. Len(q) : q[i] \in UserMessage
    BY ElementOfSeq
<1>2. QED
    BY <1>1 DEF Ids, UserMessage

(* The elements of a list of calls are calls. *)
LEMMA RangeType ==
    ASSUME NEW s \in Seq(CallId)
    PROVE  RangeOf(s) \subseteq CallId
BY ElementOfSeq DEF RangeOf

----------------------------------------------------------------------------
(* Type correctness. *)

LEMMA InitType == Init => TypeInv
<1> SUFFICES ASSUME Init PROVE TypeInv
    OBVIOUS
<1>1. \A S : <<>> \in Seq(S)
    BY EmptySeq
<1>2. cap \in Nat
    BY BoundsAssumption DEF Init
<1>3. QED
    BY <1>1, <1>2 DEF Init, TypeInv, TypeOK, Nonempty, Phases, Modes

(* Starting a run on a list of prompts keeps every part in shape. *)
LEMMA StartType ==
    ASSUME TypeInv, NEW prompts \in Seq(UserMessage), NEW skip \in BOOLEAN,
           NEW next \in {"start", "firstPoll"}, StartRun(prompts, skip, next),
           steeringQueue' \in Seq(UserMessage), followUpQueue' \in Seq(UserMessage),
           discarded' = discarded, inputs' \in Nat
    PROVE  TypeInv'
<1>1. context' \in Seq(Message)
    BY SubMessages, ConcatProperties DEF StartRun, TypeInv, TypeOK
<1>2. cap' \in Nat
    BY BoundsAssumption DEF StartRun
<1>3. QED
    BY <1>1, <1>2 DEF StartRun, TypeInv, TypeOK, Nonempty, toolVars, Phases

(* So does announcing a tool call's outcome. *)
LEMMA OutcomeType ==
    ASSUME TypeInv, NEW c \in CallId, EmitOutcome(c)
    PROVE  /\ messages' \in Seq(Message)
           /\ results' \in Seq(ToolResult)
           /\ pendingToolCalls' \subseteq CallId
BY NewMessages, AppendProperties DEF EmitOutcome, TypeInv, TypeOK, Message

LEMMA StepType == TypeInv /\ [Next]_vars => TypeInv'
<1> SUFFICES ASSUME TypeInv, [Next]_vars PROVE TypeInv'
    OBVIOUS
<1> USE DEF TypeInv, TypeOK, Nonempty, agentVars, queueVars, configVars, toolVars,
            turnVars, historyVars
<1>1. CASE Steer
    <2>1. steeringQueue' \in Seq(UserMessage)
        BY <1>1, NewMessages, AppendProperties DEF Steer, Vias
    <2>2. QED
        BY <1>1, <2>1 DEF Steer
<1>2. CASE FollowUp
    <2>1. followUpQueue' \in Seq(UserMessage)
        BY <1>2, NewMessages, AppendProperties DEF FollowUp, Vias
    <2>2. QED
        BY <1>2, <2>1 DEF FollowUp
<1>3. CASE ClearSteeringQueue
    BY <1>3, IdsType, EmptySeq DEF ClearSteeringQueue
<1>4. CASE ClearFollowUpQueue
    BY <1>4, IdsType, EmptySeq DEF ClearFollowUpQueue
<1>5. CASE Abort
    BY <1>5 DEF Abort
<1>6. CASE Reset
    BY <1>6, IdsType, EmptySeq DEF Reset, Active
<1>7. CASE Prompt
    <2>1. <<NewInput("prompt")>> \in Seq(UserMessage)
        BY NewMessages DEF Vias
    <2>2. /\ steeringQueue' \in Seq(UserMessage) /\ followUpQueue' \in Seq(UserMessage)
          /\ discarded' = discarded /\ inputs' \in Nat
        BY <1>7 DEF Prompt
    <2>3. StartRun(<<NewInput("prompt")>>, FALSE, "start")
        BY <1>7 DEF Prompt
    <2>4. QED
        BY <2>1, <2>2, <2>3, StartType
<1>8. CASE ContinueWithSteering
    BY <1>8, StartType, DrainType DEF ContinueWithSteering
<1>9. CASE ContinueWithFollowUps
    BY <1>9, StartType, DrainType DEF ContinueWithFollowUps
<1>10. CASE ContinueTranscript
    BY <1>10, StartType, EmptySeq DEF ContinueTranscript
<1>11. CASE EmitPrompts
    BY <1>11, SubMessages, ConcatProperties, EmptySeq DEF EmitPrompts, Phases
<1>12. CASE FirstPoll
    BY <1>12, DrainType DEF FirstPoll, Phases
<1>13. CASE NextTurn
    BY <1>13 DEF NextTurn, Phases
<1>14. CASE StopAtCap
    BY <1>14, IdsType, EmptySeq DEF StopAtCap, Phases
<1>15. CASE Inject
    <2>1. Head(pending) \in UserMessage /\ Tail(pending) \in Seq(UserMessage)
        BY <1>15, HeadTailProperties DEF Inject
    <2>2. /\ messages' \in Seq(Message) /\ context' \in Seq(Message)
          /\ delivered' \in Seq(UserMessage)
        BY <1>15, <2>1, AppendProperties DEF Inject, Message
    <2>3. QED
        BY <1>15, <2>1, <2>2 DEF Inject, Phases
<1>16. CASE OpenStream
    BY <1>16 DEF OpenStream, Phases
<1>17. CASE \E k \in 0 .. MaxCalls, stop \in Stops : Reply(k, stop)
    <2>1. PICK k \in 0 .. MaxCalls, stop \in Stops : Reply(k, stop)
        BY <1>17
    <2>2. k \in Nat /\ ReplyMessage(replies + 1, k, stop) \in Message
        BY <2>1, NewMessages, BoundsAssumption
    <2>3. messages' \in Seq(Message) /\ context' \in Seq(Message)
        BY <2>1, <2>2, AppendProperties DEF Reply
    <2>4. phase' \in {"ending", "prepare", "poll"}
        BY <2>1, <2>2 DEF Reply
    <2>5. runnable' \in Seq(CallId) /\ results' \in Seq(ToolResult)
        BY <2>1, EmptySeq DEF Reply
    <2>6. /\ replies' = replies + 1 /\ calls' = k /\ started' = 0
          /\ UNCHANGED <<isStreaming, pendingToolCalls, queueVars, configVars, pending,
                         turnCount, skipPoll, executing, inputs, delivered, cutOff, wiped,
                         aborted>>
        BY <2>1 DEF Reply
    <2>7. QED
        BY <2>2, <2>3, <2>4, <2>5, <2>6 DEF Phases
<1>18. CASE StartCall
    BY <1>18 DEF StartCall, Phases, CallAt, CallId
<1>19. CASE RefuseCall
    <2>1. CallAt(started) \in CallId
        BY DEF CallAt, CallId
    <2>2. QED
        BY <1>19, <2>1, OutcomeType DEF RefuseCall, Phases
<1>20. CASE ApproveCall
    <2>1. CallAt(started) \in CallId
        BY DEF CallAt, CallId
    <2>2. runnable' \in Seq(CallId) /\ runnable' # <<>>
        BY <1>20, <2>1, AppendProperties DEF ApproveCall
    <2>3. QED
        BY <1>20, <2>1, <2>2 DEF ApproveCall, Phases
<1>21. CASE LaunchCalls
    BY <1>21, RangeType DEF LaunchCalls, Phases
<1>22. CASE FinalizeCall
    <2>1. Head(runnable) \in CallId /\ Tail(runnable) \in Seq(CallId)
        BY <1>22, HeadTailProperties DEF FinalizeCall
    <2>2. phase' \in {"run", "prepare", "settle"} /\ (phase' = "run" => Tail(runnable) # <<>>)
        BY <1>22 DEF FinalizeCall
    <2>3. /\ EmitOutcome(Head(runnable)) /\ runnable' = Tail(runnable)
          /\ UNCHANGED <<isStreaming, queueVars, configVars, calls, started, executing,
                         turnVars, historyVars, aborted>>
        BY <1>22 DEF FinalizeCall
    <2>4. QED
        BY <2>1, <2>2, <2>3, OutcomeType DEF Phases
<1>23. CASE CloseTurn
    BY <1>23, SubMessages, ConcatProperties DEF CloseTurn, Phases
<1>24. CASE PollSteering
    BY <1>24, DrainType DEF PollSteering, Phases
<1>25. CASE PollFollowUps
    BY <1>25, DrainType DEF PollFollowUps, Phases
<1>26. CASE RunThrows
    BY <1>26, NewMessages, AppendProperties DEF RunThrows, Phases, Stops
<1>27. CASE FinishRun
    BY <1>27, EmptySeq DEF FinishRun, Phases
<1>28. CASE ToolStep
    BY <1>28 DEF ToolStep, ToolReturns
<1>29. CASE UNCHANGED vars
    BY <1>29 DEF vars
<1>30. QED
    BY <1>1, <1>2, <1>3, <1>4, <1>5, <1>6, <1>7, <1>8, <1>9, <1>10, <1>11, <1>12,
       <1>13, <1>14, <1>15, <1>16, <1>17, <1>18, <1>19, <1>20, <1>21, <1>22, <1>23,
       <1>24, <1>25, <1>26, <1>27, <1>28, <1>29
    DEF Next, Callers, LoopStep

(* Every reachable state of the agent has the shape TypeOK describes; with *)
(* it, drain returns lists in both modes and no step takes the head of an  *)
(* empty list.                                                             *)
THEOREM TypeCorrect == Spec => []TypeOK
<1>1. Init => TypeInv
    BY InitType
<1>2. TypeInv /\ [Next]_vars => TypeInv'
    BY StepType
<1>3. TypeInv => TypeOK
    BY DEF TypeInv
<1>4. QED
    BY <1>1, <1>2, <1>3, PTL DEF Spec

----------------------------------------------------------------------------
(* Agreement of the two copies of the transcript. *)

(* Appending to the end of a concatenation appends to its second part. *)
LEMMA AppendConcat ==
    ASSUME NEW S, NEW s \in Seq(S), NEW t \in Seq(S), NEW e \in S
    PROVE  Append(s \o t, e) = s \o Append(t, e)
<1>1. Append(s \o t, e) = (s \o t) \o <<e>>
    BY ConcatProperties, AppendIsConcat
<1>2. Append(t, e) = t \o <<e>>
    BY AppendIsConcat
<1>3. <<e>> \in Seq(S)
    OBVIOUS
<1>4. QED
    BY <1>1, <1>2, <1>3, ConcatAssociative

(* Announcing an outcome moves the Agent's transcript and the list of      *)
(* results together.                                                       *)
LEMMA OutcomeAgrees ==
    ASSUME TypeInv, NEW c \in CallId, EmitOutcome(c), context' = context,
           messages = context \o results
    PROVE  messages' = context' \o results'
<1>1. /\ context \in Seq(Message) /\ results \in Seq(Message)
      /\ ResultMessage(c) \in Message
    BY SubMessages, NewMessages DEF TypeInv, TypeOK, Message
<1>2. messages' = Append(context \o results, ResultMessage(c))
    BY DEF EmitOutcome
<1>3. results' = Append(results, ResultMessage(c))
    BY DEF EmitOutcome
<1>4. QED
    BY <1>1, <1>2, <1>3, AppendConcat

LEMMA StepAgreement == TypeInv /\ Agreement /\ [Next]_vars => Agreement'
<1> SUFFICES ASSUME TypeInv, Agreement, [Next]_vars, ~wiped' PROVE Agreement'
    BY DEF Agreement
<1> USE DEF Agreement, agentVars, queueVars, configVars, toolVars, turnVars, historyVars
<1>t. /\ messages \in Seq(Message) /\ context \in Seq(Message)
      /\ results \in Seq(Message) /\ pending \in Seq(Message)
    BY SubMessages DEF TypeInv, TypeOK
<1>1. CASE Steer \/ FollowUp \/ ClearSteeringQueue \/ ClearFollowUpQueue \/ Abort
    BY <1>1 DEF Steer, FollowUp, ClearSteeringQueue, ClearFollowUpQueue, Abort
<1>2. CASE Reset
    BY <1>2 DEF Reset, Active
<1>3. CASE Prompt \/ ContinueWithSteering \/ ContinueWithFollowUps
    BY <1>3 DEF Prompt, ContinueWithSteering, ContinueWithFollowUps, StartRun
<1>4. CASE ContinueTranscript
    BY <1>4, <1>t, ConcatEmptySeq DEF ContinueTranscript, StartRun
<1>5. CASE EmitPrompts
    BY <1>5 DEF EmitPrompts
<1>6. CASE FirstPoll \/ NextTurn \/ StopAtCap \/ OpenStream
    BY <1>6 DEF FirstPoll, NextTurn, StopAtCap, OpenStream
<1>7. CASE Inject
    BY <1>7 DEF Inject
<1>8. CASE \E k \in 0 .. MaxCalls, stop \in Stops : Reply(k, stop)
    <2>1. PICK k \in 0 .. MaxCalls, stop \in Stops : Reply(k, stop)
        BY <1>8
    <2>2. messages' = context' /\ results' = <<>>
        BY <2>1 DEF Reply
    <2>3. context' \in Seq(Message)
        <3>1. k \in Nat /\ replies + 1 \in Nat
            BY BoundsAssumption DEF TypeInv, TypeOK
        <3>2. ReplyMessage(replies + 1, k, stop) \in Message
            BY <3>1, NewMessages
        <3>3. QED
            BY <2>1, <1>t, <3>2, AppendProperties DEF Reply
    <2>4. context' \o results' = context'
        BY <2>2, <2>3, ConcatEmptySeq
    <2>5. phase' \in {"ending", "prepare", "poll"}
        BY <2>1, BoundsAssumption DEF Reply
    <2>6. QED
        BY <2>2, <2>4, <2>5
<1>9. CASE RefuseCall
    <2>1. CallAt(started) \in CallId
        BY DEF CallAt, CallId, TypeInv, TypeOK
    <2>2. messages' = context' \o results'
        BY <1>9, <2>1, OutcomeAgrees DEF RefuseCall
    <2>3. QED
        BY <1>9, <2>2 DEF RefuseCall
<1>10. CASE FinalizeCall
    <2>1. Head(runnable) \in CallId
        BY <1>10, HeadTailProperties DEF FinalizeCall, TypeInv, TypeOK, Nonempty
    <2>2. messages' = context' \o results'
        BY <1>10, <2>1, OutcomeAgrees DEF FinalizeCall
    <2>3. phase' \in {"run", "prepare", "settle"}
        BY <1>10 DEF FinalizeCall
    <2>4. QED
        BY <2>2, <2>3
<1>11. CASE StartCall \/ ApproveCall \/ LaunchCalls
    BY <1>11 DEF StartCall, ApproveCall, LaunchCalls
<1>12. CASE CloseTurn
    BY <1>12 DEF CloseTurn
<1>13. CASE PollSteering \/ PollFollowUps
    BY <1>13 DEF PollSteering, PollFollowUps
<1>14. CASE RunThrows \/ FinishRun
    BY <1>14 DEF RunThrows, FinishRun
<1>15. CASE ToolStep
    BY <1>15 DEF ToolStep, ToolReturns
<1>16. CASE UNCHANGED vars
    BY <1>16 DEF vars
<1>17. QED
    BY <1>1, <1>2, <1>3, <1>4, <1>5, <1>6, <1>7, <1>8, <1>9, <1>10, <1>11, <1>12,
       <1>13, <1>14, <1>15, <1>16
    DEF Next, Callers, LoopStep

(* Whenever the model is called, the transcript it is sent is the one the  *)
(* Agent holds and its listeners have saved, unless reset() wiped the      *)
(* Agent's copy during the run.                                            *)
THEOREM TranscriptsAgree == Spec => []TranscriptAgrees
<1>1. Init => TypeInv /\ Agreement
    BY InitType DEF Init, Agreement
<1>2. TypeInv /\ Agreement /\ [Next]_vars => (TypeInv /\ Agreement)'
    BY StepType, StepAgreement
<1>3. Agreement => TranscriptAgrees
    BY DEF Agreement, TranscriptAgrees
<1>4. QED
    BY <1>1, <1>2, <1>3, PTL DEF Spec

----------------------------------------------------------------------------
(* The set of running tool calls. *)

Answered     == {CallOf(r) : r \in RangeOf(results)}
StartedCalls == {CallAt(i) : i \in 1 .. started}
AtGate       == IF phase = "gate" THEN {CallAt(started)} ELSE {}

(* PendingCallsExact in these terms. *)
Exact == Active /\ ~wiped => pendingToolCalls = StartedCalls \ Answered

LEMMA ExactMeaning == PendingCallsExact <=> Exact
BY DEF PendingCallsExact, Exact, StartedCalls, Answered

(* During a tool phase every started call is answered, waits to be         *)
(* finalized, or is the one at the gate; in the other phases of a run that *)
(* goes on, and without a run, every started call is answered.             *)
CallsInv ==
    /\ phase \in {"prepare", "gate", "run", "settle"}
          => StartedCalls = Answered \union RangeOf(runnable) \union AtGate
    /\ phase = "settle" => runnable = <<>>
    /\ phase \in {"idle", "start", "firstPoll", "top", "inject", "llm", "streaming",
                  "poll", "followUp"}
          => StartedCalls \subseteq Answered
    /\ phase = "idle" => pendingToolCalls = {}
    /\ Exact

(* The elements of a list, as it grows and as its head is taken. *)
LEMMA RangeAppend ==
    ASSUME NEW S, NEW s \in Seq(S), NEW e \in S
    PROVE  RangeOf(Append(s, e)) = RangeOf(s) \union {e}
<1>1. /\ Append(s, e) \in Seq(S) /\ Len(Append(s, e)) = Len(s) + 1
      /\ \A i \in 1 .. Len(s) : Append(s, e)[i] = s[i]
      /\ Append(s, e)[Len(s) + 1] = e
    BY AppendProperties
<1>2. Len(s) \in Nat
    BY LenProperties
<1>3. 1 .. (Len(s) + 1) = (1 .. Len(s)) \union {Len(s) + 1}
    BY <1>2
<1>4. QED
    BY <1>1, <1>3 DEF RangeOf

LEMMA RangeTail ==
    ASSUME NEW S, NEW s \in Seq(S), s # <<>>
    PROVE  RangeOf(s) = {Head(s)} \union RangeOf(Tail(s))
<1>1. /\ Tail(s) \in Seq(S) /\ Len(Tail(s)) = Len(s) - 1
      /\ \A i \in 1 .. Len(Tail(s)) : Tail(s)[i] = s[i + 1]
    BY HeadTailProperties
<1>2. Len(s) \in Nat \ {0}
    BY EmptySeq
<1>3. Head(s) = s[1]
    BY <1>2
<1>4. RangeOf(Tail(s)) \subseteq RangeOf(s)
    <2>1. \A i \in 1 .. Len(Tail(s)) : i + 1 \in 1 .. Len(s)
        BY <1>1, <1>2
    <2>2. QED
        BY <1>1, <2>1 DEF RangeOf
<1>5. RangeOf(s) \subseteq {Head(s)} \union RangeOf(Tail(s))
    <2>1. \A i \in 1 .. Len(s) : i = 1 \/ i - 1 \in 1 .. Len(Tail(s))
        BY <1>1, <1>2
    <2>2. \A i \in 1 .. Len(s) : i = 1 \/ s[i] = Tail(s)[i - 1]
        BY <1>1, <1>2, <2>1
    <2>3. QED
        BY <1>3, <2>1, <2>2 DEF RangeOf
<1>6. Head(s) \in RangeOf(s)
    BY <1>2, <1>3 DEF RangeOf
<1>7. QED
    BY <1>4, <1>5, <1>6

LEMMA RangeEmpty == RangeOf(<<>>) = {}
BY EmptySeq DEF RangeOf

(* An outcome answers its call and no other. *)
LEMMA OutcomeAnswers ==
    ASSUME TypeInv, NEW c \in CallId, EmitOutcome(c)
    PROVE  Answered' = Answered \union {c}
<1>1. results \in Seq(ToolResult) /\ ResultMessage(c) \in ToolResult
    BY NewMessages DEF TypeInv, TypeOK
<1>2. RangeOf(results') = RangeOf(results) \union {ResultMessage(c)}
    BY <1>1, RangeAppend DEF EmitOutcome
<1>3. CallOf(ResultMessage(c)) = c
    BY DEF CallOf, ResultMessage
<1>4. QED
    BY <1>2, <1>3 DEF Answered

(* A step that touches neither the calls nor the set, and moves between    *)
(* phases with the same claim, keeps the claims.                           *)
Quiet == {"start", "firstPoll", "top", "inject", "llm", "streaming", "poll", "followUp"}

LEMMA CallsUntouched ==
    ASSUME CallsInv,
           UNCHANGED <<replies, started, runnable, results, pendingToolCalls, wiped>>,
           \/ phase' = phase
           \/ phase \in Quiet /\ phase' \in Quiet \union {"ending"}
           \/ phase = "run" /\ phase' = "ending"
    PROVE  CallsInv'
<1>1. /\ Answered' = Answered /\ StartedCalls' = StartedCalls
      /\ RangeOf(runnable)' = RangeOf(runnable)
    BY DEF Answered, StartedCalls, CallAt, RangeOf
<1>2. Exact /\ (Active' => Active) => Exact'
    BY <1>1 DEF Exact
<1>3. phase' = phase => AtGate' = AtGate
    BY DEF AtGate, CallAt
<1>4. Active' => Active
    BY DEF Active, Quiet
<1>5. QED
    BY <1>1, <1>2, <1>3, <1>4 DEF CallsInv, Quiet

(* A run starts with no call started and none running. *)
LEMMA CallsAtStart ==
    ASSUME TypeInv, CallsInv, phase = "idle", phase' \in {"start", "firstPoll"},
           UNCHANGED <<replies, pendingToolCalls, toolVars>>
    PROVE  CallsInv'
<1>1. Answered' = Answered /\ StartedCalls' = StartedCalls
    BY DEF Answered, StartedCalls, CallAt, RangeOf, toolVars
<1>2. StartedCalls \subseteq Answered /\ pendingToolCalls = {}
    BY DEF CallsInv
<1>3. Exact'
    BY <1>1, <1>2 DEF Exact
<1>4. QED
    BY <1>1, <1>2, <1>3 DEF CallsInv

LEMMA StepCalls == TypeInv /\ CallsInv /\ [Next]_vars => CallsInv'
<1> SUFFICES ASSUME TypeInv, CallsInv, [Next]_vars PROVE CallsInv'
    OBVIOUS
<1> USE DEF agentVars, queueVars, configVars, turnVars, historyVars
<1>1. CASE \/ Steer \/ FollowUp \/ ClearSteeringQueue \/ ClearFollowUpQueue \/ Abort
    BY <1>1, CallsUntouched
    DEF Steer, FollowUp, ClearSteeringQueue, ClearFollowUpQueue, Abort, toolVars
<1>2. CASE Reset
    <2>1. /\ Answered' = Answered /\ StartedCalls' = StartedCalls /\ AtGate' = AtGate
          /\ RangeOf(runnable)' = RangeOf(runnable) /\ runnable' = runnable
          /\ phase' = phase /\ pendingToolCalls' = {} /\ (wiped' <=> Active)
        BY <1>2 DEF Reset, Answered, StartedCalls, AtGate, CallAt, RangeOf, toolVars
    <2>2. Exact'
        BY <2>1 DEF Exact, Active
    <2>3. QED
        BY <2>1, <2>2 DEF CallsInv
<1>3. CASE Prompt \/ ContinueWithSteering \/ ContinueWithFollowUps \/ ContinueTranscript
    <2>1. /\ phase = "idle" /\ phase' \in {"start", "firstPoll"}
          /\ UNCHANGED <<replies, pendingToolCalls, toolVars>>
        BY <1>3 DEF Prompt, ContinueWithSteering, ContinueWithFollowUps,
                    ContinueTranscript, StartRun, Active
    <2>2. QED
        BY <2>1, CallsAtStart
<1>4. CASE \/ EmitPrompts \/ FirstPoll \/ NextTurn \/ StopAtCap \/ Inject \/ OpenStream
          \/ PollSteering \/ PollFollowUps \/ RunThrows
    <2>1. UNCHANGED <<replies, started, runnable, results, pendingToolCalls, wiped>>
        BY <1>4 DEF EmitPrompts, FirstPoll, NextTurn, StopAtCap, Inject, OpenStream,
                    PollSteering, PollFollowUps, RunThrows, toolVars
    <2>2. \/ phase \in Quiet /\ phase' \in Quiet \union {"ending"}
          \/ phase = "run" /\ phase' = "ending"
        BY <1>4 DEF EmitPrompts, FirstPoll, NextTurn, StopAtCap, Inject, OpenStream,
                    PollSteering, PollFollowUps, RunThrows, Quiet
    <2>3. QED
        BY <2>1, <2>2, CallsUntouched
<1>5. CASE \E k \in 0 .. MaxCalls, stop \in Stops : Reply(k, stop)
    <2>1. /\ phase = "streaming" /\ started' = 0 /\ runnable' = <<>> /\ results' = <<>>
          /\ UNCHANGED <<pendingToolCalls, wiped>>
        BY <1>5 DEF Reply
    <2>2. phase' \in {"ending", "prepare", "poll"}
        BY <1>5, BoundsAssumption DEF Reply
    <2>3. Answered' = {} /\ StartedCalls' = {} /\ RangeOf(runnable)' = {} /\ AtGate' = {}
        BY <2>1, <2>2, RangeEmpty DEF Answered, StartedCalls, AtGate
    <2>4. ~wiped => pendingToolCalls = {}
        BY <2>1 DEF CallsInv, Exact, Active
    <2>5. Exact'
        BY <2>1, <2>3, <2>4 DEF Exact
    <2>6. QED
        BY <2>2, <2>3, <2>5 DEF CallsInv
<1>6. CASE StartCall
    <2>1. /\ phase = "prepare" /\ phase' = "gate" /\ started' = started + 1
          /\ pendingToolCalls' = pendingToolCalls \union {CallAt(started + 1)}
          /\ UNCHANGED <<replies, runnable, results, wiped>>
        BY <1>6 DEF StartCall
    <2>2. started \in Nat
        BY DEF TypeInv, TypeOK
    <2>3. StartedCalls' = StartedCalls \union {CallAt(started + 1)}
        BY <2>1, <2>2 DEF StartedCalls, CallAt
    <2>4. /\ Answered' = Answered /\ RangeOf(runnable)' = RangeOf(runnable)
          /\ AtGate' = {CallAt(started + 1)} /\ AtGate = {}
        BY <2>1 DEF Answered, RangeOf, AtGate, CallAt
    <2>5. StartedCalls = Answered \union RangeOf(runnable)
        BY <2>1, <2>4 DEF CallsInv
    <2>6. CallAt(started + 1) \notin StartedCalls
        BY <2>2 DEF StartedCalls, CallAt
    <2>7. Exact'
        BY <2>1, <2>3, <2>4, <2>5, <2>6 DEF CallsInv, Exact, Active
    <2>8. QED
        BY <2>1, <2>3, <2>4, <2>5, <2>7 DEF CallsInv
<1>7. CASE RefuseCall
    <2>1. /\ phase = "gate" /\ phase' = "prepare" /\ EmitOutcome(CallAt(started))
          /\ UNCHANGED <<replies, started, runnable, wiped>>
        BY <1>7 DEF RefuseCall
    <2>2. CallAt(started) \in CallId
        BY DEF CallAt, CallId, TypeInv, TypeOK
    <2>3. Answered' = Answered \union {CallAt(started)}
        BY <2>1, <2>2, OutcomeAnswers
    <2>4. /\ StartedCalls' = StartedCalls /\ RangeOf(runnable)' = RangeOf(runnable)
          /\ AtGate' = {} /\ AtGate = {CallAt(started)}
        BY <2>1 DEF StartedCalls, CallAt, RangeOf, AtGate
    <2>5. Exact'
        BY <2>1, <2>3, <2>4 DEF CallsInv, Exact, Active, EmitOutcome
    <2>6. QED
        BY <2>1, <2>3, <2>4, <2>5 DEF CallsInv
<1>8. CASE ApproveCall
    <2>1. /\ phase = "gate" /\ phase' \in {"prepare", "run"}
          /\ runnable' = Append(runnable, CallAt(started))
          /\ UNCHANGED <<replies, started, results, pendingToolCalls, wiped>>
        BY <1>8 DEF ApproveCall
    <2>2. CallAt(started) \in CallId /\ runnable \in Seq(CallId)
        BY DEF CallAt, CallId, TypeInv, TypeOK
    <2>3. RangeOf(runnable') = RangeOf(runnable) \union {CallAt(started)}
        BY <2>1, <2>2, RangeAppend
    <2>4. /\ StartedCalls' = StartedCalls /\ Answered' = Answered
          /\ AtGate' = {} /\ AtGate = {CallAt(started)}
        BY <2>1 DEF StartedCalls, CallAt, Answered, RangeOf, AtGate
    <2>5. Exact'
        BY <2>1, <2>4 DEF CallsInv, Exact, Active
    <2>6. QED
        BY <2>1, <2>3, <2>4, <2>5 DEF CallsInv
<1>9. CASE LaunchCalls \/ CloseTurn
    <2>1. /\ \/ phase = "prepare" /\ phase' = "run"
             \/ phase = "prepare" /\ phase' = "settle" /\ runnable = <<>>
             \/ phase = "settle" /\ phase' = "poll"
          /\ UNCHANGED <<replies, started, runnable, results, pendingToolCalls, wiped>>
        BY <1>9 DEF LaunchCalls, CloseTurn, toolVars
    <2>2. /\ StartedCalls' = StartedCalls /\ Answered' = Answered
          /\ RangeOf(runnable)' = RangeOf(runnable) /\ AtGate' = {} /\ AtGate = {}
        BY <2>1 DEF StartedCalls, CallAt, Answered, RangeOf, AtGate
    <2>3. Exact'
        BY <2>1, <2>2 DEF CallsInv, Exact, Active
    <2>4. phase = "settle" => StartedCalls = Answered
        BY <2>2, RangeEmpty DEF CallsInv
    <2>5. QED
        BY <2>1, <2>2, <2>3, <2>4 DEF CallsInv
<1>10. CASE FinalizeCall
    <2>1. /\ phase = "run" /\ EmitOutcome(Head(runnable)) /\ runnable' = Tail(runnable)
          /\ UNCHANGED <<replies, started, wiped>>
        BY <1>10 DEF FinalizeCall
    <2>2. phase' \in {"run", "prepare", "settle"} /\ (phase' = "settle" => runnable' = <<>>)
        BY <1>10 DEF FinalizeCall
    <2>3. runnable \in Seq(CallId) /\ runnable # <<>>
        BY <2>1 DEF TypeInv, TypeOK, Nonempty
    <2>4. Head(runnable) \in CallId
        BY <2>3, HeadTailProperties
    <2>5. Answered' = Answered \union {Head(runnable)}
        BY <2>1, <2>4, OutcomeAnswers
    <2>6. RangeOf(runnable) = {Head(runnable)} \union RangeOf(runnable')
        BY <2>1, <2>3, RangeTail
    <2>7. StartedCalls' = StartedCalls /\ AtGate' = {} /\ AtGate = {}
        BY <2>1, <2>2 DEF StartedCalls, CallAt, AtGate
    <2>8. Exact'
        BY <2>1, <2>5, <2>7 DEF CallsInv, Exact, Active, EmitOutcome
    <2>9. QED
        BY <2>1, <2>2, <2>5, <2>6, <2>7, <2>8 DEF CallsInv
<1>11. CASE FinishRun
    <2>1. /\ phase' = "idle" /\ pendingToolCalls' = {} /\ started' = 0
        BY <1>11 DEF FinishRun
    <2>2. StartedCalls' = {} /\ Exact'
        BY <2>1 DEF StartedCalls, Exact, Active
    <2>3. QED
        BY <2>1, <2>2 DEF CallsInv
<1>12. CASE ToolStep
    BY <1>12, CallsUntouched DEF ToolStep, ToolReturns
<1>13. CASE UNCHANGED vars
    BY <1>13, CallsUntouched DEF vars, toolVars
<1>14. QED
    BY <1>1, <1>2, <1>3, <1>4, <1>5, <1>6, <1>7, <1>8, <1>9, <1>10, <1>11, <1>12, <1>13
    DEF Next, Callers, LoopStep

LEMMA InitCalls == Init => CallsInv
<1>1. Init => StartedCalls = {}
    BY DEF Init, StartedCalls
<1>2. QED
    BY <1>1 DEF Init, CallsInv, Exact, Active

(* The set of running tool calls that the Agent shows is, in every state   *)
(* of a run that reset() has not wiped, exactly the calls of the turn that *)
(* have started and have no result: no call shows as running for ever, and *)
(* none runs unseen, however calls are refused, ordered, or abandoned.     *)
THEOREM RunningCallsExact == Spec => []PendingCallsExact
<1>1. CallsInv => PendingCallsExact
    BY ExactMeaning DEF CallsInv
<1>2. QED
    BY InitCalls, InitType, StepType, StepCalls, <1>1, PTL DEF Spec

----------------------------------------------------------------------------
(* The conversation the model is sent.                                     *)
(*                                                                         *)
(* In a tool phase the last message of the context is the reply, and the   *)
(* results, the calls left to finalize and the one at the gate are as many *)
(* as the started calls; so when all is settled there is a result for each *)
(* call, and no other.  A call of the run that is executing is one left to *)
(* finalize, unless the run was abandoned.                                 *)

ToolPhases == {"prepare", "gate", "run", "settle"}
ModelPhases == {"inject", "llm", "streaming"}
Over == {"idle", "ending"}

(* Reply n stands in ctx with the results of its calls right behind it. *)
Complete(ctx, n) ==
    \E p \in 1 .. Len(ctx) :
        /\ ctx[p].role = "assistant"
        /\ ctx[p].id = n
        /\ \A i \in 1 .. ctx[p].calls :
              \E q \in p + 1 .. Len(ctx) :
                  /\ q <= p + ctx[p].calls
                  /\ ctx[q] = ResultMessage(<<n, i>>)

TurnsCounted ==
    /\ phase \in {"start", "firstPoll"} => turnCount = 0
    /\ phase \in ModelPhases \union ToolPhases => turnCount > 0

RepliesComplete ==
    phase \notin Over =>
        \A n \in RunReplies :
            (phase \in ToolPhases => n # replies) => Complete(context, n)

CallsCounted ==
    phase \in ToolPhases =>
        /\ context # <<>>
        /\ \E stop \in Stops :
              context[Len(context)] = ReplyMessage(replies, calls, stop)
        /\ Len(results) + Len(runnable) + (IF phase = "gate" THEN 1 ELSE 0) = started
        /\ started <= calls
        /\ phase = "settle" => started = calls

ExecutingKnown ==
    \A c \in executing :
        /\ c[1] <= replies
        /\ phase \notin Over /\ c[1] \in RunReplies
              => phase \in ToolPhases /\ c \in RangeOf(runnable)

TurnInv == TurnsCounted /\ RepliesComplete /\ CallsCounted /\ ExecutingKnown

(* What follows a complete reply does not matter. *)
LEMMA StaysComplete ==
    ASSUME NEW ctx \in Seq(Message), NEW t \in Seq(Message), NEW n, Complete(ctx, n)
    PROVE  Complete(ctx \o t, n)
<1> DEFINE u == ctx \o t
<1>1. /\ Len(u) = Len(ctx) + Len(t)
      /\ \A i \in 1 .. Len(ctx) + Len(t) :
            u[i] = IF i <= Len(ctx) THEN ctx[i] ELSE t[i - Len(ctx)]
    BY ConcatProperties
<1>2. Len(ctx) \in Nat /\ Len(t) \in Nat
    BY LenProperties
<1> HIDE DEF u
<1>3. ASSUME NEW i \in 1 .. Len(ctx)
      PROVE  i \in 1 .. Len(u) /\ u[i] = ctx[i]
    <2>1. i \in 1 .. Len(ctx) + Len(t) /\ i <= Len(ctx)
        BY <1>2
    <2>2. QED
        BY <1>1, <2>1
<1>4. PICK p \in 1 .. Len(ctx) :
          /\ ctx[p].role = "assistant"
          /\ ctx[p].id = n
          /\ \A i \in 1 .. ctx[p].calls :
                \E q \in p + 1 .. Len(ctx) :
                    /\ q <= p + ctx[p].calls
                    /\ ctx[q] = ResultMessage(<<n, i>>)
    BY DEF Complete
<1>5. p \in 1 .. Len(u) /\ u[p] = ctx[p]
    BY <1>3
<1>6. ASSUME NEW i \in 1 .. u[p].calls
      PROVE  \E q \in p + 1 .. Len(u) :
                 q <= p + u[p].calls /\ u[q] = ResultMessage(<<n, i>>)
    <2>1. PICK q \in p + 1 .. Len(ctx) :
              q <= p + ctx[p].calls /\ ctx[q] = ResultMessage(<<n, i>>)
        BY <1>4, <1>5
    <2>2. q \in 1 .. Len(ctx)
        BY <1>2
    <2>3. u[q] = ctx[q] /\ q \in 1 .. Len(u)
        BY <1>3, <2>2
    <2>4. q \in p + 1 .. Len(u)
        BY <1>1, <1>2, <2>3
    <2>5. QED
        BY <1>5, <2>1, <2>3, <2>4
<1>7. Complete(u, n)
    BY <1>4, <1>5, <1>6 DEF Complete
<1>8. QED
    BY <1>7 DEF u

LEMMA StaysCompleteAppend ==
    ASSUME NEW ctx \in Seq(Message), NEW m \in Message, NEW n, Complete(ctx, n)
    PROVE  Complete(Append(ctx, m), n)
<1>1. Append(ctx, m) = ctx \o <<m>> /\ <<m>> \in Seq(Message)
    BY AppendIsConcat
<1>2. QED
    BY <1>1, StaysComplete

(* The replies of a run begin with the same one as long as it lasts. *)
LEMMA SameReplies ==
    ASSUME UNCHANGED <<replies, turnCount>>,
           phase' \in ModelPhases <=> phase \in ModelPhases
    PROVE  RunReplies' = RunReplies
BY DEF RunReplies, ModelPhases

(* A step that only moves on, or in which a tool returns. *)
LEMMA TurnQuiet ==
    ASSUME TurnInv,
           UNCHANGED <<context, replies, calls, started, runnable, results, turnCount>>,
           executing' \subseteq executing,
           \/ phase' = phase
           \/ phase' \in Over
           \/ phase = "start" /\ phase' = "firstPoll"
           \/ phase \in {"firstPoll", "poll", "followUp"} /\ phase' \in {"top", "followUp"}
           \/ phase = "llm" /\ phase' = "streaming"
    PROVE  TurnInv'
<1>1. RangeOf(runnable)' = RangeOf(runnable)
    BY DEF RangeOf
<1>2. phase' \notin Over => RunReplies' = RunReplies
    BY SameReplies DEF ModelPhases, Over
<1>3. TurnsCounted'
    BY DEF TurnInv, TurnsCounted, ModelPhases, ToolPhases, Over
<1>4. RepliesComplete'
    BY <1>2 DEF TurnInv, RepliesComplete, ToolPhases, Over
<1>5. CallsCounted'
    BY DEF TurnInv, CallsCounted, ToolPhases, Over
<1>6. ExecutingKnown'
    BY <1>1, <1>2 DEF TurnInv, ExecutingKnown, ToolPhases, Over
<1>7. QED
    BY <1>3, <1>4, <1>5, <1>6 DEF TurnInv

(* A step of a tool phase to another leaves the context alone, so the      *)
(* counts and the executing calls are what has to be looked at.            *)
LEMMA ToolMove ==
    ASSUME TurnInv, phase \in ToolPhases, phase' \in ToolPhases,
           UNCHANGED <<context, replies, calls, turnCount>>,
           /\ Len(results') + Len(runnable') + (IF phase' = "gate" THEN 1 ELSE 0)
                  = started'
           /\ started' <= calls
           /\ phase' = "settle" => started' = calls,
           \A c \in executing' :
               /\ c[1] <= replies
               /\ c \in executing /\ c \in RangeOf(runnable) => c \in RangeOf(runnable')
               /\ c \notin executing => c \in RangeOf(runnable')
    PROVE  TurnInv'
<1>1. RunReplies' = RunReplies
    BY SameReplies DEF ModelPhases, ToolPhases
<1>2. phase \notin Over /\ phase' \notin Over
    BY DEF ToolPhases, Over
<1>3. TurnsCounted'
    BY DEF TurnInv, TurnsCounted, ModelPhases, ToolPhases
<1>4. RepliesComplete'
    BY <1>1, <1>2 DEF TurnInv, RepliesComplete
<1>5. CallsCounted'
    BY DEF TurnInv, CallsCounted
<1>6. ExecutingKnown'
    <2>1. ASSUME NEW c \in executing', c[1] \in RunReplies'
          PROVE  c \in RangeOf(runnable')
        <3>1. CASE c \in executing
            BY <1>1, <1>2, <2>1, <3>1 DEF TurnInv, ExecutingKnown
        <3>2. CASE c \notin executing
            BY <3>2
        <3>3. QED
            BY <3>1, <3>2
    <2>2. QED
        BY <2>1 DEF ExecutingKnown
<1>7. QED
    BY <1>3, <1>4, <1>5, <1>6 DEF TurnInv

LEMMA StepTurn == TypeInv /\ CallsInv /\ TurnInv /\ [Next]_vars => TurnInv'
<1> SUFFICES ASSUME TypeInv, CallsInv, TurnInv, [Next]_vars PROVE TurnInv'
    OBVIOUS
<1> USE DEF agentVars, queueVars, configVars, turnVars, historyVars
<1>t. /\ replies \in Nat /\ turnCount \in Nat /\ calls \in Nat /\ started \in Nat
      /\ context \in Seq(Message) /\ results \in Seq(ToolResult)
      /\ runnable \in Seq(CallId) /\ pending \in Seq(UserMessage)
      /\ Len(results) \in Nat /\ Len(runnable) \in Nat
    BY LenProperties DEF TypeInv, TypeOK
<1>1. CASE \/ Steer \/ FollowUp \/ ClearSteeringQueue \/ ClearFollowUpQueue \/ Abort
           \/ Reset
    BY <1>1, TurnQuiet
    DEF Steer, FollowUp, ClearSteeringQueue, ClearFollowUpQueue, Abort, Reset, toolVars
<1>2. CASE Prompt \/ ContinueWithSteering \/ ContinueWithFollowUps \/ ContinueTranscript
    <2>1. /\ phase = "idle" /\ phase' \in {"start", "firstPoll"} /\ turnCount' = 0
          /\ UNCHANGED <<replies, executing>>
        BY <1>2 DEF Prompt, ContinueWithSteering, ContinueWithFollowUps,
                    ContinueTranscript, StartRun, Active, toolVars
    <2>2. RunReplies' = {}
        BY <1>t, <2>1 DEF RunReplies
    <2>3. QED
        BY <2>1, <2>2 DEF TurnInv, TurnsCounted, RepliesComplete, CallsCounted,
                          ExecutingKnown, ModelPhases, ToolPhases
<1>3. CASE \/ EmitPrompts \/ FirstPoll \/ StopAtCap \/ OpenStream
           \/ PollSteering \/ PollFollowUps \/ RunThrows
    <2>1. UNCHANGED <<context, replies, calls, started, runnable, results, turnCount,
                      executing>>
        BY <1>3 DEF EmitPrompts, FirstPoll, StopAtCap, OpenStream, PollSteering,
                    PollFollowUps, RunThrows, toolVars
    <2>2. \/ phase' \in Over
          \/ phase = "start" /\ phase' = "firstPoll"
          \/ phase \in {"firstPoll", "poll", "followUp"} /\ phase' \in {"top", "followUp"}
          \/ phase = "llm" /\ phase' = "streaming"
        BY <1>3 DEF EmitPrompts, FirstPoll, StopAtCap, OpenStream, PollSteering,
                    PollFollowUps, RunThrows, Over
    <2>3. QED
        BY <2>1, <2>2, TurnQuiet
<1>4. CASE NextTurn
    <2>1. /\ phase = "top" /\ phase' \in {"llm", "inject"} /\ turnCount' = turnCount + 1
          /\ UNCHANGED <<context, replies, executing>>
        BY <1>4 DEF NextTurn, toolVars
    <2>2. RunReplies' = RunReplies
        <3>1. replies + 1 + 1 - (turnCount + 1) = replies + 1 + 0 - turnCount
            BY <1>t
        <3>2. QED
            BY <2>1, <3>1 DEF RunReplies
    <2>3. turnCount' > 0
        BY <1>t, <2>1
    <2>4. RepliesComplete' /\ ExecutingKnown'
        BY <2>1, <2>2 DEF TurnInv, RepliesComplete, ExecutingKnown, Over, ToolPhases
    <2>5. TurnsCounted' /\ CallsCounted'
        BY <2>1, <2>3 DEF TurnsCounted, CallsCounted, ToolPhases
    <2>6. QED
        BY <2>4, <2>5 DEF TurnInv
<1>5. CASE Inject
    <2>1. /\ phase = "inject" /\ phase' \in {"llm", "inject"}
          /\ context' = Append(context, Head(pending))
          /\ UNCHANGED <<replies, turnCount, executing>>
        BY <1>5 DEF Inject, toolVars
    <2>2. RunReplies' = RunReplies
        BY <2>1, SameReplies DEF ModelPhases
    <2>3. Head(pending) \in Message
        BY <1>t, <2>1, HeadTailProperties DEF TypeInv, Nonempty, Message
    <2>4. \A n \in RunReplies : Complete(context', n)
        <3>1. \A n \in RunReplies : Complete(context, n)
            BY <2>1 DEF TurnInv, RepliesComplete, Over, ToolPhases
        <3>2. QED
            BY <1>t, <2>1, <2>3, <3>1, StaysCompleteAppend
    <2>5. QED
        BY <2>1, <2>2, <2>4 DEF TurnInv, TurnsCounted, RepliesComplete, CallsCounted,
           ExecutingKnown, ModelPhases, ToolPhases, Over
<1>6. ASSUME NEW k \in 0 .. MaxCalls, NEW stop \in Stops, Reply(k, stop)
      PROVE  TurnInv'
    <2> DEFINE m == ReplyMessage(replies + 1, k, stop)
    <2>1. /\ phase = "streaming" /\ replies' = replies + 1 /\ calls' = k
          /\ context' = Append(context, m)
          /\ started' = 0 /\ runnable' = <<>> /\ results' = <<>>
          /\ UNCHANGED <<turnCount, executing>>
          /\ phase' = CASE Failed(stop) -> "ending"
                        [] ~Failed(stop) /\ k > 0 -> "prepare"
                        [] OTHER -> "poll"
        BY <1>6 DEF Reply
    <2>2. /\ k \in Nat
          /\ phase' \in {"ending", "prepare", "poll"}
          /\ phase' = "poll" => k = 0
        BY <2>1, BoundsAssumption
    <2>3. /\ m \in Message /\ m.role = "assistant" /\ m.id = replies + 1
          /\ m.calls = k
        BY <1>t, <2>2, NewMessages DEF ReplyMessage
    <2> HIDE DEF m
    <2>4. /\ context' \in Seq(Message) /\ Len(context') = Len(context) + 1
          /\ context'[Len(context) + 1] = m
        BY <1>t, <2>1, <2>3, AppendProperties
    <2>5. Len(context) \in Nat
        BY <1>t, LenProperties
    <2>6. CASE phase' = "ending"
        <3>1. \A c \in executing : c[1] <= replies + 1
            <4>1. \A c \in executing : c[1] \in Nat
                BY DEF TypeInv, TypeOK, CallId
            <4>2. QED
                BY <1>t, <4>1 DEF TurnInv, ExecutingKnown
        <3>2. QED
            BY <2>1, <2>6, <3>1 DEF TurnInv, TurnsCounted, RepliesComplete,
               CallsCounted, ExecutingKnown, ModelPhases, ToolPhases, Over
    <2>7. CASE phase' \in {"prepare", "poll"}
        <3>1. turnCount > 0
            BY <2>1 DEF TurnInv, TurnsCounted, ModelPhases
        <3>2. RunReplies' = RunReplies \union {replies + 1}
            <4>1. /\ RunReplies = (replies + 1 + 1 - turnCount) .. replies
                  /\ RunReplies' = (replies + 1 + 1 + 0 - turnCount) .. (replies + 1)
                BY <2>1, <2>7 DEF RunReplies
            <4>2. QED
                BY <1>t, <3>1, <4>1
        <3>3. \A n \in RunReplies : Complete(context', n)
            <4>1. \A n \in RunReplies : Complete(context, n)
                BY <2>1 DEF TurnInv, RepliesComplete, Over, ToolPhases
            <4>2. QED
                BY <1>t, <2>1, <2>3, <4>1, StaysCompleteAppend
        <3>4. phase' = "poll" => Complete(context', replies + 1)
            <4>1. Len(context) + 1 \in 1 .. Len(context')
                BY <2>4, <2>5
            <4>2. k = 0 => \A i \in 1 .. k : FALSE
                OBVIOUS
            <4>3. QED
                BY <2>2, <2>3, <2>4, <4>1, <4>2 DEF Complete
        <3>5. RepliesComplete'
            BY <2>1, <2>7, <3>2, <3>3, <3>4 DEF RepliesComplete, ToolPhases
        <3>6. TurnsCounted'
            BY <2>1, <2>7, <3>1 DEF TurnsCounted, ModelPhases, ToolPhases
        <3>7. CallsCounted'
            <4>1. Len(results') + Len(runnable') + 0 = started' /\ started' <= calls'
                BY <2>1, <2>2, EmptySeq
            <4>2. context' # <<>>
                BY <2>4, <2>5, EmptySeq
            <4>3. context'[Len(context')] = ReplyMessage(replies', calls', stop)
                BY <2>1, <2>4 DEF m
            <4>4. QED
                BY <2>7, <4>1, <4>2, <4>3 DEF CallsCounted, ToolPhases
        <3>8. ExecutingKnown'
            <4> SUFFICES ASSUME NEW c \in executing
                         PROVE  c[1] <= replies + 1 /\ c[1] \notin RunReplies'
                BY <2>1 DEF ExecutingKnown
            <4>1. c[1] \in Nat /\ c[1] <= replies
                BY DEF TurnInv, ExecutingKnown, TypeInv, TypeOK, CallId
            <4>2. c[1] \notin RunReplies
                BY <2>1 DEF TurnInv, ExecutingKnown, ToolPhases, Over
            <4>3. QED
                BY <1>t, <3>2, <4>1, <4>2
        <3>9. QED
            BY <3>5, <3>6, <3>7, <3>8 DEF TurnInv
    <2>8. QED
        BY <2>2, <2>6, <2>7
<1>r. ASSUME phase \in ToolPhases, NEW c \in RangeOf(runnable)
      PROVE  c[1] = replies
    BY <1>r DEF CallsInv, StartedCalls, CallAt, ToolPhases
<1>e. \A c \in executing : c[1] <= replies
    BY DEF TurnInv, ExecutingKnown
<1>g. CallAt(started) \in CallId /\ CallAt(started)[1] = replies
    BY <1>t DEF CallAt, CallId
<1>7. CASE StartCall
    <2>1. /\ phase = "prepare" /\ phase' = "gate" /\ started < calls
          /\ started' = started + 1
          /\ UNCHANGED <<context, replies, calls, turnCount, runnable, results, executing>>
        BY <1>7 DEF StartCall
    <2>2. Len(results) + Len(runnable) + 0 = started
        BY <2>1 DEF TurnInv, CallsCounted, ToolPhases
    <2>3. Len(results') + Len(runnable') + 1 = started' /\ started' <= calls
      <3>1. Len(results') = Len(results) /\ Len(runnable') = Len(runnable)
          BY <2>1
      <3>2. started < calls /\ started' = started + 1
          BY <2>1
      <3>3. Len(results) + Len(runnable) = started
          BY <1>t, <2>2
      <3>4. Len(results) + Len(runnable) + 1 = started + 1
          BY <3>3
      <3>5. started + 1 <= calls
          BY <1>t, <3>2
      <3>6. QED
          BY <3>1, <3>2, <3>4, <3>5
    <2>4. QED
        BY <1>e, <2>1, <2>3, ToolMove DEF ToolPhases
<1>8. CASE RefuseCall
    <2>1. /\ phase = "gate" /\ phase' = "prepare"
          /\ results' = Append(results, ResultMessage(CallAt(started)))
          /\ UNCHANGED <<context, replies, calls, turnCount, runnable, started, executing>>
        BY <1>8 DEF RefuseCall, EmitOutcome
    <2>2. Len(results) + Len(runnable) + 1 = started /\ started <= calls
        BY <2>1 DEF TurnInv, CallsCounted, ToolPhases
    <2>3. Len(results') = Len(results) + 1
        BY <1>t, <1>g, <2>1, NewMessages, AppendProperties
    <2>4. Len(results') + Len(runnable') + 0 = started'
        BY <1>t, <2>1, <2>2, <2>3
    <2>5. QED
        BY <1>e, <2>1, <2>2, <2>4, ToolMove DEF ToolPhases
<1>9. CASE ApproveCall
    <2>1. /\ phase = "gate" /\ phase' \in {"prepare", "run"}
          /\ runnable' = Append(runnable, CallAt(started))
          /\ executing' \subseteq executing \union {CallAt(started)}
          /\ UNCHANGED <<context, replies, calls, turnCount, results, started>>
        BY <1>9 DEF ApproveCall
    <2>2. Len(results) + Len(runnable) + 1 = started /\ started <= calls
        BY <2>1 DEF TurnInv, CallsCounted, ToolPhases
    <2>3. /\ Len(runnable') = Len(runnable) + 1
          /\ RangeOf(runnable') = RangeOf(runnable) \union {CallAt(started)}
        BY <1>t, <1>g, <2>1, AppendProperties, RangeAppend
    <2>4. Len(results') + Len(runnable') + 0 = started'
        BY <1>t, <2>1, <2>2, <2>3
    <2>5. \A c \in executing' :
              /\ c[1] <= replies
              /\ c \in executing /\ c \in RangeOf(runnable) => c \in RangeOf(runnable')
              /\ c \notin executing => c \in RangeOf(runnable')
        BY <1>e, <1>g, <1>t, <2>1, <2>3
    <2>6. QED
        BY <2>1, <2>2, <2>4, <2>5, ToolMove DEF ToolPhases
<1>10. CASE LaunchCalls
    <2>1. /\ phase = "prepare" /\ phase' \in {"run", "settle"} /\ started = calls
          /\ executing' = executing \union RangeOf(runnable)
          /\ UNCHANGED <<context, replies, calls, turnCount, results, started, runnable>>
        BY <1>10 DEF LaunchCalls
    <2>2. Len(results') + Len(runnable') + 0 = started'
        BY <2>1 DEF TurnInv, CallsCounted, ToolPhases
    <2>3. \A c \in executing' :
              /\ c[1] <= replies
              /\ c \in executing /\ c \in RangeOf(runnable) => c \in RangeOf(runnable')
              /\ c \notin executing => c \in RangeOf(runnable')
      <3>1. \A c \in RangeOf(runnable) : c[1] = replies
          BY <1>r, <2>1 DEF ToolPhases
      <3>2. QED
          BY <1>e, <1>t, <2>1, <3>1
    <2>4. started' <= calls
        BY <1>t, <2>1
    <2>5. QED
        BY <2>1, <2>2, <2>3, <2>4, ToolMove DEF ToolPhases
<1>11. CASE FinalizeCall
    <2>1. /\ phase = "run" /\ Head(runnable) \notin executing
          /\ results' = Append(results, ResultMessage(Head(runnable)))
          /\ runnable' = Tail(runnable)
          /\ phase' = IF Tail(runnable) # <<>> THEN "run"
                      ELSE IF started < calls THEN "prepare" ELSE "settle"
          /\ UNCHANGED <<context, replies, calls, turnCount, started, executing>>
        BY <1>11 DEF FinalizeCall, EmitOutcome
    <2>2. runnable # <<>> /\ Head(runnable) \in CallId
        BY <1>t, <2>1, HeadTailProperties DEF TypeInv, Nonempty
    <2>3. Len(results) + Len(runnable) + 0 = started /\ started <= calls
        BY <2>1 DEF TurnInv, CallsCounted, ToolPhases
    <2>4. /\ Len(results') = Len(results) + 1
          /\ Len(runnable') = Len(runnable) - 1
          /\ RangeOf(runnable) = {Head(runnable)} \union RangeOf(runnable')
        BY <1>t, <2>1, <2>2, NewMessages, AppendProperties, HeadTailProperties, RangeTail
    <2>5. Len(results') + Len(runnable') + 0 = started'
      <3>1. started' = started
          BY <2>1
      <3>2. (Len(results) + 1) + (Len(runnable) - 1) + 0 = Len(results) + Len(runnable)
          BY <1>t
      <3>3. Len(results) + Len(runnable) = started
          BY <1>t, <2>3
      <3>4. QED
          BY <2>4, <3>1, <3>2, <3>3
    <2>6. phase' = "settle" => started' = calls
        BY <1>t, <2>1, <2>3
    <2>7. \A c \in executing' :
              /\ c[1] <= replies
              /\ c \in executing /\ c \in RangeOf(runnable) => c \in RangeOf(runnable')
              /\ c \notin executing => c \in RangeOf(runnable')
        BY <1>e, <2>1, <2>4
    <2>8. QED
        BY <2>1, <2>3, <2>5, <2>6, <2>7, ToolMove DEF ToolPhases
<1>12. CASE CloseTurn
    <2>1. /\ phase = "settle" /\ phase' = "poll"
          /\ context' = context \o results
          /\ UNCHANGED <<replies, calls, turnCount, results, started, runnable, executing>>
        BY <1>12 DEF CloseTurn, toolVars
    <2>2. runnable = <<>> /\ RangeOf(runnable) = {}
        BY <2>1, RangeEmpty DEF CallsInv
    <2>3. Len(results) = calls /\ started = calls
      <3>1. Len(results) + Len(runnable) + 0 = started /\ started = calls
          BY <2>1 DEF TurnInv, CallsCounted, ToolPhases
      <3>2. QED
          BY <1>t, <2>2, <3>1, EmptySeq
    <2>4. PICK stop \in Stops : context[Len(context)] = ReplyMessage(replies, calls, stop)
        BY <2>1 DEF TurnInv, CallsCounted, ToolPhases
    <2>5. Len(context) \in Nat \ {0}
        BY <1>t, <2>1, EmptySeq DEF TurnInv, CallsCounted, ToolPhases
    <2>6. results \in Seq(Message)
        BY <1>t, SubMessages
    <2>7. /\ Len(context') = Len(context) + Len(results)
          /\ \A i \in 1 .. Len(context) + Len(results) :
                context'[i] = IF i <= Len(context) THEN context[i]
                              ELSE results[i - Len(context)]
        BY <1>t, <2>1, <2>6, ConcatProperties
    <2>8. Complete(context', replies)
      <3> DEFINE p == Len(context)
      <3>1. p \in 1 .. Len(context') /\ context'[p] = context[p]
          BY <1>t, <2>5, <2>7
      <3>2. /\ context'[p].role = "assistant" /\ context'[p].id = replies
            /\ context'[p].calls = calls
          BY <2>4, <3>1 DEF ReplyMessage
      <3>3. ASSUME NEW i \in 1 .. calls
            PROVE  \E q \in p + 1 .. Len(context') :
                      q <= p + calls /\ context'[q] = ResultMessage(<<replies, i>>)
        <4>1. CallAt(i) \in StartedCalls
            BY <2>3 DEF StartedCalls
        <4>2. CallAt(i) \in Answered
            BY <2>1, <2>2, <4>1 DEF CallsInv, AtGate
        <4>3. PICK j \in 1 .. Len(results) : results[j].call = CallAt(i)
            BY <4>2 DEF Answered, CallOf, RangeOf
        <4>4. results[j] = ResultMessage(<<replies, i>>)
          <5>1. results[j] \in ToolResult
              BY <1>t, ElementOfSeq
          <5>2. QED
              BY <4>3, <5>1 DEF ToolResult, ResultMessage, CallAt
        <4>5. /\ p + j \in 1 .. Len(context) + Len(results) /\ ~(p + j <= Len(context))
              /\ (p + j) - Len(context) = j
              /\ p + j \in p + 1 .. Len(context) + Len(results)
              /\ p + j <= p + calls
            BY <1>t, <2>3, <2>5
        <4>6. context'[p + j] = results[j]
            BY <2>7, <4>5
        <4>7. QED
            BY <2>7, <4>4, <4>5, <4>6
      <3> HIDE DEF p
      <3>4. QED
          BY <3>1, <3>2, <3>3 DEF Complete
    <2>9. RunReplies' = RunReplies
        BY <2>1, SameReplies DEF ModelPhases
    <2>10. RepliesComplete'
      <3>1. \A n \in RunReplies : n # replies => Complete(context, n)
          BY <2>1 DEF TurnInv, RepliesComplete, Over
      <3>2. \A n \in RunReplies : n # replies => Complete(context', n)
          BY <1>t, <2>1, <2>6, <3>1, StaysComplete
      <3>3. QED
          BY <2>8, <2>9, <3>2 DEF RepliesComplete
    <2>11. ExecutingKnown'
        BY <2>1, <2>2, <2>9 DEF TurnInv, ExecutingKnown, Over
    <2>12. QED
        BY <2>1, <2>10, <2>11 DEF TurnInv, TurnsCounted, CallsCounted, ModelPhases,
           ToolPhases
<1>13. CASE FinishRun
    <2>1. phase' = "idle" /\ UNCHANGED <<replies, executing>>
        BY <1>13 DEF FinishRun
    <2>2. QED
        BY <2>1 DEF TurnInv, TurnsCounted, RepliesComplete, CallsCounted,
                    ExecutingKnown, ModelPhases, ToolPhases, Over
<1>14. CASE ToolStep
    BY <1>14, TurnQuiet DEF ToolStep, ToolReturns
<1>15. CASE UNCHANGED vars
    BY <1>15, TurnQuiet DEF vars, toolVars
<1>16. QED
    BY <1>1, <1>2, <1>3, <1>4, <1>5, <1>6, <1>7, <1>8, <1>9, <1>10, <1>11, <1>12, <1>13,
       <1>14, <1>15
    DEF Next, Callers, LoopStep

(* Whatever is refused, run in parallel, aborted, thrown, queued or reset, *)
(* the model is sent a conversation in which each reply of the run has one *)
(* result for each of its calls right behind it, and none of these calls   *)
(* is still executing (agent-loop.ts, runLoop and executeToolCalls).       *)
THEOREM ConversationComplete == Spec => []CallsAnswered
<1>1. Init => TurnInv
    BY DEF Init, TurnInv, TurnsCounted, RepliesComplete, CallsCounted, ExecutingKnown,
           ModelPhases, ToolPhases, Over
<1>2. TurnInv => CallsAnswered
    BY DEF TurnInv, RepliesComplete, ExecutingKnown, CallsAnswered, Complete, Over,
           ToolPhases
<1>3. QED
    BY InitType, InitCalls, StepType, StepCalls, StepTurn, <1>1, <1>2, PTL DEF Spec

----------------------------------------------------------------------------
(* The refinement of AgentRun: each step is a step of it or changes none   *)
(* of its variables.  A call that is answered was owed, since no call is   *)
(* both answered and left to finalize, nor left twice.                     *)

TurnCalls  == {CallAt(i) : i \in 1 .. calls}
Unanswered == TurnCalls \ Answered

CallsDistinct ==
    phase \in ToolPhases =>
        /\ Answered \intersect RangeOf(runnable) = {}
        /\ \A i, j \in 1 .. Len(runnable) : runnable[i] = runnable[j] => i = j
        /\ phase = "gate" => CallAt(started) \notin Answered \union RangeOf(runnable)

NothingOwed == phase \in Quiet \union {"idle"} => Unanswered = {}

OwedInv == CallsDistinct /\ NothingOwed

(* What the mapping shows as AgentRun's status. *)
Status ==
    CASE phase \in {"idle", "start"} -> "idle"
      [] phase = "ending" -> "over"
      [] OTHER -> "running"

(* A list without doubles, as it grows and as its head is taken. *)
LEMMA DistinctAppend ==
    ASSUME NEW S, NEW s \in Seq(S), NEW e \in S, e \notin RangeOf(s),
           \A i, j \in 1 .. Len(s) : s[i] = s[j] => i = j
    PROVE  LET t == Append(s, e)
           IN  \A i, j \in 1 .. Len(t) : t[i] = t[j] => i = j
<1> DEFINE t == Append(s, e)
<1>1. /\ Len(t) = Len(s) + 1 /\ t[Len(s) + 1] = e
      /\ \A i \in 1 .. Len(s) : t[i] = s[i]
    BY AppendProperties
<1>2. Len(s) \in Nat
    BY LenProperties
<1> HIDE DEF t
<1>3. \A i \in 1 .. Len(t) : i \in 1 .. Len(s) \/ i = Len(s) + 1
    BY <1>1, <1>2
<1>4. \A i \in 1 .. Len(s) : t[i] # e
    BY <1>1 DEF RangeOf
<1>5. \A i, j \in 1 .. Len(t) : t[i] = t[j] => i = j
    BY <1>1, <1>3, <1>4
<1>6. QED
    BY <1>5 DEF t

LEMMA DistinctTail ==
    ASSUME NEW S, NEW s \in Seq(S), s # <<>>,
           \A i, j \in 1 .. Len(s) : s[i] = s[j] => i = j
    PROVE  /\ Head(s) \notin RangeOf(Tail(s))
           /\ \A i, j \in 1 .. Len(Tail(s)) : Tail(s)[i] = Tail(s)[j] => i = j
<1> DEFINE t == Tail(s)
<1>1. /\ Len(t) = Len(s) - 1
      /\ \A i \in 1 .. Len(t) : t[i] = s[i + 1]
    BY HeadTailProperties
<1>2. Len(s) \in Nat \ {0} /\ Head(s) = s[1]
    BY EmptySeq
<1> HIDE DEF t
<1>3. \A i \in 1 .. Len(t) : i + 1 \in 1 .. Len(s) /\ i + 1 # 1
    BY <1>1, <1>2
<1>4. 1 \in 1 .. Len(s)
    BY <1>2
<1>5. \A i \in 1 .. Len(t) : t[i] # Head(s)
    BY <1>1, <1>2, <1>3, <1>4
<1>6. ASSUME NEW i \in 1 .. Len(t), NEW j \in 1 .. Len(t), t[i] = t[j]
      PROVE  i = j
    <2>1. i + 1 = j + 1
        BY <1>1, <1>3, <1>6
    <2>2. QED
        BY <2>1
<1>7. QED
    BY <1>5, <1>6 DEF t, RangeOf

LEMMA OwedQuiet ==
    ASSUME OwedInv,
           UNCHANGED <<replies, calls, started, runnable, results>>,
           \/ phase' = phase
           \/ phase' \in Quiet /\ phase \in Quiet \union {"idle"}
           \/ phase' = "ending"
           \/ phase \in ToolPhases /\ phase' \in ToolPhases \ {"gate"}
    PROVE  OwedInv' /\ Unanswered' = Unanswered
<1>1. /\ Answered' = Answered /\ RangeOf(runnable)' = RangeOf(runnable)
      /\ TurnCalls' = TurnCalls /\ CallAt(started)' = CallAt(started)
    BY DEF Answered, RangeOf, TurnCalls, CallAt
<1>2. Unanswered' = Unanswered
    BY <1>1 DEF Unanswered
<1>3. CallsDistinct'
    BY <1>1 DEF OwedInv, CallsDistinct, ToolPhases, Quiet
<1>4. NothingOwed'
    BY <1>2 DEF OwedInv, NothingOwed, ToolPhases, Quiet
<1>5. QED
    BY <1>2, <1>3, <1>4 DEF OwedInv

(* An outcome answers a call that was owed. *)
LEMMA OwedOutcome ==
    ASSUME TypeInv, CallsInv, TurnInv, OwedInv, RefuseCall \/ FinalizeCall
    PROVE  /\ OwedInv'
           /\ \E c \in Unanswered :
                 /\ messages' = Append(messages, ResultMessage(c))
                 /\ Unanswered' = Unanswered \ {c}
           /\ phase \in ToolPhases /\ phase' \in ToolPhases
<1>t. /\ started \in Nat /\ calls \in Nat /\ runnable \in Seq(CallId)
    BY DEF TypeInv, TypeOK
<1>s. phase \in ToolPhases =>
          /\ started <= calls
          /\ StartedCalls = Answered \union RangeOf(runnable) \union AtGate
    BY DEF TurnInv, CallsCounted, CallsInv, ToolPhases
<1>u. started <= calls => StartedCalls \subseteq TurnCalls
    BY <1>t DEF StartedCalls, TurnCalls
<1>1. CASE RefuseCall
    <2> DEFINE c == CallAt(started)
    <2>1. /\ phase = "gate" /\ phase' = "prepare" /\ EmitOutcome(c)
          /\ UNCHANGED <<replies, calls, started, runnable>>
        BY <1>1 DEF RefuseCall, historyVars
    <2>2. c \in CallId
        BY DEF CallAt, CallId, TypeInv, TypeOK
    <2>3. c \notin Answered \union RangeOf(runnable)
        BY <2>1 DEF OwedInv, CallsDistinct, ToolPhases
    <2>4. c \in TurnCalls
        BY <1>s, <1>u, <2>1 DEF AtGate, ToolPhases
    <2>5. Answered' = Answered \union {c}
        BY <2>1, <2>2, OutcomeAnswers
    <2>6. TurnCalls' = TurnCalls /\ RangeOf(runnable)' = RangeOf(runnable)
        BY <2>1 DEF TurnCalls, CallAt, RangeOf
    <2> HIDE DEF c
    <2>7. OwedInv'
        BY <2>1, <2>3, <2>5, <2>6 DEF OwedInv, CallsDistinct, NothingOwed, ToolPhases,
           Quiet
    <2>8. c \in Unanswered /\ Unanswered' = Unanswered \ {c}
        BY <2>3, <2>4, <2>5, <2>6 DEF Unanswered
    <2>9. messages' = Append(messages, ResultMessage(c))
        BY <2>1 DEF EmitOutcome
    <2>10. QED
        BY <2>1, <2>7, <2>8, <2>9 DEF ToolPhases
<1>2. CASE FinalizeCall
    <2> DEFINE c == Head(runnable)
    <2>1. /\ phase = "run" /\ EmitOutcome(c) /\ runnable' = Tail(runnable)
          /\ phase' \in {"run", "prepare", "settle"}
          /\ UNCHANGED <<replies, calls, started>>
        BY <1>2 DEF FinalizeCall, historyVars
    <2>2. runnable # <<>> /\ c \in CallId
        BY <1>t, <2>1, HeadTailProperties DEF TypeInv, Nonempty
    <2>3. RangeOf(runnable) = {c} \union RangeOf(runnable')
        BY <1>t, <2>1, <2>2, RangeTail
    <2>4. /\ Answered \intersect RangeOf(runnable) = {}
          /\ \A i, j \in 1 .. Len(runnable) : runnable[i] = runnable[j] => i = j
        BY <2>1 DEF OwedInv, CallsDistinct, ToolPhases
    <2>5. /\ c \notin RangeOf(runnable')
          /\ \A i, j \in 1 .. Len(runnable') : runnable'[i] = runnable'[j] => i = j
        BY <1>t, <2>1, <2>2, <2>4, DistinctTail
    <2>6. Answered' = Answered \union {c}
        BY <2>1, <2>2, OutcomeAnswers
    <2>7. TurnCalls' = TurnCalls
        BY <2>1 DEF TurnCalls, CallAt
    <2>8. c \in TurnCalls
        BY <1>s, <1>u, <2>1, <2>3 DEF ToolPhases
    <2> HIDE DEF c
    <2>9. OwedInv'
        BY <2>1, <2>3, <2>4, <2>5, <2>6 DEF OwedInv, CallsDistinct, NothingOwed,
           ToolPhases, Quiet
    <2>10. c \in Unanswered /\ Unanswered' = Unanswered \ {c}
        BY <2>3, <2>4, <2>6, <2>7, <2>8 DEF Unanswered
    <2>11. messages' = Append(messages, ResultMessage(c))
        BY <2>1 DEF EmitOutcome
    <2>12. QED
        BY <2>1, <2>9, <2>10, <2>11 DEF ToolPhases
<1>3. QED
    BY <1>1, <1>2

LEMMA StepOwed ==
    TypeInv /\ CallsInv /\ TurnInv /\ OwedInv /\ [Next]_vars => OwedInv'
<1> SUFFICES ASSUME TypeInv, CallsInv, TurnInv, OwedInv, [Next]_vars PROVE OwedInv'
    OBVIOUS
<1> USE DEF agentVars, queueVars, configVars, turnVars, historyVars
<1>1. CASE \/ Steer \/ FollowUp \/ ClearSteeringQueue \/ ClearFollowUpQueue \/ Abort
           \/ Reset \/ ToolStep \/ UNCHANGED vars
    BY <1>1, OwedQuiet
    DEF Steer, FollowUp, ClearSteeringQueue, ClearFollowUpQueue, Abort, Reset, ToolStep,
        ToolReturns, vars, toolVars
<1>2. CASE Prompt \/ ContinueWithSteering \/ ContinueWithFollowUps \/ ContinueTranscript
    <2>1. /\ phase = "idle" /\ phase' \in Quiet
          /\ UNCHANGED <<replies, calls, started, runnable, results>>
        BY <1>2 DEF Prompt, ContinueWithSteering, ContinueWithFollowUps,
                    ContinueTranscript, StartRun, Active, toolVars, Quiet
    <2>2. QED
        BY <2>1, OwedQuiet
<1>3. CASE \/ EmitPrompts \/ FirstPoll \/ NextTurn \/ StopAtCap \/ Inject \/ OpenStream
           \/ PollSteering \/ PollFollowUps \/ RunThrows
    <2>1. UNCHANGED <<replies, calls, started, runnable, results>>
        BY <1>3 DEF EmitPrompts, FirstPoll, NextTurn, StopAtCap, Inject, OpenStream,
                    PollSteering, PollFollowUps, RunThrows, toolVars
    <2>2. \/ phase \in Quiet /\ phase' \in Quiet
          \/ phase' = "ending"
        BY <1>3 DEF EmitPrompts, FirstPoll, NextTurn, StopAtCap, Inject, OpenStream,
                    PollSteering, PollFollowUps, RunThrows, Quiet
    <2>3. QED
        BY <2>1, <2>2, OwedQuiet
<1>4. ASSUME NEW k \in 0 .. MaxCalls, NEW stop \in Stops, Reply(k, stop)
      PROVE  OwedInv'
    <2>1. /\ phase' \in {"ending", "prepare", "poll"}
          /\ phase' = "poll" => k = 0
          /\ calls' = k /\ runnable' = <<>> /\ results' = <<>>
        BY <1>4, BoundsAssumption DEF Reply
    <2>2. Answered' = {} /\ RangeOf(runnable)' = {}
        BY <2>1, RangeEmpty DEF Answered
    <2>3. k = 0 => TurnCalls' = {}
        BY <2>1 DEF TurnCalls
    <2>4. Len(runnable') = 0
        BY <2>1, EmptySeq
    <2>5. CallsDistinct'
        BY <2>1, <2>2, <2>4 DEF CallsDistinct, ToolPhases
    <2>6. NothingOwed'
        BY <2>1, <2>3 DEF NothingOwed, Unanswered, Quiet
    <2>7. QED
        BY <2>5, <2>6 DEF OwedInv
<1>5. CASE StartCall
    <2>1. /\ phase = "prepare" /\ phase' = "gate" /\ started' = started + 1
          /\ UNCHANGED <<replies, calls, runnable, results>>
        BY <1>5 DEF StartCall
    <2>2. started \in Nat
        BY DEF TypeInv, TypeOK
    <2>3. CallAt(started + 1) \notin StartedCalls
        BY <2>2 DEF StartedCalls, CallAt
    <2>4. StartedCalls = Answered \union RangeOf(runnable)
        BY <2>1 DEF CallsInv, AtGate
    <2>5. /\ Answered' = Answered /\ RangeOf(runnable)' = RangeOf(runnable)
          /\ CallAt(started)' = CallAt(started + 1)
        BY <2>1 DEF Answered, RangeOf, CallAt
    <2>6. QED
        BY <2>1, <2>3, <2>4, <2>5 DEF OwedInv, CallsDistinct, NothingOwed, ToolPhases,
           Quiet
<1>6. CASE ApproveCall
    <2>1. /\ phase = "gate" /\ phase' \in {"prepare", "run"}
          /\ runnable' = Append(runnable, CallAt(started))
          /\ UNCHANGED <<replies, calls, started, results>>
        BY <1>6 DEF ApproveCall
    <2>2. CallAt(started) \in CallId /\ runnable \in Seq(CallId)
        BY DEF CallAt, CallId, TypeInv, TypeOK
    <2>3. RangeOf(runnable') = RangeOf(runnable) \union {CallAt(started)}
        BY <2>1, <2>2, RangeAppend
    <2>4. /\ Answered \intersect RangeOf(runnable) = {}
          /\ \A i, j \in 1 .. Len(runnable) : runnable[i] = runnable[j] => i = j
          /\ CallAt(started) \notin Answered \union RangeOf(runnable)
        BY <2>1 DEF OwedInv, CallsDistinct, ToolPhases
    <2>5. \A i, j \in 1 .. Len(runnable') : runnable'[i] = runnable'[j] => i = j
        BY <2>1, <2>2, <2>4, DistinctAppend
    <2>6. Answered' = Answered
        BY <2>1 DEF Answered, RangeOf
    <2>7. QED
        BY <2>1, <2>3, <2>4, <2>5, <2>6 DEF OwedInv, CallsDistinct, NothingOwed,
           ToolPhases, Quiet
<1>7. CASE LaunchCalls
    <2>1. /\ phase \in ToolPhases /\ phase' \in ToolPhases \ {"gate"}
          /\ UNCHANGED <<replies, calls, started, runnable, results>>
        BY <1>7 DEF LaunchCalls, ToolPhases
    <2>2. QED
        BY <2>1, OwedQuiet
<1>8. CASE RefuseCall \/ FinalizeCall
    BY <1>8, OwedOutcome
<1>9. CASE CloseTurn
    <2>1. /\ phase = "settle" /\ phase' = "poll"
          /\ UNCHANGED <<replies, calls, started, runnable, results>>
        BY <1>9 DEF CloseTurn, toolVars
    <2>2. StartedCalls = Answered /\ started = calls
        BY <2>1, RangeEmpty DEF CallsInv, AtGate, TurnInv, CallsCounted, ToolPhases
    <2>3. TurnCalls' = StartedCalls /\ Answered' = Answered
        BY <2>1, <2>2 DEF TurnCalls, StartedCalls, CallAt, Answered, RangeOf
    <2>4. QED
        BY <2>1, <2>2, <2>3 DEF OwedInv, CallsDistinct, NothingOwed, Unanswered,
           ToolPhases, Quiet
<1>10. CASE FinishRun
    <2>1. phase' = "idle" /\ calls' = 0
        BY <1>10 DEF FinishRun
    <2>2. TurnCalls' = {}
        BY <2>1 DEF TurnCalls
    <2>3. QED
        BY <2>1, <2>2 DEF OwedInv, CallsDistinct, NothingOwed, Unanswered, ToolPhases
<1>11. QED
    BY <1>1, <1>2, <1>3, <1>4, <1>5, <1>6, <1>7, <1>8, <1>9, <1>10
    DEF Next, Callers, LoopStep

(* What a step adds to a list it extends. *)
LEMMA AddedConcat ==
    ASSUME NEW S, NEW s \in Seq(S), NEW t \in Seq(S)
    PROVE  SubSeq(s \o t, Len(s) + 1, Len(s \o t)) = t
<1> DEFINE u == s \o t
           v == SubSeq(u, Len(s) + 1, Len(u))
<1>1. /\ u \in Seq(S) /\ Len(u) = Len(s) + Len(t)
      /\ \A i \in 1 .. Len(s) + Len(t) : u[i] = IF i <= Len(s) THEN s[i] ELSE t[i - Len(s)]
    BY ConcatProperties
<1>2. Len(s) \in Nat /\ Len(t) \in Nat
    BY LenProperties
<1> HIDE DEF u
<1>3. \A i \in (Len(s) + 1) .. Len(u) : u[i] \in S
    <2>1. \A i \in (Len(s) + 1) .. Len(u) : i \in 1 .. Len(u)
        BY <1>1, <1>2
    <2>2. QED
        BY <1>1, <2>1, ElementOfSeq
<1>4. /\ v \in Seq(S)
      /\ Len(v) = IF Len(s) + 1 <= Len(u) THEN Len(u) - (Len(s) + 1) + 1 ELSE 0
      /\ \A i \in 1 .. Len(u) - (Len(s) + 1) + 1 : v[i] = u[(Len(s) + 1) + i - 1]
    <2>1. Len(s) + 1 \in Int /\ Len(u) \in Int
        BY <1>1, <1>2
    <2>2. QED
        BY <1>3, <2>1, SubSeqProperties
<1> HIDE DEF v
<1>5. /\ Len(v) = Len(t)
      /\ Len(u) - (Len(s) + 1) + 1 = Len(t)
    BY <1>1, <1>2, <1>4
<1>6. ASSUME NEW i \in 1 .. Len(t)
      PROVE  v[i] = t[i]
    <2>1. /\ (Len(s) + 1) + i - 1 = Len(s) + i
          /\ Len(s) + i \in 1 .. Len(s) + Len(t) /\ ~(Len(s) + i <= Len(s))
          /\ (Len(s) + i) - Len(s) = i
        BY <1>2
    <2>2. v[i] = u[Len(s) + i]
        BY <1>4, <1>5, <2>1
    <2>3. QED
        BY <1>1, <2>1, <2>2
<1>7. v = t
    BY <1>4, <1>5, <1>6, SeqEqual
<1>8. QED
    BY <1>7 DEF u, v

LEMMA AddedAppend ==
    ASSUME NEW S, NEW s \in Seq(S), NEW e \in S
    PROVE  LET t == Append(s, e)
           IN  SubSeq(t, Len(s) + 1, Len(t)) = <<e>>
<1>1. Append(s, e) = s \o <<e>> /\ <<e>> \in Seq(S)
    BY AppendIsConcat
<1>2. QED
    BY <1>1, AddedConcat

(* The state and the steps of AgentRun in these terms. *)
LEMMA MappedIdle == Run!Idle <=> messages = <<>> /\ Status = "idle" /\ Owed = {}
BY DEF Run!Idle, Status

LEMMA MappedStop ==
    ASSUME Status = "running", Owed = {}, Status' = "over", messages' = messages,
           Owed' = {}
    PROVE  Run!Step
BY DEF Run!Step, Run!Stop, Status

LEMMA MappedSettle ==
    ASSUME Status = "over", Status' = "idle", messages' = messages, Owed' = Owed
    PROVE  Run!Step
BY DEF Run!Step, Run!Settle, Status

LEMMA MappedForget ==
    ASSUME messages' = <<>>, Status' = Status, Owed' = Owed
    PROVE  Run!Step
BY DEF Run!Step, Run!Forget, Status

LEMMA MappedBegin ==
    ASSUME TypeInv, NEW ms \in Seq(UserMessage), messages' = messages \o ms,
           Status = "idle", Status' = "running", Owed' = {}
    PROVE  Run!Step
<1>1. messages \in Seq(Message) /\ ms \in Seq(Message)
    BY SubMessages DEF TypeInv, TypeOK
<1>2. Run!Added = ms
    BY <1>1, AddedConcat DEF Run!Added
<1>3. Run!AllOf(ms, "user")
    <2>1. \A i \in 1 .. Len(ms) : ms[i] \in UserMessage
        BY ElementOfSeq
    <2>2. QED
        BY <2>1 DEF Run!AllOf, UserMessage
<1>4. Run!Begin(Run!Added)
    BY <1>2, <1>3 DEF Run!Begin, Status
<1>5. QED
    BY <1>4 DEF Run!Step

LEMMA MappedSay ==
    ASSUME TypeInv, NEW m \in UserMessage, messages' = Append(messages, m),
           Status = "running", Status' = "running", Owed = {}, Owed' = {}
    PROVE  Run!Step
<1>1. messages \in Seq(Message) /\ m \in Message
    BY DEF TypeInv, TypeOK, Message
<1>2. Run!Added = <<m>> /\ Append(messages, m) = messages \o <<m>>
    BY <1>1, AddedAppend, AppendIsConcat DEF Run!Added
<1>3. Run!AllOf(<<m>>, "user") /\ <<m>> # <<>>
    <2>1. Len(<<m>>) = 1 /\ <<m>>[1] = m /\ m.role = "user" /\ Len(<<>>) = 0
        BY EmptySeq DEF UserMessage
    <2>2. \A i \in 1 .. 1 : i = 1
        OBVIOUS
    <2>3. Run!AllOf(<<m>>, "user")
        BY <2>1, <2>2 DEF Run!AllOf
    <2>4. QED
        BY <2>1, <2>3
<1>4. Run!Say(Run!Added)
    BY <1>2, <1>3 DEF Run!Say, Status
<1>5. QED
    BY <1>4 DEF Run!Step

(* One message, other than a user's, is added. *)
LEMMA MappedOne ==
    ASSUME TypeInv, NEW m \in Message, messages' = Append(messages, m),
           Run!Answer(m) \/ Run!Deliver(m) \/ Run!Break(m)
    PROVE  Run!Step
<1>1. messages \in Seq(Message)
    BY DEF TypeInv, TypeOK
<1>2. Run!Added = <<m>>
    BY <1>1, AddedAppend DEF Run!Added
<1>3. Run!Added # <<>> /\ Run!Added[1] = m
    <2>1. Len(<<m>>) = 1 /\ <<m>>[1] = m /\ Len(<<>>) = 0
        BY EmptySeq
    <2>2. QED
        BY <1>2, <2>1
<1>4. QED
    BY <1>3 DEF Run!Step

LEMMA MappedStep ==
    ASSUME TypeInv, TypeInv', CallsInv, TurnInv, OwedInv, OwedInv', [Next]_vars
    PROVE  Run!Step \/ UNCHANGED Run!agent
<1> USE DEF agentVars, queueVars, configVars, turnVars, historyVars
<1>m. /\ Owed = IF phase \in {"idle", "start", "ending"} THEN {} ELSE Unanswered
      /\ Owed' = IF phase' \in {"idle", "start", "ending"} THEN {} ELSE Unanswered'
      /\ phase \in Quiet => Owed = {}
      /\ phase' \in Quiet => Owed' = {}
    BY DEF Owed, Unanswered, TurnCalls, Answered, OwedInv, NothingOwed
<1>q. ASSUME messages' = messages, Status' = Status, Owed' = Owed
      PROVE  UNCHANGED Run!agent
    BY <1>q DEF Run!agent, Status
<1>c. ASSUME UNCHANGED <<replies, calls, results>>
      PROVE  Unanswered' = Unanswered
    BY <1>c DEF Unanswered, TurnCalls, CallAt, Answered, RangeOf
<1>1. CASE \/ Steer \/ FollowUp \/ ClearSteeringQueue \/ ClearFollowUpQueue \/ Abort
           \/ Reset \/ ToolStep \/ UNCHANGED vars
    <2>1. UNCHANGED <<phase, replies, calls, results>>
        BY <1>1 DEF Steer, FollowUp, ClearSteeringQueue, ClearFollowUpQueue, Abort,
                    Reset, ToolStep, ToolReturns, vars, toolVars
    <2>2. Status' = Status /\ Owed' = Owed
        BY <1>c, <1>m, <2>1 DEF Status
    <2>3. messages' = messages \/ messages' = <<>>
        BY <1>1 DEF Steer, FollowUp, ClearSteeringQueue, ClearFollowUpQueue, Abort,
                    Reset, ToolStep, ToolReturns, vars
    <2>4. QED
        BY <1>q, <2>2, <2>3, MappedForget
<1>2. CASE Prompt \/ ContinueWithSteering \/ ContinueWithFollowUps
    <2>1. phase = "idle" /\ phase' = "start" /\ messages' = messages
        BY <1>2 DEF Prompt, ContinueWithSteering, ContinueWithFollowUps, StartRun, Active
    <2>2. QED
        BY <1>m, <1>q, <2>1 DEF Status
<1>3. CASE ContinueTranscript
    <2>1. phase = "idle" /\ phase' = "firstPoll" /\ messages' = messages
        BY <1>3 DEF ContinueTranscript, StartRun, Active
    <2>2. messages' = messages \o <<>> /\ <<>> \in Seq(UserMessage)
        BY <2>1, ConcatEmptySeq, EmptySeq DEF TypeInv, TypeOK
    <2>3. Status = "idle" /\ Status' = "running" /\ Owed' = {}
        BY <1>m, <2>1 DEF Status, Quiet
    <2>4. QED
        BY <2>2, <2>3, MappedBegin
<1>4. CASE EmitPrompts
    <2>1. phase = "start" /\ phase' = "firstPoll" /\ messages' = messages \o pending
        BY <1>4 DEF EmitPrompts
    <2>2. Status = "idle" /\ Status' = "running" /\ Owed' = {}
        BY <1>m, <2>1 DEF Status, Quiet
    <2>3. pending \in Seq(UserMessage)
        BY DEF TypeInv, TypeOK
    <2>4. QED
        BY <2>1, <2>2, <2>3, MappedBegin
<1>5. CASE FirstPoll \/ NextTurn \/ OpenStream \/ PollSteering \/ PollFollowUps \/ StopAtCap
    <2>1. /\ phase \in Quiet \ {"start"} /\ messages' = messages
          /\ phase' \in (Quiet \ {"start"}) \union {"ending"}
        BY <1>5 DEF FirstPoll, NextTurn, OpenStream, PollSteering, PollFollowUps,
                    StopAtCap, Quiet
    <2>2. Status = "running" /\ Owed = {} /\ Owed' = {}
        BY <1>m, <2>1 DEF Status, Quiet
    <2>3. CASE phase' = "ending"
        <3>1. Status' = "over"
            BY <2>3 DEF Status
        <3>2. QED
            BY <2>1, <2>2, <3>1, MappedStop
    <2>4. CASE phase' # "ending"
        <3>1. Status' = "running"
            BY <2>1, <2>4 DEF Status, Quiet
        <3>2. QED
            BY <1>q, <2>1, <2>2, <3>1
    <2>5. QED
        BY <2>3, <2>4
<1>6. CASE Inject
    <2>1. /\ phase = "inject" /\ phase' \in {"llm", "inject"}
          /\ messages' = Append(messages, Head(pending))
        BY <1>6 DEF Inject
    <2>2. Head(pending) \in UserMessage
        BY <2>1, HeadTailProperties DEF TypeInv, TypeOK, Nonempty
    <2>3. /\ Status = "running" /\ Status' = "running"
          /\ Owed = {} /\ Owed' = {}
        BY <1>m, <2>1 DEF Status, Quiet
    <2>4. QED
        BY <2>1, <2>2, <2>3, MappedSay
<1>7. ASSUME NEW k \in 0 .. MaxCalls, NEW stop \in Stops, Reply(k, stop)
      PROVE  Run!Step
    <2> DEFINE m == ReplyMessage(replies + 1, k, stop)
    <2>1. /\ phase = "streaming" /\ messages' = Append(messages, m)
          /\ replies' = replies + 1 /\ calls' = k /\ results' = <<>>
          /\ phase' = CASE Failed(stop) -> "ending"
                        [] ~Failed(stop) /\ k > 0 -> "prepare"
                        [] OTHER -> "poll"
        BY <1>7 DEF Reply
    <2>2. m \in Message
        <3>1. replies \in Nat
            BY DEF TypeInv, TypeOK
        <3>2. replies + 1 \in Nat /\ k \in Nat
            BY <3>1, BoundsAssumption
        <3>3. QED
            BY <3>2, NewMessages
    <2>3. Status = "running" /\ Owed = {}
        BY <1>m, <2>1 DEF Status, Quiet
    <2>4. CASE Failed(stop)
        <3>1. Status' = "over" /\ Owed' = {}
            BY <1>m, <2>1, <2>4 DEF Status
        <3>2. Run!Answer(m)
            BY <2>1, <2>3, <2>4, <3>1
            DEF Run!Answer, Run!FailedStops, Failed, Status, ReplyMessage
        <3>3. QED
            BY <2>1, <2>2, <3>2, MappedOne
    <2>5. CASE ~Failed(stop)
        <3>1. phase' \in {"prepare", "poll"}
            BY <2>1, <2>5
        <3>2. Answered' = {}
            BY <2>1, RangeEmpty DEF Answered
        <3>3. Unanswered' = {<<replies + 1, i>> : i \in 1 .. k}
            BY <2>1, <3>2 DEF Unanswered, TurnCalls, CallAt
        <3>4. Status' = "running" /\ Owed' = {<<replies + 1, i>> : i \in 1 .. k}
            BY <1>m, <3>1, <3>3 DEF Status
        <3>5. Run!Answer(m)
            BY <2>1, <2>3, <2>5, <3>4
            DEF Run!Answer, Run!FailedStops, Run!CallsOf, Failed, Status, ReplyMessage
        <3>6. QED
            BY <2>1, <2>2, <3>5, MappedOne
    <2>6. QED
        BY <2>4, <2>5
<1>8. CASE StartCall \/ ApproveCall \/ LaunchCalls \/ CloseTurn
    <2>1. /\ phase \in ToolPhases /\ phase' \in ToolPhases \union {"poll"}
          /\ messages' = messages
          /\ UNCHANGED <<replies, calls, results>>
        BY <1>8 DEF StartCall, ApproveCall, LaunchCalls, CloseTurn, toolVars, ToolPhases
    <2>2. Status = "running" /\ Status' = "running" /\ Owed' = Owed
        BY <1>c, <1>m, <2>1 DEF Status, ToolPhases
    <2>3. QED
        BY <1>q, <2>1, <2>2
<1>9. CASE RefuseCall \/ FinalizeCall
    <2>1. phase \in ToolPhases /\ phase' \in ToolPhases
        BY <1>9, OwedOutcome
    <2>2. PICK c \in Unanswered : /\ messages' = Append(messages, ResultMessage(c))
                                  /\ Unanswered' = Unanswered \ {c}
        BY <1>9, OwedOutcome
    <2>3. Status = "running" /\ Status' = "running"
        BY <2>1 DEF Status, ToolPhases
    <2>4. Owed = Unanswered /\ Owed' = Owed \ {c}
        BY <1>m, <2>1, <2>2 DEF ToolPhases
    <2>5. ResultMessage(c) \in Message
        <3>1. PICK i \in 1 .. calls : c = CallAt(i)
            BY <2>2 DEF Unanswered, TurnCalls
        <3>2. replies \in Nat /\ calls \in Nat
            BY DEF TypeInv, TypeOK
        <3>3. c \in CallId
            BY <3>1, <3>2 DEF CallAt, CallId
        <3>4. QED
            BY <3>3, NewMessages DEF Message
    <2>6. Run!Deliver(ResultMessage(c))
        BY <2>2, <2>3, <2>4 DEF Run!Deliver, Status, ResultMessage
    <2>7. QED
        BY <2>2, <2>5, <2>6, MappedOne
<1>10. CASE RunThrows
    <2>1. PICK stop \in {"aborted", "error"} :
              messages' = Append(messages, ReplyMessage(0, 0, stop))
        BY <1>10 DEF RunThrows
    <2>2. phase \in {"llm", "streaming", "run"} /\ phase' = "ending"
        BY <1>10 DEF RunThrows
    <2>3. Status = "running" /\ Status' = "over" /\ Owed' = {}
        BY <1>m, <2>2 DEF Status
    <2>4. ReplyMessage(0, 0, stop) \in Message
        BY NewMessages DEF Stops
    <2>5. Run!Break(ReplyMessage(0, 0, stop))
        BY <2>1, <2>3 DEF Run!Break, Run!FailedStops, Status, ReplyMessage
    <2>6. QED
        BY <2>1, <2>4, <2>5, MappedOne
<1>11. CASE FinishRun
    <2>1. phase = "ending" /\ phase' = "idle" /\ messages' = messages
        BY <1>11 DEF FinishRun
    <2>2. Status = "over" /\ Status' = "idle" /\ Owed' = Owed
        BY <1>m, <2>1 DEF Status
    <2>3. QED
        BY <2>1, <2>2, MappedSettle
<1>12. QED
    BY <1>1, <1>2, <1>3, <1>4, <1>5, <1>6, <1>7, <1>8, <1>9, <1>10, <1>11
    DEF Next, Callers, LoopStep

(* The safety part of ImplementsAgentRun: for every bound, each step of    *)
(* the loop, its queues and its tools is to a listener (agent.ts,          *)
(* subscribe) one of the steps AgentRun allows, or none.                   *)
THEOREM LoopImplementsRun == Spec => Run!Idle /\ [][Run!Step]_(Run!agent)
<1>1. Init => OwedInv /\ TurnInv /\ Run!Idle
    <2> SUFFICES ASSUME Init PROVE OwedInv /\ TurnInv /\ Run!Idle
        OBVIOUS
    <2>1. phase = "idle" /\ messages = <<>> /\ executing = {} /\ calls = 0
        BY DEF Init
    <2>2. OwedInv
        BY <2>1 DEF OwedInv, CallsDistinct, NothingOwed, Unanswered, TurnCalls, ToolPhases
    <2>3. TurnInv
        BY <2>1 DEF TurnInv, TurnsCounted, RepliesComplete, CallsCounted, ExecutingKnown,
                    ModelPhases, ToolPhases, Over
    <2>4. Run!Idle
        BY <2>1, MappedIdle DEF Status, Owed
    <2>5. QED
        BY <2>2, <2>3, <2>4
<1>2. /\ TypeInv /\ TypeInv' /\ CallsInv /\ TurnInv /\ OwedInv /\ OwedInv' /\ [Next]_vars
      => [Run!Step]_(Run!agent)
    BY MappedStep
<1>3. QED
    BY InitType, InitCalls, StepType, StepCalls, StepTurn, StepOwed, <1>1, <1>2, PTL DEF Spec

-----------------------------------------------------------------------------
(***************************************************************************)
(* The way of a user message, from prompt, steer or followUp to the        *)
(* transcript                                                              *)
(*                                                                         *)
(* Neither EachMessageOnce nor DeliveredInOrder is inductive.  Three facts *)
(* make them so: the loop's hands are empty wherever it overwrites them;   *)
(* the numbers given out are shared among the six places a message can be  *)
(* in; and along delivered, pending and the queue of a kind the numbers of *)
(* that kind grow, a queue holding one kind only.                          *)
(***************************************************************************)

(* Messages of one kind stand in s in the order of their numbers, and no   *)
(* number stands twice.                                                    *)
Sorted(s) ==
    \A i, j \in 1 .. Len(s) :
        /\ i < j /\ s[i].via = s[j].via => s[i].id < s[j].id
        /\ s[i].id = s[j].id => i = j

(* The messages of s are older than those of their kind in t. *)
Before(s, t) ==
    \A x \in RangeOf(s), y \in RangeOf(t) : x.via = y.via => x.id < y.id

Only(via, s) == \A x \in RangeOf(s) : x.via = via

(* The numbers 1 .. n are shared among six places. *)
Shared(S, F, P, D, X, C, n) ==
    /\ S \union F \union P \union D \union X \union C = 1 .. n
    /\ S \intersect (F \union P \union D \union X \union C) = {}
    /\ F \intersect (P \union D \union X \union C) = {}
    /\ P \intersect (D \union X \union C) = {}
    /\ D \intersect (X \union C) = {}
    /\ X \intersect C = {}

HandsEmpty == phase \notin {"start", "top", "inject"} => pending = <<>>

AllSorted ==
    /\ Sorted(steeringQueue) /\ Sorted(followUpQueue)
    /\ Sorted(pending) /\ Sorted(delivered)

InLine ==
    /\ Only("steer", steeringQueue) /\ Only("followUp", followUpQueue)
    /\ Before(pending, steeringQueue) /\ Before(pending, followUpQueue)
    /\ Before(delivered, pending)
    /\ Before(delivered, steeringQueue) /\ Before(delivered, followUpQueue)

Places ==
    Shared(Ids(steeringQueue), Ids(followUpQueue), Ids(pending), Ids(delivered),
           discarded, cutOff, inputs)

QueuesInv == HandsEmpty /\ AllSorted /\ InLine /\ Places

----------------------------------------------------------------------------
(* Lists of user messages. *)

LEMMA IdsOf ==
    ASSUME NEW s \in Seq(UserMessage)
    PROVE  Ids(s) = {x.id : x \in RangeOf(s)}
BY DEF Ids, RangeOf

LEMMA ListOfNone ==
    /\ Sorted(<<>>) /\ RangeOf(<<>>) = {} /\ Ids(<<>>) = {}
    /\ <<>> \in Seq(UserMessage)
<1>1. Len(<<>>) = 0 /\ <<>> \in Seq(UserMessage)
    BY EmptySeq
<1>2. Sorted(<<>>)
    BY <1>1 DEF Sorted
<1>3. Ids(<<>>) = {x.id : x \in RangeOf(<<>>)}
    BY <1>1, IdsOf
<1>4. QED
    BY <1>1, <1>2, <1>3, RangeEmpty

LEMMA ListOfOne ==
    ASSUME NEW m \in UserMessage
    PROVE  /\ Sorted(<<m>>) /\ RangeOf(<<m>>) = {m} /\ Ids(<<m>>) = {m.id}
           /\ <<m>> \in Seq(UserMessage)
<1>1. <<m>> \in Seq(UserMessage) /\ Len(<<m>>) = 1 /\ <<m>>[1] = m
    OBVIOUS
<1>2. 1 .. 1 = {1}
    OBVIOUS
<1>3. RangeOf(<<m>>) = {m}
    BY <1>1, <1>2 DEF RangeOf
<1>4. \A i, j \in 1 .. Len(<<m>>) : i = j
    BY <1>1, <1>2
<1>5. Sorted(<<m>>)
    BY <1>4 DEF Sorted
<1>6. QED
    BY <1>1, <1>3, <1>5, IdsOf

(* Joining two sorted lists, the second of younger messages. *)
LEMMA Joined ==
    ASSUME NEW s \in Seq(UserMessage), NEW t \in Seq(UserMessage),
           Sorted(s), Sorted(t), Before(s, t), Ids(s) \intersect Ids(t) = {}
    PROVE  /\ Sorted(s \o t)
           /\ s \o t \in Seq(UserMessage)
           /\ RangeOf(s \o t) = RangeOf(s) \union RangeOf(t)
           /\ Ids(s \o t) = Ids(s) \union Ids(t)
<1> DEFINE u == s \o t
<1>1. /\ u \in Seq(UserMessage)
      /\ Len(u) = Len(s) + Len(t)
      /\ \A i \in 1 .. Len(s) + Len(t) :
            u[i] = IF i <= Len(s) THEN s[i] ELSE t[i - Len(s)]
    BY ConcatProperties
<1>2. Len(s) \in Nat /\ Len(t) \in Nat
    BY LenProperties
<1> HIDE DEF u
<1>3. \A i \in 1 .. Len(u) :
         \/ i \in 1 .. Len(s) /\ u[i] = s[i]
         \/ /\ i > Len(s) /\ i - Len(s) \in 1 .. Len(t)
            /\ u[i] = t[i - Len(s)]
    BY <1>1, <1>2
<1>4. ASSUME NEW i \in 1 .. Len(s)
      PROVE  i \in 1 .. Len(u) /\ u[i] = s[i]
  <2>1. i \in 1 .. Len(s) + Len(t) /\ i <= Len(s)
      BY <1>2
  <2>2. QED
      BY <1>1, <2>1
<1>t. ASSUME NEW i \in 1 .. Len(t)
      PROVE  i + Len(s) \in 1 .. Len(u) /\ u[i + Len(s)] = t[i]
  <2>1. /\ i + Len(s) \in 1 .. Len(s) + Len(t) /\ ~(i + Len(s) <= Len(s))
        /\ (i + Len(s)) - Len(s) = i
      BY <1>2
  <2>2. QED
      BY <1>1, <2>1
<1>5. RangeOf(u) = RangeOf(s) \union RangeOf(t)
  <2>1. RangeOf(u) \subseteq RangeOf(s) \union RangeOf(t)
      BY <1>3 DEF RangeOf
  <2>2. RangeOf(s) \subseteq RangeOf(u)
      BY <1>4 DEF RangeOf
  <2>3. RangeOf(t) \subseteq RangeOf(u)
      BY <1>t DEF RangeOf
  <2>4. QED
      BY <2>1, <2>2, <2>3
<1>6. Ids(u) = Ids(s) \union Ids(t)
    BY <1>1, <1>5, IdsOf
<1>7. ASSUME NEW i \in 1 .. Len(u), NEW j \in 1 .. Len(u)
      PROVE  /\ i < j /\ u[i].via = u[j].via => u[i].id < u[j].id
             /\ u[i].id = u[j].id => i = j
  <2>1. CASE i \in 1 .. Len(s) /\ j \in 1 .. Len(s)
      BY <1>4, <2>1 DEF Sorted
  <2>2. CASE i > Len(s) /\ j > Len(s)
    <3>1. /\ i - Len(s) \in 1 .. Len(t) /\ u[i] = t[i - Len(s)]
          /\ j - Len(s) \in 1 .. Len(t) /\ u[j] = t[j - Len(s)]
      <4>1. i \notin 1 .. Len(s) /\ j \notin 1 .. Len(s)
          BY <1>2, <2>2
      <4>2. QED
          BY <1>3, <4>1
    <3>2. /\ i < j => i - Len(s) < j - Len(s)
          /\ i - Len(s) = j - Len(s) => i = j
        BY <1>2
    <3>3. QED
        BY <3>1, <3>2 DEF Sorted
  <2>3. CASE i \in 1 .. Len(s) /\ j > Len(s)
    <3>1. /\ u[i] \in RangeOf(s) /\ u[j] \in RangeOf(t)
          /\ u[i].id \in Ids(s) /\ u[j].id \in Ids(t)
      <4>1. j \notin 1 .. Len(s)
          BY <1>2, <2>3
      <4>2. j - Len(s) \in 1 .. Len(t) /\ u[j] = t[j - Len(s)]
          BY <1>3, <4>1
      <4>3. u[i] = s[i]
          BY <1>4, <2>3
      <4>4. u[i] \in RangeOf(s) /\ u[j] \in RangeOf(t)
          BY <2>3, <4>2, <4>3 DEF RangeOf
      <4>5. QED
          BY <4>4, IdsOf
    <3>2. QED
        BY <3>1 DEF Before
  <2>4. CASE i > Len(s) /\ j \in 1 .. Len(s)
    <3>1. u[j].id \in Ids(s) /\ u[i].id \in Ids(t)
      <4>1. i \notin 1 .. Len(s)
          BY <1>2, <2>4
      <4>2. i - Len(s) \in 1 .. Len(t) /\ u[i] = t[i - Len(s)]
          BY <1>3, <4>1
      <4>3. u[j] = s[j]
          BY <1>4, <2>4
      <4>4. QED
          BY <2>4, <4>2, <4>3 DEF Ids
    <3>2. ~(i < j)
        BY <1>2, <2>4
    <3>3. QED
        BY <3>1, <3>2
  <2>5. QED
      BY <1>3, <2>1, <2>2, <2>3, <2>4
<1>8. Sorted(u)
    BY <1>7 DEF Sorted
<1>9. QED
    BY <1>1, <1>5, <1>6, <1>8 DEF u

(* Adding one message younger than the others of its kind. *)
LEMMA Appended ==
    ASSUME NEW s \in Seq(UserMessage), NEW m \in UserMessage,
           Sorted(s), m.id \notin Ids(s),
           \A x \in RangeOf(s) : x.via = m.via => x.id < m.id
    PROVE  /\ Sorted(Append(s, m))
           /\ RangeOf(Append(s, m)) = RangeOf(s) \union {m}
           /\ Ids(Append(s, m)) = Ids(s) \union {m.id}
<1>1. Append(s, m) = s \o <<m>>
    BY AppendIsConcat
<1>2. /\ Sorted(<<m>>) /\ RangeOf(<<m>>) = {m} /\ Ids(<<m>>) = {m.id}
      /\ <<m>> \in Seq(UserMessage)
    BY ListOfOne
<1>3. Before(s, <<m>>) /\ Ids(s) \intersect Ids(<<m>>) = {}
    BY <1>2 DEF Before
<1>4. QED
    BY <1>1, <1>2, <1>3, Joined

(* Taking the first message. *)
LEMMA Beheaded ==
    ASSUME NEW s \in Seq(UserMessage), s # <<>>, Sorted(s)
    PROVE  /\ Head(s) \in UserMessage /\ Tail(s) \in Seq(UserMessage)
           /\ Sorted(Tail(s))
           /\ RangeOf(s) = {Head(s)} \union RangeOf(Tail(s))
           /\ Ids(s) = {Head(s).id} \union Ids(Tail(s))
           /\ Head(s).id \notin Ids(Tail(s))
           /\ \A x \in RangeOf(Tail(s)) : Head(s).via = x.via => Head(s).id < x.id
<1> DEFINE t == Tail(s)
<1>1. /\ Head(s) \in UserMessage /\ t \in Seq(UserMessage)
      /\ Len(t) = Len(s) - 1
      /\ \A i \in 1 .. Len(t) : t[i] = s[i + 1]
    BY HeadTailProperties
<1>2. Len(s) \in Nat \ {0}
    BY EmptySeq
<1>3. Head(s) = s[1]
    BY <1>2
<1>4. RangeOf(s) = {Head(s)} \union RangeOf(t)
    BY RangeTail
<1> HIDE DEF t
<1>5. \A i \in 1 .. Len(t) : i + 1 \in 1 .. Len(s) /\ 1 < i + 1
    BY <1>1, <1>2
<1>6. 1 \in 1 .. Len(s)
    BY <1>2
<1>7. Sorted(t)
  <2> SUFFICES ASSUME NEW i \in 1 .. Len(t), NEW j \in 1 .. Len(t)
               PROVE  /\ i < j /\ t[i].via = t[j].via => t[i].id < t[j].id
                      /\ t[i].id = t[j].id => i = j
      BY DEF Sorted
  <2>1. /\ t[i] = s[i + 1] /\ i + 1 \in 1 .. Len(s)
        /\ t[j] = s[j + 1] /\ j + 1 \in 1 .. Len(s)
        /\ i < j => i + 1 < j + 1
        /\ i + 1 = j + 1 => i = j
      BY <1>1, <1>5
  <2>2. QED
      BY <2>1 DEF Sorted
<1>8. Ids(s) = {Head(s).id} \union Ids(t)
    BY <1>1, <1>4, IdsOf
<1>9. ASSUME NEW i \in 1 .. Len(t)
      PROVE  /\ t[i].id # Head(s).id
             /\ Head(s).via = t[i].via => Head(s).id < t[i].id
    BY <1>1, <1>3, <1>5, <1>6 DEF Sorted
<1>10. QED
    BY <1>1, <1>4, <1>7, <1>8, <1>9 DEF t, RangeOf, Ids

(* Draining a queue in either mode splits it into an older and a younger   *)
(* part.                                                                   *)
LEMMA Drained ==
    ASSUME NEW q \in Seq(UserMessage), NEW m, Sorted(q)
    PROVE  /\ Sorted(Taken(m, q)) /\ Sorted(Kept(m, q))
           /\ RangeOf(Taken(m, q)) \union RangeOf(Kept(m, q)) = RangeOf(q)
           /\ Ids(Taken(m, q)) \union Ids(Kept(m, q)) = Ids(q)
           /\ Ids(Taken(m, q)) \intersect Ids(Kept(m, q)) = {}
           /\ Before(Taken(m, q), Kept(m, q))
<1>1. CASE m = "all" \/ q = <<>>
  <2>1. Taken(m, q) = q /\ Kept(m, q) = <<>>
      BY <1>1 DEF Taken, Kept
  <2>2. QED
      BY <2>1, ListOfNone DEF Before
<1>2. CASE ~(m = "all" \/ q = <<>>)
  <2>1. Taken(m, q) = <<Head(q)>> /\ Kept(m, q) = Tail(q)
      BY <1>2 DEF Taken, Kept
  <2>2. /\ Head(q) \in UserMessage
        /\ Sorted(Tail(q))
        /\ RangeOf(q) = {Head(q)} \union RangeOf(Tail(q))
        /\ Ids(q) = {Head(q).id} \union Ids(Tail(q))
        /\ Head(q).id \notin Ids(Tail(q))
        /\ \A x \in RangeOf(Tail(q)) : Head(q).via = x.via => Head(q).id < x.id
      BY <1>2, Beheaded
  <2>3. /\ Sorted(<<Head(q)>>) /\ RangeOf(<<Head(q)>>) = {Head(q)}
        /\ Ids(<<Head(q)>>) = {Head(q).id}
      BY <2>2, ListOfOne
  <2>4. QED
      BY <2>1, <2>2, <2>3 DEF Before
<1>3. QED
    BY <1>1, <1>2

----------------------------------------------------------------------------
(* The six places. *)

(* A new number is in no place, and may be put in a queue or in the hands. *)
LEMMA NewNumber ==
    ASSUME NEW S, NEW F, NEW P, NEW D, NEW X, NEW C, NEW n \in Nat,
           Shared(S, F, P, D, X, C, n)
    PROVE  /\ n + 1 \notin S \union F \union P \union D
           /\ Shared(S \union {n + 1}, F, P, D, X, C, n + 1)
           /\ Shared(S, F \union {n + 1}, P, D, X, C, n + 1)
           /\ Shared(S, F, P \union {n + 1}, D, X, C, n + 1)
<1>1. n + 1 \notin 1 .. n /\ 1 .. (n + 1) = (1 .. n) \union {n + 1}
    OBVIOUS
<1>2. n + 1 \notin S \union F \union P \union D \union X \union C
    BY <1>1 DEF Shared
<1>3. QED
    BY <1>1, <1>2 DEF Shared

(* What a caller clears, the hands take from a queue, the transcript from  *)
(* the hands, or the turn cap cuts off, changes its place.                 *)
LEMMA Moves ==
    ASSUME NEW S, NEW F, NEW P, NEW D, NEW X, NEW C, NEW n,
           Shared(S, F, P, D, X, C, n)
    PROVE  /\ Shared({}, F, P, D, X \union S, C, n)
           /\ Shared(S, {}, P, D, X \union F, C, n)
           /\ Shared({}, {}, P, D, (X \union S) \union F, C, n)
           /\ Shared(S, F, {}, D \union P, X, C, n)
           /\ Shared(S, F, {}, D, X, C \union P, n)
BY DEF Shared

LEMMA MovesPart ==
    ASSUME NEW S, NEW F, NEW P, NEW D, NEW X, NEW C, NEW n,
           Shared(S, F, P, D, X, C, n), NEW T, NEW K, T \intersect K = {}
    PROVE  /\ P = {} /\ T \union K = S => Shared(K, F, T, D, X, C, n)
           /\ P = {} /\ T \union K = F => Shared(S, K, T, D, X, C, n)
           /\ T \union K = P => Shared(S, F, K, D \union T, X, C, n)
BY DEF Shared

LEMMA Lists ==
    ASSUME TypeInv
    PROVE  /\ steeringQueue \in Seq(UserMessage)
           /\ followUpQueue \in Seq(UserMessage)
           /\ pending \in Seq(UserMessage)
           /\ delivered \in Seq(UserMessage)
           /\ inputs \in Nat
BY DEF TypeInv, TypeOK

(* Every message has a number already given out. *)
LEMMA Numbered ==
    ASSUME TypeInv, Places
    PROVE  /\ \A x \in RangeOf(steeringQueue) \union RangeOf(followUpQueue)
                       \union RangeOf(pending) \union RangeOf(delivered) :
                x.id < inputs + 1
           /\ inputs + 1 \notin Ids(steeringQueue) \union Ids(followUpQueue)
                                 \union Ids(pending) \union Ids(delivered)
<1>1. inputs \in Nat
    BY Lists
<1>2. \A i \in 1 .. inputs : i < inputs + 1
    BY <1>1
<1>3. Ids(steeringQueue) \union Ids(followUpQueue) \union Ids(pending)
          \union Ids(delivered) \subseteq 1 .. inputs
    BY DEF Places, Shared
<1>4. \A x \in RangeOf(steeringQueue) \union RangeOf(followUpQueue)
                \union RangeOf(pending) \union RangeOf(delivered) :
         x.id \in Ids(steeringQueue) \union Ids(followUpQueue) \union Ids(pending)
                      \union Ids(delivered)
    BY Lists, IdsOf
<1>5. QED
    BY <1>1, <1>2, <1>3, <1>4, NewNumber DEF Places

(* The next message to come in. *)
LEMMA NextInput ==
    ASSUME TypeInv, NEW via \in Vias
    PROVE  /\ NewInput(via) \in UserMessage
           /\ NewInput(via).id = inputs + 1 /\ NewInput(via).via = via
BY NewMessages, Lists DEF NewInput

LEMMA QuietQueues ==
    ASSUME QueuesInv, HandsEmpty',
           UNCHANGED <<steeringQueue, followUpQueue, pending, delivered, discarded,
                       cutOff, inputs>>
    PROVE  QueuesInv'
BY DEF QueuesInv, AllSorted, InLine, Places, Only, Before, Sorted, RangeOf, Ids

(* Steering messages come into the hands, from an agent that runs or not.  *)
LEMMA TakeSteering ==
    ASSUME TypeInv, QueuesInv, NEW m, pending = <<>>,
           pending' = Taken(m, steeringQueue), steeringQueue' = Kept(m, steeringQueue),
           UNCHANGED <<followUpQueue, delivered, discarded, cutOff, inputs>>
    PROVE  AllSorted' /\ InLine' /\ Places'
<1>1. /\ Sorted(pending') /\ Sorted(steeringQueue')
      /\ RangeOf(pending') \union RangeOf(steeringQueue') = RangeOf(steeringQueue)
      /\ Ids(pending') \union Ids(steeringQueue') = Ids(steeringQueue)
      /\ Ids(pending') \intersect Ids(steeringQueue') = {}
      /\ Before(pending', steeringQueue')
    BY Drained, Lists DEF QueuesInv, AllSorted
<1>2. AllSorted'
    BY <1>1 DEF QueuesInv, AllSorted
<1>3. Before(pending', followUpQueue')
  <2>1. /\ \A x \in RangeOf(pending') : x.via = "steer"
        /\ \A x \in RangeOf(followUpQueue) : x.via = "followUp"
      BY <1>1 DEF QueuesInv, InLine, Only
  <2>2. QED
      BY <2>1 DEF Before
<1>4. InLine'
    BY <1>1, <1>3 DEF QueuesInv, InLine, Only, Before
<1>5. Places'
  <2>1. Ids(pending) = {}
      BY ListOfNone
  <2>2. QED
      BY <1>1, <2>1, MovesPart DEF QueuesInv, Places
<1>6. QED
    BY <1>2, <1>4, <1>5

LEMMA TakeFollowUps ==
    ASSUME TypeInv, QueuesInv, NEW m, pending = <<>>,
           pending' = Taken(m, followUpQueue), followUpQueue' = Kept(m, followUpQueue),
           UNCHANGED <<steeringQueue, delivered, discarded, cutOff, inputs>>
    PROVE  AllSorted' /\ InLine' /\ Places'
<1>1. /\ Sorted(pending') /\ Sorted(followUpQueue')
      /\ RangeOf(pending') \union RangeOf(followUpQueue') = RangeOf(followUpQueue)
      /\ Ids(pending') \union Ids(followUpQueue') = Ids(followUpQueue)
      /\ Ids(pending') \intersect Ids(followUpQueue') = {}
      /\ Before(pending', followUpQueue')
    BY Drained, Lists DEF QueuesInv, AllSorted
<1>2. AllSorted'
    BY <1>1 DEF QueuesInv, AllSorted
<1>3. Before(pending', steeringQueue')
  <2>1. /\ \A x \in RangeOf(pending') : x.via = "followUp"
        /\ \A x \in RangeOf(steeringQueue) : x.via = "steer"
      BY <1>1 DEF QueuesInv, InLine, Only
  <2>2. QED
      BY <2>1 DEF Before
<1>4. InLine'
    BY <1>1, <1>3 DEF QueuesInv, InLine, Only, Before
<1>5. Places'
  <2>1. Ids(pending) = {}
      BY ListOfNone
  <2>2. QED
      BY <1>1, <2>1, MovesPart DEF QueuesInv, Places
<1>6. QED
    BY <1>2, <1>4, <1>5

----------------------------------------------------------------------------
(* Every step keeps the invariant. *)

LEMMA CallersQueues ==
    ASSUME TypeInv, QueuesInv, Callers
    PROVE  QueuesInv'
<1> USE DEF agentVars, queueVars, configVars, toolVars, turnVars, historyVars
<1>n. /\ \A x \in RangeOf(steeringQueue) \union RangeOf(followUpQueue)
                    \union RangeOf(pending) \union RangeOf(delivered) :
             x.id < inputs + 1
      /\ inputs + 1 \notin Ids(steeringQueue) \union Ids(followUpQueue)
                              \union Ids(pending) \union Ids(delivered)
    BY Numbered DEF QueuesInv
<1>1. CASE Steer
  <2> DEFINE m == NewInput("steer")
  <2>1. m \in UserMessage /\ m.id = inputs + 1 /\ m.via = "steer"
      BY NextInput DEF Vias
  <2> HIDE DEF m
  <2>2. /\ steeringQueue' = Append(steeringQueue, m)
        /\ inputs' = inputs + 1
        /\ UNCHANGED <<followUpQueue, pending, delivered, discarded, cutOff, phase>>
      BY <1>1 DEF Steer, m
  <2>3. /\ Sorted(steeringQueue')
        /\ RangeOf(steeringQueue') = RangeOf(steeringQueue) \union {m}
        /\ Ids(steeringQueue') = Ids(steeringQueue) \union {inputs + 1}
      BY <1>n, <2>1, <2>2, Appended, Lists DEF QueuesInv, AllSorted
  <2>4. AllSorted'
      BY <2>2, <2>3 DEF QueuesInv, AllSorted
  <2>5. InLine'
      BY <1>n, <2>1, <2>2, <2>3 DEF QueuesInv, InLine, Only, Before
  <2>6. Places'
    <3>1. Shared(Ids(steeringQueue) \union {inputs + 1}, Ids(followUpQueue), Ids(pending),
                 Ids(delivered), discarded, cutOff, inputs + 1)
        BY NewNumber, Lists DEF QueuesInv, Places
    <3>2. QED
        BY <2>2, <2>3, <3>1 DEF Places
  <2>7. HandsEmpty'
      BY <2>2 DEF QueuesInv, HandsEmpty
  <2>8. QED
      BY <2>4, <2>5, <2>6, <2>7 DEF QueuesInv
<1>2. CASE FollowUp
  <2> DEFINE m == NewInput("followUp")
  <2>1. m \in UserMessage /\ m.id = inputs + 1 /\ m.via = "followUp"
      BY NextInput DEF Vias
  <2> HIDE DEF m
  <2>2. /\ followUpQueue' = Append(followUpQueue, m)
        /\ inputs' = inputs + 1
        /\ UNCHANGED <<steeringQueue, pending, delivered, discarded, cutOff, phase>>
      BY <1>2 DEF FollowUp, m
  <2>3. /\ Sorted(followUpQueue')
        /\ RangeOf(followUpQueue') = RangeOf(followUpQueue) \union {m}
        /\ Ids(followUpQueue') = Ids(followUpQueue) \union {inputs + 1}
      BY <1>n, <2>1, <2>2, Appended, Lists DEF QueuesInv, AllSorted
  <2>4. AllSorted'
      BY <2>2, <2>3 DEF QueuesInv, AllSorted
  <2>5. InLine'
      BY <1>n, <2>1, <2>2, <2>3 DEF QueuesInv, InLine, Only, Before
  <2>6. Places'
    <3>1. Shared(Ids(steeringQueue), Ids(followUpQueue) \union {inputs + 1}, Ids(pending),
                 Ids(delivered), discarded, cutOff, inputs + 1)
        BY NewNumber, Lists DEF QueuesInv, Places
    <3>2. QED
        BY <2>2, <2>3, <3>1 DEF Places
  <2>7. HandsEmpty'
      BY <2>2 DEF QueuesInv, HandsEmpty
  <2>8. QED
      BY <2>4, <2>5, <2>6, <2>7 DEF QueuesInv
<1>3. CASE ClearSteeringQueue
  <2>1. /\ steeringQueue' = <<>>
        /\ discarded' = discarded \union Ids(steeringQueue)
        /\ UNCHANGED <<followUpQueue, pending, delivered, cutOff, inputs, phase>>
      BY <1>3 DEF ClearSteeringQueue
  <2>2. Places'
    <3>1. Shared({}, Ids(followUpQueue), Ids(pending),
                 Ids(delivered), discarded \union Ids(steeringQueue), cutOff, inputs)
        BY Moves DEF QueuesInv, Places
    <3>2. QED
        BY <2>1, <3>1, ListOfNone DEF Places
  <2>3. AllSorted' /\ InLine' /\ HandsEmpty'
      BY <2>1, ListOfNone DEF QueuesInv, AllSorted, InLine, HandsEmpty, Only, Before
  <2>4. QED
      BY <2>2, <2>3 DEF QueuesInv
<1>4. CASE ClearFollowUpQueue
  <2>1. /\ followUpQueue' = <<>>
        /\ discarded' = discarded \union Ids(followUpQueue)
        /\ UNCHANGED <<steeringQueue, pending, delivered, cutOff, inputs, phase>>
      BY <1>4 DEF ClearFollowUpQueue
  <2>2. Places'
    <3>1. Shared(Ids(steeringQueue), {}, Ids(pending),
                 Ids(delivered), discarded \union Ids(followUpQueue), cutOff, inputs)
        BY Moves DEF QueuesInv, Places
    <3>2. QED
        BY <2>1, <3>1, ListOfNone DEF Places
  <2>3. AllSorted' /\ InLine' /\ HandsEmpty'
      BY <2>1, ListOfNone DEF QueuesInv, AllSorted, InLine, HandsEmpty, Only, Before
  <2>4. QED
      BY <2>2, <2>3 DEF QueuesInv
<1>5. CASE Reset
  <2>1. /\ steeringQueue' = <<>> /\ followUpQueue' = <<>>
        /\ discarded' = discarded \union Ids(steeringQueue) \union Ids(followUpQueue)
        /\ UNCHANGED <<pending, delivered, cutOff, inputs, phase>>
      BY <1>5 DEF Reset
  <2>2. Places'
    <3>1. Shared({}, {}, Ids(pending),
                 Ids(delivered),
                 (discarded \union Ids(steeringQueue)) \union Ids(followUpQueue),
                 cutOff, inputs)
        BY Moves DEF QueuesInv, Places
    <3>2. QED
        BY <2>1, <3>1, ListOfNone DEF Places
  <2>3. AllSorted' /\ InLine' /\ HandsEmpty'
      BY <2>1, ListOfNone DEF QueuesInv, AllSorted, InLine, HandsEmpty, Only, Before
  <2>4. QED
      BY <2>2, <2>3 DEF QueuesInv
<1>6. CASE Abort
  <2>1. UNCHANGED <<steeringQueue, followUpQueue, pending, delivered, discarded,
                    cutOff, inputs, phase>>
      BY <1>6 DEF Abort
  <2>2. QED
      BY <2>1, QuietQueues DEF QueuesInv, HandsEmpty
<1>7. CASE Prompt
  <2> DEFINE m == NewInput("prompt")
  <2>1. m \in UserMessage /\ m.id = inputs + 1 /\ m.via = "prompt"
      BY NextInput DEF Vias
  <2> HIDE DEF m
  <2>2. /\ pending = <<>> /\ pending' = <<m>> /\ phase' = "start"
        /\ inputs' = inputs + 1
        /\ UNCHANGED <<steeringQueue, followUpQueue, delivered, discarded, cutOff>>
      BY <1>7 DEF Prompt, StartRun, m, Active, QueuesInv, HandsEmpty
  <2>3. /\ Sorted(pending') /\ RangeOf(pending') = {m}
        /\ Ids(pending') = {inputs + 1}
      BY <2>1, <2>2, ListOfOne
  <2>4. AllSorted'
      BY <2>2, <2>3 DEF QueuesInv, AllSorted
  <2>5. InLine'
      BY <1>n, <2>1, <2>2, <2>3 DEF QueuesInv, InLine, Only, Before
  <2>6. Places'
    <3>1. Ids(pending') = Ids(pending) \union {inputs + 1}
        BY <2>2, <2>3, ListOfNone
    <3>2. Shared(Ids(steeringQueue), Ids(followUpQueue), Ids(pending) \union {inputs + 1},
                 Ids(delivered), discarded, cutOff, inputs + 1)
        BY NewNumber, Lists DEF QueuesInv, Places
    <3>3. QED
        BY <2>2, <3>1, <3>2 DEF Places
  <2>7. HandsEmpty'
      BY <2>2 DEF HandsEmpty
  <2>8. QED
      BY <2>4, <2>5, <2>6, <2>7 DEF QueuesInv
<1>8. CASE ContinueWithSteering
  <2>1. PICK q \in QueueModes : /\ pending' = Taken(q, steeringQueue)
                                /\ steeringQueue' = Kept(q, steeringQueue)
      BY <1>8 DEF ContinueWithSteering, StartRun
  <2>2. /\ pending = <<>> /\ phase' = "start"
        /\ UNCHANGED <<followUpQueue, delivered, discarded, cutOff, inputs>>
      BY <1>8 DEF ContinueWithSteering, StartRun, Active, QueuesInv, HandsEmpty
  <2>3. QED
      BY <2>1, <2>2, TakeSteering DEF QueuesInv, HandsEmpty
<1>9. CASE ContinueWithFollowUps
  <2>1. PICK q \in QueueModes : /\ pending' = Taken(q, followUpQueue)
                                /\ followUpQueue' = Kept(q, followUpQueue)
      BY <1>9 DEF ContinueWithFollowUps, StartRun
  <2>2. /\ pending = <<>> /\ phase' = "start"
        /\ UNCHANGED <<steeringQueue, delivered, discarded, cutOff, inputs>>
      BY <1>9 DEF ContinueWithFollowUps, StartRun, Active, QueuesInv, HandsEmpty
  <2>3. QED
      BY <2>1, <2>2, TakeFollowUps DEF QueuesInv, HandsEmpty
<1>10. CASE ContinueTranscript
  <2>1. /\ pending = <<>> /\ pending' = <<>>
        /\ UNCHANGED <<steeringQueue, followUpQueue, delivered, discarded, cutOff,
                       inputs>>
      BY <1>10 DEF ContinueTranscript, StartRun, Active, QueuesInv, HandsEmpty
  <2>2. QED
      BY <2>1, QuietQueues DEF HandsEmpty
<1>11. QED
    BY <1>1, <1>2, <1>3, <1>4, <1>5, <1>6, <1>7, <1>8, <1>9, <1>10 DEF Callers

LEMMA LoopQueues ==
    ASSUME TypeInv, QueuesInv, LoopStep
    PROVE  QueuesInv'
<1> USE DEF agentVars, queueVars, configVars, toolVars, turnVars, historyVars
<1>q. ASSUME UNCHANGED <<steeringQueue, followUpQueue, pending, delivered, discarded,
                         cutOff, inputs>>,
             \/ phase \notin {"start", "top", "inject"}
             \/ phase' \in {"start", "top", "inject"}
             \/ pending = <<>>
      PROVE  QueuesInv'
    BY <1>q, QuietQueues DEF QueuesInv, HandsEmpty
<1>1. CASE EmitPrompts
  <2>1. /\ delivered' = delivered \o pending /\ pending' = <<>>
        /\ UNCHANGED <<steeringQueue, followUpQueue, discarded, cutOff, inputs>>
      BY <1>1 DEF EmitPrompts
  <2>2. Ids(delivered) \intersect Ids(pending) = {}
      BY DEF QueuesInv, Places, Shared
  <2>3. /\ Sorted(delivered')
        /\ RangeOf(delivered') = RangeOf(delivered) \union RangeOf(pending)
        /\ Ids(delivered') = Ids(delivered) \union Ids(pending)
      BY <2>1, <2>2, Joined, Lists DEF QueuesInv, AllSorted, InLine
  <2>4. Places'
    <3>1. Shared(Ids(steeringQueue), Ids(followUpQueue), {},
                 Ids(delivered) \union Ids(pending), discarded, cutOff, inputs)
        BY Moves DEF QueuesInv, Places
    <3>2. QED
        BY <2>1, <2>3, <3>1, ListOfNone DEF Places
  <2>5. AllSorted' /\ HandsEmpty'
      BY <2>1, <2>3, ListOfNone DEF QueuesInv, AllSorted, HandsEmpty
  <2>6. InLine'
      BY <2>1, <2>3, ListOfNone DEF QueuesInv, InLine, Only, Before
  <2>7. QED
      BY <2>4, <2>5, <2>6 DEF QueuesInv
<1>2. CASE FirstPoll
  <2>1. /\ pending = <<>> /\ phase = "firstPoll" /\ phase' = "top"
        /\ UNCHANGED <<followUpQueue, delivered, discarded, cutOff, inputs>>
      BY <1>2 DEF FirstPoll, QueuesInv, HandsEmpty
  <2>2. CASE skipPoll
      BY <1>2, <1>q, <2>1, <2>2 DEF FirstPoll
  <2>3. CASE ~skipPoll
    <3>1. PICK q \in QueueModes : /\ pending' = Taken(q, steeringQueue)
                                  /\ steeringQueue' = Kept(q, steeringQueue)
        BY <1>2, <2>3 DEF FirstPoll
    <3>2. QED
        BY <2>1, <3>1, TakeSteering DEF QueuesInv, HandsEmpty
  <2>4. QED
      BY <2>2, <2>3
<1>3. CASE NextTurn
    BY <1>3, <1>q DEF NextTurn
<1>4. CASE StopAtCap
  <2>1. /\ cutOff' = cutOff \union Ids(pending) /\ pending' = <<>>
        /\ UNCHANGED <<steeringQueue, followUpQueue, delivered, discarded, inputs>>
      BY <1>4 DEF StopAtCap
  <2>2. Places'
    <3>1. Shared(Ids(steeringQueue), Ids(followUpQueue), {},
                 Ids(delivered), discarded, cutOff \union Ids(pending), inputs)
        BY Moves DEF QueuesInv, Places
    <3>2. QED
        BY <2>1, <3>1, ListOfNone DEF Places
  <2>3. AllSorted' /\ InLine' /\ HandsEmpty'
      BY <2>1, ListOfNone DEF QueuesInv, AllSorted, InLine, HandsEmpty, Only, Before
  <2>4. QED
      BY <2>2, <2>3 DEF QueuesInv
<1>5. CASE Inject
  <2> DEFINE m == Head(pending)
  <2>1. /\ phase = "inject" /\ pending # <<>>
        /\ delivered' = Append(delivered, m) /\ pending' = Tail(pending)
        /\ phase' = IF Tail(pending) = <<>> THEN "llm" ELSE "inject"
        /\ UNCHANGED <<steeringQueue, followUpQueue, discarded, cutOff, inputs>>
      BY <1>5 DEF Inject, TypeInv, Nonempty
  <2>2. /\ m \in UserMessage
        /\ Sorted(Tail(pending))
        /\ RangeOf(pending) = {m} \union RangeOf(Tail(pending))
        /\ Ids(pending) = {m.id} \union Ids(Tail(pending))
        /\ m.id \notin Ids(Tail(pending))
        /\ \A x \in RangeOf(Tail(pending)) : m.via = x.via => m.id < x.id
      BY <2>1, Beheaded, Lists DEF QueuesInv, AllSorted
  <2> HIDE DEF m
  <2>3. m.id \notin Ids(delivered)
      BY <2>2 DEF QueuesInv, Places, Shared
  <2>4. \A x \in RangeOf(delivered) : x.via = m.via => x.id < m.id
      BY <2>2 DEF QueuesInv, InLine, Before
  <2>5. /\ Sorted(delivered')
        /\ RangeOf(delivered') = RangeOf(delivered) \union {m}
        /\ Ids(delivered') = Ids(delivered) \union {m.id}
      BY <2>1, <2>2, <2>3, <2>4, Appended, Lists DEF QueuesInv, AllSorted
  <2>6. Places'
    <3>1. /\ {m.id} \intersect Ids(pending') = {}
          /\ {m.id} \union Ids(pending') = Ids(pending)
        BY <2>1, <2>2
    <3>2. Shared(Ids(steeringQueue), Ids(followUpQueue), Ids(pending'),
                 Ids(delivered) \union {m.id}, discarded, cutOff, inputs)
        BY <3>1, MovesPart DEF QueuesInv, Places
    <3>3. QED
        BY <2>1, <2>5, <3>2 DEF Places
  <2>7. AllSorted' /\ HandsEmpty'
      BY <2>1, <2>2, <2>5 DEF QueuesInv, AllSorted, HandsEmpty
  <2>8. InLine'
      BY <2>1, <2>2, <2>5 DEF QueuesInv, InLine, Only, Before
  <2>9. QED
      BY <2>6, <2>7, <2>8 DEF QueuesInv
<1>6. CASE OpenStream
    BY <1>6, <1>q DEF OpenStream
<1>7. CASE \E k \in 0 .. MaxCalls, stop \in Stops : Reply(k, stop)
    BY <1>7, <1>q DEF Reply
<1>8. CASE StartCall \/ RefuseCall \/ ApproveCall
    BY <1>8, <1>q DEF StartCall, RefuseCall, ApproveCall, EmitOutcome
<1>9. CASE LaunchCalls \/ FinalizeCall \/ CloseTurn
    BY <1>9, <1>q DEF LaunchCalls, FinalizeCall, CloseTurn, EmitOutcome
<1>10. CASE PollSteering
  <2>1. PICK q \in QueueModes : /\ pending' = Taken(q, steeringQueue)
                                /\ steeringQueue' = Kept(q, steeringQueue)
      BY <1>10 DEF PollSteering
  <2>2. /\ pending = <<>>
        /\ phase' = IF calls > 0 \/ steeringQueue # <<>> THEN "top" ELSE "followUp"
        /\ UNCHANGED <<followUpQueue, delivered, discarded, cutOff, inputs>>
      BY <1>10 DEF PollSteering, QueuesInv, HandsEmpty
  <2>3. HandsEmpty'
      BY <2>1, <2>2 DEF HandsEmpty, Taken
  <2>4. QED
      BY <2>1, <2>2, <2>3, TakeSteering DEF QueuesInv
<1>11. CASE PollFollowUps
  <2>1. PICK q \in QueueModes : /\ pending' = Taken(q, followUpQueue)
                                /\ followUpQueue' = Kept(q, followUpQueue)
      BY <1>11 DEF PollFollowUps
  <2>2. /\ pending = <<>>
        /\ phase' = IF followUpQueue # <<>> THEN "top" ELSE "ending"
        /\ UNCHANGED <<steeringQueue, delivered, discarded, cutOff, inputs>>
      BY <1>11 DEF PollFollowUps, QueuesInv, HandsEmpty
  <2>3. HandsEmpty'
      BY <2>1, <2>2 DEF HandsEmpty, Taken
  <2>4. QED
      BY <2>1, <2>2, <2>3, TakeFollowUps DEF QueuesInv
<1>12. CASE RunThrows \/ FinishRun
    BY <1>12, <1>q DEF RunThrows, FinishRun
<1>13. QED
    BY <1>1, <1>2, <1>3, <1>4, <1>5, <1>6, <1>7, <1>8, <1>9, <1>10, <1>11, <1>12
    DEF LoopStep

LEMMA QueuesInvariant == Spec => []QueuesInv
<1>1. Init => QueuesInv
  <2> SUFFICES ASSUME Init PROVE QueuesInv
      OBVIOUS
  <2>1. /\ steeringQueue = <<>> /\ followUpQueue = <<>> /\ pending = <<>>
        /\ delivered = <<>> /\ discarded = {} /\ cutOff = {} /\ inputs = 0
      BY DEF Init
  <2>2. AllSorted /\ InLine /\ HandsEmpty
      BY <2>1, ListOfNone DEF AllSorted, InLine, Only, Before, HandsEmpty
  <2>3. 1 .. 0 = {}
      OBVIOUS
  <2>4. Places
      BY <2>1, <2>3, ListOfNone DEF Places, Shared
  <2>5. QED
      BY <2>2, <2>4 DEF QueuesInv
<1>2. TypeInv /\ QueuesInv /\ [Next]_vars => QueuesInv'
  <2> SUFFICES ASSUME TypeInv, QueuesInv, [Next]_vars PROVE QueuesInv'
      OBVIOUS
  <2> USE DEF agentVars, queueVars, configVars, toolVars, turnVars, historyVars
  <2>1. CASE Callers
      BY <2>1, CallersQueues
  <2>2. CASE LoopStep
      BY <2>2, LoopQueues
  <2>3. CASE ToolStep \/ UNCHANGED vars
    <3>1. UNCHANGED <<steeringQueue, followUpQueue, pending, delivered, discarded,
                      cutOff, inputs, phase>>
        BY <2>3 DEF ToolStep, ToolReturns, vars
    <3>2. QED
        BY <3>1, QuietQueues DEF QueuesInv, HandsEmpty
  <2>4. QED
      BY <2>1, <2>2, <2>3 DEF Next
<1>3. QED
    BY InitType, StepType, <1>1, <1>2, PTL DEF Spec

----------------------------------------------------------------------------
(* Across turns, runs, drain modes, clears and resets, a steering message  *)
(* is never announced before an older one, nor a follow-up or a prompt     *)
(* (PendingMessageQueue, agent.ts:122).                                    *)
THEOREM DeliveryOrdered == Spec => []DeliveredInOrder
<1>1. QueuesInv => DeliveredInOrder
    BY DEF QueuesInv, AllSorted, Sorted, DeliveredInOrder
<1>2. QED
    BY QueuesInvariant, <1>1, PTL

(* The places the number id has in a list. *)
At(place, s, id) == {<<place, i>> : i \in {j \in 1 .. Len(s) : s[j].id = id}}

(* A number that is in a sorted list stands there once. *)
LEMMA StandsOnce ==
    ASSUME NEW s, Sorted(s), NEW id, NEW place
    PROVE  /\ id \notin Ids(s) => At(place, s, id) = {}
           /\ id \in Ids(s) => \E x : At(place, s, id) = {x}
<1>1. id \notin Ids(s) => At(place, s, id) = {}
    BY DEF Ids, At
<1>2. ASSUME id \in Ids(s) PROVE \E x : At(place, s, id) = {x}
  <2>1. PICK i \in 1 .. Len(s) : s[i].id = id
      BY <1>2 DEF Ids
  <2>2. \A j \in 1 .. Len(s) : s[j].id = id => j = i
      BY <2>1 DEF Sorted
  <2>3. At(place, s, id) = {<<place, i>>}
      BY <2>1, <2>2 DEF At
  <2>4. QED
      BY <2>3
<1>3. QED
    BY <1>1, <1>2

(* No message handed to the agent is lost or announced twice, but for the  *)
(* turn cap (agent-loop.ts, runLoop; agent.ts, prompt, steer, followUp).   *)
THEOREM MessagesKeptOnce == Spec => []EachMessageOnce
<1>1. QueuesInv => EachMessageOnce
  <2> SUFFICES ASSUME QueuesInv, NEW id \in 1 .. inputs
               PROVE  Cardinality(Whereabouts(id)) = 1
      BY DEF EachMessageOnce
  <2> DEFINE A == At("steering", steeringQueue, id)
             B == At("followUp", followUpQueue, id)
             G == At("pending", pending, id)
             H == At("delivered", delivered, id)
             K == {<<"cleared", 0>> : x \in {id} \intersect discarded}
             L == {<<"cut off", 0>> : x \in {id} \intersect cutOff}
  <2>1. Whereabouts(id) = A \union B \union G \union H \union K \union L
      BY DEF Whereabouts, At
  <2>s. /\ Sorted(steeringQueue) /\ Sorted(followUpQueue)
        /\ Sorted(pending) /\ Sorted(delivered)
      BY DEF QueuesInv, AllSorted
  <2>2. /\ id \notin Ids(steeringQueue) => A = {}
        /\ id \in Ids(steeringQueue) => \E x : A = {x}
      BY <2>s, StandsOnce
  <2>3. /\ id \notin Ids(followUpQueue) => B = {}
        /\ id \in Ids(followUpQueue) => \E x : B = {x}
      BY <2>s, StandsOnce
  <2>4. /\ id \notin Ids(pending) => G = {}
        /\ id \in Ids(pending) => \E x : G = {x}
      BY <2>s, StandsOnce
  <2>5. /\ id \notin Ids(delivered) => H = {}
        /\ id \in Ids(delivered) => \E x : H = {x}
      BY <2>s, StandsOnce
  <2>6. /\ id \notin discarded => K = {}
        /\ id \in discarded => \E x : K = {x}
      OBVIOUS
  <2>7. /\ id \notin cutOff => L = {}
        /\ id \in cutOff => \E x : L = {x}
      OBVIOUS
  <2> HIDE DEF A, B, G, H, K, L
  <2>8. \E x : Whereabouts(id) = {x}
    <3>1. Shared(Ids(steeringQueue), Ids(followUpQueue), Ids(pending), Ids(delivered),
                 discarded, cutOff, inputs)
        BY DEF QueuesInv, Places
    <3>2. CASE id \in Ids(steeringQueue)
        BY <2>1, <2>2, <2>3, <2>4, <2>5, <2>6, <2>7, <3>1, <3>2 DEF Shared
    <3>3. CASE id \in Ids(followUpQueue)
        BY <2>1, <2>2, <2>3, <2>4, <2>5, <2>6, <2>7, <3>1, <3>3 DEF Shared
    <3>4. CASE id \in Ids(pending)
        BY <2>1, <2>2, <2>3, <2>4, <2>5, <2>6, <2>7, <3>1, <3>4 DEF Shared
    <3>5. CASE id \in Ids(delivered)
        BY <2>1, <2>2, <2>3, <2>4, <2>5, <2>6, <2>7, <3>1, <3>5 DEF Shared
    <3>6. CASE id \in discarded
        BY <2>1, <2>2, <2>3, <2>4, <2>5, <2>6, <2>7, <3>1, <3>6 DEF Shared
    <3>7. CASE id \in cutOff
        BY <2>1, <2>2, <2>3, <2>4, <2>5, <2>6, <2>7, <3>1, <3>7 DEF Shared
    <3>8. QED
        BY <3>1, <3>2, <3>3, <3>4, <3>5, <3>6, <3>7 DEF Shared
  <2>9. QED
      BY <2>8, FS_Singleton
<1>2. QED
    BY QueuesInvariant, <1>1, PTL
=============================================================================

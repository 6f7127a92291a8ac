------------------------------ MODULE AgentRun ------------------------------
(***************************************************************************)
(* What the agent of packages/agent promises whoever listens to it: a      *)
(* transcript that grows message by message while the agent runs, in an    *)
(* order a model provider accepts.  AgentLoop implements it, and           *)
(* AgentSession is built on it.                                            *)
(*                                                                         *)
(*   idle     no message will come until a run begins                      *)
(*   running  messages are announced                                       *)
(*   over     agent_end is announced; no message comes any more            *)
(***************************************************************************)
EXTENDS Naturals, Sequences

VARIABLES
    transcript,  \* the messages, oldest first
    status,      \* where the run is
    owed         \* calls of the last reply that have no result yet

agent == <<transcript, status, owed>>

FailedStops == {"error", "aborted"}

CallsOf(reply)  == {<<reply.id, i>> : i \in 1 .. reply.calls}
AllOf(ms, role) == \A i \in 1 .. Len(ms) : ms[i].role = role

Idle ==
    /\ transcript = <<>>
    /\ status = "idle"
    /\ owed = {}

(* A run begins with its prompts, or with none when it continues. *)
Begin(ms) ==
    /\ status = "idle"
    /\ AllOf(ms, "user")
    /\ transcript' = transcript \o ms
    /\ status' = "running"
    /\ owed' = {}

(* Users are heard between two turns: when no call is unanswered. *)
Say(ms) ==
    /\ status = "running"
    /\ owed = {}
    /\ ms # <<>>
    /\ AllOf(ms, "user")
    /\ transcript' = transcript \o ms
    /\ UNCHANGED <<status, owed>>

(* The model is called when no call is unanswered; a failed reply is the   *)
(* last one, and its calls are void.                                       *)
Answer(reply) ==
    /\ status = "running"
    /\ owed = {}
    /\ reply.role = "assistant"
    /\ transcript' = Append(transcript, reply)
    /\ IF reply.stop \in FailedStops
       THEN status' = "over" /\ owed' = {}
       ELSE status' = "running" /\ owed' = CallsOf(reply)

Deliver(result) ==
    /\ status = "running"
    /\ result.role = "toolResult"
    /\ result.call \in owed
    /\ transcript' = Append(transcript, result)
    /\ owed' = owed \ {result.call}
    /\ UNCHANGED status

(* The run fails: a failed reply without calls stands for the reason, and  *)
(* calls that are still owed never get a result.                           *)
Break(reply) ==
    /\ status = "running"
    /\ reply.role = "assistant"
    /\ reply.stop \in FailedStops
    /\ transcript' = Append(transcript, reply)
    /\ status' = "over"
    /\ owed' = {}

Stop ==
    /\ status = "running"
    /\ owed = {}
    /\ status' = "over"
    /\ UNCHANGED <<transcript, owed>>

Settle ==
    /\ status = "over"
    /\ status' = "idle"
    /\ UNCHANGED <<transcript, owed>>

Forget ==
    /\ transcript' = <<>>
    /\ UNCHANGED <<status, owed>>

(* The messages a step adds. *)
Added == SubSeq(transcript', Len(transcript) + 1, Len(transcript'))

Step ==
    \/ Begin(Added) \/ Say(Added)
    \/ Added # <<>> /\ (Answer(Added[1]) \/ Deliver(Added[1]) \/ Break(Added[1]))
    \/ Stop \/ Settle \/ Forget

(* A run that is over settles.  Nothing makes the agent answer. *)
Promise == Idle /\ [][Step]_agent /\ WF_agent(Settle)
=============================================================================

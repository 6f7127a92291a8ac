------------------------------- MODULE Daemon -------------------------------
(***************************************************************************)
(* caveman serve (coding-agent, core/daemon): one session of the daemon,   *)
(* the runner that answers its messages token by token, the clients that   *)
(* are attached to it by sockets, and the transcript in the database.      *)
(*                                                                         *)
(* An action is the code between two awaits.  Sessions share nothing but   *)
(* the process, so there is one; an identifier is never used again.  A     *)
(* message is answered by the reply of the same number; Length tokens make *)
(* a reply.  Left out: workers, authorization, the client library, tools   *)
(* (the runner has none), and the text of messages.                        *)
(*                                                                         *)
(* External: a statement of the database is atomic, and what it wrote      *)
(* survives a kill; sockets keep the order; a tick may be late.            *)
(***************************************************************************)
EXTENDS Naturals, Sequences, FiniteSets

CONSTANTS
    Clients,
    Length,       \* tokens of a reply
    MaxMessages   \* bound of the model: messages sent to the session

ASSUME DaemonAssumption == Length \in Nat \ {0} /\ MaxMessages \in Nat

Messages == 1 .. MaxMessages

(* Runners made since the daemon started: one while there is a session,    *)
(* one for messages to a deleted session, one while the daemon closes.     *)
Runners  == 1 .. 3
NoRunner == 0

VARIABLES
    mode,         \* of the daemon: up, closing or down
    session,      \* row of the session: none, stored or deleted
    stored,       \* its messages
    posts,        \* HTTP messages whose body is being read
    made,         \* runners made since the daemon started
    runner,       \* the session's entry in the map of runners
    active,       \* of each runner
    interrupted,  \* of each runner
    reply,        \* streamReply for each message: its runner, the tokens it sent, whether it runs
    asked,        \* messages accepted
    client        \* each client: its socket, buffer and timer, and what it was shown

(* History: all tokens emitted; replies that were live when their runner   *)
(* was interrupted or closed; replies that shared a runner; replies that   *)
(* ended with the process.                                                 *)
VARIABLES said, halted, overlapped, lost

history == <<said, halted, overlapped, lost>>
vars == <<mode, session, stored, posts, made, runner, active, interrupted, reply, asked, client,
          history>>

Away == [socket |-> "away", pending |-> <<>>, tick |-> FALSE,
         shown |-> <<>>, state |-> "none", since |-> 0, midway |-> FALSE]

Live       == {n \in Messages : reply[n].on}
LiveOn(r)  == {n \in Live : reply[n].runner = r}
Token(n, i) == [kind |-> "token", of |-> n, at |-> i]
DoneOf(n)   == [kind |-> "done", of |-> n, at |-> 0]
Message(role, n) == [role |-> role, of |-> n]

Init ==
    /\ mode = "up" /\ session = "none" /\ stored = <<>> /\ posts = 0
    /\ made = 0 /\ runner = NoRunner
    /\ active = [r \in Runners |-> FALSE] /\ interrupted = [r \in Runners |-> FALSE]
    /\ reply = [n \in Messages |-> [runner |-> NoRunner, sent |-> 0, on |-> FALSE]]
    /\ asked = 0
    /\ client = [c \in Clients |-> Away]
    /\ said = <<>> /\ halted = {} /\ overlapped = {} /\ lost = {}

-----------------------------------------------------------------------------
(* What the runner's events do to the attached clients (emitForSession) *)

ToAttached(told) ==
    [c \in Clients |-> IF client[c].socket = "attached" THEN told[c] ELSE client[c]]

WithState(k, s) == [k EXCEPT !.state = s]

(* A token is kept for the next tick. *)
WithToken(k, t) == [k EXCEPT !.pending = Append(@, t), !.tick = TRUE]

Flushed(k) == [k EXCEPT !.shown = @ \o k.pending, !.pending = <<>>, !.tick = FALSE]

(* Mutant of WithDone: what is buffered waits for its tick. *)
BugWithDone(k, s, n) == [k EXCEPT !.state = s, !.shown = Append(@, DoneOf(n))]

(* The state is told at once, before the tokens in the buffer. *)
WithDone(k, s, n) ==
    LET flushed == Flushed(WithState(k, s))
    IN  [flushed EXCEPT !.shown = Append(@, DoneOf(n))]

-----------------------------------------------------------------------------
(* A session and its messages *)

CreateSession ==
    /\ mode = "up" /\ session = "none"
    /\ session' = "stored"
    /\ UNCHANGED <<mode, stored, posts, made, runner, active, interrupted, reply, asked, client,
                   history>>

EnsureRunner == IF runner = NoRunner THEN made + 1 ELSE runner

(* runner.send stores the message, and streamReply sends its first token.  *)
(* The insertion is refused when the session is gone.                      *)
Send ==
    LET r == EnsureRunner
        n == asked + 1
    IN  /\ runner' = r
        /\ made' = IF r = runner THEN made ELSE r
        /\ IF session = "stored"
           THEN /\ asked < MaxMessages
                /\ asked' = n
                /\ stored' = Append(stored, Message("user", n))
                /\ active' = [active EXCEPT ![r] = TRUE]
                /\ interrupted' = [interrupted EXCEPT ![r] = FALSE]
                /\ reply' = [reply EXCEPT ![n] = [runner |-> r, sent |-> 1, on |-> TRUE]]
                /\ client' = ToAttached([c \in Clients |->
                                WithToken(WithState(client[c], "running"), Token(n, 1))])
                /\ said' = Append(said, Token(n, 1))
                /\ overlapped' = IF LiveOn(r) = {} THEN overlapped
                                 ELSE overlapped \cup LiveOn(r) \cup {n}
                /\ UNCHANGED <<halted, lost>>
           ELSE UNCHANGED <<stored, active, interrupted, reply, asked, client, history>>
        /\ UNCHANGED <<mode, session>>

SendBySocket(c) ==
    /\ mode # "down" /\ client[c].socket # "away"
    /\ Send
    /\ UNCHANGED posts

(* The session is looked up before the body is read. *)
PostMessage ==
    /\ mode = "up" /\ session = "stored" /\ posts = 0
    /\ posts' = 1
    /\ UNCHANGED <<mode, session, stored, made, runner, active, interrupted, reply, asked, client,
                   history>>

PostBody ==
    /\ posts = 1
    /\ posts' = 0
    /\ Send

(* The client of a request goes away before it has sent the body. *)
PostFails ==
    /\ posts = 1
    /\ posts' = 0
    /\ UNCHANGED <<mode, session, stored, made, runner, active, interrupted, reply, asked, client,
                   history>>

StreamToken(n) ==
    LET t == Token(n, reply[n].sent + 1)
    IN  /\ n \in Live
        /\ ~interrupted[reply[n].runner] /\ reply[n].sent < Length
        /\ reply' = [reply EXCEPT ![n].sent = @ + 1]
        /\ client' = ToAttached([c \in Clients |-> WithToken(client[c], t)])
        /\ said' = Append(said, t)
        /\ UNCHANGED <<mode, session, stored, posts, made, runner, active, interrupted, asked,
                       halted, overlapped, lost>>

(* Mutant of Answer: an interrupted reply is not stored *)
BugAnswer(n) ==
    IF interrupted[reply[n].runner] THEN stored ELSE Append(stored, Message("assistant", n))

(* The whole reply is stored, also if it was interrupted. *)
Answer(n) == Append(stored, Message("assistant", n))

(* The stream is over.  If the session is gone the reply is refused, the   *)
(* clients are told of an error, and the runner stays active.              *)
StreamEnds(n) ==
    /\ n \in Live
    /\ interrupted[reply[n].runner] \/ reply[n].sent = Length
    /\ reply' = [reply EXCEPT ![n].on = FALSE]
    /\ IF session = "stored"
       THEN /\ stored' = Answer(n)
            /\ active' = [active EXCEPT ![reply[n].runner] = FALSE]
            /\ client' = ToAttached([c \in Clients |-> WithDone(client[c], "idle", n)])
       ELSE /\ client' = ToAttached([c \in Clients |-> WithDone(client[c], "error", n)])
            /\ UNCHANGED <<stored, active>>
    /\ UNCHANGED <<mode, session, posts, made, runner, interrupted, asked, history>>

StreamStep(n) == StreamToken(n) \/ StreamEnds(n)

(* Mutant of CloseRunner: the runner is forgotten, not closed *)
BugCloseRunner == UNCHANGED interrupted

CloseRunner ==
    interrupted' = [r \in Runners |-> r = runner \/ interrupted[r]]

(* The clients stay attached. *)
DeleteSession ==
    /\ mode = "up" /\ session = "stored"
    /\ CloseRunner
    /\ halted' = halted \cup LiveOn(runner)
    /\ runner' = NoRunner
    /\ session' = "deleted"
    /\ stored' = <<>>
    /\ UNCHANGED <<mode, posts, made, active, reply, asked, client, said, overlapped, lost>>

-----------------------------------------------------------------------------
(* Clients *)

(* A client is told the stored state, which is always idle. *)
Attach(c) ==
    /\ mode = "up" /\ session = "stored" /\ client[c].socket = "away"
    /\ client' = [client EXCEPT ![c] =
                    [Away EXCEPT !.socket = "attached", !.state = "idle",
                                 !.since = Len(said), !.midway = Live # {}]]
    /\ UNCHANGED <<mode, session, stored, posts, made, runner, active, interrupted, reply, asked,
                   history>>

Detach(c) ==
    /\ client[c].socket # "away"
    /\ client' = [client EXCEPT ![c] = Away]
    /\ UNCHANGED <<mode, session, stored, posts, made, runner, active, interrupted, reply, asked,
                   history>>

Tick(c) ==
    /\ client[c].tick /\ client[c].socket = "attached"
    /\ client' = [client EXCEPT ![c] = Flushed(@)]
    /\ UNCHANGED <<mode, session, stored, posts, made, runner, active, interrupted, reply, asked,
                   history>>

Interrupt(c) ==
    /\ mode # "down" /\ client[c].socket # "away"
    /\ runner # NoRunner
    /\ interrupted' = [interrupted EXCEPT ![runner] = @ \/ active[runner]]
    /\ halted' = halted \cup LiveOn(runner)
    /\ UNCHANGED <<mode, session, stored, posts, made, runner, active, reply, asked, client, said,
                   overlapped, lost>>

-----------------------------------------------------------------------------
(* The process *)

(* handle.close(): the clients are out of the map, their sockets closing. *)
Close ==
    /\ mode = "up"
    /\ mode' = "closing"
    /\ CloseRunner
    /\ halted' = halted \cup LiveOn(runner)
    /\ runner' = NoRunner
    /\ client' = [c \in Clients |-> IF client[c].socket = "away" THEN Away
                                    ELSE [client[c] EXCEPT !.socket = "closing"]]
    /\ UNCHANGED <<session, stored, posts, made, active, reply, asked, said, overlapped, lost>>

ProcessEnds ==
    /\ mode' = "down"
    /\ posts' = 0
    /\ reply' = [n \in Messages |-> [reply[n] EXCEPT !.on = FALSE]]
    /\ client' = [c \in Clients |-> Away]
    /\ lost' = lost \cup Live
    /\ UNCHANGED <<session, stored, made, runner, active, interrupted, asked, said, halted,
                   overlapped>>

(* Every socket and request is closed; a reply may still be streaming. *)
Exit ==
    /\ mode = "closing" /\ posts = 0
    /\ \A c \in Clients : client[c].socket = "away"
    /\ ProcessEnds

Kill == mode # "down" /\ ProcessEnds

Start ==
    /\ mode = "down"
    /\ mode' = "up"
    /\ made' = 0 /\ runner' = NoRunner
    /\ active' = [r \in Runners |-> FALSE] /\ interrupted' = [r \in Runners |-> FALSE]
    /\ UNCHANGED <<session, stored, posts, reply, asked, client, history>>

-----------------------------------------------------------------------------
Next ==
    \/ CreateSession \/ DeleteSession
    \/ PostMessage \/ PostBody \/ PostFails
    \/ \E n \in Messages : StreamStep(n)
    \/ \E c \in Clients : Attach(c) \/ Detach(c) \/ Tick(c) \/ SendBySocket(c) \/ Interrupt(c)
    \/ Close \/ Exit \/ Kill \/ Start

(* The timers of streamReply fire as long as there is a process. *)
Fairness == WF_vars(\E n \in Messages : StreamStep(n))

Spec == Init /\ [][Next]_vars /\ Fairness

-----------------------------------------------------------------------------
(* Properties *)

Notices == [kind : {"token", "done"}, of : Messages, at : 0 .. Length]

TypeOK ==
    /\ mode \in {"up", "closing", "down"}
    /\ session \in {"none", "stored", "deleted"}
    /\ stored \in Seq([role : {"user", "assistant"}, of : Messages])
    /\ posts \in {0, 1}
    /\ made \in Runners \cup {0}
    /\ runner \in Runners \cup {NoRunner}
    /\ active \in [Runners -> BOOLEAN] /\ interrupted \in [Runners -> BOOLEAN]
    /\ reply \in [Messages -> [runner : Runners \cup {NoRunner}, sent : 0 .. Length,
                               on : BOOLEAN]]
    /\ asked \in 0 .. MaxMessages
    /\ client \in [Clients -> [socket : {"away", "attached", "closing"},
                               pending : Seq(Notices), tick : BOOLEAN, shown : Seq(Notices),
                               state : {"none", "idle", "running", "error"},
                               since : Nat, midway : BOOLEAN]]
    /\ said \in Seq(Notices)
    /\ halted \subseteq Messages /\ overlapped \subseteq Messages /\ lost \subseteq Messages

IsToken(notice) == notice.kind = "token"

(* The tokens among the first i notices *)
TokensTo(notices, i) == Cardinality({j \in 1 .. i : IsToken(notices[j])})

All(k) == k.shown \o k.pending

(* Tokens are batched "in order" (server.ts): what a client was shown and  *)
(* what is kept for it is, token by token, all that was said since it      *)
(* attached, and only tokens are kept, with a timer to send them.          *)
TokensExact(k) ==
    /\ \A i \in DOMAIN All(k) :
          IsToken(All(k)[i]) => All(k)[i] = said[k.since + TokensTo(All(k), i)]
    /\ k.since + TokensTo(All(k), Len(All(k))) = Len(said)
    /\ \A i \in DOMAIN k.pending : IsToken(k.pending[i]) /\ k.tick

(* No token of a reply comes after its done. *)
DoneComesLast(k) ==
    \A i, j \in DOMAIN All(k) :
        All(k)[i].kind = "done" /\ All(k)[j].of = All(k)[i].of /\ i # j => j < i

(* A client that did not attach in the middle of a reply is shown running  *)
(* exactly while one runs, if replies were never streamed two at a time.   *)
StateExact(k) ==
    overlapped = {} /\ ~k.midway => ((k.state = "running") <=> (Live # {}))

(* Each attached client sees what the runner did, whoever came, went, sent *)
(* or deleted meanwhile.                                                   *)
ClientsFollow ==
    \A c \in Clients : client[c].socket = "attached" =>
        TokensExact(client[c]) /\ DoneComesLast(client[c]) /\ StateExact(client[c])

(* A reply that was streamed when its runner was interrupted or closed     *)
(* says nothing more, unless it shared the runner with another: a second   *)
(* message resets the interrupt, and the first to end makes the runner     *)
(* deaf to the next one.                                                   *)
InterruptHonoured ==
    [][\A n \in halted \ overlapped : reply'[n].sent = reply[n].sent]_vars

(* Every message of the transcript gets its reply in the transcript, also  *)
(* one that is interrupted or whose clients all left, unless the session   *)
(* is deleted or the process ends first.                                   *)
Stored(m) == \E i \in DOMAIN stored : stored[i] = m

Answered ==
    \A n \in Messages :
        Stored(Message("user", n)) ~> \/ Stored(Message("assistant", n))
                                      \/ session = "deleted" \/ n \in lost
=============================================================================

------------------------------- MODULE McpHub -------------------------------
(***************************************************************************)
(* Calls to one MCP server over stdio (agent, mcp/client.ts and            *)
(* mcp/transport/stdio.ts): the connection made by the first call that     *)
(* finds none, the table of requests that wait for an answer, their        *)
(* deadlines, and the processes that answer.                               *)
(*                                                                         *)
(* An action is an event of the program (a call, a line from a process, a  *)
(* timer, an exit, close()) with the continuations it runs.  A call of     *)
(* callNamespaced or of the tool search goes from `spawning' by            *)
(* `initializing' and `listing' to `calling'; it spawns at most one        *)
(* process, which bears its name.                                          *)
(*                                                                         *)
(* Left out: tools and their schemas, results, other servers and other     *)
(* transports, which have no state but `connected'.  A write to a process  *)
(* that is gone is lost here.                                              *)
(***************************************************************************)
EXTENDS Naturals, FiniteSets

CONSTANTS
    Calls,
    Nobody     \* no process

ASSUME McpAssumption == Nobody \notin Calls

VARIABLES
    call,      \* where each call is, and the request it waits for
    connected, \* StdioTransport.connected
    child,     \* StdioTransport.child
    nextId,
    pending,   \* the requests that wait for an answer
    process,   \* the process each call spawned
    killed,    \* of those, the ones that were told to end
    received   \* requests a process has been sent and has not answered

(* History: processes that were sent initialize; those asked for tools     *)
(* before; whether a process was spawned while another was being connected *)
(* to; whether a connection was given up while its process lived; whether  *)
(* a process ended after another had taken its place; whether a call was   *)
(* given the answer of another.                                            *)
VARIABLES greeted, rushed, overlapped, givenUp, outlived, crossed

history == <<greeted, rushed, overlapped, givenUp, outlived, crossed>>
vars == <<call, connected, child, nextId, pending, process, killed, received, history>>

Idle == [at |-> "idle", id |-> 0]
Done == [at |-> "done", id |-> 0]
Failed == [at |-> "failed", id |-> 0]

(* Where a call waits for an answer, and the method it asked for *)
Methods == {"initializing", "listing", "calling"}

CallType == [at : {"idle", "spawning", "done", "failed"} \cup Methods, id : Nat]
Message == [id : Nat, to : Calls, of : Calls]

Init ==
    /\ call = [c \in Calls |-> Idle]
    /\ connected = FALSE /\ child = Nobody
    /\ nextId = 1 /\ pending = {}
    /\ process = [c \in Calls |-> "none"] /\ killed = {}
    /\ received = {}
    /\ greeted = {} /\ rushed = {}
    /\ overlapped = FALSE /\ givenUp = FALSE /\ outlived = FALSE /\ crossed = FALSE

-----------------------------------------------------------------------------
(* Requests *)

Alive(d) == d \in Calls /\ process[d] \in {"starting", "running"}

(* What is written to the process of now, whichever that is *)
Written(c) == IF Alive(child) THEN {[id |-> nextId, to |-> child, of |-> c]} ELSE {}

(* The call writes a request and waits for its answer.  `left' are the     *)
(* other requests that wait, `owed' the answers that processes owe.        *)
Request(c, method, left, owed) ==
    LET sent == Written(c)
        receivers == {m.to : m \in sent}
    IN  /\ nextId' = nextId + 1
        /\ pending' = left \cup {nextId}
        /\ received' = owed \cup sent
        /\ call' = [call EXCEPT ![c] = IF child = Nobody THEN Failed
                                                         ELSE [at |-> method, id |-> nextId]]
        /\ greeted' = greeted \cup (IF method = "initializing" THEN receivers ELSE {})
        /\ rushed' = rushed \cup (IF method = "initializing" THEN {} ELSE receivers \ greeted)

Waits(c, ids) == call[c].at \in Methods /\ call[c].id \in ids

(* The calls that wait for these requests, and those calls rejected *)
Waiting(ids) == {c \in Calls : Waits(c, ids)}
Rejected(cs) == [c \in Calls |-> IF c \in cs THEN Failed ELSE call[c]]

(* Calls that fail while the process of their connection lives unbidden *)
LeavesOne(cs) ==
    \E c \in cs : call[c].at \in {"spawning", "initializing"} /\ Alive(c) /\ c \notin killed

-----------------------------------------------------------------------------
(* The connection *)

(* Mutant of FirstId: a new connection counts from one again *)
BugFirstId == 1

(* The number of the first request of a connection: the counter of the     *)
(* transport goes on from one connection to the next.                      *)
FirstId == nextId

(* callNamespaced, or connect of a server that is connected: the call is   *)
(* made, or its tools are listed, at once.                                 *)
Connected(c) ==
    /\ call[c].at = "idle" /\ connected
    /\ \E method \in {"listing", "calling"} : Request(c, method, pending, received)
    /\ UNCHANGED <<connected, child, process, killed, overlapped, givenUp, outlived, crossed>>

(* Mutant of Connect: it is connected once the process is spawned *)
BugConnect(c) ==
    /\ call[c].at = "idle" /\ ~connected
    /\ call' = [call EXCEPT ![c].at = "spawning"]
    /\ process' = [process EXCEPT ![c] = "starting"]
    /\ child' = c
    /\ connected' = TRUE
    /\ UNCHANGED <<nextId, pending, killed, received, greeted, rushed, overlapped, givenUp,
                   outlived, crossed>>

(* Without a connection the call makes one.  Nothing tells whether another *)
(* call is making one.                                                     *)
Connect(c) ==
    /\ call[c].at = "idle" /\ ~connected
    /\ call' = [call EXCEPT ![c].at = "spawning"]
    /\ process' = [process EXCEPT ![c] = "starting"]
    /\ child' = c
    /\ nextId' = FirstId
    /\ overlapped' = (overlapped \/ \E d \in Calls : call[d].at \in {"spawning", "initializing"})
    /\ UNCHANGED <<connected, pending, killed, received, greeted, rushed, givenUp, outlived,
                   crossed>>

(* The process has been spawned: its connection goes on, if the call has   *)
(* not given it up.                                                        *)
Spawned(c) ==
    /\ process[c] = "starting"
    /\ process' = [process EXCEPT ![c] = "running"]
    /\ IF call[c].at = "spawning"
       THEN Request(c, "initializing", pending, received)
       ELSE UNCHANGED <<call, nextId, pending, received, greeted, rushed>>
    /\ UNCHANGED <<connected, child, killed, overlapped, givenUp, outlived, crossed>>

-----------------------------------------------------------------------------
(* Answers *)

(* The call goes on: from initialize to the list of tools, from there to   *)
(* the tool it wants.  A search of tools ends with the list.               *)
GoesOn(c, m) ==
    LET method == IF call[c].at = "initializing" THEN "listing" ELSE "calling"
    IN  /\ call[c].at \in {"initializing", "listing"}
        /\ connected' = (connected \/ call[c].at = "initializing")
        /\ Request(c, method, pending \ {m.id}, received \ {m})
        /\ UNCHANGED givenUp

(* A line with an answer: the request of that number is settled, and the   *)
(* call that waits for it goes on, ends, or fails with the server's error. *)
(* An answer nobody waits for is dropped.                                  *)
Answer(m) ==
    LET waiting == Waiting({m.id} \cap pending)
    IN  /\ m \in received /\ Alive(m.to)
        /\ crossed' = (crossed \/ \E c \in waiting : c # m.of)
        /\ \/ \E c \in waiting : GoesOn(c, m)
           \/ /\ \E outcome \in {Done, Failed} :
                    /\ outcome = Done => \A c \in waiting : call[c].at # "initializing"
                    /\ call' = [c \in Calls |-> IF c \in waiting THEN outcome ELSE call[c]]
              /\ pending' = pending \ {m.id}
              /\ received' = received \ {m}
              /\ givenUp' = (givenUp \/ LeavesOne(waiting))
              /\ UNCHANGED <<connected, nextId, greeted, rushed>>
        /\ UNCHANGED <<child, process, killed, overlapped, outlived>>

-----------------------------------------------------------------------------
(* Deadlines *)

(* No process after ten seconds: the connection is given up. *)
ConnectTimeout(c) ==
    /\ call[c].at = "spawning"
    /\ call' = Rejected({c})
    /\ givenUp' = (givenUp \/ LeavesOne({c}))
    /\ UNCHANGED <<connected, child, nextId, pending, process, killed, received, greeted,
                   rushed, overlapped, outlived, crossed>>

(* No answer after thirty seconds *)
RequestTimeout(id) ==
    /\ id \in pending
    /\ pending' = pending \ {id}
    /\ call' = Rejected(Waiting({id}))
    /\ givenUp' = (givenUp \/ LeavesOne(Waiting({id})))
    /\ UNCHANGED <<connected, child, nextId, process, killed, received, greeted, rushed,
                   overlapped, outlived, crossed>>

-----------------------------------------------------------------------------
(* Ends *)

(* Mutant of Unsettled: the table is cleared and nobody is told *)
BugUnsettled == {}

(* The calls that fatal() and close() reject *)
Unsettled == Waiting(pending)

(* fatal(): the transport is no longer connected and every request fails,  *)
(* whichever process it was sent to; the end of one that has been replaced *)
(* disconnects its successor.  The process that ends answers no more.      *)
Fatal(d, cs) ==
    /\ connected' = FALSE
    /\ pending' = {}
    /\ call' = Rejected(cs)
    /\ received' = {m \in received : m.to # d}
    /\ process' = [process EXCEPT ![d] = "gone"]
    /\ givenUp' = (givenUp \/ LeavesOne(cs \ {d}))
    /\ outlived' = (outlived \/ (child # d /\ Alive(child)))

(* A process cannot be spawned. *)
SpawnFails(d) ==
    /\ process[d] = "starting"
    /\ Fatal(d, Unsettled \cup (IF call[d].at = "spawning" THEN {d} ELSE {}))
    /\ UNCHANGED <<child, nextId, killed, greeted, rushed, overlapped, crossed>>

(* A process ends, by itself or because it was told to. *)
Exits(d) ==
    /\ process[d] = "running"
    /\ Fatal(d, Unsettled)
    /\ UNCHANGED <<child, nextId, killed, greeted, rushed, overlapped, crossed>>

(* Mutant of Close: the process is forgotten and not told to end *)
BugClose ==
    /\ connected' = FALSE
    /\ child' = Nobody
    /\ pending' = {}
    /\ call' = Rejected(Unsettled)
    /\ UNCHANGED <<nextId, process, killed, received, greeted, rushed, overlapped, givenUp,
                   outlived, crossed>>

(* close(), by removeServer, sweepIdle or closeAll at any time *)
Close ==
    /\ connected' = FALSE
    /\ child' = Nobody
    /\ killed' = killed \cup ({child} \ {Nobody})
    /\ pending' = {}
    /\ call' = Rejected(Unsettled)
    /\ givenUp' = (givenUp \/ LeavesOne(Unsettled \ {child}))
    /\ UNCHANGED <<nextId, process, received, greeted, rushed, overlapped, outlived, crossed>>

-----------------------------------------------------------------------------
Next ==
    \/ \E c \in Calls : \/ Connected(c) \/ Connect(c) \/ Spawned(c) \/ ConnectTimeout(c)
                        \/ SpawnFails(c) \/ Exits(c)
    \/ \E m \in received : Answer(m)
    \/ \E id \in pending : RequestTimeout(id)
    \/ Close

Spec == Init /\ [][Next]_vars

-----------------------------------------------------------------------------
(* Properties *)

(* The shape of the state *)
TypeOK ==
    /\ call \in [Calls -> CallType]
    /\ connected \in BOOLEAN /\ child \in Calls \cup {Nobody}
    /\ nextId \in Nat \ {0} /\ pending \subseteq Nat
    /\ process \in [Calls -> {"none", "starting", "running", "gone"}]
    /\ killed \subseteq Calls
    /\ received \subseteq Message
    /\ greeted \subseteq Calls /\ rushed \subseteq Calls
    /\ overlapped \in BOOLEAN /\ givenUp \in BOOLEAN /\ outlived \in BOOLEAN
    /\ crossed \in BOOLEAN

(* A server process lives on with nobody to end it only if two             *)
(* connections were made at once, if a connection failed while its process *)
(* lived, or if a replaced process ended after its successor had started:  *)
(* close() ends the process of the moment, and every other way for the     *)
(* transport to lose its process is one of these three.                    *)
Reaped ==
    (\E d \in Calls : Alive(d) /\ d # child /\ d \notin killed)
        => overlapped \/ givenUp \/ outlived

(* No server is asked for its tools or for a call before it has been sent  *)
(* initialize, unless two connections were made at once, over closings,    *)
(* exits, deadlines and late answers.                                      *)
InitializedFirst == rushed # {} => overlapped

(* No call is given the answer to another's request, over reconnections    *)
(* and the late answers of processes that were replaced.                   *)
AnswersOwn == ~crossed

(* A call waits only for a request that is in the table, where an answer, *)
(* its deadline, the end of the process or close() finds it: none waits    *)
(* for ever.                                                               *)
NoneForgotten == \A c \in Calls : call[c].at \in Methods => call[c].id \in pending
=============================================================================

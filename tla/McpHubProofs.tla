---------------------------- MODULE McpHubProofs ----------------------------
(***************************************************************************)
(* For any number of calls: none is forgotten, none is given another's     *)
(* answer, no server is asked for anything before initialize unless two    *)
(* connections overlapped, and no process is left behind but in the three  *)
(* named ways.                                                             *)
(***************************************************************************)
EXTENDS McpHub, TLAPS

(* Numbers are given once: no two calls wait for the same request, and a   *)
(* message that bears the number a call waits for is the call's own.       *)
NumbersOwn ==
    /\ \A i \in pending : i < nextId
    /\ \A m \in received : m.id < nextId
    /\ \A c, d \in Calls :
        call[c].at \in Methods /\ call[d].at \in Methods /\ call[c].id = call[d].id => c = d
    /\ \A m \in received, c \in Calls : Waits(c, {m.id}) => c = m.of

(* A call that lists or calls found a connection, which is still there. *)
ListingConnected == \A c \in Calls : call[c].at \in {"listing", "calling"} => connected

Connecting(c) == call[c].at \in {"spawning", "initializing"}

(* Unless two connections overlapped, the one under way is the only one,   *)
(* has the process of now and, waiting for initialize, has sent it there;  *)
(* and a connected process has been greeted.                               *)
OneConnection ==
    \/ overlapped
    \/ /\ connected => \A c \in Calls : ~Connecting(c)
       /\ \A c, d \in Calls : Connecting(c) /\ Connecting(d) => c = d
       /\ \A c \in Calls : call[c].at = "spawning" => child \in {c, Nobody}
       /\ \A c \in Calls : call[c].at = "initializing" => child = c
       /\ \A c \in Calls :
            (call[c].at = "initializing" \/ connected) /\ Alive(child) => child \in greeted
       /\ rushed = {}

(* Unless one of the three happened, a living process is connected to or   *)
(* being connected to.                                                     *)
ProcessKnown ==
    \/ overlapped \/ givenUp \/ outlived
    \/ /\ Alive(child) => connected \/ Connecting(child)
       /\ child \notin killed
       /\ \A d \in Calls : Alive(d) /\ d # child => d \in killed

(* A process is there only of a call that was made, and only those are     *)
(* told to end.                                                            *)
ProcessMade ==
    /\ \A c \in Calls : call[c].at = "idle" => process[c] = "none" /\ c \notin killed
    /\ child \in Calls => call[child].at # "idle"

IInv ==
    /\ TypeOK /\ NumbersOwn /\ NoneForgotten /\ ~crossed
    /\ ListingConnected /\ OneConnection /\ ProcessMade /\ ProcessKnown

-----------------------------------------------------------------------------
(* What the helpers do *)

LEMMA Shapes == Idle \in CallType /\ Done \in CallType /\ Failed \in CallType
BY DEF CallType, Idle, Done, Failed

(* A request changes its own call, takes a new number and is written to    *)
(* the process of now, which is then greeted if it was the first.          *)
Requested(c, method, left, owed) ==
    /\ call' \in [Calls -> CallType]
    /\ child = Nobody => call'[c] = Failed
    /\ child # Nobody => call'[c].at = method /\ call'[c].id = nextId
    /\ \A d \in Calls \ {c} : call'[d] = call[d]
    /\ nextId' \in Nat \ {0} /\ nextId' = nextId + 1
    /\ pending' = left \cup {nextId} /\ pending' \subseteq Nat
    /\ received' \subseteq Message
    /\ \A m \in received' : m \in owed \/ (m.id = nextId /\ m.of = c)
    /\ greeted \subseteq greeted' /\ greeted' \subseteq Calls /\ rushed' \subseteq Calls
    /\ method = "initializing" => (Alive(child) => child \in greeted') /\ rushed' = rushed
    /\ rushed = {} /\ (Alive(child) => child \in greeted) => rushed' = {}

LEMMA RequestEffect ==
    ASSUME TypeOK, NEW c \in Calls, NEW method \in Methods,
           NEW left, left \subseteq pending, NEW owed, owed \subseteq received,
           Request(c, method, left, owed)
    PROVE  Requested(c, method, left, owed)
<1> DEFINE new == IF child = Nobody THEN Failed ELSE [at |-> method, id |-> nextId]
<1>1. new \in CallType
  BY Shapes DEF TypeOK, CallType
<1>2. call' = [call EXCEPT ![c] = new] /\ call \in [Calls -> CallType]
  BY DEF Request, TypeOK
<1>3. child # Nobody => new.at = method /\ new.id = nextId
  OBVIOUS
<1>4. child = Nobody => new = Failed
  OBVIOUS
<1> HIDE DEF new
<1>5. /\ call' \in [Calls -> CallType] /\ call'[c] = new
      /\ \A d \in Calls \ {c} : call'[d] = call[d]
  BY <1>1, <1>2
<1> DEFINE m0 == [id |-> nextId, to |-> child, of |-> c]
<1>6. Alive(child) => m0 \in Message /\ m0.id = nextId /\ m0.of = c
                       /\ m0.to = child
  BY DEF Alive, TypeOK, Message
<1>7. Written(c) = IF Alive(child) THEN {m0} ELSE {}
  BY DEF Written
<1> HIDE DEF m0
<1>8. /\ nextId' = nextId + 1 /\ nextId' \in Nat \ {0}
      /\ pending' = left \cup {nextId} /\ pending' \subseteq Nat
  <2>1. nextId' = nextId + 1 /\ pending' = left \cup {nextId}
    BY DEF Request
  <2>2. nextId \in Nat \ {0} /\ pending \subseteq Nat
    BY DEF TypeOK
  <2> QED
    BY <2>1, <2>2
<1>9. /\ received' \subseteq Message
      /\ \A m \in received' : m \in owed \/ (m.id = nextId /\ m.of = c)
  <2>1. received' = owed \cup Written(c)
    BY DEF Request
  <2>2. owed \subseteq Message
    BY DEF TypeOK
  <2> QED
    BY <2>1, <2>2, <1>6, <1>7
<1>10. {m.to : m \in Written(c)} = IF Alive(child) THEN {child} ELSE {}
  BY <1>6, <1>7
<1> DEFINE rs == {m.to : m \in Written(c)}
<1>11. /\ greeted' = greeted \cup (IF method = "initializing" THEN rs ELSE {})
       /\ rushed' = rushed \cup (IF method = "initializing" THEN {} ELSE rs \ greeted)
  BY DEF Request
<1> HIDE DEF rs
<1>12. rs = IF Alive(child) THEN {child} ELSE {}
  BY <1>10 DEF rs
<1>13. Alive(child) => child \in Calls
  BY DEF Alive
<1>14. greeted \subseteq greeted' /\ greeted' \subseteq Calls /\ rushed' \subseteq Calls
  BY <1>11, <1>12, <1>13 DEF TypeOK
<1>15. method = "initializing" => (Alive(child) => child \in greeted') /\ rushed' = rushed
  BY <1>11, <1>12
<1>16. rushed = {} /\ (Alive(child) => child \in greeted) => rushed' = {}
  BY <1>11, <1>12
<1> QED
  BY <1>3, <1>4, <1>5, <1>8, <1>9, <1>14, <1>15, <1>16 DEF Requested

(* To reject calls is to fail them. *)
LEMMA RejectedEffect ==
    ASSUME TypeOK, NEW cs
    PROVE  /\ Rejected(cs) \in [Calls -> CallType]
           /\ \A c \in Calls : Rejected(cs)[c] = IF c \in cs THEN Failed ELSE call[c]
BY Shapes DEF TypeOK, Rejected

LEMMA FailedAt == Failed.at = "failed" /\ Done.at = "done" /\ Idle.at = "idle"
BY DEF Failed, Done, Idle

-----------------------------------------------------------------------------
(* The invariant holds at first *)

LEMMA InitIInv == Init => IInv
<1> SUFFICES ASSUME Init PROVE IInv
  OBVIOUS
<1>1. \A c \in Calls : call[c] = Idle
  BY DEF Init
<1>2. TypeOK
  <2>1. call \in [Calls -> CallType]
    BY Shapes DEF Init
  <2>2. process \in [Calls -> {"none", "starting", "running", "gone"}]
    BY DEF Init
  <2>3. received \subseteq Message /\ pending \subseteq Nat /\ nextId \in Nat \ {0}
    BY DEF Init
  <2> QED
    BY <2>1, <2>2, <2>3 DEF Init, TypeOK
<1>3. NumbersOwn /\ NoneForgotten /\ ListingConnected
  BY <1>1, FailedAt DEF Init, NumbersOwn, NoneForgotten, ListingConnected, Methods, Waits
<1>4. OneConnection /\ ProcessMade /\ ProcessKnown
  BY <1>1, FailedAt, McpAssumption DEF Init, OneConnection, ProcessMade, ProcessKnown, Connecting,
     Alive
<1> QED
  BY <1>2, <1>3, <1>4 DEF IInv, Init

-----------------------------------------------------------------------------
(* Every action keeps it.  The parts, expanded where they are needed:      *)
(* numbers and waiting (NumbersOwn, NoneForgotten, ListingConnected), and  *)
(* processes (OneConnection, ProcessMade, ProcessKnown).                   *)

LEMMA ConnectedIInv ==
    ASSUME IInv, NEW c \in Calls, Connected(c)
    PROVE  IInv'
<1>1. PICK method \in {"listing", "calling"} : Request(c, method, pending, received)
  BY DEF Connected
<1>2. call[c].at = "idle" /\ connected /\ UNCHANGED <<connected, child, process, killed,
         overlapped, givenUp, outlived, crossed>>
  BY DEF Connected
<1>3. method \in Methods /\ method # "initializing"
  BY DEF Methods
<1>4. TypeOK
  BY DEF IInv
<1>5. Requested(c, method, pending, received)
  BY <1>1, <1>3, <1>4, RequestEffect
<1>6. TypeOK'
  BY <1>2, <1>4, <1>5 DEF TypeOK, Requested
<1>7. NumbersOwn' /\ NoneForgotten' /\ ListingConnected'
  BY <1>2, <1>3, <1>4, <1>5, FailedAt
     DEF Requested, IInv, TypeOK, NumbersOwn, NoneForgotten, ListingConnected, Methods, Waits, Message
<1>8. OneConnection'
  BY <1>2, <1>3, <1>5, FailedAt DEF Requested, IInv, OneConnection, Connecting, Alive
<1>9. ProcessMade' /\ ProcessKnown'
  BY <1>2, <1>3, <1>5, FailedAt 
     DEF Requested, IInv, TypeOK, ProcessMade, ProcessKnown, Connecting, Alive
<1> QED
  BY <1>2, <1>6, <1>7, <1>8, <1>9 DEF IInv

LEMMA ConnectIInv ==
    ASSUME IInv, NEW c \in Calls, Connect(c)
    PROVE  IInv'
<1>1. /\ call[c].at = "idle" /\ ~connected
      /\ call' = [call EXCEPT ![c].at = "spawning"]
      /\ process' = [process EXCEPT ![c] = "starting"]
      /\ child' = c /\ nextId' = nextId
      /\ overlapped' = (overlapped \/ \E d \in Calls : Connecting(d))
      /\ UNCHANGED <<connected, pending, killed, received, greeted, rushed, givenUp, outlived,
                     crossed>>
  BY DEF Connect, FirstId, Connecting
<1>2. TypeOK
  BY DEF IInv
<1>3. /\ call' \in [Calls -> CallType]
      /\ call'[c].at = "spawning"
      /\ \A d \in Calls \ {c} : call'[d] = call[d]
  BY <1>1, <1>2 DEF TypeOK, CallType
<1>4. /\ process' \in [Calls -> {"none", "starting", "running", "gone"}]
      /\ process'[c] = "starting" /\ \A d \in Calls \ {c} : process'[d] = process[d]
  BY <1>1, <1>2 DEF TypeOK
<1>5. TypeOK'
  BY <1>1, <1>2, <1>3, <1>4 DEF TypeOK
<1>6. NumbersOwn' /\ NoneForgotten' /\ ListingConnected'
  BY <1>1, <1>3 DEF IInv, NumbersOwn, NoneForgotten, ListingConnected, Methods, Waits
<1>7. OneConnection'
  BY <1>1, <1>3, <1>4, McpAssumption DEF IInv, OneConnection, Connecting, Alive
<1>8. ProcessMade' /\ ProcessKnown'
  BY <1>1, <1>2, <1>3, <1>4, McpAssumption
     DEF IInv, TypeOK, ProcessMade, ProcessKnown, Connecting, Alive
<1> QED
  BY <1>1, <1>5, <1>6, <1>7, <1>8 DEF IInv

LEMMA SpawnedIInv ==
    ASSUME IInv, NEW c \in Calls, Spawned(c)
    PROVE  IInv'
<1>1. TypeOK
  BY DEF IInv
<1>2. /\ process[c] = "starting" /\ process' = [process EXCEPT ![c] = "running"]
      /\ UNCHANGED <<connected, child, killed, overlapped, givenUp, outlived, crossed>>
  BY DEF Spawned
<1>3. /\ process' \in [Calls -> {"none", "starting", "running", "gone"}]
      /\ process'[c] = "running" /\ \A d \in Calls \ {c} : process'[d] = process[d]
  BY <1>1, <1>2 DEF TypeOK
<1>4. CASE call[c].at = "spawning"
  <2>1. Request(c, "initializing", pending, received)
    BY <1>4 DEF Spawned
  <2>2. "initializing" \in Methods
    BY DEF Methods
  <2>3. Requested(c, "initializing", pending, received)
    BY <1>1, <2>1, <2>2, RequestEffect
  <2>4. TypeOK'
    BY <1>1, <1>2, <1>3, <2>3 DEF TypeOK, Requested
  <2>5. NumbersOwn' /\ NoneForgotten' /\ ListingConnected'
    BY <1>1, <1>2, <2>3, FailedAt
       DEF Requested, IInv, TypeOK, NumbersOwn, NoneForgotten, ListingConnected, Methods, Waits,
           Message
  <2>6. OneConnection'
    BY <1>2, <1>3, <1>4, <2>3, FailedAt DEF Requested, IInv, OneConnection, Connecting, Alive
  <2>7. ProcessMade' /\ ProcessKnown'
    BY <1>1, <1>2, <1>3, <1>4, <2>3, FailedAt, McpAssumption
       DEF Requested, IInv, TypeOK, ProcessMade, ProcessKnown, OneConnection, Connecting, Alive
  <2> QED
    BY <1>2, <2>4, <2>5, <2>6, <2>7 DEF IInv
<1>5. CASE call[c].at # "spawning"
  <2>1. UNCHANGED <<call, nextId, pending, received, greeted, rushed>>
    BY <1>5 DEF Spawned
  <2>2. TypeOK'
    BY <1>1, <1>2, <1>3, <2>1 DEF TypeOK
  <2>3. NumbersOwn' /\ NoneForgotten' /\ ListingConnected'
    BY <1>2, <2>1 DEF IInv, NumbersOwn, NoneForgotten, ListingConnected, Methods, Waits
  <2>4. OneConnection' /\ ProcessMade' /\ ProcessKnown'
    BY <1>1, <1>2, <1>3, <2>1
       DEF IInv, TypeOK, OneConnection, ProcessMade, ProcessKnown, Connecting, Alive
  <2> QED
    BY <1>2, <2>2, <2>3, <2>4 DEF IInv
<1> QED
  BY <1>4, <1>5

(* What fails by a deadline, and the process it may leave *)
LEMMA TimeoutIInv ==
    ASSUME IInv, NEW cs \in SUBSET Calls, NEW rest \in SUBSET pending,
           \A c \in cs : call[c].at = "spawning" \/ call[c].at \in Methods,
           \A c \in Calls \ cs : call[c].at \in Methods => call[c].id \in rest,
           pending' = rest, call' = Rejected(cs),
           givenUp' = (givenUp \/ LeavesOne(cs)),
           UNCHANGED <<connected, child, nextId, process, killed, received, greeted, rushed,
                       overlapped, outlived, crossed>>
    PROVE  IInv'
<1>1. TypeOK
  BY DEF IInv
<1>2. /\ call' \in [Calls -> CallType]
      /\ \A c \in Calls : call'[c] = IF c \in cs THEN Failed ELSE call[c]
  BY <1>1, RejectedEffect
<1>3. TypeOK'
  BY <1>1, <1>2 DEF TypeOK
<1>4. NumbersOwn' /\ NoneForgotten' /\ ListingConnected'
  BY <1>2, FailedAt DEF IInv, NumbersOwn, NoneForgotten, ListingConnected, Methods, Waits
<1>5. OneConnection'
  BY <1>2, FailedAt DEF IInv, OneConnection, Connecting, Alive
<1>6. ProcessMade' /\ ProcessKnown'
  BY <1>1, <1>2, FailedAt, McpAssumption
     DEF IInv, TypeOK, ProcessMade, ProcessKnown, Connecting, Alive, LeavesOne, Methods
<1> QED
  BY <1>3, <1>4, <1>5, <1>6 DEF IInv

LEMMA ConnectTimeoutIInv ==
    ASSUME IInv, NEW c \in Calls, ConnectTimeout(c)
    PROVE  IInv'
<1>1. {c} \in SUBSET Calls /\ pending \in SUBSET pending
  OBVIOUS
<1>2. \A d \in {c} : call[d].at = "spawning" \/ call[d].at \in Methods
  BY DEF ConnectTimeout
<1>3. \A d \in Calls \ {c} : call[d].at \in Methods => call[d].id \in pending
  BY DEF IInv, NoneForgotten
<1> QED
  BY <1>1, <1>2, <1>3, TimeoutIInv DEF ConnectTimeout

LEMMA RequestTimeoutIInv ==
    ASSUME IInv, NEW id \in pending, RequestTimeout(id)
    PROVE  IInv'
<1>1. Waiting({id}) \in SUBSET Calls /\ pending \ {id} \in SUBSET pending
  BY DEF Waiting
<1>2. \A c \in Waiting({id}) : call[c].at \in Methods
  BY DEF Waiting, Waits
<1>3. \A c \in Calls \ Waiting({id}) : call[c].at \in Methods => call[c].id \in pending \ {id}
  BY DEF Waiting, Waits, IInv, NoneForgotten
<1> QED
  BY <1>1, <1>2, <1>3, TimeoutIInv DEF RequestTimeout

(* The answer of initialize or of the list: the call writes its next       *)
(* request.                                                                *)
LEMMA GoesOnIInv ==
    ASSUME IInv, NEW m \in received, NEW c \in Calls, Waits(c, {m.id}), GoesOn(c, m),
           crossed' = crossed,
           UNCHANGED <<child, process, killed, overlapped, outlived>>
    PROVE  IInv'
<1> DEFINE method == IF call[c].at = "initializing" THEN "listing" ELSE "calling"
<1> DEFINE left == pending \ {m.id}
<1> DEFINE owed == received \ {m}
<1>1. TypeOK
  BY DEF IInv
<1>2. /\ Request(c, method, left, owed)
      /\ call[c].at \in {"initializing", "listing"}
      /\ connected' = (connected \/ call[c].at = "initializing")
      /\ givenUp' = givenUp
  BY DEF GoesOn
<1>3. /\ method \in {"listing", "calling"}
      /\ method \in Methods /\ left \subseteq pending /\ owed \subseteq received
  BY DEF Methods
<1>4. call[c].id = m.id
  BY DEF Waits
<1>5. \A d \in Calls \ {c} : call[d].at \in Methods => call[d].id \in left
  BY <1>2, <1>4 DEF IInv, NumbersOwn, NoneForgotten, Methods
<1>6. left \in SUBSET pending /\ owed \in SUBSET received
  OBVIOUS
<1> HIDE DEF method, left, owed
<1>7. Requested(c, method, left, owed)
  BY <1>1, <1>2, <1>3, RequestEffect
<1>8. TypeOK'
  BY <1>1, <1>2, <1>7 DEF TypeOK, Requested
<1>9. NumbersOwn' /\ NoneForgotten' /\ ListingConnected'
  <2>1. NoneForgotten' /\ ListingConnected'
    BY <1>2, <1>3, <1>5, <1>7, FailedAt
       DEF Requested, IInv, NoneForgotten, ListingConnected, Methods
  <2>2. \A i \in left : i < nextId
    BY <1>6 DEF IInv, NumbersOwn
  <2>3. \A o \in owed : o.id < nextId /\ o.id \in Nat
    BY <1>1, <1>6 DEF IInv, NumbersOwn, TypeOK, Message
  <2>4. \A d \in Calls \ {c} : call[d].at \in Methods => call[d].id < nextId
    BY <1>5, <2>2
  <2>5. left \subseteq Nat /\ nextId \in Nat
    BY <1>1, <1>6 DEF TypeOK
  <2>6. \A i \in pending' : i < nextId'
    BY <1>7, <2>2, <2>5 DEF Requested
  <2>7. \A o \in received' : o.id < nextId'
    BY <1>7, <2>3, <2>5 DEF Requested
  <2>8. \A d, e \in Calls : call'[d].at \in Methods /\ call'[e].at \in Methods
                              /\ call'[d].id = call'[e].id => d = e
    BY <1>7, <2>4, <2>5, FailedAt DEF Requested, IInv, NumbersOwn, Methods
  <2>9. \A o \in received', d \in Calls :
            call'[d].at \in Methods /\ call'[d].id = o.id => d = o.of
    BY <1>6, <1>7, <2>3, <2>4, <2>5, FailedAt DEF Requested, IInv, NumbersOwn, Methods, Waits
  <2> QED
    BY <2>1, <2>6, <2>7, <2>8, <2>9 DEF NumbersOwn, Waits
<1>10. OneConnection'
  BY <1>2, <1>3, <1>7, FailedAt
     DEF Requested, IInv, OneConnection, ListingConnected, Connecting, Alive
<1>11. ProcessMade' /\ ProcessKnown'
  BY <1>1, <1>2, <1>3, <1>7, FailedAt, McpAssumption
     DEF Requested, IInv, TypeOK, OneConnection, ProcessMade, ProcessKnown, Connecting, Alive
<1> QED
  BY <1>8, <1>9, <1>10, <1>11 DEF IInv

LEMMA AnswerIInv ==
    ASSUME IInv, NEW m \in received, Answer(m)
    PROVE  IInv'
<1> DEFINE waiting == Waiting({m.id} \cap pending)
<1>1. TypeOK
  BY DEF IInv
<1>2. \A c \in waiting : c \in Calls /\ Waits(c, {m.id}) /\ c = m.of
  BY DEF Waiting, Waits, IInv, NumbersOwn
<1>3. \A c \in Calls \ waiting : call[c].at \in Methods => call[c].id \in pending \ {m.id}
  BY DEF Waiting, Waits, IInv, NoneForgotten
<1>4. waiting \subseteq Calls /\ \A c \in waiting : call[c].at \in Methods
  BY <1>2 DEF Waits
<1>5. /\ UNCHANGED <<child, process, killed, overlapped, outlived>>
      /\ crossed' = crossed
  <2>1. UNCHANGED <<child, process, killed, overlapped, outlived>>
    BY DEF Answer
  <2>2. crossed' = (crossed \/ \E c \in waiting : c # m.of)
    BY DEF Answer
  <2> QED
    BY <1>1, <1>2, <2>1, <2>2 DEF TypeOK
<1>6. CASE \E c \in waiting : GoesOn(c, m)
  BY <1>2, <1>5, <1>6, GoesOnIInv
<1>7. ASSUME NEW outcome \in {Done, Failed},
             outcome = Done => \A c \in waiting : call[c].at # "initializing",
             call' = [c \in Calls |-> IF c \in waiting THEN outcome ELSE call[c]],
             pending' = pending \ {m.id}, received' = received \ {m},
             givenUp' = (givenUp \/ LeavesOne(waiting)),
             UNCHANGED <<connected, nextId, greeted, rushed>>
      PROVE  IInv'
  <2> HIDE DEF waiting
  <2>1. call' \in [Calls -> CallType]
    BY <1>1, <1>7, Shapes DEF TypeOK
  <2>2. outcome.at \in {"done", "failed"} /\ (outcome.at = "done" => outcome = Done)
    BY FailedAt
  <2>3. \A c \in Calls : call'[c] = IF c \in waiting THEN outcome ELSE call[c]
    BY <1>7
  <2>4. TypeOK'
    BY <1>1, <1>5, <1>7, <2>1 DEF TypeOK
  <2>5. NumbersOwn' /\ NoneForgotten' /\ ListingConnected'
    BY <1>3, <1>5, <1>7, <2>2, <2>3
       DEF IInv, NumbersOwn, NoneForgotten, ListingConnected, Methods, Waits
  <2>6. OneConnection'
    BY <1>5, <1>7, <2>2, <2>3 DEF IInv, OneConnection, Connecting, Alive
  <2>7. ProcessMade' /\ ProcessKnown'
    BY <1>1, <1>4, <1>5, <1>7, <2>2, <2>3, McpAssumption
       DEF IInv, TypeOK, ProcessMade, ProcessKnown, Connecting, Alive, LeavesOne, Methods
  <2> QED
    BY <1>5, <2>4, <2>5, <2>6, <2>7 DEF IInv
<1> QED
  BY <1>6, <1>7 DEF Answer

-----------------------------------------------------------------------------
(* Ends *)

LEMMA AllUnsettled ==
    ASSUME IInv
    PROVE  /\ Unsettled \subseteq Calls
           /\ \A c \in Calls : call[c].at \in Methods <=> c \in Unsettled
BY DEF Unsettled, Waiting, Waits, IInv, NoneForgotten

(* The end of a process rejects every request, and the connection of the   *)
(* process itself if it could not be spawned.                              *)
LEMMA FatalIInv ==
    ASSUME IInv, NEW d \in Calls, NEW cs, Alive(d),
           cs = Unsettled \/ cs = Unsettled \cup (IF call[d].at = "spawning" THEN {d} ELSE {}),
           Fatal(d, cs),
           UNCHANGED <<child, nextId, killed, greeted, rushed, overlapped, crossed>>
    PROVE  IInv'
<1>1. TypeOK
  BY DEF IInv
<1>2. /\ connected' = FALSE /\ pending' = {} /\ call' = Rejected(cs)
      /\ received' \subseteq received
      /\ process' = [process EXCEPT ![d] = "gone"]
      /\ givenUp' = (givenUp \/ LeavesOne(cs \ {d}))
      /\ outlived' = (outlived \/ (child # d /\ Alive(child)))
  BY DEF Fatal
<1>3. /\ cs \subseteq Calls
      /\ \A c \in Calls : call[c].at \in Methods => c \in cs
      /\ \A c \in cs : c # d => call[c].at \in Methods
  BY AllUnsettled
<1>4. /\ call' \in [Calls -> CallType]
      /\ \A c \in Calls : call'[c] = IF c \in cs THEN Failed ELSE call[c]
  BY <1>1, <1>2, RejectedEffect
<1>5. /\ process' \in [Calls -> {"none", "starting", "running", "gone"}]
      /\ process'[d] = "gone" /\ \A c \in Calls \ {d} : process'[c] = process[c]
  BY <1>1, <1>2 DEF TypeOK
<1>6. TypeOK'
  BY <1>1, <1>2, <1>4, <1>5 DEF TypeOK, LeavesOne
<1>7. NumbersOwn' /\ NoneForgotten' /\ ListingConnected'
  BY <1>2, <1>3, <1>4, FailedAt DEF IInv, NumbersOwn, NoneForgotten, ListingConnected, Methods,
     Waits
<1>8. OneConnection'
  BY <1>2, <1>3, <1>4, <1>5, FailedAt DEF IInv, OneConnection, Connecting, Alive, Methods
<1>9. ProcessMade'
  BY <1>3, <1>4, <1>5, FailedAt DEF IInv, ProcessMade, Alive
<1>10. ProcessKnown'
  <2>1. CASE overlapped \/ givenUp' \/ outlived'
    BY <2>1 DEF ProcessKnown
  <2> SUFFICES ASSUME ~overlapped, ~givenUp', ~outlived' PROVE ProcessKnown'
    BY <2>1
  <2>2. ~givenUp /\ ~outlived /\ ~LeavesOne(cs \ {d}) /\ ~(child # d /\ Alive(child))
    BY <1>2
  <2>3. /\ child \notin killed
        /\ \A e \in Calls : Alive(e) /\ e # child => e \in killed
    BY <2>2 DEF IInv, ProcessKnown
  <2>4. \A e \in Calls : process'[e] \in {"starting", "running"} => Alive(e)
    BY <1>5 DEF Alive
  <2>5. ~(child \in Calls /\ process'[child] \in {"starting", "running"})
    BY <1>5, <2>2, <2>4
  <2> QED
    BY <2>3, <2>4, <2>5 DEF ProcessKnown, Alive
<1> QED
  BY <1>10, <1>6, <1>7, <1>8, <1>9 DEF IInv

LEMMA EndsIInv ==
    ASSUME IInv, NEW d \in Calls, SpawnFails(d) \/ Exits(d)
    PROVE  IInv'
<1>1. Alive(d)
  BY DEF SpawnFails, Exits, Alive
<1>2. UNCHANGED <<child, nextId, killed, greeted, rushed, overlapped, crossed>>
  BY DEF SpawnFails, Exits
<1>3. CASE SpawnFails(d)
  BY <1>1, <1>2, <1>3, FatalIInv DEF SpawnFails
<1>4. CASE Exits(d)
  BY <1>1, <1>2, <1>4, FatalIInv DEF Exits
<1> QED
  BY <1>3, <1>4

LEMMA CloseIInv ==
    ASSUME IInv, Close
    PROVE  IInv'
<1>1. TypeOK
  BY DEF IInv
<1>2. /\ connected' = FALSE /\ child' = Nobody /\ pending' = {} /\ call' = Rejected(Unsettled)
      /\ killed' = killed \cup ({child} \ {Nobody})
      /\ givenUp' = (givenUp \/ LeavesOne(Unsettled \ {child}))
      /\ UNCHANGED <<nextId, process, received, greeted, rushed, overlapped, outlived, crossed>>
  BY DEF Close
<1>3. /\ call' \in [Calls -> CallType]
      /\ \A c \in Calls : call'[c] = IF c \in Unsettled THEN Failed ELSE call[c]
  BY <1>1, <1>2, RejectedEffect
<1>4. TypeOK'
  BY <1>1, <1>2, <1>3 DEF TypeOK, LeavesOne
<1>5. NumbersOwn' /\ NoneForgotten' /\ ListingConnected'
  BY <1>2, <1>3, AllUnsettled, FailedAt DEF IInv, NumbersOwn, NoneForgotten, ListingConnected,
     Methods, Waits
<1>6. OneConnection'
  BY <1>2, <1>3, AllUnsettled, FailedAt, McpAssumption
     DEF IInv, OneConnection, Connecting, Alive, Methods
<1>7. ProcessMade' /\ ProcessKnown'
  BY <1>1, <1>2, <1>3, AllUnsettled, FailedAt, McpAssumption
     DEF IInv, TypeOK, ProcessMade, ProcessKnown, Connecting, Alive, Methods
<1> QED
  BY <1>2, <1>4, <1>5, <1>6, <1>7 DEF IInv

-----------------------------------------------------------------------------
(* The theorems *)

LEMMA NextIInv == IInv /\ [Next]_vars => IInv'
<1> SUFFICES ASSUME IInv, [Next]_vars PROVE IInv'
  OBVIOUS
<1>1. ASSUME NEW c \in Calls, Connected(c) \/ Connect(c) \/ Spawned(c) \/ ConnectTimeout(c)
                              \/ SpawnFails(c) \/ Exits(c)
      PROVE  IInv'
  BY <1>1, ConnectedIInv, ConnectIInv, SpawnedIInv, ConnectTimeoutIInv, EndsIInv
<1>2. ASSUME NEW m \in received, Answer(m) PROVE IInv'
  BY <1>2, AnswerIInv
<1>3. ASSUME NEW id \in pending, RequestTimeout(id) PROVE IInv'
  BY <1>3, RequestTimeoutIInv
<1>4. CASE Close
  BY <1>4, CloseIInv
<1>5. CASE UNCHANGED vars
  BY <1>5 DEF vars, history, IInv, TypeOK, NumbersOwn, NoneForgotten, ListingConnected,
     OneConnection, ProcessMade, ProcessKnown, Connecting, Alive, Waits
<1> QED
  BY <1>1, <1>2, <1>3, <1>4, <1>5 DEF Next

LEMMA Invariant == Spec => []IInv
BY InitIInv, NextIInv, PTL DEF Spec

(* The state keeps its shape. *)
THEOREM TypeCorrect == Spec => []TypeOK
<1>1. IInv => TypeOK
  BY DEF IInv
<1> QED
  BY <1>1, Invariant, PTL

(* A call waits only for a request in the table: what empties the table    *)
(* rejects every call that waits.                                          *)
THEOREM NoCallForgotten == Spec => []NoneForgotten
<1>1. IInv => NoneForgotten
  BY DEF IInv
<1> QED
  BY <1>1, Invariant, PTL

(* Numbers go on over connections, so an answer finds its own call.        *)
THEOREM AnswersAreOwn == Spec => []AnswersOwn
<1>1. IInv => AnswersOwn
  BY DEF IInv, AnswersOwn
<1> QED
  BY <1>1, Invariant, PTL

(* A connection that no other overlapped greets its process first.         *)
THEOREM GreetedFirst == Spec => []InitializedFirst
<1>1. IInv => InitializedFirst
  BY DEF IInv, OneConnection, InitializedFirst
<1> QED
  BY <1>1, Invariant, PTL

(* A process is left behind in three ways only.                            *)
THEOREM ProcessesReaped == Spec => []Reaped
<1>1. IInv => Reaped
  BY DEF IInv, ProcessKnown, Reaped
<1> QED
  BY <1>1, Invariant, PTL
=============================================================================

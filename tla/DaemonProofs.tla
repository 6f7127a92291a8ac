---------------------------- MODULE DaemonProofs ----------------------------
(***************************************************************************)
(* For any clients, messages and length of replies: the daemon's state     *)
(* keeps its type, three runners are enough, a reply that was told to stop *)
(* says nothing more, unless it shared its runner, and a client that is    *)
(* attached was shown, or will be at its tick, all that was said since.    *)
(***************************************************************************)
EXTENDS Daemon, FiniteSetTheorems, SequenceTheorems, TLAPS

(* A runner is made when there is none in the map: when the daemon starts, *)
(* when the session is deleted, and when the daemon closes.                *)
Vacancies ==
    1 + (IF session = "deleted" THEN 1 ELSE 0) + (IF mode = "up" THEN 0 ELSE 1)
RunnersMade ==
    /\ runner <= made
    /\ made + (IF runner = NoRunner THEN 1 ELSE 0) <= Vacancies

(* A reply streams on a runner that was made, for a message accepted. *)
StreamsKnown ==
    \A n \in Live : n <= asked /\ mode # "down" /\ reply[n].runner \in 1 .. made

(* A reply that never shared a runner has one for itself, and it is active. *)
AloneActive ==
    \A n \in Live \ overlapped :
        /\ active[reply[n].runner]
        /\ \A m \in Live : reply[m].runner = reply[n].runner => m = n

(* The runner of a reply that was told to stop knows. *)
HaltedKnown ==
    \A n \in halted :
        n <= asked /\ (n \in Live \ overlapped => interrupted[reply[n].runner])

-----------------------------------------------------------------------------
(* Notices and clients keep their shape. *)

ClientType ==
    [socket : {"away", "attached", "closing"}, pending : Seq(Notices), tick : BOOLEAN,
     shown : Seq(Notices), state : {"none", "idle", "running", "error"}, since : Nat,
     midway : BOOLEAN]

LEMMA AwayType == Away \in ClientType
BY DEF Away, ClientType

LEMMA TokenType ==
    ASSUME NEW n \in Messages, NEW i \in 0 .. Length
    PROVE  Token(n, i) \in Notices
BY DEF Token, Notices

LEMMA DoneType ==
    ASSUME NEW n \in Messages
    PROVE  DoneOf(n) \in Notices
BY DaemonAssumption DEF DoneOf, Notices

LEMMA StateType ==
    ASSUME NEW k \in ClientType, NEW s \in {"none", "idle", "running", "error"}
    PROVE  WithState(k, s) \in ClientType
BY DEF WithState, ClientType

LEMMA WithTokenType ==
    ASSUME NEW k \in ClientType, NEW t \in Notices
    PROVE  WithToken(k, t) \in ClientType
<1> DEFINE kept == Append(k.pending, t)
<1>1. k.pending \in Seq(Notices)
    BY DEF ClientType
<1>2. kept \in Seq(Notices)
    BY <1>1
<1>3. [k EXCEPT !.pending = kept, !.tick = TRUE] \in ClientType
  <2> HIDE DEF kept
  <2> QED
    BY <1>2 DEF ClientType
<1> QED
    BY <1>3 DEF WithToken

LEMMA FlushedType ==
    ASSUME NEW k \in ClientType
    PROVE  Flushed(k) \in ClientType
<1> DEFINE all == k.shown \o k.pending
           none == <<>>
<1>1. k.shown \in Seq(Notices) /\ k.pending \in Seq(Notices)
    BY DEF ClientType
<1>2. all \in Seq(Notices) /\ none \in Seq(Notices)
    BY <1>1
<1>3. [k EXCEPT !.shown = all, !.pending = none, !.tick = FALSE] \in ClientType
  <2> HIDE DEF all, none
  <2> QED
    BY <1>2 DEF ClientType
<1> QED
    BY <1>3 DEF Flushed

LEMMA WithDoneType ==
    ASSUME NEW k \in ClientType, NEW s \in {"none", "idle", "running", "error"},
           NEW n \in Messages
    PROVE  WithDone(k, s, n) \in ClientType
<1> DEFINE f == Flushed(WithState(k, s))
<1>1. f \in ClientType
    BY StateType, FlushedType
<1>2. DoneOf(n) \in Notices
    BY DoneType
<1> HIDE DEF f
<1> DEFINE all == Append(f.shown, DoneOf(n))
<1>3. f.shown \in Seq(Notices)
    BY <1>1 DEF ClientType
<1>4. all \in Seq(Notices)
    BY <1>2, <1>3
<1>5. [f EXCEPT !.shown = all] \in ClientType
  <2> HIDE DEF all
  <2> QED
    BY <1>1, <1>4 DEF ClientType
<1> QED
    BY <1>5 DEF WithDone, f

LEMMA ToAttachedType ==
    ASSUME NEW told \in [Clients -> ClientType], client \in [Clients -> ClientType]
    PROVE  ToAttached(told) \in [Clients -> ClientType]
BY DEF ToAttached

-----------------------------------------------------------------------------
(* Replies: what is live, and on which runner. *)

TypeOfParts ==
    /\ mode \in {"up", "closing", "down"}
    /\ session \in {"none", "stored", "deleted"}
    /\ made \in Runners \cup {0}
    /\ runner \in Runners \cup {NoRunner}
    /\ active \in [Runners -> BOOLEAN] /\ interrupted \in [Runners -> BOOLEAN]
    /\ reply \in [Messages -> [runner : Runners \cup {NoRunner}, sent : 0 .. Length,
                               on : BOOLEAN]]
    /\ asked \in 0 .. MaxMessages
    /\ halted \subseteq Messages /\ overlapped \subseteq Messages /\ lost \subseteq Messages

ClientsType ==
    /\ client \in [Clients -> ClientType]
    /\ stored \in Seq([role : {"user", "assistant"}, of : Messages])
    /\ said \in Seq(Notices)
    /\ posts \in {0, 1}

LEMMA TypeIsParts == TypeOK <=> TypeOfParts /\ ClientsType
BY DEF TypeOK, TypeOfParts, ClientsType, ClientType

(* The requests end with the process. *)
PostsKnown == posts = 1 => mode # "down"

(* The parts of the state the interrupts depend on *)
streaming == <<mode, session, made, runner, active, interrupted, reply, asked, halted, overlapped>>

StreamInv == TypeOfParts /\ RunnersMade /\ StreamsKnown /\ AloneActive /\ HaltedKnown

LEMMA LiveRunners ==
    ASSUME StreamInv
    PROVE  \A k \in Live : reply[k].runner \in Runners
<1> TAKE k \in Live
<1>1. reply[k].runner \in 1 .. made /\ made \in Runners \cup {0}
    BY DEF StreamInv, StreamsKnown, TypeOfParts
<1> QED
    BY <1>1 DEF Runners

LEMMA InitStreamInv == Init => StreamInv
<1> SUFFICES ASSUME Init PROVE StreamInv
    OBVIOUS
<1>1. TypeOfParts
    BY DaemonAssumption DEF Init, TypeOfParts, Runners, NoRunner
<1>2. Live = {}
    BY DEF Init, Live
<1>3. RunnersMade
    BY DEF Init, RunnersMade, Vacancies, NoRunner
<1> QED
    BY <1>1, <1>2, <1>3 DEF Init, StreamInv, StreamsKnown, AloneActive, HaltedKnown

(* What does not touch the replies and runners keeps what is known of them. *)
LEMMA StillStreamInv ==
    ASSUME StreamInv, UNCHANGED streaming, lost' \subseteq Messages
    PROVE  StreamInv'
BY DEF streaming, StreamInv, TypeOfParts, RunnersMade, Vacancies, StreamsKnown, AloneActive,
       HaltedKnown, Live

LEMMA CreateStreamInv ==
    ASSUME StreamInv, CreateSession
    PROVE  StreamInv'
BY DEF CreateSession, history, StreamInv, TypeOfParts, RunnersMade, Vacancies, StreamsKnown,
       AloneActive, HaltedKnown, Live

(* A message accepted: its reply is live, on the runner in the map.  Those *)
(* that stream on it are overlapped now, and not told to stop any more.    *)
LEMMA SendStreamInv ==
    ASSUME StreamInv, Send, mode # "down"
    PROVE  StreamInv'
<1> DEFINE r == EnsureRunner
           n == asked + 1
<1>r. /\ r \in 1 .. 3 /\ r \in Runners /\ made' = IF r = runner THEN made ELSE r
      /\ runner' = r /\ r <= made' /\ made <= made' /\ made' \in 1 .. 3
      /\ (r # runner => r = made + 1)
    BY DEF Send, EnsureRunner, StreamInv, TypeOfParts, RunnersMade, Vacancies, NoRunner, Runners
<1>m. RunnersMade'
    BY <1>r DEF Send, EnsureRunner, StreamInv, TypeOfParts, RunnersMade, Vacancies, NoRunner,
       Runners
<1>s. mode' = mode /\ session' = session
    BY DEF Send
<1>1. CASE session # "stored"
  <2>1. UNCHANGED <<active, interrupted, reply, asked, halted, overlapped, lost>>
      BY <1>1 DEF Send, history
  <2>2. TypeOfParts'
      BY <2>1, <1>r, <1>s DEF StreamInv, TypeOfParts, Runners, NoRunner
  <2>3. Live' = Live
      BY <2>1 DEF Live
  <2>4. \A k \in Live : reply[k].runner \in 1 .. made'
    <3> TAKE k \in Live
    <3>1. reply[k].runner \in 1 .. made
        BY DEF StreamInv, StreamsKnown
    <3> QED
        BY <3>1, <1>r DEF StreamInv, TypeOfParts, Runners
  <2>5. StreamsKnown'
      BY <2>1, <2>3, <2>4, <1>s DEF StreamInv, StreamsKnown
  <2>6. AloneActive' /\ HaltedKnown'
      BY <2>1, <2>3 DEF StreamInv, AloneActive, HaltedKnown
  <2> QED
      BY <2>2, <2>5, <2>6, <1>m DEF StreamInv
<1>2. CASE session = "stored"
  <2> USE <1>2
  <2>1. /\ asked < MaxMessages /\ asked' = n
        /\ active' = [active EXCEPT ![r] = TRUE]
        /\ interrupted' = [interrupted EXCEPT ![r] = FALSE]
        /\ reply' = [reply EXCEPT ![n] = [runner |-> r, sent |-> 1, on |-> TRUE]]
        /\ overlapped' = IF LiveOn(r) = {} THEN overlapped
                         ELSE overlapped \cup LiveOn(r) \cup {n}
        /\ UNCHANGED <<halted, lost>>
      BY DEF Send
  <2> HIDE DEF r, n
  <2>n. asked \in Nat /\ n = asked + 1 /\ n \in Messages /\ n \notin Live /\ n \notin halted
    <3>1. asked \in 0 .. MaxMessages
        BY DEF StreamInv, TypeOfParts
    <3>2. n = asked + 1
        BY DEF n
    <3>3. n \in Messages
        BY <2>1, <3>1, <3>2, DaemonAssumption DEF Messages
    <3>4. ~(n <= asked)
        BY <3>1, <3>2
    <3> QED
        BY <3>1, <3>2, <3>3, <3>4 DEF StreamInv, StreamsKnown, HaltedKnown
  <2>l. Live' = Live \cup {n}
    <3>1. reply'[n].on /\ \A k \in Messages \ {n} : reply'[k] = reply[k]
        BY <2>1, <2>n DEF StreamInv, TypeOfParts
    <3> QED
        BY <3>1, <2>n DEF Live
  <2>e. \A k \in Live : reply'[k] = reply[k] /\ k # n
      BY <2>1, <2>n DEF StreamInv, TypeOfParts, Live
  <2>r. reply'[n].runner = r
      BY <2>1, <2>n DEF StreamInv, TypeOfParts
  <2>t. TypeOfParts'
    <3>1. [runner |-> r, sent |-> 1, on |-> TRUE] \in
              [runner : Runners \cup {NoRunner}, sent : 0 .. Length, on : BOOLEAN]
        BY <1>r, DaemonAssumption
    <3>2. reply' \in [Messages -> [runner : Runners \cup {NoRunner}, sent : 0 .. Length,
                                   on : BOOLEAN]]
        BY <3>1, <2>1 DEF StreamInv, TypeOfParts
    <3>3. LiveOn(r) \subseteq Messages
        BY DEF LiveOn, Live
    <3>4. overlapped' \subseteq Messages
        BY <3>3, <2>1, <2>n DEF StreamInv, TypeOfParts
    <3>5. asked' \in 0 .. MaxMessages
        BY <2>1, <2>n, DaemonAssumption
    <3>6. made' \in Runners \cup {0} /\ runner' \in Runners \cup {NoRunner}
        BY <1>r DEF Runners
    <3>7. active' \in [Runners -> BOOLEAN] /\ interrupted' \in [Runners -> BOOLEAN]
        BY <2>1, <1>r DEF StreamInv, TypeOfParts
    <3> QED
        BY <3>2, <3>4, <3>5, <3>6, <3>7, <2>1, <1>s DEF StreamInv, TypeOfParts
  <2>a. asked <= asked'
      BY <2>1, <2>n
  <2>k. StreamsKnown'
    <3> SUFFICES ASSUME NEW k \in Live'
                 PROVE  k <= asked' /\ mode' # "down" /\ reply'[k].runner \in 1 .. made'
        BY DEF StreamsKnown
    <3>1. CASE k = n
        BY <3>1, <2>1, <2>n, <2>r, <1>r, <1>s
    <3>2. CASE k \in Live
      <4>1. k <= asked /\ reply[k].runner \in 1 .. made
          BY <3>2 DEF StreamInv, StreamsKnown
      <4>2. k \in Nat /\ made \in Nat
          BY <3>2 DEF Live, Messages, StreamInv, TypeOfParts, Runners
      <4>3. k <= asked'
          BY <4>1, <4>2, <2>1, <2>n
      <4>4. reply[k].runner \in 1 .. made'
          BY <4>1, <4>2, <1>r
      <4> QED
          BY <4>3, <4>4, <3>2, <2>e, <1>s
    <3> QED
        BY <3>1, <3>2, <2>l
  <2>o. \A k \in Live \ overlapped' : reply[k].runner # r
    <3> SUFFICES ASSUME NEW k \in Live, k \notin overlapped', reply[k].runner = r
                 PROVE  FALSE
        OBVIOUS
    <3>1. k \in LiveOn(r)
        BY DEF LiveOn
    <3> QED
        BY <3>1, <2>1
  <2>p. n \notin overlapped' => LiveOn(r) = {}
      BY <2>1
  <2>b. AloneActive'
    <3> SUFFICES ASSUME NEW k \in Live', k \notin overlapped'
                 PROVE  /\ active'[reply'[k].runner]
                        /\ \A m \in Live' : reply'[m].runner = reply'[k].runner => m = k
        BY DEF AloneActive
    <3>1. CASE k = n
      <4>1. active'[r]
          BY <2>1, <1>r DEF StreamInv, TypeOfParts
      <4>2. \A m \in Live : reply[m].runner # r
          BY <2>p, <3>1 DEF LiveOn
      <4> QED
          BY <3>1, <4>1, <4>2, <2>e, <2>l, <2>r
    <3>2. CASE k \in Live
      <4>1. k \notin overlapped
          BY <2>1
      <4>2. active[reply[k].runner] /\ \A m \in Live : reply[m].runner = reply[k].runner => m = k
          BY <3>2, <4>1 DEF StreamInv, AloneActive
      <4>3. reply[k].runner # r
          BY <2>o, <3>2
      <4>4. active'[reply[k].runner] = active[reply[k].runner]
          BY <2>1, <4>3 DEF StreamInv, TypeOfParts
      <4> QED
          BY <3>2, <4>2, <4>3, <4>4, <2>e, <2>l, <2>r
    <3> QED
        BY <3>1, <3>2, <2>l
  <2>h. HaltedKnown'
    <3> SUFFICES ASSUME NEW k \in halted
                 PROVE  /\ k <= asked'
                        /\ k \in Live' \ overlapped' => interrupted'[reply'[k].runner]
        BY <2>1 DEF HaltedKnown
    <3>1. k <= asked /\ k \in Nat /\ k # n
        BY <2>n DEF StreamInv, HaltedKnown, TypeOfParts, Messages
    <3>2. k <= asked'
        BY <3>1, <2>1, <2>n
    <3>3. ASSUME k \in Live', k \notin overlapped' PROVE interrupted'[reply'[k].runner]
      <4>1. k \in Live \ overlapped
          BY <3>3, <3>1, <2>l, <2>1
      <4>2. interrupted[reply[k].runner]
          BY <4>1 DEF StreamInv, HaltedKnown
      <4>3. reply[k].runner # r
          BY <2>o, <4>1, <3>3
      <4>4. interrupted'[reply[k].runner] = interrupted[reply[k].runner]
          BY <2>1, <4>3 DEF StreamInv, TypeOfParts
      <4> QED
          BY <4>1, <4>2, <4>4, <2>e
    <3> QED
        BY <3>2, <3>3
  <2> QED
      BY <2>t, <1>m, <2>k, <2>b, <2>h DEF StreamInv
<1> QED
    BY <1>1, <1>2

LEMMA TokenStreamInv ==
    ASSUME StreamInv, NEW n \in Messages, StreamToken(n)
    PROVE  StreamInv'
<1>1. /\ n \in Live /\ reply[n].sent < Length
      /\ reply' = [reply EXCEPT ![n].sent = @ + 1]
      /\ UNCHANGED <<mode, session, made, runner, active, interrupted, asked, halted,
                     overlapped, lost>>
    BY DEF StreamToken
<1>2. reply[n].sent + 1 \in 0 .. Length
    BY <1>1, DaemonAssumption DEF StreamInv, TypeOfParts
<1>3. reply' \in [Messages -> [runner : Runners \cup {NoRunner}, sent : 0 .. Length,
                               on : BOOLEAN]]
    BY <1>1, <1>2 DEF StreamInv, TypeOfParts
<1>4. \A k \in Messages : reply'[k].on = reply[k].on /\ reply'[k].runner = reply[k].runner
    BY <1>1 DEF StreamInv, TypeOfParts
<1>5. Live' = Live
    BY <1>4 DEF Live
<1>6. \A k \in Live : reply'[k].runner = reply[k].runner
    BY <1>4 DEF Live
<1>7. TypeOfParts'
    BY <1>1, <1>3 DEF StreamInv, TypeOfParts
<1>8. RunnersMade' /\ StreamsKnown' /\ HaltedKnown'
    BY <1>1, <1>5, <1>6 DEF StreamInv, RunnersMade, Vacancies, StreamsKnown, HaltedKnown
<1>9. AloneActive'
    BY <1>1, <1>5, <1>6 DEF StreamInv, AloneActive
<1> QED
    BY <1>7, <1>8, <1>9 DEF StreamInv

(* The runner of a reply that ends may be made inactive only for replies   *)
(* that shared it.                                                         *)
LEMMA EndsStreamInv ==
    ASSUME StreamInv, NEW n \in Messages, StreamEnds(n)
    PROVE  StreamInv'
<1> DEFINE r == reply[n].runner
<1>1. /\ n \in Live
      /\ reply' = [reply EXCEPT ![n].on = FALSE]
      /\ active' = active \/ active' = [active EXCEPT ![r] = FALSE]
      /\ UNCHANGED <<mode, session, made, runner, interrupted, asked, halted, overlapped, lost>>
    BY DEF StreamEnds, history
<1>2. reply' \in [Messages -> [runner : Runners \cup {NoRunner}, sent : 0 .. Length,
                               on : BOOLEAN]]
    BY <1>1 DEF StreamInv, TypeOfParts
<1>3. Live' = Live \ {n} /\ \A k \in Live' : reply'[k] = reply[k]
    BY <1>1 DEF Live, StreamInv, TypeOfParts
<1>4. active' \in [Runners -> BOOLEAN]
    BY <1>1 DEF StreamInv, TypeOfParts
<1>5. TypeOfParts'
    BY <1>1, <1>2, <1>4 DEF StreamInv, TypeOfParts
<1>6. RunnersMade' /\ StreamsKnown' /\ HaltedKnown'
    BY <1>1, <1>3 DEF StreamInv, RunnersMade, Vacancies, StreamsKnown, HaltedKnown
<1>7. AloneActive'
  <2> SUFFICES ASSUME NEW k \in Live', k \notin overlapped
               PROVE  /\ active'[reply[k].runner]
                      /\ \A m \in Live' : reply[m].runner = reply[k].runner => m = k
      BY <1>1, <1>3 DEF AloneActive
  <2>1. active[reply[k].runner] /\ \A m \in Live : reply[m].runner = reply[k].runner => m = k
      BY <1>3 DEF StreamInv, AloneActive
  <2>2. reply[k].runner # r
    <3>1. k # n /\ n \in Live
        BY <1>1, <1>3
    <3> QED
        BY <2>1, <3>1
  <2> HIDE DEF r
  <2>3. CASE active' = active
      BY <2>1, <2>3, <1>3
  <2>4. CASE active' = [active EXCEPT ![r] = FALSE]
    <3>1. reply[k].runner \in Runners
        BY <1>3, LiveRunners
    <3>2. active'[reply[k].runner] = active[reply[k].runner]
        BY <2>2, <2>4, <3>1 DEF StreamInv, TypeOfParts
    <3> QED
        BY <2>1, <3>2, <1>3
  <2> QED
      BY <1>1, <2>3, <2>4
<1> QED
    BY <1>5, <1>6, <1>7 DEF StreamInv

(* To close a runner is to tell its replies to stop. *)
LEMMA CloseRunnerHalts ==
    ASSUME StreamInv, CloseRunner, halted' = halted \cup LiveOn(runner),
           UNCHANGED <<reply, active, asked, overlapped, made, lost>>
    PROVE  /\ HaltedKnown' /\ AloneActive' /\ interrupted' \in [Runners -> BOOLEAN]
           /\ halted' \subseteq Messages
<1>1. Live' = Live
    BY DEF Live
<1>2. AloneActive'
    BY <1>1 DEF StreamInv, AloneActive
<1>3. interrupted' \in [Runners -> BOOLEAN]
    BY DEF CloseRunner, StreamInv, TypeOfParts
<1>4. \A k \in Live : interrupted[reply[k].runner] \/ reply[k].runner = runner
                         => interrupted'[reply[k].runner]
  <2> TAKE k \in Live
  <2>1. reply[k].runner \in Runners
      BY LiveRunners
  <2> QED
      BY <2>1 DEF CloseRunner
<1>5. HaltedKnown'
  <2> SUFFICES ASSUME NEW k \in halted'
               PROVE  k <= asked /\ (k \in Live \ overlapped => interrupted'[reply[k].runner])
      BY <1>1 DEF HaltedKnown
  <2>1. CASE k \in halted
      BY <2>1, <1>4 DEF StreamInv, HaltedKnown
  <2>2. CASE k \in LiveOn(runner)
      BY <2>2, <1>4 DEF StreamInv, StreamsKnown, LiveOn
  <2> QED
      BY <2>1, <2>2
<1>6. halted' \subseteq Messages
    BY DEF StreamInv, TypeOfParts, LiveOn, Live
<1> QED
    BY <1>2, <1>3, <1>5, <1>6

LEMMA DeleteStreamInv ==
    ASSUME StreamInv, DeleteSession
    PROVE  StreamInv'
<1>1. /\ HaltedKnown' /\ AloneActive' /\ interrupted' \in [Runners -> BOOLEAN]
      /\ halted' \subseteq Messages
    BY CloseRunnerHalts DEF DeleteSession
<1>2. TypeOfParts'
    BY <1>1 DEF DeleteSession, StreamInv, TypeOfParts
<1>3. StreamsKnown'
    BY DEF DeleteSession, StreamInv, StreamsKnown, Live
<1>4. RunnersMade'
    BY DEF DeleteSession, StreamInv, TypeOfParts, RunnersMade, Vacancies, NoRunner, Runners
<1> QED
    BY <1>1, <1>2, <1>3, <1>4 DEF StreamInv

LEMMA CloseStreamInv ==
    ASSUME StreamInv, Close
    PROVE  StreamInv'
<1>1. /\ HaltedKnown' /\ AloneActive' /\ interrupted' \in [Runners -> BOOLEAN]
      /\ halted' \subseteq Messages
    BY CloseRunnerHalts DEF Close
<1>2. TypeOfParts'
    BY <1>1 DEF Close, StreamInv, TypeOfParts
<1>3. StreamsKnown'
    BY DEF Close, StreamInv, StreamsKnown, Live
<1>4. RunnersMade'
    BY DEF Close, StreamInv, TypeOfParts, RunnersMade, Vacancies, NoRunner, Runners
<1> QED
    BY <1>1, <1>2, <1>3, <1>4 DEF StreamInv

(* An interrupt is heard if the runner is active, and it is when a reply   *)
(* has it for itself.                                                      *)
LEMMA InterruptStreamInv ==
    ASSUME StreamInv, NEW c \in Clients, Interrupt(c)
    PROVE  StreamInv'
<1>1. /\ interrupted' = [interrupted EXCEPT ![runner] = @ \/ active[runner]]
      /\ halted' = halted \cup LiveOn(runner)
      /\ runner # NoRunner
      /\ UNCHANGED <<mode, session, made, runner, active, reply, asked, overlapped, lost>>
    BY DEF Interrupt
<1>2. Live' = Live /\ runner \in Runners
    BY <1>1 DEF Live, StreamInv, TypeOfParts
<1>3. interrupted' \in [Runners -> BOOLEAN]
    BY <1>1, <1>2 DEF StreamInv, TypeOfParts
<1>4. TypeOfParts'
    BY <1>1, <1>3 DEF StreamInv, TypeOfParts, LiveOn, Live
<1>5. RunnersMade' /\ StreamsKnown' /\ AloneActive'
    BY <1>1, <1>2 DEF StreamInv, RunnersMade, Vacancies, StreamsKnown, AloneActive
<1>6. \A k \in Live : reply[k].runner \in Runners
    BY LiveRunners
<1>7. HaltedKnown'
  <2> SUFFICES ASSUME NEW k \in halted'
               PROVE  k <= asked /\ (k \in Live \ overlapped => interrupted'[reply[k].runner])
      BY <1>1, <1>2 DEF HaltedKnown
  <2>1. CASE k \in halted
    <3>1. k <= asked /\ (k \in Live \ overlapped => interrupted[reply[k].runner])
        BY <2>1 DEF StreamInv, HaltedKnown
    <3>2. \A x \in Runners : interrupted[x] => interrupted'[x]
        BY <1>1 DEF StreamInv, TypeOfParts
    <3> QED
        BY <3>1, <3>2, <1>6
  <2>2. CASE k \in LiveOn(runner)
    <3>1. k \in Live /\ reply[k].runner = runner /\ k <= asked
        BY <2>2 DEF LiveOn, StreamInv, StreamsKnown
    <3>2. k \notin overlapped => active[runner]
        BY <3>1 DEF StreamInv, AloneActive
    <3>3. active[runner] => interrupted'[runner]
        BY <1>1, <1>2 DEF StreamInv, TypeOfParts
    <3> QED
        BY <3>1, <3>2, <3>3
  <2> QED
      BY <1>1, <2>1, <2>2
<1> QED
    BY <1>4, <1>5, <1>7 DEF StreamInv

LEMMA ProcessEndsStreamInv ==
    ASSUME StreamInv, ProcessEnds
    PROVE  StreamInv'
<1>1. /\ mode' = "down"
      /\ reply' = [n \in Messages |-> [reply[n] EXCEPT !.on = FALSE]]
      /\ lost' = lost \cup Live
      /\ UNCHANGED <<session, made, runner, active, interrupted, asked, halted, overlapped>>
    BY DEF ProcessEnds
<1>2. Live' = {}
    BY <1>1 DEF Live, StreamInv, TypeOfParts
<1>3. reply' \in [Messages -> [runner : Runners \cup {NoRunner}, sent : 0 .. Length,
                               on : BOOLEAN]]
    BY <1>1 DEF StreamInv, TypeOfParts
<1>4. TypeOfParts'
    BY <1>1, <1>3 DEF StreamInv, TypeOfParts, Live
<1>5. RunnersMade'
    BY <1>1 DEF StreamInv, TypeOfParts, RunnersMade, Vacancies, NoRunner, Runners
<1>6. StreamsKnown' /\ AloneActive' /\ HaltedKnown'
    BY <1>1, <1>2 DEF StreamInv, StreamsKnown, AloneActive, HaltedKnown
<1> QED
    BY <1>4, <1>5, <1>6 DEF StreamInv

LEMMA StartStreamInv ==
    ASSUME StreamInv, Start
    PROVE  StreamInv'
<1>1. mode = "down" /\ mode' = "up" /\ made' = 0 /\ runner' = NoRunner
      /\ UNCHANGED <<session, reply, asked, halted, overlapped, lost>>
    BY DEF Start, history
<1>2. Live = {} /\ Live' = {}
    BY <1>1 DEF StreamInv, StreamsKnown, Live
<1>3. TypeOfParts'
    BY <1>1 DEF Start, StreamInv, TypeOfParts
<1>4. RunnersMade'
    BY <1>1 DEF RunnersMade, Vacancies, NoRunner
<1>5. StreamsKnown' /\ AloneActive' /\ HaltedKnown'
    BY <1>1, <1>2 DEF StreamInv, StreamsKnown, AloneActive, HaltedKnown
<1> QED
    BY <1>3, <1>4, <1>5 DEF StreamInv

-----------------------------------------------------------------------------
(* The whole step *)

IInv == StreamInv /\ ClientsType /\ PostsKnown

LEMMA NextPostsKnown ==
    ASSUME PostsKnown, [Next]_vars
    PROVE  PostsKnown'
<1>1. CASE CreateSession \/ DeleteSession \/ PostMessage
    BY <1>1 DEF CreateSession, DeleteSession, PostMessage, PostsKnown
<1>2. CASE PostBody \/ PostFails
    BY <1>2 DEF PostBody, PostFails, PostsKnown
<1>3. ASSUME NEW n \in Messages, StreamStep(n)
      PROVE  PostsKnown'
    BY <1>3 DEF StreamStep, StreamToken, StreamEnds, PostsKnown
<1>4. ASSUME NEW c \in Clients, Attach(c) \/ Detach(c) \/ Tick(c) \/ Interrupt(c)
      PROVE  PostsKnown'
    BY <1>4 DEF Attach, Detach, Tick, Interrupt, PostsKnown
<1>5. ASSUME NEW c \in Clients, SendBySocket(c)
      PROVE  PostsKnown'
    BY <1>5 DEF SendBySocket, PostsKnown, Send
<1>6. CASE Close
    BY <1>6 DEF Close, PostsKnown
<1>7. CASE Exit \/ Kill
    BY <1>7 DEF Exit, Kill, ProcessEnds, PostsKnown
<1>8. CASE Start
    BY <1>8 DEF Start, PostsKnown
<1>9. CASE UNCHANGED vars
    BY <1>9 DEF vars, PostsKnown
<1> QED
    BY <1>1, <1>2, <1>3, <1>4, <1>5, <1>6, <1>7, <1>8, <1>9 DEF Next

LEMMA NextStreamInv ==
    ASSUME StreamInv, PostsKnown, [Next]_vars
    PROVE  StreamInv'
<1>1. CASE CreateSession
    BY <1>1, CreateStreamInv
<1>2. CASE DeleteSession
    BY <1>2, DeleteStreamInv
<1>3. CASE PostMessage
  <2>1. UNCHANGED streaming /\ lost' = lost
      BY <1>3 DEF PostMessage, streaming, history
  <2>2. lost' \subseteq Messages
      BY <2>1 DEF StreamInv, TypeOfParts
  <2> QED
      BY <2>1, <2>2, StillStreamInv
<1>4. CASE PostBody
    BY <1>4, SendStreamInv DEF PostBody, PostsKnown
<1>5. CASE PostFails
  <2>1. UNCHANGED streaming /\ lost' = lost
      BY <1>5 DEF PostFails, streaming, history
  <2>2. lost' \subseteq Messages
      BY <2>1 DEF StreamInv, TypeOfParts
  <2> QED
      BY <2>1, <2>2, StillStreamInv
<1>6. ASSUME NEW n \in Messages, StreamStep(n)
      PROVE  StreamInv'
    BY <1>6, TokenStreamInv, EndsStreamInv DEF StreamStep
<1>7. ASSUME NEW c \in Clients, Attach(c) \/ Detach(c) \/ Tick(c)
      PROVE  StreamInv'
  <2>1. UNCHANGED streaming /\ lost' = lost
      BY <1>7 DEF Attach, Detach, Tick, streaming, history
  <2>2. lost' \subseteq Messages
      BY <2>1 DEF StreamInv, TypeOfParts
  <2> QED
      BY <2>1, <2>2, StillStreamInv
<1>8. ASSUME NEW c \in Clients, SendBySocket(c)
      PROVE  StreamInv'
    BY <1>8, SendStreamInv DEF SendBySocket
<1>9. ASSUME NEW c \in Clients, Interrupt(c)
      PROVE  StreamInv'
    BY <1>9, InterruptStreamInv
<1>10. CASE Close
    BY <1>10, CloseStreamInv
<1>11. CASE Exit \/ Kill
    BY <1>11, ProcessEndsStreamInv DEF Exit, Kill
<1>12. CASE Start
    BY <1>12, StartStreamInv
<1>13. CASE UNCHANGED vars
  <2>1. UNCHANGED streaming /\ lost' = lost
      BY <1>13 DEF vars, streaming, history
  <2>2. lost' \subseteq Messages
      BY <2>1 DEF StreamInv, TypeOfParts
  <2> QED
      BY <2>1, <2>2, StillStreamInv
<1> QED
    BY <1>1, <1>2, <1>3, <1>4, <1>5, <1>6, <1>7, <1>8, <1>9, <1>10, <1>11, <1>12, <1>13
       DEF Next

(* What the clients, the transcript and the history are made of *)
Entries == [role : {"user", "assistant"}, of : Messages]

LEMMA SendClientsType ==
    ASSUME TypeOfParts, ClientsType, Send, posts' \in {0, 1}
    PROVE  ClientsType'
<1>1. CASE session # "stored"
    BY <1>1 DEF Send, history, ClientsType
<1>2. CASE session = "stored"
  <2> DEFINE n == asked + 1
             t == Token(n, 1)
             told == [c \in Clients |-> WithToken(WithState(client[c], "running"), t)]
  <2>1. /\ asked < MaxMessages /\ stored' = Append(stored, Message("user", n))
        /\ client' = ToAttached(told) /\ said' = Append(said, t)
      BY <1>2 DEF Send
  <2>2. n \in Messages /\ 1 \in 0 .. Length
      BY <2>1, DaemonAssumption DEF TypeOfParts, Messages
  <2> HIDE DEF n
  <2>3. t \in Notices /\ Message("user", n) \in Entries
      BY <2>2, TokenType DEF Message, Entries
  <2> HIDE DEF t
  <2>4. told \in [Clients -> ClientType]
    <3> SUFFICES ASSUME NEW c \in Clients
                 PROVE  WithToken(WithState(client[c], "running"), t) \in ClientType
        OBVIOUS
    <3>1. client[c] \in ClientType
        BY DEF ClientsType
    <3>2. WithState(client[c], "running") \in ClientType
        BY <3>1, StateType
    <3> QED
        BY <3>2, <2>3, WithTokenType
  <2> HIDE DEF told
  <2>5. client' \in [Clients -> ClientType]
      BY <2>1, <2>4, ToAttachedType DEF ClientsType
  <2>6. stored' \in Seq(Entries)
      BY <2>1, <2>3 DEF ClientsType, Entries
  <2>7. said' \in Seq(Notices)
      BY <2>1, <2>3 DEF ClientsType
  <2> QED
      BY <2>5, <2>6, <2>7 DEF ClientsType, Entries
<1> QED
    BY <1>1, <1>2

LEMMA TokenClientsType ==
    ASSUME TypeOfParts, ClientsType, NEW n \in Messages, StreamToken(n)
    PROVE  ClientsType'
<1> DEFINE t == Token(n, reply[n].sent + 1)
           told == [c \in Clients |-> WithToken(client[c], t)]
<1>1. /\ reply[n].sent < Length /\ client' = ToAttached(told) /\ said' = Append(said, t)
      /\ stored' = stored /\ posts' = posts
    BY DEF StreamToken
<1>2. reply[n].sent + 1 \in 0 .. Length
    BY <1>1, DaemonAssumption DEF TypeOfParts
<1>3. t \in Notices
    BY <1>2, TokenType
<1> HIDE DEF t
<1>4. told \in [Clients -> ClientType]
    BY <1>3, WithTokenType DEF ClientsType
<1> HIDE DEF told
<1>5. client' \in [Clients -> ClientType]
    BY <1>1, <1>4, ToAttachedType DEF ClientsType
<1>6. said' \in Seq(Notices)
    BY <1>1, <1>3 DEF ClientsType
<1> QED
    BY <1>1, <1>5, <1>6 DEF ClientsType

LEMMA EndsClientsType ==
    ASSUME ClientsType, NEW n \in Messages, StreamEnds(n)
    PROVE  ClientsType'
<1> DEFINE told(s) == [c \in Clients |-> WithDone(client[c], s, n)]
<1>1. posts' = posts /\ said' = said
    BY DEF StreamEnds, history
<1>2. \A s \in {"idle", "error"} : told(s) \in [Clients -> ClientType]
    BY WithDoneType DEF ClientsType
<1>3. client' = ToAttached(told("idle")) \/ client' = ToAttached(told("error"))
    BY DEF StreamEnds
<1> HIDE DEF told
<1>4. client' \in [Clients -> ClientType]
    BY <1>2, <1>3, ToAttachedType DEF ClientsType
<1>5. stored' = stored \/ stored' = Append(stored, Message("assistant", n))
    BY DEF StreamEnds, Answer
<1>6. Message("assistant", n) \in Entries
    BY DEF Message, Entries
<1> DEFINE answer == Message("assistant", n)
<1>7. stored' \in Seq(Entries)
  <2>1. stored \in Seq(Entries)
      BY DEF ClientsType, Entries
  <2>2. answer \in Entries /\ (stored' = stored \/ stored' = Append(stored, answer))
      BY <1>5, <1>6
  <2> HIDE DEF answer
  <2>3. Append(stored, answer) \in Seq(Entries)
      BY <2>1, <2>2
  <2> QED
      BY <2>1, <2>2, <2>3
<1> QED
    BY <1>1, <1>4, <1>7 DEF ClientsType, Entries

LEMMA ClientClientsType ==
    ASSUME ClientsType, NEW c \in Clients, Attach(c) \/ Detach(c) \/ Tick(c)
    PROVE  ClientsType'
<1> DEFINE k == [Away EXCEPT !.socket = "attached", !.state = "idle",
                             !.since = Len(said), !.midway = Live # {}]
<1>1. posts' = posts /\ said' = said /\ stored' = stored
    BY DEF Attach, Detach, Tick, history
<1>2. Len(said) \in Nat
    BY DEF ClientsType
<1>3. k \in ClientType
    BY <1>2, AwayType DEF ClientType
<1>4. Flushed(client[c]) \in ClientType /\ Away \in ClientType
    BY FlushedType, AwayType DEF ClientsType
<1>5. \/ client' = [client EXCEPT ![c] = k]
      \/ client' = [client EXCEPT ![c] = Away]
      \/ client' = [client EXCEPT ![c] = Flushed(client[c])]
    BY DEF Attach, Detach, Tick
<1> HIDE DEF k
<1>6. client' \in [Clients -> ClientType]
    BY <1>3, <1>4, <1>5 DEF ClientsType
<1> QED
    BY <1>1, <1>6 DEF ClientsType

LEMMA CloseClientsType ==
    ASSUME ClientsType, Close
    PROVE  ClientsType'
<1>1. \A k \in ClientType : [k EXCEPT !.socket = "closing"] \in ClientType
    BY DEF ClientType
<1>2. client' = [c \in Clients |-> IF client[c].socket = "away" THEN Away
                                   ELSE [client[c] EXCEPT !.socket = "closing"]]
    BY DEF Close
<1>3. client' \in [Clients -> ClientType]
    BY <1>1, <1>2, AwayType DEF ClientsType
<1> QED
    BY <1>3 DEF Close, ClientsType

LEMMA NextClientsType ==
    ASSUME TypeOfParts, ClientsType, [Next]_vars
    PROVE  ClientsType'
<1>1. CASE CreateSession \/ PostMessage \/ PostFails
    BY <1>1 DEF CreateSession, PostMessage, PostFails, history, ClientsType
<1>2. CASE DeleteSession
  <2>1. client' = client /\ said' = said /\ posts' = posts /\ stored' = <<>>
      BY <1>2 DEF DeleteSession
  <2> QED
      BY <2>1 DEF ClientsType
<1>3. CASE PostBody
    BY <1>3, SendClientsType DEF PostBody
<1>4. ASSUME NEW n \in Messages, StreamStep(n)
      PROVE  ClientsType'
    BY <1>4, TokenClientsType, EndsClientsType DEF StreamStep
<1>5. ASSUME NEW c \in Clients, Attach(c) \/ Detach(c) \/ Tick(c)
      PROVE  ClientsType'
    BY <1>5, ClientClientsType
<1>6. ASSUME NEW c \in Clients, SendBySocket(c)
      PROVE  ClientsType'
    BY <1>6, SendClientsType DEF SendBySocket, ClientsType
<1>7. ASSUME NEW c \in Clients, Interrupt(c)
      PROVE  ClientsType'
    BY <1>7 DEF Interrupt, ClientsType
<1>8. CASE Close
    BY <1>8, CloseClientsType
<1>9. CASE Exit \/ Kill
  <2>1. client' = [c \in Clients |-> Away] /\ posts' = 0 /\ UNCHANGED <<stored, said>>
      BY <1>9 DEF Exit, Kill, ProcessEnds
  <2> QED
      BY <2>1, AwayType DEF ClientsType
<1>10. CASE Start \/ UNCHANGED vars
    BY <1>10 DEF Start, vars, history, ClientsType
<1> QED
    BY <1>1, <1>2, <1>3, <1>4, <1>5, <1>6, <1>7, <1>8, <1>9, <1>10 DEF Next

-----------------------------------------------------------------------------
(* Theorems *)

LEMMA InitIInv == Init => IInv
<1> SUFFICES ASSUME Init PROVE IInv
    OBVIOUS
<1>1. StreamInv
    BY InitStreamInv
<1>2. ClientsType
    BY AwayType DEF Init, ClientsType
<1>3. PostsKnown
    BY DEF Init, PostsKnown
<1> QED
    BY <1>1, <1>2, <1>3 DEF IInv

LEMMA NextIInv == IInv /\ [Next]_vars => IInv'
BY NextStreamInv, NextClientsType, NextPostsKnown DEF IInv, StreamInv

(* The state of the daemon (server.ts, runner.ts) keeps its type: above    *)
(* all a fourth runner is never made between two starts of the process.    *)
THEOREM TypeCorrect == Spec => []TypeOK
<1>1. IInv => TypeOK
    BY TypeIsParts DEF IInv, StreamInv
<1> QED
    BY InitIInv, NextIInv, <1>1, PTL DEF Spec

(* A reply that was told to stop, and that had its runner for itself, does *)
(* not grow: streamReply (runner.ts) emits a token only when its runner is *)
(* not interrupted, and send() resets that only for those it overlaps.     *)
THEOREM InterruptsHonoured == Spec => InterruptHonoured
<1>1. IInv /\ [Next]_vars
          => [\A n \in halted \ overlapped : reply'[n].sent = reply[n].sent]_vars
  <2> SUFFICES ASSUME IInv, Next, NEW n \in halted, n \notin overlapped
               PROVE  reply'[n].sent = reply[n].sent
      BY DEF vars
  <2>1. /\ n \in Messages /\ n <= asked /\ asked \in Nat /\ n \in Nat
        /\ n \in Live => interrupted[reply[n].runner]
      BY DEF IInv, StreamInv, TypeOfParts, HaltedKnown, Messages
  <2>2. reply \in [Messages -> [runner : Runners \cup {NoRunner}, sent : 0 .. Length,
                                on : BOOLEAN]]
      BY DEF IInv, StreamInv, TypeOfParts
  <2>3. CASE reply' = reply
      BY <2>3
  <2>4. ASSUME NEW m \in Messages, StreamToken(m)
        PROVE  reply'[n].sent = reply[n].sent
    <3>1. m # n /\ reply' = [reply EXCEPT ![m].sent = @ + 1]
        BY <2>1, <2>4 DEF StreamToken
    <3> QED
        BY <3>1, <2>1, <2>2
  <2>5. ASSUME NEW m \in Messages, StreamEnds(m)
        PROVE  reply'[n].sent = reply[n].sent
    <3>1. reply' = [reply EXCEPT ![m].on = FALSE]
        BY <2>5 DEF StreamEnds
    <3> QED
        BY <3>1, <2>1, <2>2
  <2>6. ASSUME Send
        PROVE  reply'[n].sent = reply[n].sent
    <3>1. CASE session = "stored"
      <4>1. reply' = [reply EXCEPT ![asked + 1] =
                          [runner |-> EnsureRunner, sent |-> 1, on |-> TRUE]]
          BY <3>1, <2>6 DEF Send
      <4>2. asked + 1 # n
          BY <2>1
      <4> QED
          BY <4>1, <4>2, <2>1, <2>2
    <3>2. CASE session # "stored"
        BY <3>2, <2>6 DEF Send
    <3> QED
        BY <3>1, <3>2
  <2>7. CASE ProcessEnds
    <3>1. reply' = [k \in Messages |-> [reply[k] EXCEPT !.on = FALSE]]
        BY <2>7 DEF ProcessEnds
    <3> QED
        BY <3>1, <2>1, <2>2
  <2> QED
      BY <2>3, <2>4, <2>5, <2>6, <2>7
         DEF Next, CreateSession, DeleteSession, PostMessage, PostBody, PostFails, StreamStep,
             Attach, Detach, Tick, SendBySocket, Interrupt, Close, Exit, Kill, Start
<1> QED
    BY InitIInv, NextIInv, <1>1, PTL DEF Spec, InterruptHonoured
-----------------------------------------------------------------------------
(* What the clients are shown *)

LEMMA CountAppended ==
    ASSUME NEW s \in Seq(Notices), NEW t \in Notices
    PROVE  /\ \A i \in 0 .. Len(s) : TokensTo(Append(s, t), i) = TokensTo(s, i)
           /\ TokensTo(Append(s, t), Len(s) + 1)
                  = TokensTo(s, Len(s)) + (IF IsToken(t) THEN 1 ELSE 0)
<1> DEFINE u == Append(s, t)
           n == Len(s)
           S(i) == {j \in 1 .. i : IsToken(s[j])}
           U(i) == {j \in 1 .. i : IsToken(u[j])}
<1>1. n \in Nat /\ u[n + 1] = t /\ \A i \in 1 .. n : u[i] = s[i]
    OBVIOUS
<1>2. \A i \in 0 .. n : U(i) = S(i)
    BY <1>1
<1>3. U(n + 1) = IF IsToken(t) THEN S(n) \cup {n + 1} ELSE S(n)
    BY <1>1
<1>4. IsFiniteSet(1 .. n)
    BY <1>1, FS_Interval
<1>5. IsFiniteSet(S(n)) /\ n + 1 \notin S(n)
    BY <1>1, <1>4, FS_Subset
<1>6. Cardinality(S(n) \cup {n + 1}) = Cardinality(S(n)) + 1
    BY <1>5, FS_AddElement
<1>7. Cardinality(S(n)) \in Nat
    BY <1>5, FS_CardinalityType
<1> HIDE DEF u, n, S, U
<1>8. Cardinality(U(n + 1)) = Cardinality(S(n)) + (IF IsToken(t) THEN 1 ELSE 0)
    BY <1>3, <1>6, <1>7
<1>9. \A i \in 0 .. n : Cardinality(U(i)) = Cardinality(S(i))
    BY <1>2
<1> QED
    BY <1>8, <1>9 DEF TokensTo, u, n, S, U

(* A token is counted, and no more are counted before it than in all. *)
LEMMA CountBounds ==
    ASSUME NEW s \in Seq(Notices)
    PROVE  /\ TokensTo(s, Len(s)) \in Nat
           /\ \A i \in DOMAIN s : /\ TokensTo(s, i) \in Nat
                                  /\ TokensTo(s, i) <= TokensTo(s, Len(s))
                                  /\ IsToken(s[i]) => TokensTo(s, i) >= 1
<1> DEFINE S(i) == {j \in 1 .. i : IsToken(s[j])}
<1>1. Len(s) \in Nat /\ DOMAIN s = 1 .. Len(s)
    OBVIOUS
<1>2. \A i \in 0 .. Len(s) : IsFiniteSet(S(i)) /\ Cardinality(S(i)) \in Nat
  <2> TAKE i \in 0 .. Len(s)
  <2>1. IsFiniteSet(1 .. i)
      BY <1>1, FS_Interval
  <2>2. IsFiniteSet(S(i))
      BY <2>1, FS_Subset
  <2> QED
      BY <2>2, FS_CardinalityType
<1>3. ASSUME NEW i \in DOMAIN s
      PROVE  Cardinality(S(i)) <= Cardinality(S(Len(s)))
  <2>1. S(i) \subseteq S(Len(s)) /\ Len(s) \in 0 .. Len(s)
      BY <1>1
  <2>2. IsFiniteSet(S(Len(s)))
      BY <1>2, <2>1
  <2> QED
      BY <2>1, <2>2, FS_Subset
<1>4. ASSUME NEW i \in DOMAIN s, IsToken(s[i])
      PROVE  Cardinality(S(i)) >= 1
  <2>1. i \in S(i) /\ IsFiniteSet(S(i)) /\ Cardinality(S(i)) \in Nat
      BY <1>1, <1>2, <1>4
  <2>2. Cardinality(S(i)) # 0
      BY <2>1, FS_EmptySet
  <2> QED
      BY <2>1, <2>2
<1>5. \A i : TokensTo(s, i) = Cardinality(S(i))
    BY DEF TokensTo
<1> HIDE DEF S
<1> QED
    BY <1>1, <1>2, <1>3, <1>4, <1>5
(* A reply that a client was told is over is not live, and never again.    *)
DoneEnded(k) ==
    \A i \in DOMAIN All(k) :
        All(k)[i].kind = "done" => All(k)[i].of <= asked /\ All(k)[i].of \notin Live

Told(k) == TokensExact(k) /\ DoneComesLast(k) /\ DoneEnded(k)

LEMMA AllType ==
    ASSUME NEW k \in ClientType
    PROVE  /\ All(k) \in Seq(Notices) /\ k.shown \in Seq(Notices) /\ k.pending \in Seq(Notices)
           /\ k.since \in Nat
BY DEF ClientType, All

LEMMA NoticesNumbered ==
    ASSUME NEW s \in Seq(Notices)
    PROVE  \A i \in DOMAIN s : s[i].of \in Nat
<1> TAKE i \in DOMAIN s
<1>1. s[i] \in Notices
    OBVIOUS
<1> QED
    BY <1>1 DEF Notices, Messages

LEMMA KeptAppended ==
    ASSUME NEW s \in Seq(Notices), NEW p \in Seq(Notices), NEW t \in Notices
    PROVE  s \o Append(p, t) = Append(s \o p, t)
<1> DEFINE q == Append(p, t)
           u == s \o p
<1>1. q \in Seq(Notices) /\ Len(q) = Len(p) + 1
    OBVIOUS
<1>2. /\ \A i \in 1 .. Len(p) : q[i] = p[i]
      /\ q[Len(p) + 1] = t
    OBVIOUS
<1>3. /\ u \in Seq(Notices) /\ Len(u) = Len(s) + Len(p)
      /\ \A i \in 1 .. Len(s) + Len(p) : u[i] = IF i <= Len(s) THEN s[i] ELSE p[i - Len(s)]
    BY ConcatProperties
<1> HIDE DEF q, u
<1>4. /\ s \o q \in Seq(Notices) /\ Len(s \o q) = Len(s) + Len(q)
      /\ \A i \in 1 .. Len(s) + Len(q) : (s \o q)[i] = IF i <= Len(s) THEN s[i] ELSE q[i - Len(s)]
    BY <1>1, ConcatProperties
<1>5. /\ Append(u, t) \in Seq(Notices) /\ Len(Append(u, t)) = Len(u) + 1
      /\ \A i \in 1 .. Len(u) : Append(u, t)[i] = u[i]
      /\ Append(u, t)[Len(u) + 1] = t
    BY <1>3
<1>6. Len(s) \in Nat /\ Len(p) \in Nat
    OBVIOUS
<1>7. ASSUME NEW i \in 1 .. Len(s \o q)
      PROVE  (s \o q)[i] = Append(u, t)[i]
  <2>1. CASE i <= Len(s)
      BY <1>1, <1>3, <1>4, <1>5, <1>6, <2>1
  <2>2. CASE i > Len(s) /\ i <= Len(s) + Len(p)
    <3>1. (s \o q)[i] = q[i - Len(s)] /\ i - Len(s) \in 1 .. Len(p)
        BY <1>1, <1>4, <1>6, <2>2
    <3>2. Append(u, t)[i] = u[i] /\ u[i] = p[i - Len(s)]
        BY <1>3, <1>5, <1>6, <2>2
    <3> QED
        BY <1>2, <3>1, <3>2
  <2>3. CASE i = Len(s) + Len(p) + 1
    <3>1. (s \o q)[i] = q[i - Len(s)] /\ i - Len(s) = Len(p) + 1
        BY <1>1, <1>4, <1>6, <2>3
    <3>2. Append(u, t)[i] = t
        BY <1>3, <1>5, <1>6, <2>3
    <3> QED
        BY <1>2, <3>1, <3>2
  <2>4. Len(s \o q) = Len(s) + Len(p) + 1
      BY <1>1, <1>4, <1>6
  <2>5. i \in Nat /\ i <= Len(s) + Len(p) + 1
      BY <1>6, <2>4
  <2>6. \/ i <= Len(s)
        \/ i > Len(s) /\ i <= Len(s) + Len(p)
        \/ i = Len(s) + Len(p) + 1
    <3> SUFFICES ASSUME NEW x \in Nat, NEW y \in Nat, x = Len(s), y = Len(p)
                 PROVE  \/ i <= x
                        \/ i > x /\ i <= x + y
                        \/ i = x + y + 1
        BY <1>6
    <3>1. i \in Nat /\ i <= x + y + 1
        BY <2>5
    <3> QED
        BY <3>1
  <2> QED
      BY <2>1, <2>2, <2>3, <2>6
<1>8. Len(s \o q) = Len(Append(u, t))
    BY <1>1, <1>3, <1>4, <1>5, <1>6
<1>9. s \o q = Append(u, t)
    BY <1>4, <1>5, <1>7, <1>8, SeqEqual
<1> QED
    BY <1>9 DEF q, u

(* A token is said, and kept for the client after all it was told.         *)
LEMMA TokenTold ==
    ASSUME NEW k \in ClientType, NEW m \in ClientType, NEW n \in Messages, NEW i \in 0 .. Length,
           said \in Seq(Notices), asked \in Nat, asked' \in Nat, asked <= asked',
           said' = Append(said, Token(n, i)), Live' = Live \cup {n},
           n \in Live \/ ~(n <= asked), Live \subseteq Nat,
           m.shown = k.shown, m.pending = Append(k.pending, Token(n, i)), m.tick = TRUE,
           m.since = k.since, Told(k)
    PROVE  Told(m)'
<1> DEFINE t == Token(n, i)
           a == All(k)
           b == All(m)
<1>1. t \in Notices /\ IsToken(t) /\ t.kind # "done" /\ t.of = n
    BY TokenType DEF Token, IsToken
<1>2. /\ a \in Seq(Notices) /\ k.shown \in Seq(Notices) /\ k.pending \in Seq(Notices)
      /\ k.since \in Nat
    BY AllType
<1>3. b = k.shown \o Append(k.pending, t) /\ m.pending = Append(k.pending, t)
    BY DEF All
<1>4. said' = Append(said, t)
    OBVIOUS
<1> HIDE DEF t
<1>5. b = Append(a, t)
    BY <1>1, <1>2, <1>3, KeptAppended DEF All
<1> HIDE DEF a, b
<1>6. /\ Len(a) \in Nat /\ Len(b) = Len(a) + 1 /\ DOMAIN b = 1 .. Len(b) /\ DOMAIN a = 1 .. Len(a)
      /\ b[Len(a) + 1] = t /\ \A j \in DOMAIN a : b[j] = a[j]
    BY <1>1, <1>2, <1>5
<1>7. /\ Len(said) \in Nat /\ Len(said') = Len(said) + 1 /\ said'[Len(said) + 1] = t
      /\ \A j \in 1 .. Len(said) : said'[j] = said[j]
    BY <1>1, <1>4
<1>8. /\ TokensTo(b, Len(b)) = TokensTo(a, Len(a)) + 1
      /\ \A j \in DOMAIN a : TokensTo(b, j) = TokensTo(a, j)
    BY <1>1, <1>2, <1>5, <1>6, CountAppended
<1>9. /\ TokensTo(a, Len(a)) \in Nat
      /\ \A j \in DOMAIN a : /\ TokensTo(a, j) \in Nat
                             /\ TokensTo(a, j) <= TokensTo(a, Len(a))
                             /\ IsToken(a[j]) => TokensTo(a, j) >= 1
    BY <1>2, CountBounds
<1>10. /\ \A j \in DOMAIN a : IsToken(a[j]) => a[j] = said[k.since + TokensTo(a, j)]
       /\ k.since + TokensTo(a, Len(a)) = Len(said)
       /\ \A j \in DOMAIN k.pending : IsToken(k.pending[j]) /\ k.tick
    BY DEF Told, TokensExact, a
<1>11. TokensExact(m)'
  <2>1. ASSUME NEW j \in DOMAIN b, IsToken(b[j])
        PROVE  b[j] = said'[k.since + TokensTo(b, j)]
    <3>1. CASE j = Len(a) + 1
      <4>1. TokensTo(b, j) = TokensTo(a, Len(a)) + 1
          BY <1>6, <1>8, <3>1
      <4>2. k.since + TokensTo(b, j) = Len(said) + 1
          BY <1>2, <1>9, <1>10, <4>1
      <4> QED
          BY <1>6, <1>7, <3>1, <4>2
    <3>2. CASE j # Len(a) + 1
      <4>1. j \in DOMAIN a
          BY <1>6, <3>2
      <4>2. a[j] = said[k.since + TokensTo(a, j)]
          BY <1>6, <1>10, <2>1, <4>1
      <4>3. /\ TokensTo(a, j) \in Nat /\ TokensTo(a, j) >= 1
            /\ TokensTo(a, j) <= TokensTo(a, Len(a))
          BY <1>6, <1>9, <2>1, <4>1
      <4>4. k.since + TokensTo(a, j) \in 1 .. Len(said)
          BY <1>2, <1>7, <1>9, <1>10, <4>3
      <4> QED
          BY <1>6, <1>7, <1>8, <4>1, <4>2, <4>4
    <3> QED
        BY <3>1, <3>2
  <2>2. k.since + TokensTo(b, Len(b)) = Len(said')
      BY <1>2, <1>7, <1>8, <1>9, <1>10
  <2>3. ASSUME NEW j \in DOMAIN m.pending
        PROVE  IsToken(m.pending[j]) /\ m.tick
      BY <1>1, <1>2, <1>3, <1>10
  <2> QED
      BY <2>1, <2>2, <2>3 DEF TokensExact, b
<1>12. \A j \in DOMAIN a : a[j].kind = "done" => a[j].of <= asked /\ a[j].of \notin Live
    BY DEF Told, DoneEnded, a
<1>13. \A j \in DOMAIN a : a[j].of \in Nat
    BY <1>2, NoticesNumbered
<1>14. \A j \in DOMAIN a : a[j].kind = "done" => a[j].of # n
    BY <1>12
<1>15. DoneEnded(m)'
  <2> SUFFICES ASSUME NEW j \in DOMAIN b, b[j].kind = "done"
               PROVE  b[j].of <= asked' /\ b[j].of \notin Live'
      BY DEF DoneEnded, b
  <2>1. j \in DOMAIN a /\ b[j] = a[j]
      BY <1>1, <1>6
  <2> QED
      BY <1>12, <1>13, <1>14, <2>1
<1>16. DoneComesLast(m)'
  <2>1. \A x, y \in DOMAIN a : a[x].kind = "done" /\ a[y].of = a[x].of /\ x # y => y < x
      BY DEF Told, DoneComesLast, a
  <2> SUFFICES ASSUME NEW x \in DOMAIN b, NEW y \in DOMAIN b, b[x].kind = "done",
                      b[y].of = b[x].of, x # y
               PROVE  y < x
      BY DEF DoneComesLast, b
  <2>2. x \in DOMAIN a /\ b[x] = a[x]
      BY <1>1, <1>6
  <2>3. y \in DOMAIN a
      BY <1>1, <1>6, <1>14, <2>2
  <2> QED
      BY <1>6, <2>1, <2>2, <2>3
<1> QED
    BY <1>11, <1>15, <1>16 DEF Told

(* A reply is over: what was kept is sent before it is told.               *)
LEMMA DoneTold ==
    ASSUME NEW k \in ClientType, NEW m \in ClientType, NEW n \in Messages,
           said \in Seq(Notices), said' = said, asked' = asked,
           n \in Live, n <= asked, Live' = Live \ {n},
           m.shown = Append(k.shown \o k.pending, DoneOf(n)), m.pending = <<>>,
           m.since = k.since, Told(k)
    PROVE  Told(m)'
<1> DEFINE d == DoneOf(n)
           a == All(k)
           b == All(m)
<1>1. d \in Notices /\ ~IsToken(d) /\ d.kind = "done" /\ d.of = n
    BY DoneType DEF DoneOf, IsToken
<1>2. /\ a \in Seq(Notices) /\ k.since \in Nat /\ m.shown \in Seq(Notices)
    BY AllType
<1>3. m.shown = Append(a, d)
    BY DEF All
<1> HIDE DEF d, a
<1>4. b = Append(a, d)
    BY <1>2, <1>3 DEF All
<1> HIDE DEF b
<1>5. /\ Len(a) \in Nat /\ Len(b) = Len(a) + 1 /\ DOMAIN b = 1 .. Len(b) /\ DOMAIN a = 1 .. Len(a)
      /\ b[Len(a) + 1] = d /\ \A j \in DOMAIN a : b[j] = a[j]
    BY <1>1, <1>2, <1>4
<1>6. /\ TokensTo(b, Len(b)) = TokensTo(a, Len(a)) + 0
      /\ \A j \in DOMAIN a : TokensTo(b, j) = TokensTo(a, j)
    BY <1>1, <1>2, <1>4, <1>5, CountAppended
<1>7. TokensTo(a, Len(a)) \in Nat
    BY <1>2, CountBounds
<1>8. /\ \A j \in DOMAIN a : IsToken(a[j]) => a[j] = said[k.since + TokensTo(a, j)]
      /\ k.since + TokensTo(a, Len(a)) = Len(said)
    BY DEF Told, TokensExact, a
<1>9. TokensExact(m)'
  <2>1. ASSUME NEW j \in DOMAIN b, IsToken(b[j])
        PROVE  b[j] = said[k.since + TokensTo(b, j)]
    <3>1. j \in DOMAIN a
        BY <1>1, <1>5, <2>1
    <3> QED
        BY <1>5, <1>6, <1>8, <2>1, <3>1
  <2>2. k.since + TokensTo(b, Len(b)) = Len(said)
      BY <1>6, <1>7, <1>8
  <2>3. DOMAIN m.pending = {}
      OBVIOUS
  <2> QED
      BY <2>1, <2>2, <2>3 DEF TokensExact, b
<1>10. \A j \in DOMAIN a : a[j].kind = "done" => a[j].of <= asked /\ a[j].of \notin Live
    BY DEF Told, DoneEnded, a
<1>11. DoneEnded(m)'
  <2> SUFFICES ASSUME NEW j \in DOMAIN b, b[j].kind = "done"
               PROVE  b[j].of <= asked /\ b[j].of \notin Live'
      BY DEF DoneEnded, b
  <2> QED
      BY <1>1, <1>5, <1>10
<1>12. DoneComesLast(m)'
  <2>1. \A x, y \in DOMAIN a : a[x].kind = "done" /\ a[y].of = a[x].of /\ x # y => y < x
      BY DEF Told, DoneComesLast, a
  <2> SUFFICES ASSUME NEW x \in DOMAIN b, NEW y \in DOMAIN b, b[x].kind = "done",
                      b[y].of = b[x].of, x # y
               PROVE  y < x
      BY DEF DoneComesLast, b
  <2>2. CASE x = Len(a) + 1
      BY <1>5, <2>2
  <2>3. CASE x # Len(a) + 1
    <3>1. x \in DOMAIN a /\ b[x] = a[x] /\ a[x].of # n
        BY <1>5, <1>10, <2>3
    <3>2. y \in DOMAIN a
        BY <1>1, <1>5, <3>1
    <3> QED
        BY <1>5, <2>1, <3>1, <3>2
  <2> QED
      BY <2>2, <2>3
<1> QED
    BY <1>9, <1>11, <1>12 DEF Told

(* What is kept is sent, or nothing happens to the client.                 *)
LEMMA SameTold ==
    ASSUME NEW k \in ClientType, NEW m \in ClientType,
           said' = said, asked \in Nat, asked' \in Nat, asked <= asked', Live' \subseteq Live,
           \/ m.shown = k.shown /\ m.pending = k.pending /\ m.tick = k.tick
           \/ m.shown = k.shown \o k.pending /\ m.pending = <<>>,
           m.since = k.since, Told(k)
    PROVE  Told(m)'
<1>1. All(m) = All(k) /\ All(k) \in Seq(Notices)
  <2>1. k.shown \in Seq(Notices) /\ k.pending \in Seq(Notices) /\ m.shown \in Seq(Notices)
      BY AllType
  <2>2. m.shown \o <<>> = m.shown
      BY <2>1, ConcatEmptySeq
  <2> QED
      BY <2>1, <2>2, AllType DEF All
<1>2. \A j \in DOMAIN m.pending : IsToken(m.pending[j]) /\ m.tick
  <2>1. CASE m.pending = k.pending /\ m.tick = k.tick
      BY <2>1 DEF Told, TokensExact
  <2>2. CASE m.pending = <<>>
      BY <2>2
  <2> QED
      BY <2>1, <2>2
<1>3. TokensExact(m)'
    BY <1>1, <1>2 DEF Told, TokensExact
<1>4. \A j \in DOMAIN All(k) : All(k)[j].of \in Nat
    BY <1>1, NoticesNumbered
<1>5. DoneEnded(m)'
    BY <1>1, <1>4 DEF Told, DoneEnded
<1>6. DoneComesLast(m)'
    BY <1>1 DEF Told, DoneComesLast
<1> QED
    BY <1>3, <1>5, <1>6 DEF Told
(* No message is asked before there is a session.  While the daemon is up, *)
(* the replies of its session stream on the runner in the map, and without *)
(* overlap there is at most one.                                           *)
RepliesInv ==
    /\ session = "none" => asked = 0
    /\ mode = "up" /\ session = "stored" => \A n \in Live : reply[n].runner = runner
    /\ mode = "up" /\ overlapped = {} => \A m, n \in Live : m = n

LEMMA SentLive ==
    ASSUME StreamInv, Send, session = "stored"
    PROVE  /\ asked + 1 \in Messages /\ asked \in Nat /\ asked' = asked + 1
           /\ Live' = Live \cup {asked + 1}
           /\ reply'[asked + 1].runner = EnsureRunner /\ runner' = EnsureRunner
           /\ \A k \in Live : reply'[k] = reply[k]
<1> DEFINE n == asked + 1
           new == [runner |-> EnsureRunner, sent |-> 1, on |-> TRUE]
<1>1. /\ asked < MaxMessages /\ asked' = n /\ runner' = EnsureRunner
      /\ reply' = [reply EXCEPT ![n] = new]
    BY DEF Send
<1>2. asked \in Nat /\ n \in Messages /\ DOMAIN reply = Messages
    BY <1>1, DaemonAssumption DEF StreamInv, TypeOfParts, Messages
<1>3. n \notin Live
    BY <1>2 DEF StreamInv, StreamsKnown
<1>4. reply'[n] = new /\ \A k \in Messages \ {n} : reply'[k] = reply[k]
    BY <1>1, <1>2
<1>5. new.on /\ new.runner = EnsureRunner
    OBVIOUS
<1> HIDE DEF n, new
<1>6. Live' = Live \cup {n}
    BY <1>2, <1>4, <1>5 DEF Live
<1>7. \A k \in Live : reply'[k] = reply[k]
    BY <1>3, <1>4 DEF Live
<1> QED
    BY <1>1, <1>2, <1>4, <1>5, <1>6, <1>7 DEF n

LEMMA RepliesNext ==
    ASSUME IInv, RepliesInv, [Next]_vars
    PROVE  RepliesInv'
<1>1. StreamInv
    BY DEF IInv
<1>2. reply \in [Messages -> [runner : Runners \cup {NoRunner}, sent : 0 .. Length, on : BOOLEAN]]
    BY <1>1 DEF StreamInv, TypeOfParts
<1>3. CASE CreateSession
  <2>1. /\ session = "none" /\ UNCHANGED <<mode, runner, reply, asked, overlapped>>
        /\ session' = "stored"
      BY <1>3 DEF CreateSession, history
  <2>2. asked = 0
      BY <2>1 DEF RepliesInv
  <2>3. Live = {} /\ Live' = {}
      BY <1>1, <2>1, <2>2 DEF StreamInv, StreamsKnown, Live, Messages
  <2> QED
      BY <2>1, <2>3 DEF RepliesInv
<1>4. CASE Send
  <2>1. CASE session = "stored"
    <3> DEFINE n == asked + 1
    <3>1. /\ UNCHANGED <<mode, session>>
          /\ overlapped' = IF LiveOn(EnsureRunner) = {} THEN overlapped
                           ELSE overlapped \cup LiveOn(EnsureRunner) \cup {n}
        BY <1>4, <2>1 DEF Send
    <3>2. /\ Live' = Live \cup {n} /\ reply'[n].runner = runner' /\ runner' = EnsureRunner
          /\ \A k \in Live : reply'[k] = reply[k]
        BY <1>1, <1>4, <2>1, SentLive
    <3> HIDE DEF n
    <3>3. ASSUME mode = "up" PROVE \A k \in Live : reply[k].runner = EnsureRunner
      <4> TAKE k \in Live
      <4>1. reply[k].runner = runner
          BY <2>1, <3>3 DEF RepliesInv
      <4>2. reply[k].runner \in 1 .. made /\ made \in 0 .. 3
          BY <1>1 DEF StreamInv, StreamsKnown, TypeOfParts, Runners
      <4>3. reply[k].runner # NoRunner
          BY <4>2 DEF NoRunner
      <4> QED
          BY <4>1, <4>3 DEF EnsureRunner
    <3>4. mode = "up" => \A k \in Live' : reply'[k].runner = runner'
        BY <3>2, <3>3
    <3>5. mode = "up" /\ overlapped' = {} => Live = {}
        BY <3>1, <3>3 DEF LiveOn
    <3> QED
        BY <2>1, <3>1, <3>2, <3>4, <3>5 DEF RepliesInv
  <2>2. CASE session # "stored"
    <3>1. UNCHANGED <<mode, session, reply, asked, overlapped>>
        BY <1>4, <2>2 DEF Send, history
    <3> QED
        BY <2>2, <3>1 DEF RepliesInv, Live
  <2> QED
      BY <2>1, <2>2
<1>5. ASSUME NEW n \in Messages, StreamToken(n)
      PROVE  RepliesInv'
  <2>1. /\ UNCHANGED <<mode, session, runner, asked, overlapped>>
        /\ reply' = [reply EXCEPT ![n].sent = @ + 1]
      BY <1>5 DEF StreamToken
  <2>2. \A k \in Messages : reply'[k].on = reply[k].on /\ reply'[k].runner = reply[k].runner
      BY <1>2, <2>1
  <2> QED
      BY <2>1, <2>2 DEF RepliesInv, Live
<1>6. ASSUME NEW n \in Messages, StreamEnds(n)
      PROVE  RepliesInv'
  <2>1. /\ UNCHANGED <<mode, session, runner, asked, overlapped>>
        /\ reply' = [reply EXCEPT ![n].on = FALSE]
      BY <1>6 DEF StreamEnds, history
  <2>2. /\ Live' = Live \ {n} /\ \A k \in Live' : reply'[k] = reply[k]
      BY <1>2, <2>1 DEF Live
  <2> QED
      BY <2>1, <2>2 DEF RepliesInv
<1>7. CASE DeleteSession \/ Close \/ ProcessEnds
    BY <1>7 DEF DeleteSession, Close, ProcessEnds, RepliesInv, Live
<1>8. CASE Start
  <2>1. /\ mode = "down" /\ UNCHANGED <<session, reply, asked, overlapped>>
      BY <1>8 DEF Start, history
  <2>2. Live = {} /\ Live' = {}
      BY <1>1, <2>1 DEF StreamInv, StreamsKnown, Live
  <2> QED
      BY <2>1, <2>2 DEF RepliesInv
<1>9. CASE UNCHANGED <<mode, session, runner, reply, asked, overlapped>>
    BY <1>9 DEF RepliesInv, Live
<1>10. ASSUME NEW c \in Clients, Attach(c) \/ Detach(c) \/ Tick(c) \/ Interrupt(c)
       PROVE  RepliesInv'
    BY <1>9, <1>10 DEF Attach, Detach, Tick, Interrupt, history
<1>11. CASE PostMessage \/ PostFails \/ UNCHANGED vars
    BY <1>9, <1>11 DEF PostMessage, PostFails, history, vars
<1> QED
    BY <1>3, <1>4, <1>5, <1>6, <1>7, <1>8, <1>10, <1>11
       DEF Next, PostBody, SendBySocket, StreamStep, Exit, Kill

-----------------------------------------------------------------------------
(* Only a daemon that is up has attached clients. *)
AttachedInv ==
    \A c \in Clients : client[c].socket = "attached" =>
        mode = "up" /\ Told(client[c]) /\ StateExact(client[c])

FollowInv == RepliesInv /\ AttachedInv

(* A step that tells a client nothing *)
LEMMA StillFollows ==
    ASSUME IInv, IInv', NEW c \in Clients, mode = "up", Told(client[c]), StateExact(client[c]),
           UNCHANGED <<mode, said, asked, overlapped>>, Live' = Live,
           client'[c] = client[c] \/ client'[c] = Flushed(client[c])
    PROVE  mode' = "up" /\ Told(client[c])' /\ StateExact(client[c])'
<1> SUFFICES ASSUME NEW k, k = client[c], NEW m, m = client'[c]
             PROVE  Told(m)' /\ StateExact(m)'
    OBVIOUS
<1>1. k \in ClientType /\ m \in ClientType /\ asked \in Nat
    BY DEF IInv, ClientsType, StreamInv, TypeOfParts
<1>2. /\ \/ m.shown = k.shown /\ m.pending = k.pending /\ m.tick = k.tick
         \/ m.shown = k.shown \o k.pending /\ m.pending = <<>>
      /\ m.since = k.since /\ m.state = k.state /\ m.midway = k.midway
    BY <1>1 DEF Flushed, ClientType
<1>3. Told(m)'
  <2>1. /\ said' = said /\ asked' \in Nat /\ asked <= asked' /\ Live' \subseteq Live
        /\ Told(k)
      BY <1>1
  <2> QED
      BY <1>1, <1>2, <2>1, SameTold
<1>4. StateExact(m)'
    BY <1>2 DEF StateExact
<1> QED
    BY <1>3, <1>4
LEMMA AttachedNext ==
    ASSUME IInv, IInv', FollowInv, RepliesInv', [Next]_vars
    PROVE  AttachedInv'
<1>1. /\ client \in [Clients -> ClientType] /\ client' \in [Clients -> ClientType]
      /\ said \in Seq(Notices) /\ asked \in Nat /\ asked' \in Nat /\ StreamInv
      /\ Live \subseteq Nat /\ \A n \in Live : n <= asked
    BY DEF IInv, ClientsType, StreamInv, TypeOfParts, StreamsKnown, Live, Messages
<1>2. \A c \in Clients : client[c].socket = "attached" =>
          mode = "up" /\ Told(client[c]) /\ StateExact(client[c])
    BY DEF FollowInv, AttachedInv
<1>3. ASSUME Send
      PROVE  AttachedInv'
  <2>1. CASE session = "stored"
    <3> DEFINE n == asked + 1
               t == Token(n, 1)
               new(c) == WithToken(WithState(client[c], "running"), t)
    <3>1. /\ client' = ToAttached([c \in Clients |-> new(c)])
          /\ said' = Append(said, t) /\ mode' = mode
        BY <1>3, <2>1 DEF Send
    <3>2. n \in Messages /\ asked' = n /\ Live' = Live \cup {n} /\ n \notin Live /\ ~(n <= asked)
        BY <1>1, <1>3, <2>1, SentLive
    <3>3. 1 \in 0 .. Length
        BY DaemonAssumption
    <3>4. ASSUME NEW c \in Clients, client'[c].socket = "attached"
          PROVE  mode' = "up" /\ Told(client[c])' /\ StateExact(client[c])'
      <4>1. client[c] \in ClientType
          BY <1>1
      <4>2. client[c].socket = "attached" /\ client'[c] = new(c)
          BY <3>1, <3>4 DEF ToAttached
      <4> SUFFICES ASSUME NEW k, k = client[c], NEW m, m = client'[c]
                   PROVE  mode = "up" /\ Told(m)' /\ StateExact(m)'
          BY <3>1
      <4>3. k \in ClientType /\ m \in ClientType /\ mode = "up" /\ Told(k)
          BY <1>1, <1>2, <4>2
      <4>4. /\ m.shown = k.shown /\ m.pending = Append(k.pending, t) /\ m.tick = TRUE
            /\ m.since = k.since /\ m.state = "running"
          BY <4>2, <4>3 DEF WithToken, WithState, ClientType
      <4> HIDE DEF n, new
      <4>5. said' = Append(said, Token(n, 1)) /\ m.pending = Append(k.pending, Token(n, 1))
          BY <3>1, <4>4
      <4>6. asked <= asked'
          BY <1>1, <3>2 DEF n
      <4>7. Told(m)'
          BY <1>1, <3>2, <3>3, <4>3, <4>4, <4>5, <4>6, TokenTold
      <4>8. StateExact(m)'
          BY <3>2, <4>4 DEF StateExact
      <4> QED
          BY <4>3, <4>7, <4>8
    <3> QED
        BY <3>4 DEF AttachedInv
  <2>2. CASE session # "stored"
    <3>1. UNCHANGED <<mode, reply, asked, client, said, overlapped>>
        BY <1>3, <2>2 DEF Send, history
    <3>2. Live' = Live
        BY <3>1 DEF Live
    <3> QED
        BY <1>2, <3>1, <3>2, StillFollows DEF AttachedInv
  <2> QED
      BY <2>1, <2>2
<1>4. ASSUME NEW n \in Messages, StreamToken(n)
      PROVE  AttachedInv'
  <2> DEFINE i == reply[n].sent + 1
             t == Token(n, i)
             new(c) == WithToken(client[c], t)
  <2>1. /\ n \in Live /\ reply[n].sent < Length /\ reply' = [reply EXCEPT ![n].sent = @ + 1]
        /\ client' = ToAttached([c \in Clients |-> new(c)])
        /\ said' = Append(said, t) /\ UNCHANGED <<mode, asked, overlapped>>
      BY <1>4 DEF StreamToken
  <2>2. i \in 0 .. Length
      BY <1>1, <2>1, DaemonAssumption DEF StreamInv, TypeOfParts
  <2>3. Live' = Live
      BY <1>1, <2>1 DEF Live, StreamInv, TypeOfParts
  <2>4. ASSUME NEW c \in Clients, client'[c].socket = "attached"
        PROVE  mode' = "up" /\ Told(client[c])' /\ StateExact(client[c])'
    <3>1. client[c] \in ClientType
        BY <1>1
    <3>2. client[c].socket = "attached" /\ client'[c] = new(c)
        BY <2>1, <2>4 DEF ToAttached
    <3> SUFFICES ASSUME NEW k, k = client[c], NEW m, m = client'[c]
                 PROVE  mode = "up" /\ Told(m)' /\ StateExact(m)'
        BY <2>1
    <3>3. k \in ClientType /\ m \in ClientType /\ mode = "up" /\ Told(k) /\ StateExact(k)
        BY <1>1, <1>2, <3>2
    <3>4. /\ m.shown = k.shown /\ m.pending = Append(k.pending, t) /\ m.tick = TRUE
          /\ m.since = k.since /\ m.state = k.state /\ m.midway = k.midway
        BY <3>2, <3>3 DEF WithToken, ClientType
    <3> HIDE DEF i, new
    <3>5. said' = Append(said, Token(n, i)) /\ m.pending = Append(k.pending, Token(n, i))
        BY <2>1, <3>4
    <3>6. Live' = Live \cup {n} /\ asked <= asked'
        BY <1>1, <2>1, <2>3
    <3>7. Told(m)'
        BY <1>1, <2>1, <2>2, <3>3, <3>4, <3>5, <3>6, TokenTold
    <3>8. StateExact(m)'
        BY <2>1, <2>3, <3>3, <3>4 DEF StateExact
    <3> QED
        BY <3>3, <3>7, <3>8
  <2> QED
      BY <2>4 DEF AttachedInv
<1>5. ASSUME NEW n \in Messages, StreamEnds(n)
      PROVE  AttachedInv'
  <2> DEFINE new(c, s) == WithDone(client[c], s, n)
  <2>1. /\ n \in Live /\ reply' = [reply EXCEPT ![n].on = FALSE]
        /\ \E s \in {"idle", "error"} : client' = ToAttached([c \in Clients |-> new(c, s)])
        /\ UNCHANGED <<mode, asked, said, overlapped>>
      BY <1>5 DEF StreamEnds, history
  <2>2. PICK s \in {"idle", "error"} : client' = ToAttached([c \in Clients |-> new(c, s)])
      BY <2>1
  <2>3. Live' = Live \ {n} /\ n <= asked
      BY <1>1, <2>1 DEF Live, StreamInv, TypeOfParts
  <2>4. ASSUME NEW c \in Clients, client'[c].socket = "attached"
        PROVE  mode' = "up" /\ Told(client[c])' /\ StateExact(client[c])'
    <3>1. client[c].socket = "attached" /\ client'[c] = new(c, s)
        BY <2>2, <2>4 DEF ToAttached
    <3> SUFFICES ASSUME NEW k, k = client[c], NEW m, m = client'[c]
                 PROVE  mode = "up" /\ Told(m)' /\ StateExact(m)'
        BY <2>1
    <3>2. k \in ClientType /\ m \in ClientType /\ mode = "up" /\ Told(k)
        BY <1>1, <1>2, <3>1
    <3>3. /\ m.shown = Append(k.shown \o k.pending, DoneOf(n)) /\ m.pending = <<>>
          /\ m.since = k.since /\ m.state = s
        BY <3>1, <3>2 DEF WithDone, Flushed, WithState, ClientType
    <3> HIDE DEF new
    <3>4. Told(m)'
        BY <1>1, <2>1, <2>3, <3>2, <3>3, DoneTold
    <3>5. overlapped' = {} => Live' = {}
        BY <2>1, <2>3, <3>2 DEF FollowInv, RepliesInv
    <3>6. StateExact(m)'
        BY <2>2, <3>3, <3>5 DEF StateExact
    <3> QED
        BY <3>2, <3>4, <3>6
  <2> QED
      BY <2>4 DEF AttachedInv
<1>6. ASSUME NEW c \in Clients, Attach(c)
      PROVE  AttachedInv'
  <2> DEFINE new == [Away EXCEPT !.socket = "attached", !.state = "idle",
                                 !.since = Len(said), !.midway = Live # {}]
  <2>1. /\ mode = "up" /\ client' = [client EXCEPT ![c] = new]
        /\ UNCHANGED <<mode, reply, asked, said, overlapped>>
      BY <1>6 DEF Attach, history
  <2>2. Live' = Live
      BY <2>1 DEF Live
  <2>3. ASSUME NEW d \in Clients, client'[d].socket = "attached", d # c
        PROVE  mode' = "up" /\ Told(client[d])' /\ StateExact(client[d])'
    <3>1. client'[d] = client[d]
        BY <1>1, <2>1, <2>3
    <3> QED
        BY <1>2, <2>1, <2>2, <2>3, <3>1, StillFollows
  <2>4. Told(client[c])' /\ StateExact(client[c])'
    <3> SUFFICES ASSUME NEW m, m = client'[c]
                 PROVE  Told(m)' /\ StateExact(m)'
        OBVIOUS
    <3>1. /\ m.shown = <<>> /\ m.pending = <<>> /\ m.since = Len(said) /\ m.state = "idle"
          /\ m.midway = (Live # {})
        BY <1>1, <2>1 DEF Away
    <3>2. All(m) = <<>> /\ DOMAIN All(m) = {} /\ DOMAIN m.pending = {} /\ Len(All(m)) = 0
        BY <3>1 DEF All
    <3>3. TokensTo(All(m), 0) = 0
      <4>1. {j \in 1 .. 0 : IsToken(All(m)[j])} = {}
          OBVIOUS
      <4> QED
          BY <4>1, FS_EmptySet DEF TokensTo
    <3>4. Len(said) \in Nat
        BY <1>1
    <3>5. TokensExact(m)'
      <4>1. m.since + TokensTo(All(m), Len(All(m))) = Len(said')
          BY <2>1, <3>1, <3>2, <3>3, <3>4
      <4> QED
          BY <3>2, <4>1 DEF TokensExact
    <3>6. DoneComesLast(m)' /\ DoneEnded(m)'
        BY <3>2 DEF DoneComesLast, DoneEnded
    <3>7. StateExact(m)'
        BY <2>2, <3>1 DEF StateExact
    <3> QED
        BY <3>5, <3>6, <3>7 DEF Told
  <2> QED
      BY <2>1, <2>3, <2>4 DEF AttachedInv
<1>7. ASSUME NEW c \in Clients, Detach(c)
      PROVE  AttachedInv'
  <2>1. /\ client' = [client EXCEPT ![c] = Away]
        /\ UNCHANGED <<mode, reply, asked, said, overlapped>>
      BY <1>7 DEF Detach, history
  <2>2. Live' = Live
      BY <2>1 DEF Live
  <2>3. Away.socket = "away"
      BY DEF Away
  <2>4. \A d \in Clients : client'[d].socket = "attached" => client'[d] = client[d]
      BY <1>1, <2>1, <2>3
  <2> QED
      BY <1>2, <2>1, <2>2, <2>4, StillFollows DEF AttachedInv
<1>8. ASSUME NEW c \in Clients, Tick(c)
      PROVE  AttachedInv'
  <2>1. /\ client' = [client EXCEPT ![c] = Flushed(client[c])] /\ client[c].socket = "attached"
        /\ UNCHANGED <<mode, reply, asked, said, overlapped>>
      BY <1>8 DEF Tick, history
  <2>2. Live' = Live
      BY <2>1 DEF Live
  <2>3. \A d \in Clients :
            client'[d] = client[d] \/ (client'[d] = Flushed(client[d]) /\ d = c)
      BY <1>1, <2>1
  <2>4. \A d \in Clients : client'[d].socket = "attached" => client[d].socket = "attached"
      BY <2>1, <2>3
  <2> QED
      BY <1>2, <2>1, <2>2, <2>3, <2>4, StillFollows DEF AttachedInv
<1>9. CASE Close
  <2>1. \A c \in Clients : client'[c].socket # "attached"
    <3> TAKE c \in Clients
    <3>1. client'[c] = IF client[c].socket = "away" THEN Away
                       ELSE [client[c] EXCEPT !.socket = "closing"]
        BY <1>9 DEF Close
    <3>2. [client[c] EXCEPT !.socket = "closing"].socket = "closing" /\ Away.socket = "away"
        BY <1>1 DEF ClientType, Away
    <3> QED
        BY <3>1, <3>2
  <2> QED
      BY <2>1 DEF AttachedInv
<1>10. CASE ProcessEnds
    BY <1>10 DEF ProcessEnds, AttachedInv, Away
<1>11. CASE Start
  <2>1. mode = "down" /\ client' = client
      BY <1>11 DEF Start
  <2> QED
      BY <1>2, <2>1 DEF AttachedInv
<1>12. ASSUME UNCHANGED <<mode, reply, asked, client, said, overlapped>>
       PROVE  AttachedInv'
  <2>1. Live' = Live
      BY <1>12 DEF Live
  <2> QED
      BY <1>2, <1>12, <2>1, StillFollows DEF AttachedInv
<1>13. CASE CreateSession \/ DeleteSession \/ PostMessage \/ PostFails \/ UNCHANGED vars
    BY <1>12, <1>13 DEF CreateSession, DeleteSession, PostMessage, PostFails, history, vars
<1>14. ASSUME NEW c \in Clients, Interrupt(c)
       PROVE  AttachedInv'
    BY <1>12, <1>14 DEF Interrupt
<1> QED
    BY <1>3, <1>4, <1>5, <1>6, <1>7, <1>8, <1>9, <1>10, <1>11, <1>13, <1>14
       DEF Next, PostBody, SendBySocket, StreamStep, Exit, Kill

(* What a client that is attached was shown, with what is kept for its     *)
(* tick, is all that was said since it attached; each reply's done is the  *)
(* last it hears of it, and its state is the session's: whichever clients, *)
(* requests, ticks, deletes, stops and kills come between.                 *)
THEOREM ClientsSeeAll == Spec => []ClientsFollow
<1>1. Init => FollowInv
  <2> SUFFICES ASSUME Init PROVE FollowInv
      OBVIOUS
  <2>1. Live = {} /\ \A c \in Clients : client[c].socket = "away"
      BY DEF Init, Live, Away
  <2> QED
      BY <2>1 DEF Init, FollowInv, RepliesInv, AttachedInv
<1>2. IInv /\ FollowInv /\ [Next]_vars => FollowInv'
    BY NextIInv, RepliesNext, AttachedNext DEF FollowInv
<1>3. FollowInv => ClientsFollow
    BY DEF FollowInv, AttachedInv, Told, ClientsFollow
<1> QED
    BY InitIInv, NextIInv, <1>1, <1>2, <1>3, PTL DEF Spec
=============================================================================

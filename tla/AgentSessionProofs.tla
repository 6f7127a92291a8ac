------------------------- MODULE AgentSessionProofs -------------------------
(***************************************************************************)
(* For any callers, bounds and number of attempts: the session keeps its   *)
(* type; what it heard is saved once and in order; what it lists as queued *)
(* is what the agent has queued; who waits for a retry waits for something *)
(* that is going on; by itself the session comes to rest, and then its     *)
(* transcript and its file show the model the same.                        *)
(*                                                                         *)
(* TypeInv says, beyond types, where each actor may be, that a compaction  *)
(* keeps from an entry of the branch on, and that only a reply worth a     *)
(* retry is slept on.  The other invariants are about the queue of events: *)
(* whatever sits in it is announced and not yet handled, so each property  *)
(* holds only together with what the queue has still to bring.  Coming to  *)
(* rest is shown by a count of what is yet to be done, step by step.       *)
(*                                                                         *)
(* Keep is a recursive function; what is said of it is shown by induction  *)
(* on the length, from the well-foundedness of the natural numbers.        *)
(***************************************************************************)
EXTENDS AgentSession, FiniteSetTheorems, SequenceTheorems, TLAPS

-----------------------------------------------------------------------------
(* Induction over the natural numbers, from their being well founded *)

LEMMA NatMin ==
    ASSUME NEW T \in SUBSET Nat, T # {}
    PROVE  \E m \in T : \A n \in T : m <= n
<1> DEFINE R == OpToRel(<, Nat)
<1>1. IsWellFoundedOn(R, Nat)
    BY NatLessThanWellFounded
<1>2. \A x, y \in Nat : <<x, y>> \in R <=> x < y
    BY DEF OpToRel
<1> HIDE DEF R
<1>3. T \subseteq Nat
    OBVIOUS
<1>4. \E m \in T : \A n \in T : ~(<<n, m>> \in R)
    BY <1>1, <1>3, WFMin, Zenon
<1>5. PICK m \in T : \A n \in T : ~(<<n, m>> \in R)
    BY <1>4
<1>6. \A n \in T : ~(n < m)
    BY <1>2, <1>3, <1>5, Zenon
<1>7. QED
    BY <1>3, <1>6

LEMMA Induct ==
    ASSUME NEW T, 0 \in T, \A n \in Nat : n \in T => n + 1 \in T
    PROVE  Nat \subseteq T
<1> DEFINE B == Nat \ T
<1> SUFFICES ASSUME B # {} PROVE FALSE
    OBVIOUS
<1>1. PICK m \in B : \A n \in B : m <= n
    BY NatMin
<1>2. m # 0 /\ m - 1 \in Nat /\ m - 1 \notin B
    BY <1>1
<1>3. QED
    BY <1>2

LEMMA SeqInduct ==
    ASSUME NEW X, NEW T, <<>> \in T,
           \A s \in Seq(X), e \in X : s \in T => Append(s, e) \in T
    PROVE  Seq(X) \subseteq T
<1> DEFINE G == {n \in Nat : \A s \in Seq(X) : Len(s) = n => s \in T}
<1>1. 0 \in G
    BY EmptySeq
<1>2. ASSUME NEW n \in Nat, n \in G PROVE n + 1 \in G
  <2> SUFFICES ASSUME NEW s \in Seq(X), Len(s) = n + 1 PROVE s \in T
      OBVIOUS
  <2>1. s # <<>>
      BY EmptySeq
  <2>2. PICK t \in Seq(X), e \in X : s = Append(t, e)
      BY <2>1, SequenceEmptyOrAppend
  <2>3. Len(t) = n
      BY <2>2, AppendProperties, LenProperties
  <2>4. QED
      BY <2>2, <2>3, <1>2
<1> HIDE DEF G
<1>3. Nat \subseteq G
    BY <1>1, <1>2, Induct
<1>4. QED
    BY <1>3, LenProperties DEF G

-----------------------------------------------------------------------------
(* Keep *)

(* What the recursion computes after i elements of s *)
Keeps(kept, s, S, n) ==
    \A i \in 0 .. n :
        kept[i] = IF i = 0 THEN <<>>
                  ELSE IF s[i] \in S THEN Append(kept[i - 1], s[i]) ELSE kept[i - 1]

LEMMA KeptExists ==
    ASSUME NEW s, NEW S
    PROVE  \A n \in Nat : \E kept : DOMAIN kept = 0 .. n /\ kept = [i \in 0 .. n |-> kept[i]]
                                    /\ Keeps(kept, s, S, n)
<1> DEFINE Made(n) == \E kept : DOMAIN kept = 0 .. n /\ kept = [i \in 0 .. n |-> kept[i]]
                                    /\ Keeps(kept, s, S, n)
           T == {n \in Nat : Made(n)}
<1>1. 0 \in T
  <2> DEFINE k == [i \in 0 .. 0 |-> <<>>]
  <2>1. DOMAIN k = 0 .. 0 /\ k = [i \in 0 .. 0 |-> k[i]] /\ Keeps(k, s, S, 0)
      BY DEF Keeps
  <2>2. QED
      BY <2>1
<1>2. ASSUME NEW n \in Nat, n \in T PROVE n + 1 \in T
  <2>1. PICK k : DOMAIN k = 0 .. n /\ k = [i \in 0 .. n |-> k[i]] /\ Keeps(k, s, S, n)
      BY <1>2
  <2> DEFINE new == IF s[n + 1] \in S THEN Append(k[n], s[n + 1]) ELSE k[n]
             h == [i \in 0 .. n + 1 |-> IF i = n + 1 THEN new ELSE k[i]]
  <2>2. ASSUME NEW i \in 0 .. n + 1
        PROVE  h[i] = IF i = 0 THEN <<>>
                      ELSE IF s[i] \in S THEN Append(h[i - 1], s[i]) ELSE h[i - 1]
    <3>1. CASE i = n + 1
      <4>1. h[i] = new /\ i # 0 /\ h[i - 1] = k[n]
          BY <3>1
      <4>2. QED
          BY <4>1, <3>1
    <3>2. CASE i # n + 1
      <4>1. i \in 0 .. n /\ h[i] = k[i] /\ (i # 0 => h[i - 1] = k[i - 1])
          BY <3>2
      <4>2. QED
          BY <4>1, <2>1 DEF Keeps
    <3>3. QED
        BY <3>1, <3>2
  <2>3. DOMAIN h = 0 .. n + 1 /\ h = [i \in 0 .. n + 1 |-> h[i]]
      OBVIOUS
  <2> HIDE DEF h
  <2>4. Keeps(h, s, S, n + 1)
      BY <2>2 DEF Keeps
  <2>5. Made(n + 1)
      BY <2>3, <2>4
  <2>6. QED
      BY <2>5
<1> HIDE DEF T
<1>3. Nat \subseteq T
    BY <1>1, <1>2, Induct
<1>4. QED
    BY <1>3 DEF T

LEMMA KeepKeeps ==
    ASSUME NEW X, NEW s \in Seq(X), NEW S
    PROVE  \E kept : Keeps(kept, s, S, Len(s)) /\ Keep(s, S) = kept[Len(s)]
<1> DEFINE kept == CHOOSE f : f = [i \in 0 .. Len(s) |->
                        IF i = 0 THEN <<>>
                        ELSE IF s[i] \in S THEN Append(f[i - 1], s[i]) ELSE f[i - 1]]
<1> Len(s) \in Nat
    BY LenProperties
<1>1. PICK f : DOMAIN f = 0 .. Len(s) /\ f = [i \in 0 .. Len(s) |-> f[i]] /\ Keeps(f, s, S, Len(s))
    BY KeptExists, Zenon
<1>2. f = [i \in 0 .. Len(s) |->
              IF i = 0 THEN <<>>
              ELSE IF s[i] \in S THEN Append(f[i - 1], s[i]) ELSE f[i - 1]]
    BY <1>1 DEF Keeps
<1>3. kept = [i \in 0 .. Len(s) |->
              IF i = 0 THEN <<>>
              ELSE IF s[i] \in S THEN Append(kept[i - 1], s[i]) ELSE kept[i - 1]]
    BY <1>2
<1>4. Keep(s, S) = kept[Len(s)]
    BY DEF Keep
<1> HIDE DEF kept
<1>5. Keeps(kept, s, S, Len(s))
  <2> DEFINE body(i) == IF i = 0 THEN <<>>
              ELSE IF s[i] \in S THEN Append(kept[i - 1], s[i]) ELSE kept[i - 1]
  <2>1. kept = [i \in 0 .. Len(s) |-> body(i)]
      BY <1>3
  <2> HIDE DEF body
  <2>2. \A i \in 0 .. Len(s) : kept[i] = body(i)
      BY <2>1
  <2>3. QED
      BY <2>2 DEF Keeps, body
<1>6. QED
    BY <1>4, <1>5

LEMMA KeepEmpty == ASSUME NEW S PROVE Keep(<<>>, S) = <<>>
<1>1. <<>> \in Seq({}) /\ Len(<<>>) = 0
    BY EmptySeq
<1>2. PICK k : Keeps(k, <<>>, S, Len(<<>>)) /\ Keep(<<>>, S) = k[Len(<<>>)]
    BY <1>1, KeepKeeps, Zenon
<1>3. QED
    BY <1>1, <1>2 DEF Keeps

LEMMA KeepAppend ==
    ASSUME NEW X, NEW s \in Seq(X), NEW e \in X, NEW S
    PROVE  Keep(Append(s, e), S) = IF e \in S THEN Append(Keep(s, S), e) ELSE Keep(s, S)
<1> DEFINE t == Append(s, e)
           n == Len(s)
<1>1. t \in Seq(X) /\ Len(t) = n + 1 /\ t[n + 1] = e /\ \A i \in 1 .. n : t[i] = s[i]
    BY AppendProperties
<1>2. n \in Nat
    BY LenProperties
<1>3. PICK k : Keeps(k, s, S, n) /\ Keep(s, S) = k[n]
    BY KeepKeeps
<1>4. PICK l : Keeps(l, t, S, n + 1) /\ Keep(t, S) = l[n + 1]
    BY KeepKeeps, <1>1
<1> HIDE DEF t, n
<1> DEFINE T == {i \in Nat : i <= n => l[i] = k[i]}
<1>5. 0 \in T
    BY <1>2, <1>3, <1>4 DEF Keeps
<1>6. ASSUME NEW i \in Nat, i \in T PROVE i + 1 \in T
  <2> SUFFICES ASSUME i + 1 <= n PROVE l[i + 1] = k[i + 1]
      OBVIOUS
  <2>1. i + 1 \in 0 .. n /\ i + 1 \in 0 .. n + 1 /\ i + 1 # 0 /\ (i + 1) - 1 = i /\ i + 1 \in 1 .. n
      BY <1>2
  <2>2. k[i + 1] = IF s[i + 1] \in S THEN Append(k[i], s[i + 1]) ELSE k[i]
      BY <2>1, <1>3 DEF Keeps
  <2>3. l[i + 1] = IF t[i + 1] \in S THEN Append(l[i], t[i + 1]) ELSE l[i]
      BY <2>1, <1>4 DEF Keeps
  <2>4. l[i] = k[i] /\ t[i + 1] = s[i + 1]
    <3>1. i <= n /\ i + 1 \in 1 .. n
        BY <1>2
    <3>2. QED
        BY <3>1, <1>6, <1>1
  <2>5. QED
      BY <2>2, <2>3, <2>4
<1> HIDE DEF T
<1>7. n \in T
    BY <1>5, <1>6, <1>2, Induct
<1>8. l[n + 1] = IF t[n + 1] \in S THEN Append(l[n], t[n + 1]) ELSE l[n]
  <2>1. n + 1 \in 0 .. n + 1 /\ n + 1 # 0 /\ (n + 1) - 1 = n
      BY <1>2
  <2>2. QED
      BY <2>1, <1>4 DEF Keeps
<1>9. l[n] = k[n]
    BY <1>7, <1>2 DEF T
<1>10. QED
    BY <1>1, <1>3, <1>4, <1>8, <1>9 DEF t

LEMMA KeepOne ==
    ASSUME NEW e, NEW S
    PROVE  Keep(<<e>>, S) = IF e \in S THEN <<e>> ELSE <<>>
<1>1. <<>> \in Seq({e}) /\ Append(<<>>, e) = <<e>> /\ e \in {e}
    BY EmptySeq
<1>2. Keep(Append(<<>>, e), S) = IF e \in S THEN Append(Keep(<<>>, S), e) ELSE Keep(<<>>, S)
    BY <1>1, KeepAppend, Zenon
<1>3. QED
    BY <1>1, <1>2, KeepEmpty

LEMMA KeepType ==
    ASSUME NEW X, NEW S, NEW s \in Seq(X)
    PROVE  Keep(s, S) \in Seq(X) /\ Keep(s, S) \in Seq(X \cap S)
<1> DEFINE Y == X \cap S
           T == {t \in Seq(X) : Keep(t, S) \in Seq(Y)}
<1>0. Y \subseteq X /\ \A e \in X : e \in S => e \in Y
    OBVIOUS
<1> HIDE DEF Y
<1>1. <<>> \in T
    BY EmptySeq, KeepEmpty
<1>2. ASSUME NEW t \in Seq(X), NEW e \in X, t \in T PROVE Append(t, e) \in T
  <2>1. Keep(t, S) \in Seq(Y)
      BY <1>2
  <2>2. Keep(Append(t, e), S) = IF e \in S THEN Append(Keep(t, S), e) ELSE Keep(t, S)
      BY KeepAppend
  <2>3. CASE e \in S
    <3>1. Append(Keep(t, S), e) \in Seq(Y)
        BY <2>1, <2>3, <1>0, AppendProperties
    <3>2. QED
        BY <3>1, <2>2, <2>3, AppendProperties
  <2>4. CASE e \notin S
      BY <2>1, <2>2, <2>4, AppendProperties
  <2>5. QED
      BY <2>3, <2>4
<1> HIDE DEF T
<1>3. s \in T
    BY <1>1, <1>2, SeqInduct
<1>4. Keep(s, S) \in Seq(Y)
    BY <1>3 DEF T
<1>5. Keep(s, S) \in Seq(X)
    BY <1>4, <1>0, SeqMonotonic
<1>6. QED
    BY <1>4, <1>5 DEF Y

LEMMA KeepConcat ==
    ASSUME NEW X, NEW S, NEW s \in Seq(X), NEW t \in Seq(X)
    PROVE  Keep(s \o t, S) = Keep(s, S) \o Keep(t, S)
<1> DEFINE T == {u \in Seq(X) : Keep(s \o u, S) = Keep(s, S) \o Keep(u, S)}
<1>0. Keep(s, S) \in Seq(X)
    BY KeepType
<1>1. <<>> \in T
    BY EmptySeq, KeepEmpty, ConcatEmptySeq, <1>0
<1>2. ASSUME NEW u \in Seq(X), NEW e \in X, u \in T PROVE Append(u, e) \in T
  <2>1. s \o Append(u, e) = Append(s \o u, e)
    <3>1. Append(u, e) = u \o <<e>> /\ s \o u \in Seq(X) /\ <<e>> \in Seq(X)
        BY AppendIsConcat, ConcatProperties
    <3>2. Append(s \o u, e) = (s \o u) \o <<e>>
        BY <3>1, AppendIsConcat
    <3>3. QED
        BY <3>1, <3>2, ConcatAssociative
  <2>2. s \o u \in Seq(X) /\ Append(u, e) \in Seq(X)
      BY ConcatProperties, AppendProperties
  <2>3. Keep(s \o u, S) = Keep(s, S) \o Keep(u, S)
      BY <1>2
  <2>4. Keep(Append(s \o u, e), S) = IF e \in S THEN Append(Keep(s, S) \o Keep(u, S), e)
                                     ELSE Keep(s, S) \o Keep(u, S)
      BY <2>2, <2>3, KeepAppend
  <2>5. Keep(Append(u, e), S) = IF e \in S THEN Append(Keep(u, S), e) ELSE Keep(u, S)
      BY KeepAppend
  <2>6. Keep(u, S) \in Seq(X)
      BY KeepType
  <2>7. Append(Keep(s, S) \o Keep(u, S), e) = Keep(s, S) \o Append(Keep(u, S), e)
    <3>1. /\ Append(Keep(u, S), e) = Keep(u, S) \o <<e>> /\ <<e>> \in Seq(X)
          /\ Keep(s, S) \o Keep(u, S) \in Seq(X)
        BY <1>0, <2>6, AppendIsConcat, ConcatProperties
    <3>2. Append(Keep(s, S) \o Keep(u, S), e) = (Keep(s, S) \o Keep(u, S)) \o <<e>>
        BY <3>1, AppendIsConcat
    <3>3. (Keep(s, S) \o Keep(u, S)) \o <<e>> = Keep(s, S) \o (Keep(u, S) \o <<e>>)
        BY <3>1, <1>0, <2>6, ConcatAssociative
    <3>4. QED
        BY <3>1, <3>2, <3>3
  <2>8. Keep(s \o Append(u, e), S) = Keep(s, S) \o Keep(Append(u, e), S)
      BY <2>1, <2>4, <2>5, <2>7
  <2>9. QED
      BY <2>2, <2>8
<1> HIDE DEF T
<1>3. t \in T
    BY <1>1, <1>2, SeqInduct
<1>4. QED
    BY <1>3 DEF T

LEMMA KeepSame ==
    ASSUME NEW X, NEW s \in Seq(X), NEW S, NEW T, \A e \in X : e \in S <=> e \in T
    PROVE  Keep(s, S) = Keep(s, T)
<1> DEFINE U == {u \in Seq(X) : Keep(u, S) = Keep(u, T)}
<1>1. <<>> \in U
    BY EmptySeq, KeepEmpty
<1>2. ASSUME NEW u \in Seq(X), NEW e \in X, u \in U PROVE Append(u, e) \in U
  <2>1. Keep(Append(u, e), S) = IF e \in S THEN Append(Keep(u, S), e) ELSE Keep(u, S)
      BY KeepAppend
  <2>2. Keep(Append(u, e), T) = IF e \in T THEN Append(Keep(u, T), e) ELSE Keep(u, T)
      BY KeepAppend
  <2>3. Append(u, e) \in Seq(X)
      BY AppendProperties
  <2>4. Keep(u, S) = Keep(u, T) /\ (e \in S <=> e \in T)
      BY <1>2
  <2>5. Keep(Append(u, e), S) = Keep(Append(u, e), T)
      BY <2>1, <2>2, <2>4, Zenon
  <2>6. QED
      BY <2>3, <2>5
<1> HIDE DEF U
<1>3. s \in U
    BY <1>1, <1>2, SeqInduct
<1>4. QED
    BY <1>3 DEF U

LEMMA KeepAll ==
    ASSUME NEW X, NEW s \in Seq(X), NEW S, X \subseteq S
    PROVE  Keep(s, S) = s
<1> DEFINE U == {u \in Seq(X) : Keep(u, S) = u}
<1>1. <<>> \in U
    BY EmptySeq, KeepEmpty
<1>2. ASSUME NEW u \in Seq(X), NEW e \in X, u \in U PROVE Append(u, e) \in U
    BY <1>2, KeepAppend, AppendProperties
<1> HIDE DEF U
<1>3. s \in U
    BY <1>1, <1>2, SeqInduct
<1>4. QED
    BY <1>3 DEF U

LEMMA KeepNone ==
    ASSUME NEW X, NEW s \in Seq(X), NEW S, X \cap S = {}
    PROVE  Keep(s, S) = <<>>
<1> DEFINE U == {u \in Seq(X) : Keep(u, S) = <<>>}
<1>1. <<>> \in U
    BY EmptySeq, KeepEmpty
<1>2. ASSUME NEW u \in Seq(X), NEW e \in X, u \in U PROVE Append(u, e) \in U
    BY <1>2, KeepAppend, AppendProperties
<1> HIDE DEF U
<1>3. s \in U
    BY <1>1, <1>2, SeqInduct
<1>4. QED
    BY <1>3 DEF U

LEMMA KeepTwice ==
    ASSUME NEW X, NEW s \in Seq(X), NEW S, NEW T, NEW I,
           \A e \in X : e \in I <=> e \in S /\ e \in T
    PROVE  Keep(Keep(s, S), T) = Keep(s, I)
<1> DEFINE U == {u \in Seq(X) : Keep(Keep(u, S), T) = Keep(u, I)}
<1>1. <<>> \in U
    BY EmptySeq, KeepEmpty
<1>2. ASSUME NEW u \in Seq(X), NEW e \in X, u \in U PROVE Append(u, e) \in U
  <2>1. Keep(u, S) \in Seq(X)
      BY KeepType
  <2>2. Keep(Append(u, e), S) = IF e \in S THEN Append(Keep(u, S), e) ELSE Keep(u, S)
      BY KeepAppend
  <2>3. Keep(Append(Keep(u, S), e), T) = IF e \in T THEN Append(Keep(Keep(u, S), T), e)
                                         ELSE Keep(Keep(u, S), T)
      BY <2>1, KeepAppend
  <2>4. Keep(Append(u, e), I) = IF e \in I THEN Append(Keep(u, I), e) ELSE Keep(u, I)
      BY KeepAppend
  <2>5. Keep(Keep(u, S), T) = Keep(u, I) /\ (e \in I <=> e \in S /\ e \in T)
      BY <1>2
  <2>6. Append(u, e) \in Seq(X)
      BY AppendProperties
  <2>7. Keep(Keep(Append(u, e), S), T) = Keep(Append(u, e), I)
    <3>1. CASE e \in S
        BY <3>1, <2>2, <2>3, <2>4, <2>5, Zenon
    <3>2. CASE e \notin S
        BY <3>2, <2>2, <2>4, <2>5, Zenon
    <3>3. QED
        BY <3>1, <3>2
  <2>8. QED
      BY <2>6, <2>7
<1> HIDE DEF U
<1>3. s \in U
    BY <1>1, <1>2, SeqInduct
<1>4. QED
    BY <1>3 DEF U

-----------------------------------------------------------------------------
(* The shapes of messages, entries and places; n is an id not yet given *)

Users(n)   == {User(i) : i \in 1 .. n - 1}
Bashes(n)  == {Bash(i) : i \in 1 .. n - 1}
Replies(n) ==
    [role : {"assistant"}, id : 1 .. n - 1, stop : {"stop", "aborted", "error"},
     why : {"none", "retryable", "overflow", "fatal"}, calls : 0 .. MaxCalls]
Results(n) ==
    [role : {"toolResult"}, id : 1 .. n - 1, stop : {"none"}, why : {"none"},
     calls : {0}, call : (1 .. n - 1) \X Nat]
Summaries(n) == {Message("summary", i, "none", "none") : i \in 1 .. n - 1}
Marks(n)     == [role : {"compaction"}, id : 1 .. n - 1, kept : Nat]

Spoken(n)   == Users(n) \cup Replies(n) \cup Results(n)
Context(n)  == Spoken(n) \cup Bashes(n) \cup Summaries(n)
Entries(n)  == Spoken(n) \cup Bashes(n) \cup Marks(n)
Events(n)   == Spoken(n) \cup {AgentEnd}
ReplyOr(n)  == Replies(n) \cup {NoMessage}
Places(n) ==
    [where : {"free", "sleeping", "cancelled", "compacting", "out", "aborting",
              "ready", "hooks", "running", "retry", "idle"},
     kept : Nat, retry : BOOLEAN, reply : ReplyOr(n)]

AgentTyped(n) ==
    /\ status \in {"idle", "running", "over"}
    /\ owed \in SUBSET ((1 .. n - 1) \X Nat)
    /\ transcript \in Seq(Context(n))
    /\ queued \in Seq(Users(n))
    /\ aborted \in BOOLEAN /\ answered \in BOOLEAN

SessionTyped(n) ==
    /\ events \in Seq(Events(n))
    /\ lastReply \in ReplyOr(n)
    /\ retryPromise \in BOOLEAN
    /\ retryAttempt \in 0 .. MaxRetries
    /\ overflowTried \in BOOLEAN /\ autoCompacting \in BOOLEAN
    /\ shown \in Seq(Users(n)) /\ pendingBash \in Seq(Bashes(n))
    /\ timers \in Nat
    /\ unheard \subseteq 0 .. n - 1
    /\ thrown \in BOOLEAN /\ refused \in BOOLEAN

BranchTyped(n) == branch \in Seq(Entries(n))
AtTyped(n)     == at \in [Actors -> Places(n)]

(* Where each may be; a compaction keeps from an entry of the branch on,    *)
(* and only a reply that is worth a retry is slept on.                      *)
Allowed(x) ==
    CASE x = "handler" -> {"free", "sleeping", "cancelled", "compacting"}
      [] x = "manual"  -> {"out", "aborting", "ready", "compacting"}
      [] OTHER -> {"out", "compacting", "hooks", "running", "retry", "idle"}
Fine(x, p, length) ==
    /\ p.where \in Allowed(x)
    /\ p.where = "compacting" => p.kept \in 1 .. length
    /\ p.where \in {"sleeping", "cancelled"} => p.reply.why = "retryable"

KeptBefore(entries) ==
    \A i \in DOMAIN entries :
        entries[i].role = "compaction" => entries[i].kept \in 1 .. Len(entries)

TypeInv ==
    /\ nextId \in 1 .. MaxId + 1
    /\ AgentTyped(nextId)
    /\ SessionTyped(nextId)
    /\ BranchTyped(nextId)
    /\ AtTyped(nextId)
    /\ \A x \in Actors : Fine(x, at[x], Len(branch))
    /\ KeptBefore(branch)

LEMMA Grown ==
    ASSUME NEW m \in Nat, NEW n \in Nat, m <= n
    PROVE  /\ Users(m) \subseteq Users(n) /\ Bashes(m) \subseteq Bashes(n)
           /\ Spoken(m) \subseteq Spoken(n) /\ Context(m) \subseteq Context(n)
           /\ Entries(m) \subseteq Entries(n) /\ Events(m) \subseteq Events(n)
           /\ ReplyOr(m) \subseteq ReplyOr(n) /\ Places(m) \subseteq Places(n)
<1>1. 1 .. m - 1 \subseteq 1 .. n - 1
    OBVIOUS
<1>2. Users(m) \subseteq Users(n) /\ Bashes(m) \subseteq Bashes(n) /\ Summaries(m) \subseteq Summaries(n)
    BY <1>1 DEF Users, Bashes, Summaries
<1>3. Replies(m) \subseteq Replies(n)
    BY <1>1 DEF Replies
<1>4. Results(m) \subseteq Results(n)
  <2>1. (1 .. m - 1) \X Nat \subseteq (1 .. n - 1) \X Nat
      BY <1>1
  <2> DEFINE A == (1 .. m - 1) \X Nat
             B == (1 .. n - 1) \X Nat
  <2> HIDE DEF A, B
  <2>2. A \subseteq B
      BY <2>1 DEF A, B
  <2>3. [role : {"toolResult"}, id : 1 .. m - 1, stop : {"none"}, why : {"none"}, calls : {0}, call : A]
          \subseteq [role : {"toolResult"}, id : 1 .. n - 1, stop : {"none"}, why : {"none"}, calls : {0}, call : B]
      BY <1>1, <2>2
  <2>4. QED
      BY <2>3 DEF Results, A, B
<1>5. Marks(m) \subseteq Marks(n)
    BY <1>1 DEF Marks
<1>6. Spoken(m) \subseteq Spoken(n) /\ ReplyOr(m) \subseteq ReplyOr(n)
    BY <1>2, <1>3, <1>4 DEF Spoken, ReplyOr
<1>7. Context(m) \subseteq Context(n) /\ Entries(m) \subseteq Entries(n) /\ Events(m) \subseteq Events(n)
    BY <1>2, <1>5, <1>6 DEF Context, Entries, Events
<1>8. Places(m) \subseteq Places(n)
    BY <1>6 DEF Places
<1>9. QED
    BY <1>2, <1>6, <1>7, <1>8

(* What is typed stays so as ids are given. *)
LEMMA Still ==
    ASSUME TypeInv, nextId' \in 1 .. MaxId + 1, nextId <= nextId'
    PROVE  AgentTyped(nextId') /\ SessionTyped(nextId') /\ BranchTyped(nextId') /\ AtTyped(nextId')
<1> DEFINE m == nextId
           n == nextId'
<1>1. m \in Nat /\ n \in Nat /\ m <= n
    BY SessionAssumption DEF TypeInv
<1>2. AgentTyped(m) /\ SessionTyped(m) /\ BranchTyped(m) /\ AtTyped(m)
    BY DEF TypeInv
<1> HIDE DEF m, n
<1>3. /\ Users(m) \subseteq Users(n) /\ Bashes(m) \subseteq Bashes(n)
      /\ Spoken(m) \subseteq Spoken(n) /\ Context(m) \subseteq Context(n)
      /\ Entries(m) \subseteq Entries(n) /\ Events(m) \subseteq Events(n)
      /\ ReplyOr(m) \subseteq ReplyOr(n) /\ Places(m) \subseteq Places(n)
    BY <1>1, Grown
<1>4. 1 .. m - 1 \subseteq 1 .. n - 1 /\ 0 .. m - 1 \subseteq 0 .. n - 1
    BY <1>1
<1>5. AgentTyped(n)
  <2>1. transcript \in Seq(Context(n)) /\ queued \in Seq(Users(n))
      BY <1>2, <1>3, SeqMonotonic DEF AgentTyped
  <2>2. (1 .. m - 1) \X Nat \subseteq (1 .. n - 1) \X Nat
      BY <1>4
  <2>3. owed \in SUBSET ((1 .. n - 1) \X Nat)
      BY <1>2, <2>2 DEF AgentTyped
  <2>4. QED
      BY <1>2, <2>1, <2>3 DEF AgentTyped
<1>6. SessionTyped(n)
  <2>1. events \in Seq(Events(n)) /\ shown \in Seq(Users(n)) /\ pendingBash \in Seq(Bashes(n))
      BY <1>2, <1>3, SeqMonotonic DEF SessionTyped
  <2>2. lastReply \in ReplyOr(n) /\ unheard \subseteq 0 .. n - 1
      BY <1>2, <1>3, <1>4 DEF SessionTyped
  <2>3. QED
      BY <1>2, <2>1, <2>2 DEF SessionTyped
<1>7. BranchTyped(n)
    BY <1>2, <1>3, SeqMonotonic DEF BranchTyped
<1>8. AtTyped(n)
    BY <1>2, <1>3 DEF AtTyped
<1>9. QED
    BY <1>5, <1>6, <1>7, <1>8 DEF n

-----------------------------------------------------------------------------
(* Messages, entries and places *)

LEMMA MessageIs ==
    ASSUME NEW n \in Nat
    PROVE  /\ \A i \in 1 .. n - 1 : User(i) \in Users(n) /\ Bash(i) \in Bashes(n)
           /\ \A i \in 1 .. n - 1 : Message("summary", i, "none", "none") \in Summaries(n)
           /\ \A m \in Users(n) : m.role = "user" /\ m.id \in 1 .. n - 1 /\ m = User(m.id)
           /\ \A m \in Bashes(n) : m.role = "bash" /\ m.id \in 1 .. n - 1 /\ m = Bash(m.id)
           /\ \A m \in Summaries(n) : m.role = "summary" /\ m.id \in 1 .. n - 1
           /\ \A m \in Replies(n) : m.role = "assistant" /\ m.id \in 1 .. n - 1
           /\ \A m \in Results(n) : m.role = "toolResult" /\ m.id \in 1 .. n - 1
           /\ \A m \in Marks(n) : m.role = "compaction" /\ m.id \in 1 .. n - 1 /\ m.kept \in Nat
           /\ AgentEnd.role = "agent_end" /\ AgentEnd.id = 0 /\ AgentEnd.why = "none"
           /\ NoMessage.role = "none" /\ NoMessage.id = 0 /\ NoMessage.why = "none"
<1>1. /\ \A i \in 1 .. n - 1 : User(i) \in Users(n) /\ Bash(i) \in Bashes(n)
      /\ \A i \in 1 .. n - 1 : Message("summary", i, "none", "none") \in Summaries(n)
    BY DEF Users, Bashes, Summaries
<1>2. \A m \in Users(n) : m.role = "user" /\ m.id \in 1 .. n - 1 /\ m = User(m.id)
    BY DEF Users, User, Message
<1>3. \A m \in Bashes(n) : m.role = "bash" /\ m.id \in 1 .. n - 1 /\ m = Bash(m.id)
    BY DEF Bashes, Bash, Message
<1>4. \A m \in Summaries(n) : m.role = "summary" /\ m.id \in 1 .. n - 1
    BY DEF Summaries, Message
<1>5. \A m \in Replies(n) : m.role = "assistant" /\ m.id \in 1 .. n - 1
    BY DEF Replies
<1>6. \A m \in Results(n) : m.role = "toolResult" /\ m.id \in 1 .. n - 1
    BY DEF Results
<1>7. \A m \in Marks(n) : m.role = "compaction" /\ m.id \in 1 .. n - 1 /\ m.kept \in Nat
    BY DEF Marks
<1>8. /\ AgentEnd.role = "agent_end" /\ AgentEnd.id = 0 /\ AgentEnd.why = "none"
      /\ NoMessage.role = "none" /\ NoMessage.id = 0 /\ NoMessage.why = "none"
    BY DEF AgentEnd, NoMessage, Message
<1>9. QED
    BY <1>1, <1>2, <1>3, <1>4, <1>5, <1>6, <1>7, <1>8

LEMMA SetIs ==
    ASSUME NEW X, NEW s \in Seq(X)
    PROVE  ToSet(s) \subseteq X /\ s \in Seq(ToSet(s)) /\ \A i \in 1 .. Len(s) : s[i] \in ToSet(s)
<1>1. DOMAIN s = 1 .. Len(s) /\ s \in [1 .. Len(s) -> X] /\ Len(s) \in Nat
    BY LenProperties
<1>2. ToSet(s) \subseteq X /\ \A i \in 1 .. Len(s) : s[i] \in ToSet(s)
    BY <1>1 DEF ToSet
<1>3. SubSeq(s, 1, Len(s)) \in Seq(ToSet(s))
    BY <1>1, <1>2, SubSeqProperties
<1>4. QED
    BY <1>2, <1>3, SubSeqFull

LEMMA FrontIs ==
    ASSUME NEW X, NEW s \in Seq(X), s # <<>>
    PROVE  /\ Front(s) \in Seq(X) /\ Len(Front(s)) = Len(s) - 1
           /\ \A i \in 1 .. Len(s) - 1 : Front(s)[i] = s[i]
           /\ Last(s) \in X
<1>1. Len(s) \in Nat \ {0} /\ \A i \in 1 .. Len(s) : s[i] \in X
    BY EmptySeq, LenProperties, ElementOfSeq
<1>2. Last(s) \in X
    BY <1>1 DEF Last
<1> DEFINE k == Len(s) - 1
           q == SubSeq(s, 1, k)
<1>3. k \in Nat /\ k < Len(s)
    BY <1>1
<1>4. Front(s) = q
    BY DEF Front
<1> HIDE DEF k
<1>5. \A i \in 1 .. k : s[i] \in X
    BY <1>1, <1>3
<1>6. q \in Seq(X) /\ Len(q) = k /\ \A i \in 1 .. k : q[i] = s[i]
    BY <1>3, <1>5, SubSeqProperties
<1>7. QED
    BY <1>2, <1>4, <1>6 DEF k

LEMMA LastCompactionIs ==
    ASSUME NEW X, NEW s \in Seq(X)
    PROVE  LET c == LastCompaction(s)
           IN  /\ c \in {0} \cup Compactions(s) /\ c \in 0 .. Len(s)
               /\ c > 0 => c \in 1 .. Len(s) /\ s[c].role = "compaction"
               /\ \A j \in Compactions(s) : j <= c
<1> DEFINE C == {0} \cup Compactions(s)
           n == Len(s)
           T == {n - j : j \in C}
<1>1. n \in Nat /\ DOMAIN s = 1 .. n
    BY LenProperties
<1>2. C \subseteq 0 .. n /\ 0 \in C
    BY <1>1 DEF Compactions
<1>3. T \subseteq Nat /\ T # {}
    BY <1>1, <1>2
<1>4. PICK m \in T : \A k \in T : m <= k
    BY <1>3, NatMin
<1>5. PICK i \in C : m = n - i
    BY <1>4
<1> HIDE DEF C, n
<1>6. ASSUME NEW j \in C PROVE j <= i
  <2>1. n - j \in T /\ j \in 0 .. n /\ i \in 0 .. n
      BY <1>2
  <2>2. n - i <= n - j
      BY <2>1, <1>4, <1>5
  <2>3. QED
      BY <2>1, <2>2, <1>1
<1>7. LastCompaction(s) \in C /\ \A j \in Compactions(s) : j <= LastCompaction(s)
    BY <1>5, <1>6 DEF LastCompaction, C
<1>8. QED
    BY <1>1, <1>2, <1>7 DEF C, Compactions, n

(* A rebuilt context is one. *)
LEMMA RebuiltType ==
    ASSUME NEW n \in Nat, NEW s \in Seq(Entries(n)),
           \A i \in DOMAIN s : s[i].role = "compaction" => s[i].kept \in 1 .. Len(s)
    PROVE  /\ Rebuilt(s) \in Seq(Context(n))
           /\ LastCompaction(s) # 0 => Rebuilt(s) # <<>>
<1> DEFINE c    == LastCompaction(s)
           from == IF c = 0 THEN 1 ELSE s[c].kept
           S    == {e \in ToSet(s) : e.role # "compaction"}
           rest == SubSeq(s, from, Len(s))
           head == IF c = 0 THEN <<>> ELSE <<Message("summary", s[c].id, "none", "none")>>
<1>1. c \in 0 .. Len(s) /\ (c > 0 => c \in 1 .. Len(s) /\ s[c].role = "compaction")
    BY LastCompactionIs
<1>2. DOMAIN s = 1 .. Len(s) /\ Len(s) \in Nat /\ \A i \in 1 .. Len(s) : s[i] \in Entries(n)
    BY LenProperties, ElementOfSeq
<1>3. from \in Nat /\ from >= 1
    BY <1>1, <1>2
<1>4. Rebuilt(s) = head \o Keep(rest, S)
    BY DEF Rebuilt
<1> HIDE DEF c
<1>5. rest \in Seq(Entries(n))
  <2> HIDE DEF from
  <2>1. \A i \in from .. Len(s) : s[i] \in Entries(n)
      BY <1>2, <1>3
  <2>2. QED
      BY <1>2, <1>3, <2>1, SubSeqProperties
<1>6. Entries(n) \cap S \subseteq Context(n)
    BY MessageIs DEF Entries, Context
<1>7. Keep(rest, S) \in Seq(Entries(n) \cap S)
    BY <1>5, KeepType, Zenon
<1>8. Keep(rest, S) \in Seq(Context(n))
    BY <1>6, <1>7, SeqMonotonic, Zenon
<1>9. head \in Seq(Context(n))
  <2>1. CASE c = 0
      BY <2>1, EmptySeq
  <2>2. CASE c # 0
    <3>1. c \in 1 .. Len(s) /\ s[c].role = "compaction" /\ s[c] \in Entries(n)
        BY <2>2, <1>1, <1>2
    <3>2. s[c] \in Marks(n)
        BY <3>1, MessageIs DEF Entries, Spoken
    <3>3. Message("summary", s[c].id, "none", "none") \in Context(n)
        BY <3>2, MessageIs DEF Context
    <3>4. QED
        BY <2>2, <3>3
  <2>3. QED
      BY <2>1, <2>2
<1>10. c # 0 => head # <<>>
    OBVIOUS
<1>11. Rebuilt(s) \in Seq(Context(n))
    BY <1>4, <1>8, <1>9, ConcatProperties
<1>12. c # 0 => Rebuilt(s) # <<>>
  <2> DEFINE kept == Keep(rest, S)
  <2>1. kept \in Seq(Context(n))
      BY <1>8
  <2> HIDE DEF kept, head
  <2>2. (head \o kept = <<>>) <=> (head = <<>> /\ kept = <<>>)
      BY <2>1, <1>9, ConcatEmptySeq, ConcatProperties, EmptySeq, LenProperties
  <2>3. QED
      BY <2>2, <1>4, <1>10 DEF kept
<1>13. QED
    BY <1>11, <1>12 DEF c

LEMMA PlaceType ==
    ASSUME NEW n \in Nat
    PROVE  /\ \A w \in {"free", "sleeping", "cancelled", "compacting", "out", "aborting",
                        "ready", "hooks", "running", "retry", "idle"} :
                /\ Place(w) \in Places(n) /\ Place(w).where = w
                /\ Place(w).retry = FALSE /\ Place(w).reply = NoMessage
           /\ \A x : /\ Out(x) \in Places(n) /\ Out(x).retry = FALSE
                    /\ Out(x).where = (IF x = "handler" THEN "free" ELSE "out")
<1>1. NoMessage \in ReplyOr(n)
    BY DEF ReplyOr
<1>2. \A w \in {"free", "sleeping", "cancelled", "compacting", "out", "aborting",
                        "ready", "hooks", "running", "retry", "idle"} :
                /\ Place(w) \in Places(n) /\ Place(w).where = w
                /\ Place(w).retry = FALSE /\ Place(w).reply = NoMessage
    BY <1>1 DEF Place, Places
<1>3. QED
    BY <1>2 DEF Out

LEMMA CompactingIs ==
    ASSUME NEW n \in Nat, NEW s \in Seq(Entries(n)), NEW r \in BOOLEAN,
           NEW p \in Compacting(s, r)
    PROVE  p \in Places(n) /\ p.where = "compacting" /\ p.kept \in 1 .. Len(s) /\ p.retry = r
<1>1. NoMessage \in ReplyOr(n)
    BY DEF ReplyOr
<1>2. PICK i \in DOMAIN s : p = [Place("compacting") EXCEPT !.kept = i, !.retry = r]
    BY DEF Compacting
<1>3. i \in 1 .. Len(s) /\ i \in Nat
    BY <1>2, LenProperties
<1>4. QED
    BY <1>1, <1>2, <1>3 DEF Place, Places

(* What x does about a compaction after it looked at the reply m *)
LEMMA CheckIs ==
    ASSUME NEW n \in Nat, NEW x \in Actors, NEW places \in [Actors -> Places(n)],
           NEW m, NEW skip, NEW next \in Places(n),
           NEW t \in Seq(Context(n)), NEW entries \in Seq(Entries(n)),
           autoCompacting \in BOOLEAN, overflowTried \in BOOLEAN,
           CheckCompaction(x, places, m, skip, next, t, entries)
    PROVE  /\ transcript' \in Seq(Context(n))
           /\ autoCompacting' \in BOOLEAN /\ overflowTried' \in BOOLEAN
           /\ overflowTried => overflowTried'
           /\ \E p \in Places(n) :
                /\ at' = [places EXCEPT ![x] = p]
                /\ p # next => p.where = "compacting" /\ p.kept \in 1 .. Len(entries)
                /\ p # next /\ p.retry => m.why = "overflow" /\ ~overflowTried /\ overflowTried'
<1> DEFINE begin(retry) ==
            IF CanCompact(entries)
            THEN /\ autoCompacting' = TRUE
                 /\ \E place \in Compacting(entries, retry) :
                      at' = [places EXCEPT ![x] = place]
            ELSE /\ autoCompacting' = FALSE
                 /\ at' = [places EXCEPT ![x] = next]
           tried == m.why = "overflow" /\ ~overflowTried /\ overflowTried'
<1>1. \/ tried /\ overflowTried' = TRUE /\ Strip(t) /\ begin(TRUE)
      \/ transcript' = t /\ overflowTried' = overflowTried /\ begin(FALSE)
      \/ /\ transcript' = t /\ at' = [places EXCEPT ![x] = next]
         /\ overflowTried' = overflowTried /\ autoCompacting' = autoCompacting
    BY DEF CheckCompaction, compactVars
<1>2. ASSUME NEW r \in BOOLEAN, begin(r)
      PROVE  /\ autoCompacting' \in BOOLEAN
             /\ \E p \in Places(n) :
                  /\ at' = [places EXCEPT ![x] = p]
                  /\ p # next => p.where = "compacting" /\ p.kept \in 1 .. Len(entries) /\ p.retry = r
  <2>1. CASE CanCompact(entries)
    <3>1. PICK p \in Compacting(entries, r) : at' = [places EXCEPT ![x] = p]
        BY <1>2, <2>1
    <3>2. p \in Places(n) /\ p.where = "compacting" /\ p.kept \in 1 .. Len(entries) /\ p.retry = r
        BY <3>1, CompactingIs, Zenon
    <3>3. QED
        BY <1>2, <2>1, <3>1, <3>2
  <2>2. CASE ~CanCompact(entries)
      BY <1>2, <2>2
  <2>3. QED
      BY <2>1, <2>2
<1> HIDE DEF begin
<1>3. CASE tried /\ overflowTried' = TRUE /\ Strip(t) /\ begin(TRUE)
  <2>1. transcript' \in Seq(Context(n))
      BY <1>3, FrontIs DEF Strip
  <2>2. QED
      BY <1>3, <1>2, <2>1
<1>4. CASE transcript' = t /\ overflowTried' = overflowTried /\ begin(FALSE)
    BY <1>4, <1>2
<1>5. CASE /\ transcript' = t /\ at' = [places EXCEPT ![x] = next]
           /\ overflowTried' = overflowTried /\ autoCompacting' = autoCompacting
    BY <1>5
<1>6. QED
    BY <1>1, <1>3, <1>4, <1>5

LEMMA HearType ==
    ASSUME TypeInv, nextId' \in 1 .. MaxId + 1, nextId <= nextId',
           NEW ms \in Seq(Spoken(nextId')), NEW ends, Hear(ms, ends)
    PROVE  /\ events' \in Seq(Events(nextId'))
           /\ retryPromise' \in BOOLEAN
           /\ unheard' \subseteq 0 .. nextId' - 1
<1> DEFINE n == nextId'
<1>1. n \in Nat \ {0} /\ SessionTyped(n)
    BY Still, SessionAssumption
<1> HIDE DEF n
<1>2. ms \in Seq(Spoken(n)) /\ Spoken(n) \subseteq Events(n) /\ AgentEnd \in Events(n)
    BY DEF Events, n
<1>3. ms \in Seq(Events(n)) /\ events \in Seq(Events(n))
    BY <1>1, <1>2, SeqMonotonic DEF SessionTyped
<1>4. Idset(ms) \subseteq 0 .. n - 1 /\ AgentEnd.id \in 0 .. n - 1
  <2>1. ToSet(ms) \subseteq Spoken(n)
      BY <1>2, SetIs
  <2>2. \A m \in Spoken(n) : m.id \in 0 .. n - 1
      BY <1>1, MessageIs DEF Spoken
  <2>3. AgentEnd.id = 0
      BY <1>1, MessageIs
  <2>4. QED
      BY <1>1, <2>1, <2>2, <2>3 DEF Idset
<1>5. CASE Listening
  <2> DEFINE tail == IF ends = NoMessage THEN <<>> ELSE <<AgentEnd>>
  <2>1. tail \in Seq(Events(n))
      BY <1>2, EmptySeq
  <2>2. events' = events \o ms \o tail
      BY <1>5 DEF Hear
  <2> HIDE DEF tail
  <2>3. events' \in Seq(Events(n))
      BY <2>1, <2>2, <1>3, ConcatProperties
  <2>4. retryPromise' \in BOOLEAN /\ unheard' = unheard
      BY <1>5, <1>1 DEF Hear, SessionTyped
  <2>5. QED
      BY <2>3, <2>4, <1>1 DEF SessionTyped, n
<1>6. CASE ~Listening
  <2>1. /\ unheard' = unheard \cup Idset(ms) \cup (IF ends = NoMessage THEN {} ELSE {AgentEnd.id})
        /\ UNCHANGED <<events, heard, retryPromise>>
      BY <1>6 DEF Hear
  <2>2. unheard' \subseteq 0 .. n - 1
      BY <2>1, <1>1, <1>4 DEF SessionTyped
  <2>3. QED
      BY <2>1, <2>2, <1>3, <1>1 DEF SessionTyped, n
<1>7. QED
    BY <1>5, <1>6

LEMMA ActorsAre ==
    /\ "handler" \in Actors /\ "manual" \in Actors /\ Callers \subseteq Actors
    /\ \A c \in Callers : c # "handler" /\ c # "manual"
    /\ \A x \in Actors : x \in Callers \/ x = "handler" \/ x = "manual"
    /\ Allowed("handler") = {"free", "sleeping", "cancelled", "compacting"}
    /\ Allowed("manual") = {"out", "aborting", "ready", "compacting"}
    /\ \A c \in Callers : Allowed(c) = {"out", "compacting", "hooks", "running", "retry", "idle"}
BY SessionAssumption DEF Actors, Allowed

LEMMA FineGrows ==
    ASSUME NEW x, NEW p, NEW m \in Nat, NEW n \in Nat, m <= n, Fine(x, p, m)
    PROVE  Fine(x, p, n)
BY DEF Fine

(* Whoever moved is in a fine place. *)
LEMMA AllFine ==
    ASSUME TypeInv, Len(branch') \in Nat, Len(branch) <= Len(branch'),
           \A x \in Actors : at'[x] = at[x] \/ Fine(x, at'[x], Len(branch'))
    PROVE  \A x \in Actors : Fine(x, at'[x], Len(branch'))
<1>1. Len(branch) \in Nat
    BY LenProperties DEF TypeInv, BranchTyped
<1>2. \A x \in Actors : Fine(x, at[x], Len(branch))
    BY DEF TypeInv
<1>3. QED
    BY <1>1, <1>2, FineGrows

LEMMA TypeInit == Init => TypeInv
<1> SUFFICES ASSUME Init PROVE TypeInv
    OBVIOUS
<1>1. nextId = 1 /\ 1 \in 1 .. MaxId + 1
    BY SessionAssumption DEF Init
<1>2. AgentTyped(1)
  <2>1. \A X : <<>> \in Seq(X)
      BY EmptySeq
  <2>2. transcript = <<>> /\ status = "idle" /\ owed = {} /\ queued = <<>> /\ aborted = FALSE /\ answered = FALSE
      BY DEF Init, Idle
  <2>3. QED
      BY <2>1, <2>2 DEF AgentTyped
<1>3. SessionTyped(1)
  <2>1. \A X : <<>> \in Seq(X)
      BY EmptySeq
  <2>2. NoMessage \in ReplyOr(1) /\ 0 \in 0 .. MaxRetries /\ 0 \in Nat
      BY SessionAssumption DEF ReplyOr
  <2>3. QED
      BY <2>1, <2>2 DEF SessionTyped, Init
<1>4. BranchTyped(1) /\ branch = <<>> /\ KeptBefore(branch)
    BY EmptySeq DEF BranchTyped, Init, KeptBefore
<1>5. at = [x \in Actors |-> Out(x)]
    BY DEF Init
<1>6. \A x : Out(x) \in Places(1) /\ Out(x).where = (IF x = "handler" THEN "free" ELSE "out")
    BY PlaceType
<1>7. AtTyped(1) /\ \A x \in Actors : Fine(x, at[x], Len(branch))
    BY <1>5, <1>6, ActorsAre DEF AtTyped, Fine
<1>8. QED
    BY <1>1, <1>2, <1>3, <1>4, <1>7 DEF TypeInv

-----------------------------------------------------------------------------
(* Every step keeps the types: the agent *)

LEMMA FreshIs ==
    ASSUME TypeInv, Fresh
    PROVE  /\ nextId' \in 1 .. MaxId + 1 /\ nextId <= nextId' /\ nextId' \in Nat /\ nextId \in Nat
           /\ nextId \in 1 .. nextId' - 1
BY SessionAssumption DEF TypeInv, Fresh

LEMMA NoneGiven ==
    ASSUME TypeInv, nextId' = nextId
    PROVE  nextId' \in 1 .. MaxId + 1 /\ nextId <= nextId' /\ nextId' \in Nat
BY SessionAssumption DEF TypeInv

(* Nobody moves. *)
LEMMA SamePlaces ==
    ASSUME TypeInv, nextId' \in 1 .. MaxId + 1, nextId <= nextId', UNCHANGED <<at, branch>>
    PROVE  /\ AtTyped(nextId)' /\ BranchTyped(nextId)' /\ KeptBefore(branch)'
           /\ (\A x \in Actors : Fine(x, at[x], Len(branch)))'
<1>1. AtTyped(nextId') /\ BranchTyped(nextId')
    BY Still
<1>2. QED
    BY <1>1 DEF AtTyped, BranchTyped, TypeInv, KeptBefore

LEMMA BeginTypes ==
    ASSUME TypeInv, nextId' \in 1 .. MaxId + 1, nextId <= nextId',
           NEW ms \in Seq(Users(nextId')), queued' \in Seq(Users(nextId')),
           BeginRun(ms), timers' \in Nat
    PROVE  AgentTyped(nextId)' /\ SessionTyped(nextId)' /\ UNCHANGED branch
<1> DEFINE n == nextId'
<1>1. AgentTyped(n) /\ SessionTyped(n)
    BY Still
<1>2. Users(n) \subseteq Spoken(n) /\ Users(n) \subseteq Context(n)
    BY DEF Spoken, Context
<1>3. ms \in Seq(Spoken(n)) /\ ms \in Seq(Context(n))
    BY <1>2, SeqMonotonic
<1>4. events' \in Seq(Events(n)) /\ retryPromise' \in BOOLEAN /\ unheard' \subseteq 0 .. n - 1
    BY <1>3, HearType DEF BeginRun
<1>5. transcript' \in Seq(Context(n)) /\ status' = "running" /\ owed' = {}
    BY <1>1, <1>3, ConcatProperties DEF BeginRun, Begin, AgentTyped
<1> HIDE DEF n
<1>6. aborted' = FALSE /\ answered' = FALSE
    BY DEF BeginRun
<1>7. UNCHANGED <<lastReply, retryAttempt, overflowTried, autoCompacting, shown, pendingBash,
                  branch, thrown, refused>>
    BY DEF BeginRun, sessionVars, compactVars, listVars
<1>8. SessionTyped(nextId)'
    BY <1>1, <1>4, <1>7 DEF SessionTyped, n
<1>9. AgentTyped(nextId)'
    BY <1>5, <1>6 DEF AgentTyped, n
<1>10. QED
    BY <1>7, <1>8, <1>9

LEMMA QueueTail ==
    ASSUME NEW n, queued \in Seq(Users(n)), queued # <<>>
    PROVE  Head(queued) \in Users(n) /\ Tail(queued) \in Seq(Users(n))
           /\ <<Head(queued)>> \in Seq(Users(n))
BY HeadTailProperties

LEMMA InjectTypes == ASSUME TypeInv, Inject PROVE TypeInv'
<1> DEFINE n == nextId'
           h == Head(queued)
<1>1. nextId' = nextId /\ queued # <<>>
    BY DEF Inject
<1>2. nextId' \in 1 .. MaxId + 1 /\ nextId <= nextId' /\ AgentTyped(n) /\ SessionTyped(n)
    BY <1>1, NoneGiven, Still
<1>3. h \in Users(n) /\ Tail(queued) \in Seq(Users(n)) /\ <<h>> \in Seq(Users(n))
    BY <1>1, <1>2, QueueTail DEF AgentTyped
<1>4. <<h>> \in Seq(Spoken(n)) /\ <<h>> \in Seq(Context(n))
    BY <1>3 DEF Spoken, Context
<1>5. events' \in Seq(Events(n)) /\ retryPromise' \in BOOLEAN /\ unheard' \subseteq 0 .. n - 1
    BY <1>2, <1>4, HearType DEF Inject
<1>6. transcript' \in Seq(Context(n)) /\ UNCHANGED <<status, owed>>
    BY <1>2, <1>4, ConcatProperties DEF Inject, Say, AgentTyped
<1> HIDE DEF n, h
<1>7. queued' \in Seq(Users(n)) /\ answered' = FALSE
      /\ UNCHANGED <<aborted, lastReply, retryAttempt, overflowTried, autoCompacting, shown, pendingBash,
                  branch, timers, at, thrown, refused>>
    BY <1>3 DEF Inject, sessionVars, compactVars, listVars
<1>8. AgentTyped(nextId)'
    BY <1>2, <1>6, <1>7 DEF AgentTyped, n
<1>9. SessionTyped(nextId)'
    BY <1>2, <1>5, <1>7 DEF SessionTyped, n
<1>10. AtTyped(nextId)' /\ BranchTyped(nextId)' /\ KeptBefore(branch)'
       /\ (\A x \in Actors : Fine(x, at[x], Len(branch)))'
    BY <1>2, <1>7, SamePlaces
<1>11. QED
    BY <1>2, <1>8, <1>9, <1>10 DEF TypeInv

LEMMA FailedIs ==
    ASSUME NEW reply \in FailedReplies
    PROVE  \E stop \in {"aborted", "error"}, why \in {"none", "retryable", "overflow", "fatal"} :
             reply = [role |-> "assistant", id |-> nextId, stop |-> stop, why |-> why, calls |-> 0]
<1>1. PICK e \in {<<"aborted", "none">>} \cup ({"error"} \X {"retryable", "overflow", "fatal"}) :
          reply = Message("assistant", nextId, e[1], e[2])
    BY DEF FailedReplies
<1>2. e[1] \in {"aborted", "error"} /\ e[2] \in {"none", "retryable", "overflow", "fatal"}
    BY <1>1
<1>3. QED
    BY <1>1, <1>2 DEF Message

LEMMA ReplyIs ==
    ASSUME nextId' \in Nat, nextId \in 1 .. nextId' - 1, NEW reply \in GoodReplies \cup FailedReplies
    PROVE  /\ reply \in Replies(nextId') /\ reply.id = nextId
           /\ reply \in FailedReplies => Failed(reply)
           /\ reply \in GoodReplies => Good(reply)
           /\ reply # NoMessage /\ reply # AgentEnd
<1>1. ASSUME reply \in GoodReplies
      PROVE  reply \in Replies(nextId') /\ reply.id = nextId /\ reply.role = "assistant" /\ reply.stop = "stop"
  <2>1. PICK k \in 0 .. MaxCalls : reply = [Message("assistant", nextId, "stop", "none") EXCEPT !.calls = k]
      BY <1>1 DEF GoodReplies
  <2>2. reply = [role |-> "assistant", id |-> nextId, stop |-> "stop", why |-> "none", calls |-> k]
      BY <2>1 DEF Message
  <2>3. QED
      BY <2>2 DEF Replies
<1>2. ASSUME reply \in FailedReplies
      PROVE  reply \in Replies(nextId') /\ reply.id = nextId /\ reply.role = "assistant" /\ reply.stop \in {"aborted", "error"}
  <2>1. PICK s \in {"aborted", "error"}, w \in {"none", "retryable", "overflow", "fatal"} :
            reply = [role |-> "assistant", id |-> nextId, stop |-> s, why |-> w, calls |-> 0]
      BY <1>2, FailedIs
  <2>2. 0 \in 0 .. MaxCalls
      BY SessionAssumption
  <2>3. QED
      BY <2>1, <2>2 DEF Replies
<1>3. reply.role = "assistant" => reply # NoMessage /\ reply # AgentEnd
    BY DEF NoMessage, AgentEnd, Message
<1>4. reply \in FailedReplies => Failed(reply)
    BY <1>2 DEF Failed, IsReply, FailedStops
<1>5. reply \in GoodReplies => Good(reply)
    BY <1>1 DEF Good, Failed, IsReply, FailedStops
<1>6. QED
    BY <1>1, <1>2, <1>3, <1>4, <1>5

LEMMA ModelTypes == ASSUME TypeInv, ModelReplies PROVE TypeInv'
<1> DEFINE n == nextId'
<1>1. /\ nextId' \in 1 .. MaxId + 1 /\ nextId <= nextId' /\ nextId' \in Nat
      /\ nextId \in 1 .. nextId' - 1 /\ AgentTyped(n) /\ SessionTyped(n)
    BY FreshIs, Still DEF ModelReplies
<1>2. PICK reply \in GoodReplies \cup FailedReplies :
         /\ Answer(reply)
         /\ answered' = (Good(reply) /\ reply.calls = 0)
         /\ Hear(<<reply>>, IF Failed(reply) THEN reply ELSE NoMessage)
    BY DEF ModelReplies
<1>3. reply \in Replies(n)
    BY <1>1, ReplyIs
<1>4. reply \in Spoken(n) /\ reply \in Context(n) /\ <<reply>> \in Seq(Spoken(n))
    BY <1>3 DEF Spoken, Context
<1>5. events' \in Seq(Events(n)) /\ retryPromise' \in BOOLEAN /\ unheard' \subseteq 0 .. n - 1
    BY <1>1, <1>2, <1>4, HearType
<1>6. transcript' = Append(transcript, reply) /\ status' \in {"running", "over"}
      /\ owed' \in {{}, CallsOf(reply)}
    BY <1>2 DEF Answer
<1>7. transcript' \in Seq(Context(n))
    BY <1>1, <1>4, <1>6, AppendProperties DEF AgentTyped
<1>8. CallsOf(reply) \subseteq (1 .. n - 1) \X Nat
  <2>1. reply.id \in 1 .. n - 1 /\ reply.calls \in Nat
      BY <1>3 DEF Replies
  <2>2. QED
      BY <2>1 DEF CallsOf
<1> HIDE DEF n
<1>9. owed' \in SUBSET ((1 .. n - 1) \X Nat)
    BY <1>6, <1>8
<1>10. answered' \in BOOLEAN
    BY <1>2
<1>11. UNCHANGED <<queued, aborted, lastReply, retryAttempt, overflowTried, autoCompacting, shown, pendingBash,
                  branch, timers, at, thrown, refused>>
    BY DEF ModelReplies, sessionVars, compactVars, listVars
<1>12. AgentTyped(nextId)'
    BY <1>1, <1>6, <1>7, <1>9, <1>10, <1>11 DEF AgentTyped, n
<1>13. SessionTyped(nextId)'
    BY <1>1, <1>5, <1>11 DEF SessionTyped, n
<1>14. AtTyped(nextId)' /\ BranchTyped(nextId)' /\ KeptBefore(branch)'
       /\ (\A x \in Actors : Fine(x, at[x], Len(branch)))'
    BY <1>1, <1>11, SamePlaces
<1>15. QED
    BY <1>1, <1>12, <1>13, <1>14 DEF TypeInv

LEMMA ToolTypes == ASSUME TypeInv, ToolReturns PROVE TypeInv'
<1> DEFINE n == nextId'
<1>1. /\ nextId' \in 1 .. MaxId + 1 /\ nextId <= nextId' /\ nextId' \in Nat
      /\ nextId \in 1 .. nextId' - 1 /\ AgentTyped(n) /\ SessionTyped(n)
    BY FreshIs, Still DEF ToolReturns
<1>2. PICK call \in owed : Deliver(Result(call)) /\ Hear(<<Result(call)>>, NoMessage)
    BY DEF ToolReturns
<1> DEFINE m == Result(call)
<1>3. m \in Results(n)
  <2>1. call \in (1 .. n - 1) \X Nat
      BY <1>1 DEF AgentTyped
  <2> DEFINE C == (1 .. n - 1) \X Nat
  <2> HIDE DEF C
  <2>2. m \in [role : {"toolResult"}, id : 1 .. n - 1, stop : {"none"}, why : {"none"},
                calls : {0}, call : C]
      BY <1>1, <2>1 DEF Result, C
  <2>3. QED
      BY <2>2 DEF Results, C
<1> HIDE DEF m
<1>4. m \in Spoken(n) /\ m \in Context(n) /\ <<m>> \in Seq(Spoken(n))
    BY <1>3 DEF Spoken, Context
<1>5. events' \in Seq(Events(n)) /\ retryPromise' \in BOOLEAN /\ unheard' \subseteq 0 .. n - 1
    BY <1>1, <1>2, <1>4, HearType DEF m
<1>6. transcript' = Append(transcript, m) /\ status' = status
      /\ owed' = owed \ {m.call}
    BY <1>2 DEF Deliver, m
<1>7. transcript' \in Seq(Context(n))
    BY <1>1, <1>4, <1>6, AppendProperties DEF AgentTyped
<1> HIDE DEF n
<1>8. UNCHANGED <<queued, aborted, answered, lastReply, retryAttempt, overflowTried, autoCompacting, shown, pendingBash,
                  branch, timers, at, thrown, refused>>
    BY DEF ToolReturns, sessionVars, compactVars, listVars
<1>9. AgentTyped(nextId)'
    BY <1>1, <1>6, <1>7, <1>8 DEF AgentTyped, n
<1>10. SessionTyped(nextId)'
    BY <1>1, <1>5, <1>8 DEF SessionTyped, n
<1>11. AtTyped(nextId)' /\ BranchTyped(nextId)' /\ KeptBefore(branch)'
       /\ (\A x \in Actors : Fine(x, at[x], Len(branch)))'
    BY <1>1, <1>8, SamePlaces
<1>12. QED
    BY <1>1, <1>9, <1>10, <1>11 DEF TypeInv

LEMMA StopTypes == ASSUME TypeInv, RunStops PROVE TypeInv'
<1> DEFINE n == nextId'
<1>1. /\ nextId' \in 1 .. MaxId + 1 /\ nextId <= nextId' /\ nextId' \in Nat
      /\ AgentTyped(n) /\ SessionTyped(n)
    BY NoneGiven, Still DEF RunStops
<1>2. events' \in Seq(Events(n)) /\ retryPromise' \in BOOLEAN /\ unheard' \subseteq 0 .. n - 1
    BY <1>1, EmptySeq, HearType DEF RunStops
<1> HIDE DEF n
<1>3. status' = "over" /\
      UNCHANGED <<transcript, owed, queued, aborted, answered, lastReply, retryAttempt, overflowTried, autoCompacting,
                  shown, pendingBash, branch, timers, at, thrown, refused>>
    BY DEF RunStops, Stop, sessionVars, compactVars, listVars
<1>4. AgentTyped(nextId)'
    BY <1>1, <1>3 DEF AgentTyped, n
<1>5. SessionTyped(nextId)'
    BY <1>1, <1>2, <1>3 DEF SessionTyped, n
<1>6. AtTyped(nextId)' /\ BranchTyped(nextId)' /\ KeptBefore(branch)'
       /\ (\A x \in Actors : Fine(x, at[x], Len(branch)))'
    BY <1>1, <1>3, SamePlaces
<1>7. QED
    BY <1>1, <1>4, <1>5, <1>6 DEF TypeInv

LEMMA ThrowTypes == ASSUME TypeInv, RunThrows PROVE TypeInv'
<1> DEFINE n == nextId'
<1>1. /\ nextId' \in 1 .. MaxId + 1 /\ nextId <= nextId' /\ nextId' \in Nat
      /\ nextId \in 1 .. nextId' - 1 /\ AgentTyped(n) /\ SessionTyped(n)
    BY FreshIs, Still DEF RunThrows
<1>2. PICK reply \in FailedReplies : Break(reply) /\ Hear(<<>>, reply)
    BY DEF RunThrows
<1>3. reply \in Replies(n)
    BY <1>1, ReplyIs
<1>4. events' \in Seq(Events(n)) /\ retryPromise' \in BOOLEAN /\ unheard' \subseteq 0 .. n - 1
    BY <1>1, <1>2, EmptySeq, HearType
<1>5. transcript' \in Seq(Context(n)) /\ status' = "over" /\ owed' = {}
    BY <1>1, <1>2, <1>3, AppendProperties DEF AgentTyped, Break, Context, Spoken
<1> HIDE DEF n
<1>6. answered' = FALSE /\ thrown' = TRUE /\
      UNCHANGED <<queued, aborted, lastReply, retryAttempt, overflowTried, autoCompacting,
                  shown, pendingBash, branch, timers, at, refused>>
    BY DEF RunThrows, sessionVars, compactVars, listVars
<1>7. AgentTyped(nextId)'
    BY <1>1, <1>5, <1>6 DEF AgentTyped, n
<1>8. SessionTyped(nextId)'
    BY <1>1, <1>4, <1>6 DEF SessionTyped, n
<1>9. AtTyped(nextId)' /\ BranchTyped(nextId)' /\ KeptBefore(branch)'
       /\ (\A x \in Actors : Fine(x, at[x], Len(branch)))'
    BY <1>1, <1>6, SamePlaces
<1>10. QED
    BY <1>1, <1>7, <1>8, <1>9 DEF TypeInv

LEMMA SettleTypes == ASSUME TypeInv, RunSettles PROVE TypeInv'
<1>1. nextId' \in 1 .. MaxId + 1 /\ nextId <= nextId' /\ nextId' \in Nat /\ nextId' = nextId
    BY NoneGiven DEF RunSettles
<1>2. status' = "idle" /\
      UNCHANGED <<transcript, owed, queued, aborted, answered, events, lastReply, retryPromise, retryAttempt,
                  overflowTried, autoCompacting, shown, pendingBash, branch, timers, unheard, thrown, refused>>
    BY DEF RunSettles, Settle, sessionVars, compactVars, listVars, historyVars
<1>3. AgentTyped(nextId)'
    BY <1>1, <1>2 DEF TypeInv, AgentTyped
<1>4. SessionTyped(nextId)'
    BY <1>1, <1>2 DEF TypeInv, SessionTyped
<1>5. ASSUME NEW x \in Actors
      PROVE  at'[x] \in Places(nextId) /\ (at'[x] = at[x] \/ Fine(x, at'[x], Len(branch')))
  <2>1. /\ at'[x] = CASE at[x].where = "running" ->
                        IF retryPromise THEN Place("retry") ELSE Out(x)
                  [] at[x].where = "idle"     -> Out(x)
                  [] at[x].where = "aborting" -> Place("ready")
                  [] OTHER -> at[x]
        /\ at[x] \in Places(nextId) /\ Fine(x, at[x], Len(branch))
      BY DEF RunSettles, TypeInv, AtTyped
  <2>2. /\ Place("retry") \in Places(nextId) /\ Out(x) \in Places(nextId) /\ Place("ready") \in Places(nextId)
        /\ Place("retry").where = "retry" /\ Place("ready").where = "ready"
        /\ Out(x).where = (IF x = "handler" THEN "free" ELSE "out")
      BY <1>1, PlaceType
  <2>3. QED
      BY <2>1, <2>2, ActorsAre DEF Fine
<1>6. DOMAIN at' = Actors /\ at' = [x \in Actors |-> at'[x]]
    BY DEF RunSettles
<1>7. AtTyped(nextId)' /\ BranchTyped(nextId)' /\ KeptBefore(branch)'
    BY <1>1, <1>2, <1>5, <1>6 DEF AtTyped, BranchTyped, TypeInv, KeptBefore
<1>8. Len(branch') \in Nat /\ Len(branch) <= Len(branch')
    BY <1>2, LenProperties DEF TypeInv, BranchTyped
<1>9. \A x \in Actors : Fine(x, at'[x], Len(branch'))
    BY <1>5, <1>8, AllFine
<1>10. QED
    BY <1>1, <1>3, <1>4, <1>7, <1>9 DEF TypeInv

LEMMA TimerTypes == ASSUME TypeInv, TimerFires PROVE TypeInv'
<1>1. nextId' \in 1 .. MaxId + 1 /\ nextId <= nextId' /\ nextId' \in Nat /\ nextId' = nextId
    BY NoneGiven DEF TimerFires
<1>2. AgentTyped(nextId) /\ SessionTyped(nextId)
    BY DEF TypeInv
<1>3. timers > 0 /\ timers' = timers - 1 /\ at' = at
    BY DEF TimerFires
<1>4. timers' \in Nat
    BY <1>2, <1>3 DEF SessionTyped
<1>5. AgentTyped(nextId)' /\ SessionTyped(nextId)' /\ UNCHANGED branch
  <2>1. CASE status # "idle" \/ transcript = <<>> \/ (IsReply(Last(transcript)) /\ queued = <<>>)
    <3>1. /\ refused' = (refused \/ status = "idle")
          /\ UNCHANGED <<agentVars, events, retryPromise, heard, unheard,
                             overtaken, mistaken, thrown, sessionVars>>
        BY <2>1 DEF TimerFires
    <3>2. UNCHANGED <<transcript, status, owed, queued, aborted, answered, events, lastReply, retryPromise, retryAttempt,
                  overflowTried, autoCompacting, shown, pendingBash, branch, unheard, thrown>>
        BY <3>1 DEF agentVars, agent, sessionVars, compactVars, listVars
    <3>3. refused' \in BOOLEAN
        BY <3>1
    <3>4. AgentTyped(nextId)'
        BY <1>1, <1>2, <3>2 DEF AgentTyped
    <3>5. SessionTyped(nextId)'
        BY <1>1, <1>2, <1>4, <3>2, <3>3 DEF SessionTyped
    <3>6. QED
        BY <3>2, <3>4, <3>5
  <2>2. CASE ~(status # "idle" \/ transcript = <<>> \/ (IsReply(Last(transcript)) /\ queued = <<>>))
    <3>1. CASE status = "idle" /\ transcript # <<>> /\ IsReply(Last(transcript)) /\ queued # <<>>
      <4>1. queued' = Tail(queued) /\ BeginRun(<<Head(queued)>>)
          BY <2>2, <3>1 DEF TimerFires
      <4>2. Head(queued) \in Users(nextId) /\ Tail(queued) \in Seq(Users(nextId))
            /\ <<Head(queued)>> \in Seq(Users(nextId))
          BY <1>2, <3>1, QueueTail DEF AgentTyped
      <4>3. QED
          BY <4>1, <4>2, <1>1, <1>4, BeginTypes
    <3>2. CASE ~(status = "idle" /\ transcript # <<>> /\ IsReply(Last(transcript)) /\ queued # <<>>)
      <4>1. queued' = queued /\ BeginRun(<<>>)
          BY <2>2, <3>2 DEF TimerFires
      <4>2. <<>> \in Seq(Users(nextId)) /\ queued \in Seq(Users(nextId))
          BY <1>2, EmptySeq DEF AgentTyped
      <4>3. QED
          BY <4>1, <4>2, <1>1, <1>4, BeginTypes
    <3>3. QED
        BY <3>1, <3>2
  <2>3. QED
      BY <2>1, <2>2
<1>6. AtTyped(nextId)' /\ BranchTyped(nextId)' /\ KeptBefore(branch)'
       /\ (\A x \in Actors : Fine(x, at[x], Len(branch)))'
    BY <1>1, <1>3, <1>5, SamePlaces
<1>7. QED
    BY <1>1, <1>5, <1>6 DEF TypeInv

-----------------------------------------------------------------------------
(* The event handler *)

(* The first event is taken from the queue. *)
LEMMA TakeEvent ==
    ASSUME NEW X, events \in Seq(X), NEW i \in Due, events' = RemoveAt(events, i)
    PROVE  /\ at["handler"].where = "free"
           /\ events # <<>> /\ i = 1 /\ events[i] \in X
           /\ events' = Tail(events) /\ events' \in Seq(X)
<1>1. DOMAIN events = 1 .. Len(events) /\ Len(events) \in Nat
    BY LenProperties
<1>2. at["handler"].where = "free" /\ i = 1 /\ 1 \in 1 .. Len(events)
    BY <1>1 DEF Due
<1>3. events # <<>>
    BY <1>2
<1>4. events[1] \in X
    BY <1>2, ElementOfSeq
<1>5. SubSeq(events, 1, 0) = <<>>
    BY SubSeqEmpty
<1>6. Tail(events) = SubSeq(events, 2, Len(events))
    BY <1>3, TailIsSubSeq
<1>7. Tail(events) \in Seq(X)
    BY <1>3, HeadTailProperties
<1>8. events' = SubSeq(events, 1, 1 - 1) \o SubSeq(events, 1 + 1, Len(events))
    BY <1>2 DEF RemoveAt
<1>9. events' = <<>> \o Tail(events)
    BY <1>5, <1>6, <1>8
<1>10. QED
    BY <1>2, <1>3, <1>4, <1>7, <1>9, ConcatEmptySeq

(* An entry that is not a compaction joins the branch. *)
LEMMA BranchAdds ==
    ASSUME NEW n \in Nat, branch \in Seq(Entries(n)), KeptBefore(branch),
           NEW es \in Seq(Entries(n)), branch' = branch \o es,
           \A i \in DOMAIN es : es[i].role = "compaction" => es[i].kept \in 1 .. Len(branch')
    PROVE  branch' \in Seq(Entries(n)) /\ KeptBefore(branch')
           /\ Len(branch') \in Nat /\ Len(branch) <= Len(branch')
<1>1. /\ branch' \in Seq(Entries(n)) /\ Len(branch') = Len(branch) + Len(es)
      /\ \A i \in 1 .. Len(branch) + Len(es) : branch'[i] =
                     IF i <= Len(branch) THEN branch[i] ELSE es[i - Len(branch)]
    BY ConcatProperties
<1>2. /\ Len(branch) \in Nat /\ Len(es) \in Nat /\ DOMAIN branch = 1 .. Len(branch)
      /\ DOMAIN es = 1 .. Len(es) /\ DOMAIN branch' = 1 .. Len(branch')
    BY <1>1, LenProperties
<1>3. ASSUME NEW i \in DOMAIN branch', branch'[i].role = "compaction"
      PROVE  branch'[i].kept \in 1 .. Len(branch')
  <2>1. CASE i <= Len(branch)
    <3>1. branch'[i] = branch[i] /\ i \in DOMAIN branch
        BY <2>1, <1>1, <1>2
    <3>2. branch[i].kept \in 1 .. Len(branch)
        BY <3>1, <1>3 DEF KeptBefore
    <3>3. QED
        BY <3>1, <3>2, <1>1, <1>2
  <2>2. CASE ~(i <= Len(branch))
    <3>1. branch'[i] = es[i - Len(branch)] /\ i - Len(branch) \in DOMAIN es
        BY <2>2, <1>1, <1>2
    <3>2. QED
        BY <3>1, <1>3
  <2>3. QED
      BY <2>1, <2>2
<1>4. QED
    BY <1>1, <1>2, <1>3 DEF KeptBefore

LEMMA MessageTypes == ASSUME TypeInv, ProcessMessage PROVE TypeInv'
<1> DEFINE n == nextId
<1>1. nextId' = nextId /\ nextId \in Nat /\ nextId \in 1 .. MaxId + 1
    BY SessionAssumption DEF TypeInv, ProcessMessage
<1>2. AgentTyped(n) /\ SessionTyped(n) /\ BranchTyped(n) /\ AtTyped(n)
    BY DEF TypeInv
<1>3. PICK i \in Due :
        LET m == events[i]
        IN   /\ m # AgentEnd
             /\ events' = RemoveAt(events, i)
             /\ branch' = Append(branch, m)
             /\ shown' = Keep(shown, ToSet(shown) \ {m})
             /\ lastReply' = IF IsReply(m) THEN m ELSE lastReply
             /\ overflowTried' = (overflowTried /\ m.role # "user" /\ ~Recovered(m))
             /\ retryAttempt' = IF Recovered(m) THEN 0 ELSE retryAttempt
    BY DEF ProcessMessage
<1> DEFINE m == events[i]
<1>4. m \in Events(n) /\ events' \in Seq(Events(n))
    BY <1>2, <1>3, TakeEvent DEF SessionTyped
<1>5. m \in Spoken(n)
    BY <1>3, <1>4 DEF Events
<1>6. m \in Entries(n) /\ m.role # "compaction"
    BY <1>1, <1>5, MessageIs DEF Entries, Spoken
<1>7. IsReply(m) => m \in ReplyOr(n)
    BY <1>1, <1>5, MessageIs DEF Spoken, ReplyOr, IsReply
<1> HIDE DEF m, n
<1>8. /\ branch' \in Seq(Entries(n)) /\ KeptBefore(branch') /\ Len(branch') \in Nat
      /\ Len(branch) <= Len(branch')
  <2>1. branch' = branch \o <<m>> /\ <<m>> \in Seq(Entries(n))
      BY <1>2, <1>3, <1>6, AppendIsConcat DEF BranchTyped, m
  <2>2. \A j \in DOMAIN <<m>> : <<m>>[j].role = "compaction" => <<m>>[j].kept \in 1 .. Len(branch')
      BY <1>6
  <2>3. QED
      BY <2>1, <2>2, <1>1, <1>2, BranchAdds DEF BranchTyped, TypeInv, n
<1>9. shown' \in Seq(Users(n))
    BY <1>2, <1>3, KeepType DEF SessionTyped
<1>10. /\ lastReply' \in ReplyOr(n) /\ overflowTried' \in BOOLEAN /\ retryAttempt' \in 0 .. MaxRetries
  <2>1. 0 \in 0 .. MaxRetries
      BY SessionAssumption
  <2>2. QED
      BY <2>1, <1>2, <1>3, <1>7 DEF SessionTyped, m
<1>11. UNCHANGED <<transcript, status, owed, queued, aborted, answered, retryPromise, autoCompacting, pendingBash,
                   timers, at, unheard, thrown, refused>>
    BY DEF ProcessMessage, agentVars, agent, historyVars
<1>12. AgentTyped(nextId)'
    BY <1>1, <1>2, <1>11 DEF AgentTyped, n
<1>13. SessionTyped(nextId)'
    BY <1>1, <1>2, <1>4, <1>9, <1>10, <1>11 DEF SessionTyped, n
<1>14. AtTyped(nextId)' /\ BranchTyped(nextId)'
    BY <1>1, <1>2, <1>8, <1>11 DEF AtTyped, BranchTyped, n
<1>15. \A x \in Actors : Fine(x, at'[x], Len(branch'))
    BY <1>8, <1>11, AllFine
<1>16. QED
    BY <1>1, <1>8, <1>12, <1>13, <1>14, <1>15 DEF TypeInv

(* What is said of the places of who waits for a retry *)
LEMMA ResolvedIs ==
    ASSUME NEW n \in Nat, NEW places \in [Actors -> Places(n)]
    PROVE  /\ Resolved(places) \in [Actors -> Places(n)]
           /\ \A x \in Actors :
                IF places[x].where = "retry"
                THEN /\ Resolved(places)[x].where \in {Out(x).where, "idle"}
                     /\ Resolved(places)[x].retry = FALSE
                ELSE Resolved(places)[x] = places[x]
<1>1. \A x : /\ Out(x) \in Places(n) /\ Out(x).retry = FALSE
             /\ Place("idle") \in Places(n) /\ Place("idle").where = "idle" /\ Place("idle").retry = FALSE
    BY PlaceType
<1>2. \A x \in Actors : Resolved(places)[x] =
          IF places[x].where # "retry" THEN places[x]
          ELSE IF status = "idle" THEN Out(x) ELSE Place("idle")
    BY DEF Resolved
<1>3. \A x \in Actors : places[x] \in Places(n)
    OBVIOUS
<1>4. Resolved(places) \in [Actors -> Places(n)]
    BY <1>1, <1>3 DEF Resolved
<1>5. QED
    BY <1>1, <1>2, <1>4

LEMMA ResolvedFine ==
    ASSUME TypeInv
    PROVE  \A x \in Actors : Resolved(at)[x] = at[x] \/ Fine(x, Resolved(at)[x], Len(branch))
<1>1. nextId \in Nat /\ at \in [Actors -> Places(nextId)]
    BY SessionAssumption DEF TypeInv, AtTyped
<1>2. \A x \in Actors :
                IF at[x].where = "retry"
                THEN /\ Resolved(at)[x].where \in {Out(x).where, "idle"}
                     /\ Resolved(at)[x].retry = FALSE
                ELSE Resolved(at)[x] = at[x]
    BY <1>1, ResolvedIs
<1>3. \A x \in Actors : at[x].where = "retry" => x \in Callers
    BY ActorsAre DEF TypeInv, Fine
<1>4. \A c \in Callers : Out(c).where = "out"
    BY PlaceType, <1>1, ActorsAre
<1>5. QED
    BY <1>2, <1>3, <1>4, ActorsAre DEF Fine

LEMMA NoRetryTypes ==
    ASSUME TypeInv, NEW reply, NoRetry(reply), UNCHANGED <<branch, nextId>>
    PROVE  /\ transcript' \in Seq(Context(nextId))
           /\ autoCompacting' \in BOOLEAN /\ overflowTried' \in BOOLEAN /\ retryPromise' = FALSE
           /\ AtTyped(nextId)'
           /\ \A x \in Actors : Fine(x, at'[x], Len(branch'))
<1> DEFINE n == nextId
           q == Resolved(at)
<1>1. n \in Nat /\ AgentTyped(n) /\ SessionTyped(n) /\ BranchTyped(n) /\ AtTyped(n)
    BY SessionAssumption DEF TypeInv
<1>2. retryPromise' = FALSE /\ CheckCompaction("handler", q, reply, TRUE, Out("handler"), transcript, branch)
    BY DEF NoRetry
<1>3. q \in [Actors -> Places(n)]
    BY <1>1, ResolvedIs DEF AtTyped
<1>4. Out("handler") \in Places(n) /\ Out("handler").where = "free"
    BY <1>1, PlaceType
<1>5. /\ transcript' \in Seq(Context(n))
      /\ autoCompacting' \in BOOLEAN /\ overflowTried' \in BOOLEAN
      /\ \E p \in Places(n) :
           /\ at' = [q EXCEPT !["handler"] = p]
           /\ p # Out("handler") => p.where = "compacting" /\ p.kept \in 1 .. Len(branch)
  <2>1. /\ transcript \in Seq(Context(n)) /\ branch \in Seq(Entries(n))
        /\ autoCompacting \in BOOLEAN /\ overflowTried \in BOOLEAN
      BY <1>1 DEF AgentTyped, SessionTyped, BranchTyped
  <2>2. "handler" \in Actors
      BY ActorsAre
  <2> DEFINE next == Out("handler")
  <2> HIDE DEF n, q, next
  <2>3. PICK Q, next0, t, entries :
            Q = q /\ next0 = next /\ t = transcript /\ entries = branch
      OBVIOUS
  <2>4. CheckCompaction("handler", Q, reply, TRUE, next0, t, entries)
      BY <1>2, <2>3 DEF CheckCompaction, Strip, next
  <2>6. /\ n \in Nat /\ Q \in [Actors -> Places(n)] /\ next0 \in Places(n)
        /\ t \in Seq(Context(n)) /\ entries \in Seq(Entries(n))
      BY <1>1, <1>3, <1>4, <2>1, <2>3 DEF next
  <2>7. /\ transcript' \in Seq(Context(n))
        /\ autoCompacting' \in BOOLEAN /\ overflowTried' \in BOOLEAN
        /\ \E p \in Places(n) :
             /\ at' = [Q EXCEPT !["handler"] = p]
             /\ p # next0 => p.where = "compacting" /\ p.kept \in 1 .. Len(entries)
      BY <2>1, <2>2, <2>4, <2>6, CheckIs
  <2>8. QED
      BY <2>3, <2>7 DEF next
<1>6. PICK p \in Places(n) :
           /\ at' = [q EXCEPT !["handler"] = p]
           /\ p # Out("handler") => p.where = "compacting" /\ p.kept \in 1 .. Len(branch)
    BY <1>5
<1>7. \A x \in Actors : q[x] = at[x] \/ Fine(x, q[x], Len(branch))
    BY ResolvedFine
<1>8. Len(branch') \in Nat /\ Len(branch) <= Len(branch') /\ Len(branch') = Len(branch)
    BY <1>1, LenProperties DEF BranchTyped
<1>9. Fine("handler", p, Len(branch'))
    BY <1>4, <1>6, <1>8, ActorsAre DEF Fine
<1> HIDE DEF q, n
<1>10. at' \in [Actors -> Places(n)] /\ \A x \in Actors : at'[x] = IF x = "handler" THEN p ELSE q[x]
    BY <1>3, <1>6
<1>11. \A x \in Actors : at'[x] = at[x] \/ Fine(x, at'[x], Len(branch'))
    BY <1>7, <1>8, <1>9, <1>10
<1>12. QED
    BY <1>2, <1>5, <1>8, <1>10, <1>11, AllFine DEF AtTyped, n

LEMMA EndTypes == ASSUME TypeInv, ProcessEnd PROVE TypeInv'
<1> DEFINE n == nextId
<1>1. nextId' = nextId /\ nextId \in Nat /\ nextId \in 1 .. MaxId + 1
    BY SessionAssumption DEF TypeInv, ProcessEnd, unchangedByEnd
<1>2. AgentTyped(n) /\ SessionTyped(n) /\ BranchTyped(n) /\ AtTyped(n)
    BY DEF TypeInv
<1>3. PICK i \in Due : events[i] = AgentEnd /\ events' = RemoveAt(events, i)
    BY DEF ProcessEnd
<1>4. events' \in Seq(Events(n)) /\ at["handler"].where = "free"
    BY <1>2, <1>3, TakeEvent DEF SessionTyped
<1>5. lastReply' = NoMessage /\ NoMessage \in ReplyOr(n)
      /\ UNCHANGED <<status, owed, queued, aborted, answered, shown, pendingBash, branch,
                    timers, unheard, thrown, refused>>
    BY DEF ProcessEnd, unchangedByEnd, listVars, ReplyOr
<1> DEFINE Rest == /\ transcript' \in Seq(Context(n))
                   /\ autoCompacting' \in BOOLEAN /\ overflowTried' \in BOOLEAN /\ retryPromise' \in BOOLEAN
                   /\ retryAttempt' \in 0 .. MaxRetries
                   /\ AtTyped(nextId)'
                   /\ \A x \in Actors : Fine(x, at'[x], Len(branch'))
<1>6. Rest
  <2>1. CASE lastReply = NoMessage
    <3>1. UNCHANGED <<transcript, retryPromise, retryAttempt, overflowTried, autoCompacting, at>>
        BY <2>1 DEF ProcessEnd, compactVars
    <3>2. \A x \in Actors : Fine(x, at[x], Len(branch))
        BY DEF TypeInv
    <3>3. QED
        BY <1>1, <1>2, <1>5, <3>1, <3>2 DEF AgentTyped, SessionTyped, AtTyped
  <2>2. CASE lastReply # NoMessage /\ lastReply.why = "retryable" /\ AttemptsLeft
    <3> DEFINE p == [Place("sleeping") EXCEPT !.reply = lastReply]
    <3>1. /\ retryPromise' = TRUE
          /\ retryAttempt' = retryAttempt + 1
          /\ Strip(transcript)
          /\ at' = [at EXCEPT !["handler"] = p]
          /\ UNCHANGED <<overflowTried, autoCompacting>>
        BY <2>2 DEF ProcessEnd, compactVars
    <3>2. p \in Places(n) /\ p.where = "sleeping" /\ p.reply = lastReply
        BY <1>2 DEF Place, Places, SessionTyped
    <3>3. Fine("handler", p, Len(branch'))
        BY <3>2, <2>2, ActorsAre DEF Fine
    <3> HIDE DEF p, n
    <3>4. /\ at' \in [Actors -> Places(n)]
          /\ \A x \in Actors : at'[x] = IF x = "handler" THEN p ELSE at[x]
        BY <1>2, <3>1, <3>2 DEF AtTyped
    <3>5. \A x \in Actors : at'[x] = at[x] \/ Fine(x, at'[x], Len(branch'))
        BY <3>3, <3>4
    <3>6. Len(branch') \in Nat /\ Len(branch) <= Len(branch')
        BY <1>2, <1>5, LenProperties DEF BranchTyped
    <3>7. \A x \in Actors : Fine(x, at'[x], Len(branch'))
        BY <3>5, <3>6, AllFine
    <3>8. transcript' \in Seq(Context(n))
        BY <1>2, <3>1, FrontIs DEF Strip, AgentTyped
    <3>9. retryAttempt' \in 0 .. MaxRetries
        BY <1>2, <2>2, <3>1, SessionAssumption DEF SessionTyped, AttemptsLeft
    <3>10. QED
        BY <1>1, <1>2, <3>1, <3>4, <3>7, <3>8, <3>9 DEF SessionTyped, AtTyped, n
  <2>3. CASE lastReply # NoMessage /\ ~(lastReply.why = "retryable" /\ AttemptsLeft)
    <3>1. NoRetry(lastReply) /\ retryAttempt' \in {0, retryAttempt}
        BY <2>3 DEF ProcessEnd
    <3>2. retryAttempt' \in 0 .. MaxRetries
        BY <1>2, <3>1, SessionAssumption DEF SessionTyped
    <3>3. /\ transcript' \in Seq(Context(nextId))
          /\ autoCompacting' \in BOOLEAN /\ overflowTried' \in BOOLEAN /\ retryPromise' = FALSE
          /\ AtTyped(nextId)'
          /\ \A x \in Actors : Fine(x, at'[x], Len(branch'))
        BY <1>1, <1>5, <3>1, NoRetryTypes
    <3>4. QED
        BY <3>2, <3>3
  <2>4. QED
      BY <2>1, <2>2, <2>3
<1> HIDE DEF n
<1>7. AgentTyped(nextId)'
    BY <1>1, <1>2, <1>5, <1>6 DEF AgentTyped, n
<1>8. SessionTyped(nextId)'
    BY <1>1, <1>2, <1>4, <1>5, <1>6 DEF SessionTyped, n
<1>9. BranchTyped(nextId)' /\ KeptBefore(branch)'
    BY <1>1, <1>2, <1>5 DEF BranchTyped, KeptBefore, TypeInv, n
<1>10. QED
    BY <1>1, <1>6, <1>7, <1>8, <1>9 DEF TypeInv

(* One actor goes somewhere, and the branch stays. *)
LEMMA MoveTypes ==
    ASSUME TypeInv, NEW x \in Actors, NEW p \in Places(nextId), at' = [at EXCEPT ![x] = p],
           UNCHANGED <<branch, nextId>>, Fine(x, p, Len(branch))
    PROVE  AtTyped(nextId)' /\ BranchTyped(nextId)' /\ KeptBefore(branch)'
           /\ (\A y \in Actors : Fine(y, at[y], Len(branch)))'
<1>1. at \in [Actors -> Places(nextId)] /\ BranchTyped(nextId) /\ KeptBefore(branch)
      /\ \A y \in Actors : Fine(y, at[y], Len(branch))
    BY DEF TypeInv, AtTyped
<1>2. at' \in [Actors -> Places(nextId)] /\ \A y \in Actors : at'[y] = IF y = x THEN p ELSE at[y]
    BY <1>1
<1>3. QED
    BY <1>1, <1>2 DEF AtTyped, BranchTyped, KeptBefore

LEMMA SleepTypes == ASSUME TypeInv, SleepEnds PROVE TypeInv'
<1>1. nextId' = nextId /\ nextId \in Nat /\ nextId \in 1 .. MaxId + 1 /\ branch' = branch
    BY SessionAssumption DEF TypeInv, SleepEnds
<1>2. AgentTyped(nextId) /\ SessionTyped(nextId)
    BY DEF TypeInv
<1>3. Out("handler") \in Places(nextId) /\ Out("handler").where = "free"
    BY <1>1, PlaceType
<1>4. Fine("handler", Out("handler"), Len(branch))
    BY <1>3, ActorsAre DEF Fine
<1>5. /\ at' = [at EXCEPT !["handler"] = Out("handler")] /\ timers' = timers + 1
      /\ UNCHANGED <<transcript, status, owed, queued, aborted, answered, events, lastReply, retryPromise, retryAttempt,
                    overflowTried, autoCompacting, shown, pendingBash, unheard, thrown, refused>>
    BY DEF SleepEnds, agentVars, agent, compactVars, listVars, historyVars
<1>6. AtTyped(nextId)' /\ BranchTyped(nextId)' /\ KeptBefore(branch)'
           /\ (\A y \in Actors : Fine(y, at[y], Len(branch)))'
    BY <1>1, <1>3, <1>4, <1>5, ActorsAre, MoveTypes
<1>7. AgentTyped(nextId)'
    BY <1>1, <1>2, <1>5 DEF AgentTyped
<1>8. SessionTyped(nextId)'
    BY <1>1, <1>2, <1>5 DEF SessionTyped
<1>9. QED
    BY <1>1, <1>6, <1>7, <1>8 DEF TypeInv

LEMMA CancelledTypes == ASSUME TypeInv, RetryCancelled PROVE TypeInv'
<1> DEFINE n == nextId
<1>1. nextId' = nextId /\ nextId \in Nat /\ nextId \in 1 .. MaxId + 1
    BY SessionAssumption DEF TypeInv, RetryCancelled, unchangedByEnd
<1>2. AgentTyped(n) /\ SessionTyped(n) /\ BranchTyped(n)
    BY DEF TypeInv
<1>3. /\ retryAttempt' = 0 /\ NoRetry(at["handler"].reply)
      /\ UNCHANGED <<events, lastReply, status, owed, queued, aborted, answered, shown, pendingBash, branch,
                    timers, unheard, thrown, refused>>
    BY DEF RetryCancelled, unchangedByEnd, listVars
<1>4. 0 \in 0 .. MaxRetries
    BY SessionAssumption
<1>5. /\ transcript' \in Seq(Context(nextId))
      /\ autoCompacting' \in BOOLEAN /\ overflowTried' \in BOOLEAN /\ retryPromise' = FALSE
      /\ AtTyped(nextId)'
      /\ \A x \in Actors : Fine(x, at'[x], Len(branch'))
    BY <1>1, <1>3, NoRetryTypes
<1> HIDE DEF n
<1>6. AgentTyped(nextId)'
    BY <1>1, <1>2, <1>3, <1>5 DEF AgentTyped, n
<1>7. SessionTyped(nextId)'
    BY <1>1, <1>2, <1>3, <1>4, <1>5 DEF SessionTyped, n
<1>8. BranchTyped(nextId)' /\ KeptBefore(branch)'
    BY <1>1, <1>2, <1>3 DEF BranchTyped, KeptBefore, TypeInv, n
<1>9. QED
    BY <1>1, <1>5, <1>6, <1>7, <1>8 DEF TypeInv


-----------------------------------------------------------------------------
(* The callers *)

LEMMA CommandsJoin ==
    ASSUME TypeInv
    PROVE  /\ transcript \o pendingBash \in Seq(Context(nextId))
           /\ branch \o pendingBash \in Seq(Entries(nextId))
           /\ KeptBefore(branch \o pendingBash)
           /\ Len(branch) \in Nat /\ Len(branch \o pendingBash) \in Nat
           /\ Len(branch) <= Len(branch \o pendingBash)
<1> DEFINE n == nextId
<1>1. /\ n \in Nat /\ transcript \in Seq(Context(n)) /\ branch \in Seq(Entries(n))
      /\ pendingBash \in Seq(Bashes(n)) /\ KeptBefore(branch)
    BY SessionAssumption DEF TypeInv, AgentTyped, BranchTyped, SessionTyped
<1>2. Bashes(n) \subseteq Context(n) /\ Bashes(n) \subseteq Entries(n)
    BY DEF Context, Entries
<1> HIDE DEF n
<1>3. pendingBash \in Seq(Context(n)) /\ pendingBash \in Seq(Entries(n))
    BY <1>1, <1>2, SeqMonotonic
<1>4. transcript \o pendingBash \in Seq(Context(n))
    BY <1>1, <1>3, ConcatProperties
<1>5. \A i \in DOMAIN pendingBash : pendingBash[i].role # "compaction"
  <2>1. \A i \in DOMAIN pendingBash : pendingBash[i] \in Bashes(n)
      BY <1>1, ElementOfSeq, LenProperties
  <2>2. QED
      BY <2>1, <1>1, MessageIs
<1> DEFINE es == branch \o pendingBash
<1>6. /\ es \in Seq(Entries(n)) /\ Len(es) = Len(branch) + Len(pendingBash)
      /\ \A i \in 1 .. Len(branch) + Len(pendingBash) : es[i] =
                     IF i <= Len(branch) THEN branch[i] ELSE pendingBash[i - Len(branch)]
    BY <1>1, <1>3, ConcatProperties
<1>7. /\ Len(branch) \in Nat /\ Len(pendingBash) \in Nat /\ DOMAIN branch = 1 .. Len(branch)
      /\ DOMAIN pendingBash = 1 .. Len(pendingBash) /\ DOMAIN es = 1 .. Len(es)
    BY <1>1, <1>6, LenProperties
<1> HIDE DEF es
<1>8. KeptBefore(es)
  <2> SUFFICES ASSUME NEW i \in DOMAIN es, es[i].role = "compaction"
               PROVE  es[i].kept \in 1 .. Len(es)
      BY DEF KeptBefore
  <2>1. i <= Len(branch)
    <3> SUFFICES ASSUME ~(i <= Len(branch)) PROVE FALSE
        OBVIOUS
    <3>1. es[i] = pendingBash[i - Len(branch)] /\ i - Len(branch) \in DOMAIN pendingBash
        BY <1>6, <1>7
    <3>2. QED
        BY <3>1, <1>5
  <2>2. es[i] = branch[i] /\ i \in DOMAIN branch
      BY <2>1, <1>6, <1>7
  <2>3. branch[i].kept \in 1 .. Len(branch)
      BY <2>2, <1>1 DEF KeptBefore
  <2>4. QED
      BY <2>2, <2>3, <1>6, <1>7
<1>9. QED
    BY <1>4, <1>6, <1>7, <1>8 DEF es, n

LEMMA PromptTypes == ASSUME TypeInv, NEW c \in Callers, Prompt(c) PROVE TypeInv'
<1> DEFINE n == nextId
           t == transcript \o pendingBash
           es == branch \o pendingBash
           replies == Keep(t, {m \in ToSet(t) : IsReply(m)})
<1>1. nextId' = nextId /\ nextId \in Nat /\ nextId \in 1 .. MaxId + 1
    BY SessionAssumption DEF TypeInv, Prompt
<1>2. AgentTyped(n) /\ SessionTyped(n) /\ BranchTyped(n) /\ AtTyped(n) /\ c \in Actors
    BY ActorsAre DEF TypeInv
<1>3. /\ t \in Seq(Context(n)) /\ es \in Seq(Entries(n)) /\ KeptBefore(es)
      /\ Len(branch) \in Nat /\ Len(es) \in Nat /\ Len(branch) <= Len(es)
    BY CommandsJoin
<1>4. /\ branch' = es /\ pendingBash' = <<>>
      /\ IF replies # <<>>
         THEN CheckCompaction(c, at, Last(replies), FALSE, Place("hooks"), t, es)
         ELSE /\ transcript' = t
              /\ at' = [at EXCEPT ![c] = Place("hooks")]
              /\ UNCHANGED <<compactVars, mistaken>>
      /\ UNCHANGED <<status, owed, queued, aborted, answered, events, lastReply,
                   retryPromise, retryAttempt, shown, timers, unheard, thrown, refused>>
    BY DEF Prompt
<1>5. Place("hooks") \in Places(n) /\ Place("hooks").where = "hooks"
    BY <1>1, PlaceType
<1>6. /\ transcript' \in Seq(Context(n))
      /\ autoCompacting' \in BOOLEAN /\ overflowTried' \in BOOLEAN
      /\ \E p \in Places(n) :
           /\ at' = [at EXCEPT ![c] = p]
           /\ p # Place("hooks") => p.where = "compacting" /\ p.kept \in 1 .. Len(es)
  <2>1. autoCompacting \in BOOLEAN /\ overflowTried \in BOOLEAN /\ at \in [Actors -> Places(n)]
      BY <1>2 DEF SessionTyped, AtTyped
  <2>2. CASE replies # <<>>
    <3> DEFINE next == Place("hooks")
    <3> HIDE DEF n, next, t, es, replies
    <3>1. PICK P, next0, t0, e0, m0 :
              P = at /\ next0 = next /\ t0 = t /\ e0 = es /\ m0 = Last(replies)
        OBVIOUS
    <3>2. CheckCompaction(c, P, m0, FALSE, next0, t0, e0)
        BY <1>4, <2>2, <3>1 DEF CheckCompaction, Strip, next
    <3>3. /\ n \in Nat /\ P \in [Actors -> Places(n)] /\ next0 \in Places(n)
          /\ t0 \in Seq(Context(n)) /\ e0 \in Seq(Entries(n))
        BY <1>1, <1>3, <1>5, <2>1, <3>1 DEF next, n
    <3>4. /\ transcript' \in Seq(Context(n))
          /\ autoCompacting' \in BOOLEAN /\ overflowTried' \in BOOLEAN
          /\ \E p \in Places(n) :
               /\ at' = [P EXCEPT ![c] = p]
               /\ p # next0 => p.where = "compacting" /\ p.kept \in 1 .. Len(e0)
        BY <1>2, <2>1, <3>2, <3>3, CheckIs
    <3>5. QED
        BY <3>1, <3>4 DEF next
  <2>3. CASE ~(replies # <<>>)
      BY <2>1, <2>3, <1>3, <1>4, <1>5 DEF compactVars
  <2>4. QED
      BY <2>2, <2>3
<1>7. PICK p \in Places(n) :
           /\ at' = [at EXCEPT ![c] = p]
           /\ p # Place("hooks") => p.where = "compacting" /\ p.kept \in 1 .. Len(es)
    BY <1>6
<1>8. Fine(c, p, Len(es))
    BY <1>5, <1>7, ActorsAre DEF Fine
<1> HIDE DEF n, t, es, replies
<1>9. at' \in [Actors -> Places(n)] /\ \A x \in Actors : at'[x] = IF x = c THEN p ELSE at[x]
    BY <1>2, <1>7 DEF AtTyped
<1>10. \A x \in Actors : Fine(x, at'[x], Len(branch'))
    BY <1>3, <1>4, <1>8, <1>9, AllFine
<1>11. AgentTyped(nextId)'
    BY <1>1, <1>2, <1>4, <1>6 DEF AgentTyped, n
<1>12. SessionTyped(nextId)'
    BY <1>1, <1>2, <1>4, <1>6, EmptySeq DEF SessionTyped, n
<1>13. AtTyped(nextId)' /\ BranchTyped(nextId)' /\ KeptBefore(branch)'
    BY <1>1, <1>3, <1>4, <1>9 DEF AtTyped, BranchTyped, KeptBefore, n
<1>14. QED
    BY <1>1, <1>10, <1>11, <1>12, <1>13 DEF TypeInv

LEMMA SendTypes == ASSUME TypeInv, NEW c \in Callers, SendPrompt(c) PROVE TypeInv'
<1>1. at[c].where = "hooks" /\ timers' = timers /\ c \in Actors
    BY ActorsAre DEF SendPrompt
<1>2. CASE status = "idle"
  <2>1. /\ nextId' \in 1 .. MaxId + 1 /\ nextId <= nextId' /\ nextId' \in Nat
        /\ nextId \in 1 .. nextId' - 1 /\ AgentTyped(nextId') /\ SessionTyped(nextId')
        /\ BranchTyped(nextId') /\ AtTyped(nextId')
      BY <1>2, FreshIs, Still DEF SendPrompt
  <2> DEFINE ms == <<User(nextId)>>
  <2>2. User(nextId) \in Users(nextId')
      BY <2>1, MessageIs
  <2>3. /\ ms \in Seq(Users(nextId')) /\ queued' \in Seq(Users(nextId')) /\ timers' \in Nat
        /\ BeginRun(ms) /\ at' = [at EXCEPT ![c] = Place("running")]
      BY <1>1, <1>2, <2>1, <2>2 DEF SendPrompt, AgentTyped, SessionTyped
  <2> HIDE DEF ms
  <2>4. AgentTyped(nextId)' /\ SessionTyped(nextId)' /\ UNCHANGED branch
    <3>1. PICK m0 : m0 = ms
        OBVIOUS
    <3>2. BeginRun(m0) /\ m0 \in Seq(Users(nextId'))
        BY <2>3, <3>1 DEF BeginRun, Begin, Hear
    <3>3. QED
        BY <2>1, <2>3, <3>2, BeginTypes
  <2>5. Place("running") \in Places(nextId') /\ Place("running").where = "running"
      BY <2>1, PlaceType
  <2>6. Len(branch') \in Nat /\ Len(branch') = Len(branch)
      BY <2>1, <2>4, LenProperties DEF BranchTyped
  <2>7. Fine(c, Place("running"), Len(branch'))
      BY <2>5, ActorsAre DEF Fine
  <2>8. at' \in [Actors -> Places(nextId')]
        /\ \A x \in Actors : at'[x] = IF x = c THEN Place("running") ELSE at[x]
      BY <1>1, <2>1, <2>3, <2>5 DEF AtTyped
  <2>9. \A x \in Actors : Fine(x, at'[x], Len(branch'))
      BY <2>6, <2>7, <2>8, AllFine
  <2>10. AtTyped(nextId)' /\ BranchTyped(nextId)' /\ KeptBefore(branch)'
      BY <2>1, <2>4, <2>8 DEF AtTyped, BranchTyped, KeptBefore, TypeInv
  <2>11. QED
      BY <2>1, <2>4, <2>9, <2>10 DEF TypeInv
<1>3. CASE status # "idle"
  <2>1. nextId' = nextId /\ nextId \in Nat /\ nextId \in 1 .. MaxId + 1 /\ branch' = branch
      BY <1>3, SessionAssumption DEF TypeInv, SendPrompt, sessionVars
  <2>2. /\ at' = [at EXCEPT ![c] = Out(c)]
        /\ UNCHANGED <<transcript, status, owed, queued, aborted, answered, events, lastReply, retryPromise,
              retryAttempt, overflowTried, autoCompacting, shown, pendingBash, unheard, thrown, refused>>
      BY <1>3 DEF SendPrompt, agentVars, agent, sessionVars, compactVars, listVars, historyVars
  <2>3. Out(c) \in Places(nextId) /\ Out(c).where = "out"
      BY <2>1, PlaceType, ActorsAre
  <2>4. Fine(c, Out(c), Len(branch))
      BY <2>3, ActorsAre DEF Fine
  <2>5. AtTyped(nextId)' /\ BranchTyped(nextId)' /\ KeptBefore(branch)'
           /\ (\A y \in Actors : Fine(y, at[y], Len(branch)))'
      BY <1>1, <2>1, <2>2, <2>3, <2>4, MoveTypes
  <2>6. AgentTyped(nextId)' /\ SessionTyped(nextId)'
      BY <1>1, <2>1, <2>2 DEF AgentTyped, SessionTyped, TypeInv
  <2>7. QED
      BY <2>1, <2>5, <2>6 DEF TypeInv
<1>4. QED
    BY <1>2, <1>3

LEMMA QueueTypes == ASSUME TypeInv, QueueSteer PROVE TypeInv'
<1> DEFINE n == nextId'
<1>1. /\ nextId' \in 1 .. MaxId + 1 /\ nextId <= nextId' /\ nextId' \in Nat
      /\ nextId \in 1 .. nextId' - 1 /\ AgentTyped(n) /\ SessionTyped(n)
    BY FreshIs, Still DEF QueueSteer
<1>2. User(nextId) \in Users(n)
    BY <1>1, MessageIs
<1>3. /\ shown' = Append(shown, User(nextId)) /\ queued' = Append(queued, User(nextId))
      /\ UNCHANGED <<transcript, status, owed, aborted, answered, events, lastReply, retryPromise,
                   retryAttempt, overflowTried, autoCompacting, pendingBash, branch, timers, at,
                   unheard, thrown, refused>>
    BY DEF QueueSteer, agent, compactVars, historyVars
<1> HIDE DEF n
<1>4. shown' \in Seq(Users(n)) /\ queued' \in Seq(Users(n))
    BY <1>1, <1>2, <1>3, AppendProperties DEF AgentTyped, SessionTyped
<1>5. AgentTyped(nextId)' /\ SessionTyped(nextId)'
    BY <1>1, <1>3, <1>4 DEF AgentTyped, SessionTyped, n
<1>6. AtTyped(nextId)' /\ BranchTyped(nextId)' /\ KeptBefore(branch)'
       /\ (\A x \in Actors : Fine(x, at[x], Len(branch)))'
    BY <1>1, <1>3, SamePlaces
<1>7. QED
    BY <1>1, <1>5, <1>6 DEF TypeInv

LEMMA ClearTypes == ASSUME TypeInv, ClearQueue PROVE TypeInv'
<1>1. nextId' \in 1 .. MaxId + 1 /\ nextId <= nextId' /\ nextId' \in Nat /\ nextId' = nextId
    BY NoneGiven DEF ClearQueue
<1>2. /\ shown' = <<>> /\ queued' = <<>>
      /\ UNCHANGED <<transcript, status, owed, aborted, answered, events, lastReply, retryPromise,
                   retryAttempt, overflowTried, autoCompacting, pendingBash, branch, timers, at,
                   unheard, thrown, refused>>
    BY DEF ClearQueue, agent, compactVars, historyVars
<1>3. AgentTyped(nextId)' /\ SessionTyped(nextId)'
    BY <1>1, <1>2, EmptySeq DEF AgentTyped, SessionTyped, TypeInv
<1>4. AtTyped(nextId)' /\ BranchTyped(nextId)' /\ KeptBefore(branch)'
       /\ (\A x \in Actors : Fine(x, at[x], Len(branch)))'
    BY <1>1, <1>2, SamePlaces
<1>5. QED
    BY <1>1, <1>3, <1>4 DEF TypeInv

LEMMA AbortIs ==
    ASSUME NEW n \in Nat, NEW length \in Nat, NEW places \in [Actors -> Places(n)],
           \A x \in Actors : Fine(x, places[x], length),
           AbortAll(places)
    PROVE  /\ at' \in [Actors -> Places(n)] /\ \A x \in Actors : Fine(x, at'[x], length)
           /\ retryPromise' = FALSE /\ aborted' = (status = "running")
           /\ \A x \in Actors \ {"handler"} : at'[x] = Resolved(places)[x]
           /\ at'["handler"] = IF places["handler"].where = "sleeping"
                               THEN [places["handler"] EXCEPT !.where = "cancelled"]
                               ELSE places["handler"]
<1> DEFINE q == Resolved(places)
           h == IF q["handler"].where = "sleeping"
                THEN [q["handler"] EXCEPT !.where = "cancelled"] ELSE q["handler"]
<1>1. /\ q \in [Actors -> Places(n)]
      /\ \A x \in Actors :
                IF places[x].where = "retry"
                THEN /\ q[x].where \in {Out(x).where, "idle"}
                     /\ q[x].retry = FALSE
                ELSE q[x] = places[x]
    BY ResolvedIs
<1>2. at' = [q EXCEPT !["handler"] = h] /\ retryPromise' = FALSE /\ aborted' = (status = "running")
    BY DEF AbortAll
<1> HIDE DEF q
<1>3. "handler" \in Actors /\ places["handler"].where \in {"free", "sleeping", "cancelled", "compacting"}
    BY ActorsAre DEF Fine
<1>4. q["handler"] = places["handler"] /\ places["handler"] \in Places(n)
    BY <1>1, <1>3
<1>5. h \in Places(n) /\ Fine("handler", h, length)
  <2>1. CASE places["handler"].where = "sleeping"
    <3>1. h = [places["handler"] EXCEPT !.where = "cancelled"]
        BY <2>1, <1>4
    <3>2. h \in Places(n) /\ h.where = "cancelled" /\ h.reply = places["handler"].reply
        BY <3>1, <1>4 DEF Places
    <3>3. places["handler"].reply.why = "retryable"
        BY <2>1, <1>3 DEF Fine
    <3>4. QED
        BY <3>2, <3>3, ActorsAre DEF Fine
  <2>2. CASE places["handler"].where # "sleeping"
      BY <2>2, <1>3, <1>4
  <2>3. QED
      BY <2>1, <2>2
<1>6. h = IF places["handler"].where = "sleeping"
          THEN [places["handler"] EXCEPT !.where = "cancelled"] ELSE places["handler"]
    BY <1>4
<1> HIDE DEF h
<1>7. at' \in [Actors -> Places(n)] /\ \A x \in Actors : at'[x] = IF x = "handler" THEN h ELSE q[x]
    BY <1>1, <1>2, <1>5
<1>8. ASSUME NEW x \in Actors, x # "handler" PROVE Fine(x, q[x], length)
  <2>1. CASE places[x].where = "retry"
    <3>1. x \in Callers
        BY <2>1, <1>8, ActorsAre DEF Fine
    <3>2. q[x].where \in {"out", "idle"}
        BY <2>1, <3>1, <1>1, PlaceType, ActorsAre
    <3>3. QED
        BY <3>1, <3>2, ActorsAre DEF Fine
  <2>2. CASE places[x].where # "retry"
      BY <2>2, <1>1
  <2>3. QED
      BY <2>1, <2>2
<1>9. QED
    BY <1>2, <1>3, <1>5, <1>6, <1>7, <1>8 DEF q

LEMMA AbortTypes == ASSUME TypeInv, Abort PROVE TypeInv'
<1>1. nextId' = nextId /\ nextId \in Nat /\ nextId \in 1 .. MaxId + 1 /\ branch' = branch
    BY SessionAssumption DEF TypeInv, Abort
<1>2. AgentTyped(nextId) /\ SessionTyped(nextId) /\ BranchTyped(nextId) /\ KeptBefore(branch)
      /\ at \in [Actors -> Places(nextId)] /\ \A x \in Actors : Fine(x, at[x], Len(branch))
    BY DEF TypeInv, AtTyped
<1>3. PICK places, n, length : places = at /\ n = nextId /\ length = Len(branch)
    OBVIOUS
<1>4. /\ AbortAll(places) /\ places \in [Actors -> Places(n)] /\ n \in Nat /\ length \in Nat
      /\ \A x \in Actors : Fine(x, places[x], length)
    BY <1>1, <1>2, <1>3, LenProperties DEF Abort, AbortAll, BranchTyped
<1>5. /\ at' \in [Actors -> Places(n)] /\ \A x \in Actors : Fine(x, at'[x], length)
      /\ retryPromise' = FALSE /\ aborted' = (status = "running")
    BY <1>4, AbortIs
<1>6. UNCHANGED <<transcript, status, owed, queued, answered, events, lastReply,
                   retryAttempt, overflowTried, autoCompacting, shown, pendingBash, timers,
                   unheard, thrown, refused>>
    BY DEF Abort, agent, compactVars, listVars, historyVars
<1>7. AgentTyped(nextId)' /\ SessionTyped(nextId)'
    BY <1>1, <1>2, <1>5, <1>6 DEF AgentTyped, SessionTyped
<1>8. AtTyped(nextId)' /\ BranchTyped(nextId)' /\ KeptBefore(branch)'
       /\ (\A x \in Actors : Fine(x, at[x], Len(branch)))'
    BY <1>1, <1>2, <1>3, <1>5 DEF AtTyped, BranchTyped, KeptBefore
<1>9. QED
    BY <1>1, <1>7, <1>8 DEF TypeInv

LEMMA StartTypes == ASSUME TypeInv, StartManual PROVE TypeInv'
<1> DEFINE p == Place(IF status = "idle" THEN "ready" ELSE "aborting")
           q == [at EXCEPT !["manual"] = p]
<1>1. nextId' = nextId /\ nextId \in Nat /\ nextId \in 1 .. MaxId + 1 /\ branch' = branch
    BY SessionAssumption DEF TypeInv, StartManual
<1>2. AgentTyped(nextId) /\ SessionTyped(nextId) /\ BranchTyped(nextId) /\ KeptBefore(branch)
      /\ at \in [Actors -> Places(nextId)] /\ \A x \in Actors : Fine(x, at[x], Len(branch))
    BY DEF TypeInv, AtTyped
<1>3. p \in Places(nextId) /\ p.where \in {"ready", "aborting"}
    BY <1>1, PlaceType
<1>4. Fine("manual", p, Len(branch))
    BY <1>3, ActorsAre DEF Fine
<1> HIDE DEF p
<1>5. q \in [Actors -> Places(nextId)] /\ \A x \in Actors : Fine(x, q[x], Len(branch))
    BY <1>2, <1>3, <1>4
<1>6. PICK places, n, length : places = q /\ n = nextId /\ length = Len(branch)
    OBVIOUS
<1>7. /\ AbortAll(places) /\ places \in [Actors -> Places(n)] /\ n \in Nat /\ length \in Nat
      /\ \A x \in Actors : Fine(x, places[x], length)
  <2>1. AbortAll(places)
      BY <1>6 DEF StartManual, AbortAll, p
  <2> HIDE DEF q
  <2>2. QED
      BY <2>1, <1>1, <1>2, <1>5, <1>6, LenProperties DEF BranchTyped
<1>8. /\ at' \in [Actors -> Places(n)] /\ \A x \in Actors : Fine(x, at'[x], length)
      /\ retryPromise' = FALSE /\ aborted' = (status = "running")
    BY <1>7, AbortIs
<1>9. UNCHANGED <<transcript, status, owed, queued, answered, events, lastReply,
                   retryAttempt, overflowTried, autoCompacting, shown, pendingBash, timers,
                   unheard, thrown, refused>>
    BY DEF StartManual, agent, compactVars, listVars, historyVars
<1>10. AgentTyped(nextId)' /\ SessionTyped(nextId)'
    BY <1>1, <1>2, <1>8, <1>9 DEF AgentTyped, SessionTyped
<1>11. AtTyped(nextId)' /\ BranchTyped(nextId)' /\ KeptBefore(branch)'
       /\ (\A x \in Actors : Fine(x, at[x], Len(branch)))'
    BY <1>1, <1>2, <1>6, <1>8 DEF AtTyped, BranchTyped, KeptBefore
<1>12. QED
    BY <1>1, <1>10, <1>11 DEF TypeInv

LEMMA BashTypes == ASSUME TypeInv, RecordBashResult PROVE TypeInv'
<1> DEFINE n == nextId'
           b == Bash(nextId)
<1>1. /\ nextId' \in 1 .. MaxId + 1 /\ nextId <= nextId' /\ nextId' \in Nat
      /\ nextId \in 1 .. nextId' - 1 /\ AgentTyped(n) /\ SessionTyped(n) /\ BranchTyped(n)
      /\ AtTyped(n)
    BY FreshIs, Still DEF RecordBashResult
<1>2. b \in Bashes(n) /\ b \in Context(n) /\ b \in Entries(n) /\ b.role = "bash"
    BY <1>1, MessageIs DEF Context, Entries
<1>3. /\ IF status # "idle"
         THEN /\ pendingBash' = Append(pendingBash, b)
              /\ UNCHANGED <<transcript, branch>>
         ELSE /\ transcript' = Append(transcript, b)
              /\ branch' = Append(branch, b)
              /\ UNCHANGED pendingBash
      /\ UNCHANGED <<status, owed, queued, aborted, answered, events, lastReply,
                   retryPromise, retryAttempt, overflowTried, autoCompacting, shown, timers, at,
                   unheard, thrown, refused>>
    BY DEF RecordBashResult, compactVars, historyVars
<1> HIDE DEF n, b
<1>4. transcript' \in Seq(Context(n)) /\ pendingBash' \in Seq(Bashes(n))
  <2>1. transcript \in Seq(Context(n)) /\ pendingBash \in Seq(Bashes(n))
      BY <1>1 DEF AgentTyped, SessionTyped
  <2>2. Append(transcript, b) \in Seq(Context(n)) /\ Append(pendingBash, b) \in Seq(Bashes(n))
      BY <2>1, <1>2, AppendProperties
  <2>3. transcript' \in {transcript, Append(transcript, b)}
        /\ pendingBash' \in {pendingBash, Append(pendingBash, b)}
      BY <1>3
  <2>4. QED
      BY <2>1, <2>2, <2>3
<1>5. /\ branch' \in Seq(Entries(n)) /\ KeptBefore(branch') /\ Len(branch') \in Nat
      /\ Len(branch) <= Len(branch')
  <2> DEFINE es == IF status # "idle" THEN <<>> ELSE <<b>>
  <2>1. es \in Seq(Entries(n)) /\ \A j \in DOMAIN es : es[j].role # "compaction"
      BY <1>2, EmptySeq
  <2>2. branch' = branch \o es
      BY <1>1, <1>2, <1>3, AppendIsConcat, ConcatEmptySeq DEF BranchTyped
  <2> HIDE DEF es
  <2>3. n \in Nat /\ branch \in Seq(Entries(n)) /\ KeptBefore(branch)
      BY <1>1 DEF TypeInv, BranchTyped, n
  <2>4. \A j \in DOMAIN es : es[j].role = "compaction" => es[j].kept \in 1 .. Len(branch')
      BY <2>1
  <2>5. QED
      BY <2>1, <2>2, <2>3, <2>4, BranchAdds
<1>6. \A x \in Actors : Fine(x, at'[x], Len(branch'))
    BY <1>3, <1>5, AllFine
<1>7. AgentTyped(nextId)' /\ SessionTyped(nextId)'
    BY <1>1, <1>3, <1>4 DEF AgentTyped, SessionTyped, n
<1>8. AtTyped(nextId)' /\ BranchTyped(nextId)'
    BY <1>1, <1>3, <1>5 DEF AtTyped, BranchTyped, n
<1>9. QED
    BY <1>1, <1>5, <1>6, <1>7, <1>8 DEF TypeInv

LEMMA PrepareTypes == ASSUME TypeInv, PrepareManual PROVE TypeInv'
<1>1. nextId' = nextId /\ nextId \in Nat /\ nextId \in 1 .. MaxId + 1 /\ branch' = branch
    BY SessionAssumption DEF TypeInv, PrepareManual
<1>2. AgentTyped(nextId) /\ SessionTyped(nextId) /\ branch \in Seq(Entries(nextId))
    BY DEF TypeInv, BranchTyped
<1>3. UNCHANGED <<transcript, status, owed, queued, aborted, answered, events, lastReply, retryPromise, retryAttempt,
                    overflowTried, autoCompacting, shown, pendingBash, timers, unheard, thrown, refused>>
    BY DEF PrepareManual, agentVars, agent, compactVars, listVars, historyVars
<1>4. \E p \in Places(nextId) : at' = [at EXCEPT !["manual"] = p] /\ Fine("manual", p, Len(branch))
  <2>1. CASE CanCompact(branch)
    <3>1. PICK p \in Compacting(branch, FALSE) : at' = [at EXCEPT !["manual"] = p]
        BY <2>1 DEF PrepareManual
    <3>2. p \in Places(nextId) /\ p.where = "compacting" /\ p.kept \in 1 .. Len(branch)
        BY <1>1, <1>2, <3>1, CompactingIs
    <3>3. QED
        BY <3>1, <3>2, ActorsAre DEF Fine
  <2>2. CASE ~CanCompact(branch)
    <3>1. at' = [at EXCEPT !["manual"] = Out("manual")]
        BY <2>2 DEF PrepareManual
    <3>2. Out("manual") \in Places(nextId) /\ Out("manual").where = "out"
        BY <1>1, PlaceType
    <3>3. QED
        BY <3>1, <3>2, ActorsAre DEF Fine
  <2>3. QED
      BY <2>1, <2>2
<1>5. AtTyped(nextId)' /\ BranchTyped(nextId)' /\ KeptBefore(branch)'
           /\ (\A y \in Actors : Fine(y, at[y], Len(branch)))'
  <2>1. PICK p \in Places(nextId) : at' = [at EXCEPT !["manual"] = p] /\ Fine("manual", p, Len(branch))
      BY <1>4
  <2>2. "manual" \in Actors /\ UNCHANGED <<branch, nextId>>
      BY <1>1, ActorsAre
  <2>3. QED
      BY <2>1, <2>2, MoveTypes
<1>6. AgentTyped(nextId)' /\ SessionTyped(nextId)'
    BY <1>1, <1>2, <1>3 DEF AgentTyped, SessionTyped
<1>7. QED
    BY <1>1, <1>5, <1>6 DEF TypeInv

(* A compaction is saved, and the transcript rebuilt. *)
LEMMA RebuildTypes ==
    ASSUME TypeInv, NEW x \in Actors, at[x].where = "compacting", Rebuild(at[x].kept)
    PROVE  /\ nextId' \in 1 .. MaxId + 1 /\ nextId <= nextId' /\ nextId' \in Nat
           /\ branch' \in Seq(Entries(nextId')) /\ KeptBefore(branch')
           /\ Len(branch') \in Nat /\ Len(branch) <= Len(branch')
           /\ Rebuilt(branch') \in Seq(Context(nextId')) /\ Rebuilt(branch') # <<>>
<1> DEFINE n == nextId'
           k == at[x].kept
           e == [role |-> "compaction", id |-> nextId, kept |-> k]
<1>1. /\ nextId' \in 1 .. MaxId + 1 /\ nextId <= nextId' /\ nextId' \in Nat
      /\ nextId \in 1 .. nextId' - 1 /\ BranchTyped(n)
    BY FreshIs, Still DEF Rebuild
<1>2. k \in 1 .. Len(branch) /\ Len(branch) \in Nat
    BY <1>1, LenProperties DEF TypeInv, Fine, BranchTyped
<1>3. e \in Entries(n)
    BY <1>1, <1>2 DEF Marks, Entries
<1>4. branch' = Append(branch, e)
    BY DEF Rebuild
<1> HIDE DEF n, k
<1>5. branch \in Seq(Entries(n)) /\ KeptBefore(branch) /\ n \in Nat
    BY <1>1 DEF TypeInv, BranchTyped, n
<1>6. /\ branch' = branch \o <<e>> /\ <<e>> \in Seq(Entries(n)) /\ Len(branch') = Len(branch) + 1
      /\ branch' \in Seq(Entries(n)) /\ branch'[Len(branch) + 1] = e
    BY <1>3, <1>4, <1>5, AppendIsConcat, AppendProperties
<1>7. \A j \in DOMAIN <<e>> : <<e>>[j].role = "compaction" => <<e>>[j].kept \in 1 .. Len(branch')
    BY <1>2, <1>6
<1>8. /\ branch' \in Seq(Entries(n)) /\ KeptBefore(branch')
      /\ Len(branch') \in Nat /\ Len(branch) <= Len(branch')
  <2> DEFINE es == <<e>>
  <2>1. es \in Seq(Entries(n)) /\ branch' = branch \o es
        /\ \A j \in DOMAIN es : es[j].role = "compaction" => es[j].kept \in 1 .. Len(branch')
      BY <1>6, <1>7
  <2> HIDE DEF es, e
  <2>2. QED
      BY <1>5, <2>1, BranchAdds
<1>9. LastCompaction(branch') # 0
  <2>1. DOMAIN branch' = 1 .. Len(branch')
      BY <1>6, LenProperties
  <2>2. Len(branch) + 1 \in Compactions(branch')
      BY <2>1, <1>2, <1>6 DEF Compactions
  <2>3. \A j \in Compactions(branch') : j <= LastCompaction(branch')
      BY <1>6, LastCompactionIs
  <2>4. QED
      BY <2>2, <2>3, <1>2
<1>10. Rebuilt(branch') \in Seq(Context(n)) /\ Rebuilt(branch') # <<>>
  <2>1. \A i \in DOMAIN branch' : branch'[i].role = "compaction" => branch'[i].kept \in 1 .. Len(branch')
      BY <1>8 DEF KeptBefore
  <2>2. PICK b : b = branch'
      OBVIOUS
  <2>3. /\ n \in Nat /\ b \in Seq(Entries(n)) /\ LastCompaction(b) # 0
        /\ \A i \in DOMAIN b : b[i].role = "compaction" => b[i].kept \in 1 .. Len(b)
      BY <1>5, <1>8, <1>9, <2>1, <2>2
  <2>4. Rebuilt(b) \in Seq(Context(n)) /\ Rebuilt(b) # <<>>
      BY <2>3, RebuiltType
  <2>5. QED
      BY <2>2, <2>4
<1>11. QED
    BY <1>1, <1>8, <1>10 DEF n

(* The rest of a compaction's end *)
LEMMA CompactedTypes ==
    ASSUME TypeInv, NEW x \in Actors, at[x].where = "compacting", Rebuild(at[x].kept),
           NEW p \in Places(nextId'), at' = [at EXCEPT ![x] = p], Fine(x, p, Len(branch')),
           transcript' \in Seq(Context(nextId')), timers' \in Nat, autoCompacting' \in BOOLEAN,
           UNCHANGED <<status, owed, queued, aborted, answered, events, lastReply,
                   retryPromise, retryAttempt, overflowTried, listVars, unheard, thrown, refused>>
    PROVE  TypeInv'
<1> DEFINE n == nextId'
<1>1. /\ nextId' \in 1 .. MaxId + 1 /\ nextId <= nextId' /\ nextId' \in Nat
      /\ branch' \in Seq(Entries(n)) /\ KeptBefore(branch')
      /\ Len(branch') \in Nat /\ Len(branch) <= Len(branch')
    BY RebuildTypes
<1>2. AgentTyped(n) /\ SessionTyped(n) /\ at \in [Actors -> Places(n)]
    BY <1>1, Still DEF AtTyped
<1>3. transcript' \in Seq(Context(n)) /\ p \in Places(n)
    OBVIOUS
<1> HIDE DEF n
<1>4. at' \in [Actors -> Places(n)] /\ \A y \in Actors : at'[y] = IF y = x THEN p ELSE at[y]
    BY <1>2, <1>3
<1>5. \A y \in Actors : Fine(y, at'[y], Len(branch'))
    BY <1>1, <1>4, AllFine
<1>6. AgentTyped(nextId)'
    BY <1>1, <1>2, <1>3 DEF AgentTyped, n
<1>7. SessionTyped(nextId)'
    BY <1>1, <1>2 DEF SessionTyped, n, listVars
<1>8. AtTyped(nextId)' /\ BranchTyped(nextId)'
    BY <1>1, <1>4 DEF AtTyped, BranchTyped, n
<1>9. QED
    BY <1>1, <1>5, <1>6, <1>7, <1>8 DEF TypeInv

LEMMA AfterIs ==
    ASSUME NEW n \in Nat, NEW x \in Actors, NEW length
    PROVE  After(x) \in Places(n) /\ Fine(x, After(x), length) /\ After(x).retry = FALSE
           /\ After(x).where = CASE x = "handler" -> "free" [] x = "manual" -> "out"
                                 [] OTHER -> "hooks"
BY PlaceType, ActorsAre DEF After, Fine

LEMMA ManualTypes == ASSUME TypeInv, ManualCompacted PROVE TypeInv'
<1>1. /\ at["manual"].where = "compacting" /\ Rebuild(at["manual"].kept) /\ "manual" \in Actors
      /\ transcript' = Rebuilt(branch') /\ at' = [at EXCEPT !["manual"] = Out("manual")]
      /\ UNCHANGED <<status, owed, queued, aborted, answered, events, lastReply,
                   retryPromise, retryAttempt, overflowTried, autoCompacting, listVars,
                   timers, unheard, thrown, refused>>
    BY ActorsAre DEF ManualCompacted, compactVars
<1>2. nextId' \in Nat /\ Rebuilt(branch') \in Seq(Context(nextId'))
    BY <1>1, RebuildTypes
<1>3. Out("manual") \in Places(nextId') /\ Out("manual").where = "out"
    BY <1>2, PlaceType
<1>4. Fine("manual", Out("manual"), Len(branch'))
    BY <1>3, ActorsAre DEF Fine
<1>5. timers' \in Nat /\ autoCompacting' \in BOOLEAN
    BY <1>1 DEF TypeInv, SessionTyped
<1>6. QED
    BY <1>1, <1>2, <1>3, <1>4, <1>5, CompactedTypes

LEMMA AutoTypes == ASSUME TypeInv, NEW x \in Actors, AutoCompacted(x) PROVE TypeInv'
<1>1. /\ at[x].where = "compacting" /\ Rebuild(at[x].kept)
      /\ transcript' = LET t == Rebuilt(branch')
                       IN  IF at[x].retry /\ IsReply(Last(t)) /\ Last(t).stop = "error"
                           THEN Front(t) ELSE t
      /\ timers' = (IF at[x].retry \/ queued # <<>> THEN timers + 1 ELSE timers)
      /\ autoCompacting' = FALSE /\ at' = [at EXCEPT ![x] = After(x)]
      /\ UNCHANGED <<status, owed, queued, aborted, answered, events, lastReply,
                   retryPromise, retryAttempt, overflowTried, listVars, unheard, thrown, refused>>
    BY DEF AutoCompacted
<1>2. /\ nextId' \in Nat /\ Rebuilt(branch') \in Seq(Context(nextId')) /\ Rebuilt(branch') # <<>>
    BY <1>1, RebuildTypes
<1>3. Front(Rebuilt(branch')) \in Seq(Context(nextId'))
    BY <1>2, FrontIs
<1>4. transcript' \in Seq(Context(nextId'))
    BY <1>1, <1>2, <1>3
<1>5. After(x) \in Places(nextId') /\ Fine(x, After(x), Len(branch'))
    BY <1>2, AfterIs
<1>6. timers' \in Nat /\ autoCompacting' \in BOOLEAN
  <2>1. timers \in Nat
      BY DEF TypeInv, SessionTyped
  <2>2. timers' = (IF at[x].retry \/ queued # <<>> THEN timers + 1 ELSE timers)
      BY <1>1, Zenon
  <2>4. autoCompacting' = FALSE
      BY DEF AutoCompacted
  <2>3. QED
    <3>1. timers' = timers \/ timers' = timers + 1
        BY <2>2, Zenon
    <3>2. timers' \in Nat
        BY <2>1, <3>1
    <3>3. QED
        BY <3>2, <2>4
<1>7. QED
    BY <1>1, <1>4, <1>5, <1>6, CompactedTypes

LEMMA FailTypes == ASSUME TypeInv, NEW x \in Actors, CompactionFails(x) PROVE TypeInv'
<1>1. nextId' = nextId /\ nextId \in Nat /\ nextId \in 1 .. MaxId + 1 /\ branch' = branch
    BY SessionAssumption DEF TypeInv, CompactionFails
<1>2. AgentTyped(nextId) /\ SessionTyped(nextId)
    BY DEF TypeInv
<1>3. After(x) \in Places(nextId) /\ Fine(x, After(x), Len(branch))
    BY <1>1, AfterIs
<1>4. /\ at' = [at EXCEPT ![x] = After(x)] /\ autoCompacting' = (autoCompacting /\ x = "manual")
      /\ UNCHANGED <<transcript, status, owed, queued, aborted, answered, events, lastReply, retryPromise, retryAttempt,
                    overflowTried, shown, pendingBash, timers, unheard, thrown, refused>>
    BY DEF CompactionFails, agentVars, agent, listVars, historyVars
<1>5. AtTyped(nextId)' /\ BranchTyped(nextId)' /\ KeptBefore(branch)'
           /\ (\A y \in Actors : Fine(y, at[y], Len(branch)))'
    BY <1>1, <1>3, <1>4, MoveTypes
<1>6. autoCompacting' \in BOOLEAN
    BY <1>4
<1>7. AgentTyped(nextId)'
    BY <1>1, <1>2, <1>4 DEF AgentTyped
<1>8. SessionTyped(nextId)'
    BY <1>1, <1>2, <1>4, <1>6 DEF SessionTyped
<1>9. QED
    BY <1>1, <1>5, <1>7, <1>8 DEF TypeInv

LEMMA TypeNext == TypeInv /\ [Next]_vars => TypeInv'
<1> SUFFICES ASSUME TypeInv, [Next]_vars PROVE TypeInv'
    OBVIOUS
<1>1. ASSUME AgentStep PROVE TypeInv'
    BY <1>1, InjectTypes, ModelTypes, ToolTypes, StopTypes, ThrowTypes, SettleTypes DEF AgentStep
<1>2. ASSUME HandlerStep PROVE TypeInv'
    BY <1>2, MessageTypes, EndTypes, SleepTypes, CancelledTypes DEF HandlerStep
<1>3. ASSUME CallerStep PROVE TypeInv'
    BY <1>3, PromptTypes, SendTypes, QueueTypes, ClearTypes, AbortTypes, BashTypes, StartTypes,
       PrepareTypes, ManualTypes, AutoTypes, FailTypes DEF CallerStep
<1>4. ASSUME UNCHANGED vars PROVE TypeInv'
  <2>1. UNCHANGED <<transcript, status, owed, queued, aborted, answered, events, lastReply, retryPromise,
                    retryAttempt, overflowTried, autoCompacting, shown, pendingBash, branch, timers, at, nextId,
                    unheard, thrown, refused>>
      BY <1>4 DEF vars, agentVars, agent, compactVars, listVars, historyVars
  <2>2. QED
      BY <2>1 DEF TypeInv, AgentTyped, SessionTyped, BranchTyped, AtTyped, KeptBefore
<1>5. QED
    BY <1>1, <1>2, <1>3, <1>4, TimerTypes DEF Next

LEMMA TypeAlways == Spec => []TypeInv
BY TypeInit, TypeNext, PTL DEF Spec

LEMMA TypeImplies == TypeInv => TypeOK
<1> SUFFICES ASSUME TypeInv PROVE TypeOK
    OBVIOUS
<1> DEFINE n == nextId
<1>1. n \in Nat /\ n \in 1 .. MaxId + 1 /\ AgentTyped(n) /\ SessionTyped(n) /\ BranchTyped(n)
      /\ \A x \in Actors : Fine(x, at[x], Len(branch))
    BY SessionAssumption DEF TypeInv
<1>2. \A m \in Context(n) \cup Entries(n) \cup Events(n) : m.id \in 0 .. n - 1
    BY <1>1, MessageIs DEF Context, Entries, Events, Spoken
<1>3. /\ ToSet(transcript) \subseteq Context(n) /\ ToSet(branch) \subseteq Entries(n)
      /\ ToSet(events) \subseteq Events(n)
    BY <1>1, SetIs DEF AgentTyped, BranchTyped, SessionTyped
<1>4. Idset(transcript) \cup Idset(branch) \cup Idset(events) \cup unheard \subseteq 0 .. n - 1
    BY <1>1, <1>2, <1>3 DEF Idset, SessionTyped
<1> HIDE DEF n
<1>5. \A x \in Actors : at[x].where \in Allowed(x)
    BY <1>1 DEF Fine
<1>6. QED
    BY <1>1, <1>4, <1>5, ActorsAre DEF TypeOK, AgentTyped, SessionTyped, n

(* Every variable keeps its type and its bounds, everybody is in a place   *)
(* of their kind, and no message, entry or event has an id that was not    *)
(* given yet: in particular the attempts stay within maxRetries whatever   *)
(* replies, sleeps and cancellations _processAgentEvent sees.              *)
THEOREM SessionTypeCorrect == Spec => []TypeOK
BY TypeAlways, TypeImplies, PTL

-----------------------------------------------------------------------------
(* Who waits for a retry.  An end of a run in the queue follows the reply   *)
(* it is about, or that reply was handled last; a run that answered is      *)
(* about to end behind its reply; and whoever waits, or will when the run   *)
(* settles, has a sleep or a timer unless an end is yet to be handled.      *)

Waits  == \E c \in Callers : at[c].where = "retry"
Sleeps == at["handler"].where \in {"sleeping", "cancelled"} \/ timers > 0
Ending == \E i \in DOMAIN events : events[i] = AgentEnd

EndsFollow ==
    \A i \in DOMAIN events : events[i] = AgentEnd =>
        IF i = 1 THEN lastReply # NoMessage ELSE IsReply(events[i - 1])
AnswerHeard ==
    status = "running" /\ answered =>
        IF events = <<>> THEN lastReply # NoMessage ELSE IsReply(events[Len(events)])
CallsDone == answered => owed = {}
Owned ==
    /\ Waits => Sleeps \/ status # "idle" \/ Ending
    /\ (Waits \/ retryPromise) /\ status = "over" => Sleeps \/ Ending

RetryInv ==
    ~thrown /\ unheard = {} =>
        EndsFollow /\ AnswerHeard /\ CallsDone /\ (~refused => Owned)

LEMMA RetryInit == Init => RetryInv
<1> SUFFICES ASSUME Init PROVE RetryInv
    OBVIOUS
<1>1. events = <<>> /\ status = "idle" /\ answered = FALSE /\ at = [x \in Actors |-> Out(x)]
    BY DEF Init, Idle
<1>2. DOMAIN events = {}
    BY <1>1
<1>3. \A c \in Callers : at[c].where = "out"
    BY <1>1, PlaceType, ActorsAre, 0 \in Nat
<1>4. QED
    BY <1>1, <1>2, <1>3 DEF RetryInv, EndsFollow, AnswerHeard, CallsDone, Owned, Waits

(* Steps that neither add events nor take them, nor move the run, and leave *)
(* no one waiting who was not.                                              *)
LEMMA RetryKeeps ==
    ASSUME RetryInv, UNCHANGED <<status, answered, owed, events, lastReply, thrown, unheard, refused>>,
           Waits' => Waits, retryPromise' => retryPromise,
           Sleeps => Sleeps' \/ (~Waits' /\ ~retryPromise')
    PROVE  RetryInv'
<1>1. EndsFollow' <=> EndsFollow
    BY DEF EndsFollow
<1>2. AnswerHeard' <=> AnswerHeard
    BY DEF AnswerHeard
<1>3. CallsDone' <=> CallsDone
    BY DEF CallsDone
<1>4. Ending' <=> Ending
    BY DEF Ending
<1>5. Owned => Owned'
    BY <1>4 DEF Owned
<1>6. QED
    BY <1>1, <1>2, <1>3, <1>5 DEF RetryInv

(* What is heard, when all is *)
LEMMA HearIs ==
    ASSUME NEW X, events \in Seq(X), NEW ms \in Seq(X), AgentEnd \in X, NEW ends,
           Hear(ms, ends), unheard' = {}
    PROVE  /\ unheard = {}
           /\ events' = events \o ms \o (IF ends = NoMessage THEN <<>> ELSE <<AgentEnd>>)
           /\ ms # <<>> \/ ends # NoMessage => Listening
           /\ retryPromise' <=> (retryPromise \/ (Listening /\ ends.why = "retryable"))
<1>1. CASE Listening
    BY <1>1 DEF Hear
<1>2. CASE ~Listening
  <2>1. /\ {} = unheard \cup Idset(ms) \cup (IF ends = NoMessage THEN {} ELSE {AgentEnd.id})
        /\ UNCHANGED <<events, heard, retryPromise>>
      BY <1>2 DEF Hear
  <2>2. unheard = {} /\ Idset(ms) = {} /\ ends = NoMessage
      BY <2>1
  <2>3. ms = <<>>
    <3> SUFFICES ASSUME ms # <<>> PROVE FALSE
        OBVIOUS
    <3>1. Len(ms) # 0 /\ Len(ms) \in Nat
        BY EmptySeq, LenProperties
    <3>2. ms[1] \in ToSet(ms)
        BY <3>1, SetIs
    <3>3. QED
        BY <3>2, <2>2 DEF Idset
  <2>4. events \o <<>> = events /\ events \o <<>> \o <<>> = events
      BY ConcatEmptySeq
  <2>5. QED
      BY <1>2, <2>1, <2>2, <2>3, <2>4
<1>3. QED
    BY <1>1, <1>2

(* Events that are not the end of a run join the queue. *)
LEMMA EventsJoin ==
    ASSUME NEW X, events \in Seq(X), NEW ms \in Seq(X), events' = events \o ms, UNCHANGED lastReply,
           \A i \in DOMAIN ms : ms[i] # AgentEnd
    PROVE  /\ EndsFollow => EndsFollow'
           /\ Ending' <=> Ending
           /\ ms # <<>> => events' # <<>> /\ events'[Len(events')] = ms[Len(ms)]
<1>1. /\ Len(events) \in Nat /\ DOMAIN events = 1 .. Len(events) /\ events' \in Seq(X)
      /\ Len(ms) \in Nat /\ DOMAIN ms = 1 .. Len(ms)
      /\ Len(events') = Len(events) + Len(ms)
      /\ \A i \in 1 .. Len(events) + Len(ms) :
            events'[i] = IF i <= Len(events) THEN events[i] ELSE ms[i - Len(events)]
    BY ConcatProperties, LenProperties
<1>2. DOMAIN events' = 1 .. Len(events) + Len(ms)
    BY <1>1, LenProperties
<1>3. ASSUME NEW i \in DOMAIN events', events'[i] = AgentEnd
      PROVE  i \in DOMAIN events /\ events[i] = AgentEnd /\ (i # 1 => events'[i - 1] = events[i - 1])
  <2>1. i <= Len(events)
    <3> SUFFICES ASSUME ~(i <= Len(events)) PROVE FALSE
        OBVIOUS
    <3>1. events'[i] = ms[i - Len(events)] /\ i - Len(events) \in DOMAIN ms
        BY <1>1, <1>2
    <3>2. QED
        BY <3>1, <1>3
  <2>2. i # 1 => i - 1 \in 1 .. Len(events)
      BY <2>1, <1>1, <1>2
  <2>3. QED
      BY <2>1, <2>2, <1>1, <1>2, <1>3
<1>4. ASSUME EndsFollow PROVE EndsFollow'
  <2> SUFFICES ASSUME NEW i \in DOMAIN events', events'[i] = AgentEnd
               PROVE  IF i = 1 THEN lastReply' # NoMessage ELSE IsReply(events'[i - 1])
      BY DEF EndsFollow, IsReply
  <2>1. i \in DOMAIN events /\ events[i] = AgentEnd /\ (i # 1 => events'[i - 1] = events[i - 1])
      BY <1>3
  <2>2. IF i = 1 THEN lastReply # NoMessage ELSE IsReply(events[i - 1])
      BY <2>1, <1>4 DEF EndsFollow
  <2>3. QED
      BY <2>1, <2>2
<1>5. Ending' <=> Ending
  <2>1. ASSUME NEW i \in DOMAIN events PROVE i \in DOMAIN events' /\ events'[i] = events[i]
      BY <1>1, <1>2
  <2>2. QED
      BY <2>1, <1>3 DEF Ending
<1>6. ASSUME ms # <<>> PROVE events' # <<>> /\ events'[Len(events')] = ms[Len(ms)]
  <2>1. Len(ms) # 0
      BY <1>1, <1>6, EmptySeq
  <2>2. events' # <<>> /\ Len(events') \in 1 .. Len(events) + Len(ms) /\ ~(Len(events') <= Len(events))
      BY <2>1, <1>1, EmptySeq
  <2>3. Len(events') - Len(events) = Len(ms)
      BY <1>1
  <2>4. QED
      BY <2>2, <2>3, <1>1
<1>7. QED
    BY <1>4, <1>5, <1>6

(* The end of a run joins behind a reply. *)
LEMMA EndJoins ==
    ASSUME NEW X, events \in Seq(X), AgentEnd \in X, events' = Append(events, AgentEnd), UNCHANGED lastReply,
           IF events = <<>> THEN lastReply # NoMessage ELSE IsReply(events[Len(events)])
    PROVE  EndsFollow => EndsFollow' /\ Ending'
<1>1. /\ Len(events) \in Nat /\ DOMAIN events = 1 .. Len(events) /\ events' \in Seq(X)
      /\ Len(events') = Len(events) + 1
      /\ \A i \in 1 .. Len(events) : events'[i] = events[i]
      /\ events'[Len(events) + 1] = AgentEnd
    BY AppendProperties, LenProperties
<1>2. DOMAIN events' = 1 .. Len(events) + 1
    BY <1>1, LenProperties
<1>3. ASSUME EndsFollow PROVE EndsFollow'
  <2> SUFFICES ASSUME NEW i \in DOMAIN events', events'[i] = AgentEnd
               PROVE  IF i = 1 THEN lastReply' # NoMessage ELSE IsReply(events'[i - 1])
      BY DEF EndsFollow, IsReply
  <2>1. i # 1 => events'[i - 1] = events[i - 1]
      BY <1>1, <1>2
  <2>2. CASE i \in DOMAIN events
    <3>1. events[i] = AgentEnd
        BY <2>2, <1>1
    <3>2. IF i = 1 THEN lastReply # NoMessage ELSE IsReply(events[i - 1])
        BY <3>1, <2>2, <1>3 DEF EndsFollow
    <3>3. QED
        BY <3>2, <2>1
  <2>3. CASE i \notin DOMAIN events
    <3>1. i = Len(events) + 1 /\ i - 1 = Len(events)
        BY <2>3, <1>1, <1>2
    <3>2. i = 1 => events = <<>>
        BY <3>1, EmptySeq, <1>1
    <3>3. i # 1 => events # <<>>
        BY <3>1, <1>1, EmptySeq
    <3>4. QED
        BY <2>1, <3>1, <3>2, <3>3
  <2>4. QED
      BY <2>2, <2>3
<1>4. Ending'
    BY <1>1, <1>2 DEF Ending
<1>5. QED
    BY <1>3, <1>4

(* The first event leaves the queue. *)
LEMMA EventLeaves ==
    ASSUME NEW X, events \in Seq(X), events # <<>>, events' = Tail(events)
    PROVE  /\ Len(events) \in Nat \ {0} /\ Len(events') = Len(events) - 1
           /\ DOMAIN events = 1 .. Len(events) /\ DOMAIN events' = 1 .. Len(events')
           /\ \A i \in 1 .. Len(events') : events'[i] = events[i + 1]
           /\ events' = <<>> <=> Len(events) = 1
<1>1. /\ Tail(events) \in Seq(X) /\ Len(Tail(events)) = Len(events) - 1
      /\ \A i \in 1 .. Len(Tail(events)) : Tail(events)[i] = events[i + 1]
    BY HeadTailProperties
<1>2. Len(events) \in Nat \ {0} /\ DOMAIN events = 1 .. Len(events)
    BY EmptySeq, LenProperties
<1>3. DOMAIN events' = 1 .. Len(events') /\ (events' = <<>> <=> Len(events') = 0)
    BY <1>1, EmptySeq, LenProperties
<1>4. QED
    BY <1>1, <1>2, <1>3

(* A message that is heard while the run goes on *)
LEMMA SpokenEvents ==
    ASSUME TypeInv, nextId' \in 1 .. MaxId + 1, nextId <= nextId'
    PROVE  /\ events \in Seq(Events(nextId')) /\ AgentEnd \in Events(nextId')
           /\ \A S : S \in Seq(Spoken(nextId')) =>
                S \in Seq(Events(nextId')) /\ \A i \in DOMAIN S : S[i] # AgentEnd
           /\ \A S : S \in Seq(Users(nextId')) => S \in Seq(Spoken(nextId'))
<1> DEFINE n == nextId'
<1>1. SessionTyped(n) /\ n \in Nat
    BY Still, SessionAssumption
<1> HIDE DEF n
<1>2. Spoken(n) \subseteq Events(n) /\ AgentEnd \in Events(n) /\ Users(n) \subseteq Spoken(n)
      /\ events \in Seq(Events(n))
    BY <1>1 DEF Events, SessionTyped, Spoken
<1>3. \A m \in Spoken(n) : m # AgentEnd
    BY <1>1, MessageIs DEF Spoken
<1>4. ASSUME NEW S \in Seq(Spoken(n))
      PROVE  S \in Seq(Events(n)) /\ \A i \in DOMAIN S : S[i] # AgentEnd
    BY <1>2, <1>3, SeqMonotonic, ElementOfSeq, LenProperties
<1>5. \A S : S \in Seq(Users(n)) => S \in Seq(Spoken(n))
    BY <1>2, SeqMonotonic
<1>6. QED
    BY <1>2, <1>4, <1>5 DEF n

LEMMA BeginRetry ==
    ASSUME TypeInv, RetryInv, nextId' \in 1 .. MaxId + 1, nextId <= nextId',
           NEW ms \in Seq(Users(nextId')), BeginRun(ms)
    PROVE  RetryInv'
<1> DEFINE X == Events(nextId')
<1>1. /\ Hear(ms, NoMessage) /\ status' = "running" /\ owed' = {} /\ answered' = FALSE
      /\ UNCHANGED <<lastReply, thrown, refused>>
    BY DEF BeginRun, Begin, sessionVars
<1>2. /\ events \in Seq(X) /\ AgentEnd \in X /\ ms \in Seq(X)
      /\ \A i \in DOMAIN ms : ms[i] # AgentEnd
    BY SpokenEvents
<1> HIDE DEF X
<1> SUFFICES ASSUME ~thrown', unheard' = {}
             PROVE  EndsFollow' /\ AnswerHeard' /\ CallsDone' /\ Owned'
    BY DEF RetryInv
<1>3. unheard = {} /\ events' = events \o ms \o (IF NoMessage = NoMessage THEN <<>> ELSE <<AgentEnd>>)
    BY <1>1, <1>2, HearIs
<1>4. events \o ms \in Seq(X)
    BY <1>2, ConcatProperties
<1>5. events' = events \o ms
    BY <1>3, <1>4, ConcatEmptySeq
<1>6. EndsFollow
    BY <1>1, <1>3 DEF RetryInv
<1>7. EndsFollow'
    BY <1>1, <1>2, <1>5, <1>6, EventsJoin
<1>8. AnswerHeard' /\ CallsDone' /\ Owned'
    BY <1>1 DEF AnswerHeard, CallsDone, Owned
<1>9. QED
    BY <1>7, <1>8

LEMMA InjectRetry == ASSUME TypeInv, RetryInv, Inject PROVE RetryInv'
<1> DEFINE X == Events(nextId')
           ms == <<Head(queued)>>
<1>1. /\ Hear(ms, NoMessage) /\ status' = "running" /\ owed' = {} /\ answered' = FALSE /\ queued # <<>>
      /\ UNCHANGED <<lastReply, thrown, refused, at, nextId>>
    BY DEF Inject, Say, sessionVars
<1>2. nextId' \in 1 .. MaxId + 1 /\ nextId <= nextId' /\ ms \in Seq(Users(nextId'))
    BY <1>1, NoneGiven, QueueTail DEF TypeInv, AgentTyped
<1> HIDE DEF X, ms
<1>3. /\ events \in Seq(X) /\ AgentEnd \in X /\ ms \in Seq(X)
      /\ \A i \in DOMAIN ms : ms[i] # AgentEnd
    BY <1>2, SpokenEvents DEF X
<1> SUFFICES ASSUME ~thrown', unheard' = {}
             PROVE  EndsFollow' /\ AnswerHeard' /\ CallsDone' /\ Owned'
    BY DEF RetryInv
<1>4. unheard = {} /\ events' = events \o ms \o (IF NoMessage = NoMessage THEN <<>> ELSE <<AgentEnd>>)
  <2>1. PICK m0 : m0 = ms
      OBVIOUS
  <2>2. Hear(m0, NoMessage)
      BY <1>1, <2>1 DEF Hear
  <2>3. unheard = {} /\ events' = events \o m0 \o (IF NoMessage = NoMessage THEN <<>> ELSE <<AgentEnd>>)
      BY <1>3, <2>1, <2>2, HearIs
  <2>4. QED
      BY <2>1, <2>3
<1>5. events \o ms \in Seq(X)
    BY <1>3, ConcatProperties
<1>6. events' = events \o ms
    BY <1>4, <1>5, ConcatEmptySeq
<1>7. EndsFollow
    BY <1>1, <1>4 DEF RetryInv
<1>8. EndsFollow'
    BY <1>1, <1>3, <1>6, <1>7, EventsJoin
<1>9. AnswerHeard' /\ CallsDone' /\ Owned'
    BY <1>1 DEF AnswerHeard, CallsDone, Owned
<1>10. QED
    BY <1>8, <1>9

LEMMA ModelRetry == ASSUME TypeInv, RetryInv, ModelReplies PROVE RetryInv'
<1> DEFINE X == Events(nextId')
<1>1. /\ nextId' \in 1 .. MaxId + 1 /\ nextId <= nextId' /\ nextId' \in Nat
      /\ nextId \in 1 .. nextId' - 1
    BY FreshIs DEF ModelReplies
<1>2. PICK reply \in GoodReplies \cup FailedReplies :
         /\ Answer(reply)
         /\ answered' = (Good(reply) /\ reply.calls = 0)
         /\ Hear(<<reply>>, IF Failed(reply) THEN reply ELSE NoMessage)
    BY DEF ModelReplies
<1>3. UNCHANGED <<lastReply, thrown, refused, at, timers>>
    BY DEF ModelReplies, sessionVars
<1>4. reply \in Replies(nextId') /\ reply # NoMessage /\ reply # AgentEnd /\ IsReply(reply)
    BY <1>1, <1>2, ReplyIs, MessageIs DEF IsReply
<1> DEFINE ms == <<reply>>
<1>5. ms \in Seq(Spoken(nextId')) /\ ms # <<>> /\ Len(ms) = 1 /\ ms[1] = reply
    BY <1>4 DEF Spoken
<1> HIDE DEF X, ms
<1>6. /\ events \in Seq(X) /\ AgentEnd \in X /\ ms \in Seq(X)
      /\ \A i \in DOMAIN ms : ms[i] # AgentEnd
    BY <1>1, <1>5, SpokenEvents DEF X
<1> SUFFICES ASSUME ~thrown', unheard' = {}
             PROVE  EndsFollow' /\ AnswerHeard' /\ CallsDone' /\ (~refused' => Owned')
    BY DEF RetryInv
<1> DEFINE ends == IF Failed(reply) THEN reply ELSE NoMessage
<1> HIDE DEF ends
<1>7. /\ unheard = {}
      /\ events' = events \o ms \o (IF ends = NoMessage THEN <<>> ELSE <<AgentEnd>>)
      /\ retryPromise' <=> (retryPromise \/ (Listening /\ ends.why = "retryable"))
  <2>1. Hear(ms, ends)
      BY <1>2 DEF ms, ends
  <2>2. QED
      BY <2>1, <1>6, HearIs
<1>8. EndsFollow
    BY <1>3, <1>7 DEF RetryInv
<1>9. CASE ~Failed(reply)
  <2>1. ends = NoMessage /\ events \o ms \in Seq(X)
      BY <1>9, <1>6, ConcatProperties DEF ends
  <2>2. events' = events \o ms
      BY <2>1, <1>7, ConcatEmptySeq
  <2>3. EndsFollow' /\ events' # <<>> /\ events'[Len(events')] = reply
      BY <2>2, <1>3, <1>5, <1>6, <1>8, EventsJoin
  <2>4. status' = "running" /\ owed' = CallsOf(reply)
      BY <1>2, <1>4, <1>9 DEF Answer, Failed, IsReply
  <2>5. AnswerHeard' /\ Owned'
      BY <2>3, <2>4, <1>4 DEF AnswerHeard, Owned, IsReply
  <2>6. CallsDone'
    <3> SUFFICES ASSUME answered' PROVE owed' = {}
        BY DEF CallsDone
    <3>1. reply.calls = 0
        BY <1>2
    <3>2. CallsOf(reply) = {}
        BY <3>1 DEF CallsOf
    <3>3. QED
        BY <2>4, <3>2
  <2>7. QED
      BY <2>3, <2>5, <2>6
<1>10. CASE Failed(reply)
  <2>1. ends # NoMessage /\ events \o ms \in Seq(X)
      BY <1>10, <1>4, <1>6, ConcatProperties DEF ends
  <2>2. status' = "over" /\ owed' = {}
      BY <1>2, <1>10 DEF Answer, Failed
  <2> DEFINE q == events \o ms
  <2>3. q \in Seq(X) /\ q # <<>> /\ Len(q) \in Nat \ {0} /\ q[Len(q)] = reply
    <3>1. Len(events) \in Nat /\ Len(q) = Len(events) + 1
        BY <1>5, <1>6, ConcatProperties, LenProperties
    <3>2. q[Len(events) + 1] = ms[1]
        BY <3>1, <1>5, <1>6, ConcatProperties
    <3>3. QED
        BY <2>1, <3>1, <3>2, <1>5, EmptySeq
  <2>4. events' = Append(q, AgentEnd)
      BY <2>1, <2>3, <1>6, <1>7, AppendIsConcat
  <2>5. \A i \in DOMAIN q : q[i] = AgentEnd =>
            IF i = 1 THEN lastReply # NoMessage ELSE IsReply(q[i - 1])
    <3>1. /\ Len(events) \in Nat /\ Len(q) = Len(events) + 1 /\ DOMAIN q = 1 .. Len(q)
          /\ \A i \in 1 .. Len(events) : q[i] = events[i]
          /\ DOMAIN events = 1 .. Len(events)
        BY <1>5, <1>6, ConcatProperties, LenProperties
    <3> HIDE DEF q
    <3>2. ASSUME NEW i \in DOMAIN q, q[i] = AgentEnd
          PROVE  IF i = 1 THEN lastReply # NoMessage ELSE IsReply(q[i - 1])
      <4>1. i \in DOMAIN events
          BY <3>1, <3>2, <2>3, <1>4
      <4>2. events[i] = AgentEnd /\ (i # 1 => q[i - 1] = events[i - 1])
          BY <4>1, <3>1, <3>2
      <4>3. QED
          BY <4>1, <4>2, <1>8 DEF EndsFollow
    <3>3. QED
        BY <3>2
  <2> HIDE DEF q
  <2>6. /\ DOMAIN q = 1 .. Len(q) /\ DOMAIN events' = 1 .. Len(q) + 1
        /\ \A i \in 1 .. Len(q) : events'[i] = q[i]
        /\ events'[Len(q) + 1] = AgentEnd
      BY <2>3, <2>4, <1>6, AppendProperties, LenProperties
  <2>7. EndsFollow'
    <3> SUFFICES ASSUME NEW i \in DOMAIN events', events'[i] = AgentEnd
                 PROVE  IF i = 1 THEN lastReply' # NoMessage ELSE IsReply(events'[i - 1])
        BY DEF EndsFollow, IsReply
    <3>1. i # 1 => events'[i - 1] = q[i - 1]
        BY <2>3, <2>6
    <3>2. CASE i \in DOMAIN q
        BY <3>1, <3>2, <2>5, <2>6, <1>3
    <3>3. CASE i \notin DOMAIN q
      <4>1. i = Len(q) + 1 /\ i # 1 /\ i - 1 = Len(q)
          BY <3>3, <2>3, <2>6
      <4>2. QED
          BY <4>1, <3>1, <2>3, <1>4
    <3>4. QED
        BY <3>2, <3>3
  <2>8. Ending'
      BY <2>3, <2>6 DEF Ending
  <2>9. AnswerHeard' /\ CallsDone' /\ Owned'
      BY <2>2, <2>8 DEF AnswerHeard, CallsDone, Owned
  <2>10. QED
      BY <2>7, <2>9
<1>11. QED
    BY <1>9, <1>10

LEMMA ToolRetry == ASSUME TypeInv, RetryInv, ToolReturns PROVE RetryInv'
<1> DEFINE X == Events(nextId')
<1>1. /\ nextId' \in 1 .. MaxId + 1 /\ nextId <= nextId' /\ nextId' \in Nat
      /\ nextId \in 1 .. nextId' - 1 /\ AgentTyped(nextId')
    BY FreshIs, Still DEF ToolReturns
<1>2. PICK call \in owed : Deliver(Result(call)) /\ Hear(<<Result(call)>>, NoMessage)
    BY DEF ToolReturns
<1> DEFINE m == Result(call)
           ms == <<m>>
<1>3. status' = "running" /\ status = "running" /\ owed # {}
      /\ UNCHANGED <<lastReply, thrown, refused, answered>>
    BY <1>2 DEF ToolReturns, Deliver, sessionVars
<1>4. m \in Results(nextId')
  <2> DEFINE n == nextId'
             C == (1 .. n - 1) \X Nat
  <2>1. call \in C
      BY <1>1 DEF AgentTyped
  <2> HIDE DEF C
  <2>2. m \in [role : {"toolResult"}, id : 1 .. n - 1, stop : {"none"}, why : {"none"},
                calls : {0}, call : C]
      BY <1>1, <2>1 DEF Result
  <2>3. QED
      BY <2>2 DEF Results, C
<1>5. ms \in Seq(Spoken(nextId'))
    BY <1>4 DEF Spoken
<1> HIDE DEF X, m, ms
<1>6. /\ events \in Seq(X) /\ AgentEnd \in X /\ ms \in Seq(X)
      /\ \A i \in DOMAIN ms : ms[i] # AgentEnd
    BY <1>1, <1>5, SpokenEvents DEF X
<1> SUFFICES ASSUME ~thrown', unheard' = {}
             PROVE  EndsFollow' /\ AnswerHeard' /\ CallsDone' /\ Owned'
    BY DEF RetryInv
<1>7. /\ unheard = {}
      /\ events' = events \o ms \o (IF NoMessage = NoMessage THEN <<>> ELSE <<AgentEnd>>)
  <2>1. PICK m0 : m0 = ms
      OBVIOUS
  <2>2. Hear(m0, NoMessage)
      BY <1>2, <2>1 DEF m, ms
  <2>3. unheard = {} /\ events' = events \o m0 \o (IF NoMessage = NoMessage THEN <<>> ELSE <<AgentEnd>>)
      BY <1>6, <2>1, <2>2, HearIs
  <2>4. QED
      BY <2>1, <2>3
<1>8. events \o ms \in Seq(X)
    BY <1>6, ConcatProperties
<1>9. events' = events \o ms
    BY <1>7, <1>8, ConcatEmptySeq
<1>10. EndsFollow /\ ~answered
    BY <1>3, <1>7 DEF RetryInv, CallsDone
<1>11. EndsFollow'
    BY <1>3, <1>6, <1>9, <1>10, EventsJoin
<1>12. AnswerHeard' /\ CallsDone' /\ Owned'
    BY <1>3, <1>10 DEF AnswerHeard, CallsDone, Owned
<1>13. QED
    BY <1>11, <1>12

LEMMA StopRetry == ASSUME TypeInv, RetryInv, RunStops PROVE RetryInv'
<1> DEFINE X == Events(nextId)
<1>1. /\ answered /\ status = "running" /\ status' = "over" /\ owed' = {} /\ answered' = answered
      /\ Hear(<<>>, AgentEnd) /\ UNCHANGED <<lastReply, thrown, refused>>
    BY DEF RunStops, Stop, sessionVars
<1>2. events \in Seq(X) /\ AgentEnd \in X /\ <<>> \in Seq(X)
    BY EmptySeq DEF TypeInv, SessionTyped, Events
<1>3. AgentEnd # NoMessage
    BY DEF AgentEnd, NoMessage, Message
<1> HIDE DEF X
<1> SUFFICES ASSUME ~thrown', unheard' = {}
             PROVE  EndsFollow' /\ AnswerHeard' /\ CallsDone' /\ Owned'
    BY DEF RetryInv
<1>4. unheard = {} /\ events' = events \o <<>> \o (IF AgentEnd = NoMessage THEN <<>> ELSE <<AgentEnd>>)
    BY <1>1, <1>2, HearIs
<1>5. events' = Append(events, AgentEnd)
    BY <1>2, <1>3, <1>4, ConcatEmptySeq, AppendIsConcat
<1>6. EndsFollow /\ AnswerHeard
    BY <1>1, <1>4 DEF RetryInv
<1>7. IF events = <<>> THEN lastReply # NoMessage ELSE IsReply(events[Len(events)])
    BY <1>1, <1>6 DEF AnswerHeard
<1>8. EndsFollow' /\ Ending'
    BY <1>1, <1>2, <1>5, <1>6, <1>7, EndJoins
<1>9. AnswerHeard' /\ CallsDone' /\ Owned'
    BY <1>1, <1>8 DEF AnswerHeard, CallsDone, Owned
<1>10. QED
    BY <1>8, <1>9

LEMMA ThrowRetry == ASSUME RunThrows PROVE RetryInv'
BY DEF RunThrows, RetryInv

LEMMA SettleRetry == ASSUME TypeInv, RetryInv, RunSettles PROVE RetryInv'
<1>1. /\ status = "over" /\ status' = "idle"
      /\ UNCHANGED <<owed, answered, events, lastReply, retryPromise, timers, thrown, unheard, refused>>
    BY DEF RunSettles, Settle, sessionVars, historyVars
<1> SUFFICES ASSUME ~thrown', unheard' = {}
             PROVE  EndsFollow' /\ AnswerHeard' /\ CallsDone' /\ (~refused' => Owned')
    BY DEF RetryInv
<1>2. EndsFollow /\ AnswerHeard /\ CallsDone /\ (~refused => Owned)
    BY <1>1 DEF RetryInv
<1>3. EndsFollow' /\ AnswerHeard' /\ CallsDone'
    BY <1>1, <1>2 DEF EndsFollow, AnswerHeard, CallsDone
<1>4. Ending' <=> Ending
    BY <1>1 DEF Ending
<1>5. \A x \in Actors :
        at'[x] = CASE at[x].where = "running" ->
                        IF retryPromise THEN Place("retry") ELSE Out(x)
                  [] at[x].where = "idle"     -> Out(x)
                  [] at[x].where = "aborting" -> Place("ready")
                  [] OTHER -> at[x]
    BY DEF RunSettles
<1>6. at'["handler"] = at["handler"]
  <2>1. at["handler"].where \in {"free", "sleeping", "cancelled", "compacting"} /\ "handler" \in Actors
      BY ActorsAre DEF TypeInv, Fine
  <2>2. QED
      BY <2>1, <1>5
<1>7. Waits' => Waits \/ retryPromise
  <2> SUFFICES ASSUME NEW c \in Callers, at'[c].where = "retry", ~retryPromise
               PROVE  at[c].where = "retry"
      BY DEF Waits
  <2>1. Out(c).where = "out" /\ Place("ready").where = "ready" /\ c \in Actors
      BY PlaceType, ActorsAre, 0 \in Nat
  <2>2. QED
      BY <2>1, <1>5
<1>8. Sleeps => Sleeps'
    BY <1>1, <1>6 DEF Sleeps
<1>9. Owned => Owned'
    BY <1>1, <1>4, <1>7, <1>8 DEF Owned
<1>10. QED
    BY <1>1, <1>2, <1>3, <1>9

LEMMA TimerRetry == ASSUME TypeInv, RetryInv, TimerFires PROVE RetryInv'
<1>1. nextId' \in 1 .. MaxId + 1 /\ nextId <= nextId' /\ nextId' = nextId /\ nextId \in Nat
    BY NoneGiven DEF TimerFires
<1>2. at' = at /\ status # "over" /\ status \in {"idle", "running", "over"}
    BY DEF TimerFires, Calm, TypeInv, AgentTyped
<1>3. CASE status # "idle" \/ transcript = <<>> \/ (IsReply(Last(transcript)) /\ queued = <<>>)
  <2>1. /\ refused' = (refused \/ status = "idle")
        /\ UNCHANGED <<agentVars, events, retryPromise, heard, unheard,
                             overtaken, mistaken, thrown, sessionVars>>
      BY <1>3 DEF TimerFires
  <2>2. UNCHANGED <<status, owed, answered, events, lastReply, retryPromise, unheard, thrown>>
      BY <2>1 DEF agentVars, agent, sessionVars
  <2> SUFFICES ASSUME ~thrown', unheard' = {}
               PROVE  EndsFollow' /\ AnswerHeard' /\ CallsDone' /\ (~refused' => Owned')
      BY DEF RetryInv
  <2>3. EndsFollow /\ AnswerHeard /\ CallsDone
      BY <2>2 DEF RetryInv
  <2>4. EndsFollow' /\ AnswerHeard' /\ CallsDone'
      BY <2>2, <2>3 DEF EndsFollow, AnswerHeard, CallsDone
  <2>5. ~refused' => Owned'
      BY <1>2, <2>1, <2>2 DEF Owned
  <2>6. QED
      BY <2>4, <2>5
<1>4. CASE ~(status # "idle" \/ transcript = <<>> \/ (IsReply(Last(transcript)) /\ queued = <<>>))
  <2>1. CASE status = "idle" /\ transcript # <<>> /\ IsReply(Last(transcript)) /\ queued # <<>>
    <3> DEFINE ms == <<Head(queued)>>
    <3>1. BeginRun(ms)
        BY <1>4, <2>1 DEF TimerFires
    <3>2. ms \in Seq(Users(nextId))
        BY <2>1, QueueTail DEF TypeInv, AgentTyped
    <3> HIDE DEF ms
    <3>3. PICK m0 : m0 = ms
        OBVIOUS
    <3>4. BeginRun(m0) /\ m0 \in Seq(Users(nextId'))
        BY <1>1, <3>1, <3>2, <3>3 DEF BeginRun, Begin, Hear
    <3>5. QED
        BY <1>1, <3>4, BeginRetry
  <2>2. CASE ~(status = "idle" /\ transcript # <<>> /\ IsReply(Last(transcript)) /\ queued # <<>>)
    <3>1. BeginRun(<<>>)
        BY <1>4, <2>2 DEF TimerFires
    <3>2. <<>> \in Seq(Users(nextId'))
        BY EmptySeq
    <3>3. QED
        BY <1>1, <3>1, <3>2, BeginRetry
  <2>3. QED
      BY <2>1, <2>2
<1>5. QED
    BY <1>3, <1>4

LEMMA MessageRetry == ASSUME TypeInv, RetryInv, ProcessMessage PROVE RetryInv'
<1> DEFINE X == Events(nextId)
<1>1. PICK i \in Due :
        LET m == events[i]
        IN   /\ m # AgentEnd
             /\ events' = RemoveAt(events, i)
             /\ lastReply' = IF IsReply(m) THEN m ELSE lastReply
    BY DEF ProcessMessage
<1>2. events \in Seq(X)
    BY DEF TypeInv, SessionTyped
<1> HIDE DEF X
<1>3. events # <<>> /\ i = 1 /\ events' = Tail(events)
    BY <1>1, <1>2, TakeEvent
<1>4. /\ Len(events) \in Nat \ {0} /\ Len(events') = Len(events) - 1
      /\ DOMAIN events = 1 .. Len(events) /\ DOMAIN events' = 1 .. Len(events')
      /\ \A j \in 1 .. Len(events') : events'[j] = events[j + 1]
      /\ events' = <<>> <=> Len(events) = 1
    BY <1>2, <1>3, EventLeaves
<1>5. /\ events[1] # AgentEnd
      /\ lastReply' = IF IsReply(events[1]) THEN events[1] ELSE lastReply
    BY <1>1, <1>3
<1>6. IsReply(events[1]) => lastReply' # NoMessage
    BY <1>5 DEF IsReply, NoMessage, Message
<1>7. UNCHANGED <<status, owed, answered, retryPromise, at, timers, thrown, unheard, refused>>
    BY DEF ProcessMessage, agentVars, agent, historyVars
<1> SUFFICES ASSUME ~thrown', unheard' = {}
             PROVE  EndsFollow' /\ AnswerHeard' /\ CallsDone' /\ (~refused' => Owned')
    BY DEF RetryInv
<1>8. EndsFollow /\ AnswerHeard /\ CallsDone /\ (~refused => Owned)
    BY <1>7 DEF RetryInv
<1>9. EndsFollow'
  <2> SUFFICES ASSUME NEW j \in DOMAIN events', events'[j] = AgentEnd
               PROVE  IF j = 1 THEN lastReply' # NoMessage ELSE IsReply(events'[j - 1])
      BY DEF EndsFollow, IsReply
  <2>1. j + 1 \in DOMAIN events /\ events[j + 1] = AgentEnd /\ j + 1 # 1 /\ (j + 1) - 1 = j
        /\ j \in 1 .. Len(events')
      BY <1>4
  <2>2. IsReply(events[j])
      BY <2>1, <1>8 DEF EndsFollow
  <2>3. CASE j = 1
      BY <2>2, <2>3, <1>6
  <2>4. CASE j # 1
    <3>1. j - 1 \in 1 .. Len(events') /\ (j - 1) + 1 = j
        BY <2>1, <2>4, <1>4
    <3>2. events'[j - 1] = events[j]
        BY <3>1, <1>4
    <3>3. QED
        BY <3>2, <2>2, <2>4
  <2>5. QED
      BY <2>3, <2>4
<1>10. AnswerHeard'
  <2> SUFFICES ASSUME status = "running", answered
               PROVE  IF events' = <<>> THEN lastReply' # NoMessage ELSE IsReply(events'[Len(events')])
      BY <1>7 DEF AnswerHeard, IsReply
  <2>1. IsReply(events[Len(events)])
      BY <1>3, <1>8 DEF AnswerHeard
  <2>2. CASE events' = <<>>
      BY <2>1, <2>2, <1>4, <1>6
  <2>3. CASE events' # <<>>
    <3>1. Len(events') \in 1 .. Len(events') /\ Len(events') + 1 = Len(events)
        BY <2>3, <1>4
    <3>2. events'[Len(events')] = events[Len(events)]
        BY <3>1, <1>4
    <3>3. QED
        BY <2>1, <2>3, <3>2
  <2>4. QED
      BY <2>2, <2>3
<1>11. Ending => Ending'
  <2> SUFFICES ASSUME NEW j \in DOMAIN events, events[j] = AgentEnd PROVE Ending'
      BY DEF Ending
  <2>1. j # 1 /\ j - 1 \in 1 .. Len(events') /\ (j - 1) + 1 = j
      BY <1>4, <1>5
  <2>2. QED
      BY <2>1, <1>4 DEF Ending
<1>12. CallsDone' /\ (Owned => Owned')
    BY <1>7, <1>8, <1>11 DEF CallsDone, Owned, Waits, Sleeps
<1>13. QED
    BY <1>7, <1>8, <1>9, <1>10, <1>12

(* Nobody waits once a retry is given up. *)
LEMMA NobodyWaits ==
    ASSUME TypeInv, NEW q, q = Resolved(at), at' \in [Actors -> Places(nextId)],
           \A c \in Callers : at'[c] = q[c]
    PROVE  ~Waits'
<1>1. nextId \in Nat /\ at \in [Actors -> Places(nextId)]
    BY SessionAssumption DEF TypeInv, AtTyped
<1>2. PICK places, n : places = at /\ n = nextId
    OBVIOUS
<1>3. \A x \in Actors :
                IF places[x].where = "retry"
                THEN /\ Resolved(places)[x].where \in {Out(x).where, "idle"}
                     /\ Resolved(places)[x].retry = FALSE
                ELSE Resolved(places)[x] = places[x]
    BY <1>1, <1>2, ResolvedIs
<1>4. \A c \in Callers : c \in Actors /\ Out(c).where = "out"
    BY <1>1, PlaceType, ActorsAre
<1>5. \A c \in Callers : q[c].where # "retry"
    BY <1>2, <1>3, <1>4
<1>6. QED
    BY <1>5 DEF Waits

LEMMA NoRetryRetry ==
    ASSUME TypeInv, NEW reply, NoRetry(reply)
    PROVE  ~Waits' /\ ~retryPromise'
<1> DEFINE n == nextId
<1>1. n \in Nat /\ AgentTyped(n) /\ SessionTyped(n) /\ BranchTyped(n) /\ at \in [Actors -> Places(n)]
    BY SessionAssumption DEF TypeInv, AtTyped
<1>2. PICK q, next, t, entries :
            q = Resolved(at) /\ next = Out("handler") /\ t = transcript /\ entries = branch
    OBVIOUS
<1>3. retryPromise' = FALSE /\ CheckCompaction("handler", q, reply, TRUE, next, t, entries)
    BY <1>2 DEF NoRetry, CheckCompaction, Strip
<1>4. /\ q \in [Actors -> Places(n)] /\ next \in Places(n) /\ t \in Seq(Context(n))
      /\ entries \in Seq(Entries(n)) /\ autoCompacting \in BOOLEAN /\ overflowTried \in BOOLEAN
    BY <1>1, <1>2, ResolvedIs, PlaceType DEF AgentTyped, SessionTyped, BranchTyped
<1> HIDE DEF n
<1>5. \E p \in Places(n) :
        /\ at' = [q EXCEPT !["handler"] = p]
        /\ p # next => p.where = "compacting" /\ p.kept \in 1 .. Len(entries)
  <2>1. n \in Nat /\ "handler" \in Actors
      BY <1>1, ActorsAre
  <2>2. CheckCompaction("handler", q, reply, TRUE, next, t, entries)
      BY <1>3
  <2>3. QED
      BY <2>1, <2>2, <1>4, CheckIs
<1>6. at' \in [Actors -> Places(n)] /\ \A c \in Callers : at'[c] = q[c]
    BY <1>4, <1>5, ActorsAre
<1>7. ~Waits'
    BY <1>2, <1>6, NobodyWaits DEF n
<1>8. QED
    BY <1>3, <1>7

LEMMA AbortRetry ==
    ASSUME TypeInv, NEW places \in [Actors -> Places(nextId)],
           \A x \in Actors : Fine(x, places[x], Len(branch)),
           AbortAll(places)
    PROVE  ~Waits' /\ ~retryPromise'
<1>1. PICK n, length : n = nextId /\ length = Len(branch)
    OBVIOUS
<1>2. n \in Nat /\ length \in Nat /\ places \in [Actors -> Places(n)]
      /\ \A x \in Actors : Fine(x, places[x], length)
    BY <1>1, SessionAssumption, LenProperties DEF TypeInv, BranchTyped
<1>3. retryPromise' = FALSE /\ \A x \in Actors \ {"handler"} : at'[x] = Resolved(places)[x]
    BY <1>2, AbortIs
<1>4. \A x \in Actors :
                IF places[x].where = "retry"
                THEN /\ Resolved(places)[x].where \in {Out(x).where, "idle"}
                     /\ Resolved(places)[x].retry = FALSE
                ELSE Resolved(places)[x] = places[x]
    BY <1>2, ResolvedIs
<1>5. \A c \in Callers : c \in Actors \ {"handler"} /\ Out(c).where = "out"
    BY <1>2, PlaceType, ActorsAre
<1>6. \A c \in Callers : at'[c].where # "retry"
    BY <1>3, <1>4, <1>5
<1>7. QED
    BY <1>3, <1>6 DEF Waits

LEMMA EndRetry == ASSUME TypeInv, RetryInv, ProcessEnd PROVE RetryInv'
<1> DEFINE X == Events(nextId)
<1>1. PICK i \in Due : events[i] = AgentEnd /\ events' = RemoveAt(events, i)
    BY DEF ProcessEnd
<1>2. events \in Seq(X)
    BY DEF TypeInv, SessionTyped
<1> HIDE DEF X
<1>3. events # <<>> /\ i = 1 /\ events' = Tail(events)
    BY <1>1, <1>2, TakeEvent
<1>4. /\ Len(events) \in Nat \ {0} /\ Len(events') = Len(events) - 1
      /\ DOMAIN events = 1 .. Len(events) /\ DOMAIN events' = 1 .. Len(events')
      /\ \A j \in 1 .. Len(events') : events'[j] = events[j + 1]
      /\ events' = <<>> <=> Len(events) = 1
    BY <1>2, <1>3, EventLeaves
<1>5. events[1] = AgentEnd /\ ~IsReply(events[1])
    BY <1>1, <1>3 DEF IsReply, AgentEnd, Message
<1>6. UNCHANGED <<status, owed, answered, timers, thrown, unheard, refused>>
    BY DEF ProcessEnd, unchangedByEnd
<1> SUFFICES ASSUME ~thrown', unheard' = {}
             PROVE  EndsFollow' /\ AnswerHeard' /\ CallsDone' /\ (~refused' => Owned')
    BY DEF RetryInv
<1>7. EndsFollow /\ AnswerHeard /\ CallsDone
    BY <1>6 DEF RetryInv
<1>8. EndsFollow'
  <2> SUFFICES ASSUME NEW j \in DOMAIN events', events'[j] = AgentEnd
               PROVE  IF j = 1 THEN lastReply' # NoMessage ELSE IsReply(events'[j - 1])
      BY DEF EndsFollow, IsReply
  <2>1. j + 1 \in DOMAIN events /\ events[j + 1] = AgentEnd /\ j + 1 # 1 /\ (j + 1) - 1 = j
        /\ j \in 1 .. Len(events')
      BY <1>4
  <2>2. IsReply(events[j])
      BY <2>1, <1>7 DEF EndsFollow
  <2>3. j # 1
      BY <2>2, <1>5
  <2>4. j - 1 \in 1 .. Len(events') /\ (j - 1) + 1 = j
      BY <2>1, <2>3, <1>4
  <2>5. events'[j - 1] = events[j]
      BY <2>4, <1>4
  <2>6. QED
      BY <2>2, <2>3, <2>5
<1>9. AnswerHeard'
  <2> SUFFICES ASSUME status = "running", answered
               PROVE  events' # <<>> /\ IsReply(events'[Len(events')])
      BY <1>6 DEF AnswerHeard, IsReply
  <2>1. IsReply(events[Len(events)])
      BY <1>3, <1>7 DEF AnswerHeard
  <2>2. events' # <<>>
      BY <2>1, <1>4, <1>5
  <2>3. Len(events') \in 1 .. Len(events') /\ Len(events') + 1 = Len(events)
      BY <2>2, <1>4
  <2>4. events'[Len(events')] = events[Len(events)]
      BY <2>3, <1>4
  <2>5. QED
      BY <2>1, <2>2, <2>4
<1>10. lastReply # NoMessage
    BY <1>4, <1>5, <1>7 DEF EndsFollow
<1>11. Owned'
  <2>1. CASE lastReply.why = "retryable" /\ AttemptsLeft
    <3>1. at' = [at EXCEPT !["handler"] = [Place("sleeping") EXCEPT !.reply = lastReply]]
        BY <2>1, <1>10 DEF ProcessEnd
    <3>2. at'["handler"].where = "sleeping"
        BY <3>1, ActorsAre DEF TypeInv, AtTyped, Place
    <3>3. QED
        BY <3>2 DEF Owned, Sleeps
  <2>2. CASE ~(lastReply.why = "retryable" /\ AttemptsLeft)
    <3>1. NoRetry(lastReply)
        BY <2>2, <1>10 DEF ProcessEnd
    <3>2. ~Waits' /\ ~retryPromise'
        BY <3>1, NoRetryRetry
    <3>3. QED
        BY <3>2 DEF Owned
  <2>3. QED
      BY <2>1, <2>2
<1>12. CallsDone'
    BY <1>6, <1>7 DEF CallsDone
<1>13. QED
    BY <1>8, <1>9, <1>11, <1>12

(* Somebody who does not wait for a retry goes elsewhere. *)
LEMMA StepAside ==
    ASSUME TypeInv, NEW x \in Actors, NEW p, at' = [at EXCEPT ![x] = p], p.where # "retry",
           timers' = timers \/ timers' = timers + 1,
           x # "handler" \/ at["handler"].where \notin {"sleeping", "cancelled"} \/ timers' = timers + 1
    PROVE  (Waits' => Waits) /\ (Sleeps => Sleeps')
<1>1. timers \in Nat /\ at \in [Actors -> Places(nextId)] /\ "handler" \in Actors /\ Callers \subseteq Actors
    BY ActorsAre DEF TypeInv, SessionTyped, AtTyped
<1>2. \A y \in Actors : at'[y] = IF y = x THEN p ELSE at[y]
    BY <1>1
<1>3. Waits' => Waits
    BY <1>1, <1>2 DEF Waits
<1>4. Sleeps => Sleeps'
    BY <1>1, <1>2 DEF Sleeps
<1>5. QED
    BY <1>3, <1>4

LEMMA SleepRetry == ASSUME TypeInv, RetryInv, SleepEnds PROVE RetryInv'
<1>1. /\ at' = [at EXCEPT !["handler"] = Out("handler")] /\ timers' = timers + 1
      /\ UNCHANGED <<status, answered, owed, events, lastReply, retryPromise, thrown, unheard, refused>>
    BY DEF SleepEnds, agentVars, agent, historyVars
<1>2. Out("handler").where # "retry" /\ "handler" \in Actors
    BY PlaceType, ActorsAre, 0 \in Nat
<1>3. (Waits' => Waits) /\ (Sleeps => Sleeps')
    BY <1>1, <1>2, StepAside
<1>4. QED
    BY <1>1, <1>3, RetryKeeps

LEMMA CancelledRetry == ASSUME TypeInv, RetryInv, RetryCancelled PROVE RetryInv'
<1>1. /\ NoRetry(at["handler"].reply)
      /\ UNCHANGED <<status, answered, owed, events, lastReply, thrown, unheard, refused>>
    BY DEF RetryCancelled, unchangedByEnd
<1>2. PICK reply : reply = at["handler"].reply
    OBVIOUS
<1>3. NoRetry(reply)
    BY <1>1, <1>2 DEF NoRetry, CheckCompaction
<1>4. ~Waits' /\ ~retryPromise'
    BY <1>3, NoRetryRetry
<1>5. QED
    BY <1>1, <1>4, RetryKeeps

(* The caller c looks at the last reply before its prompt, and waits for   *)
(* nothing but a compaction.                                               *)
LEMMA PromptMoves ==
    ASSUME TypeInv, NEW c \in Callers, Prompt(c)
    PROVE  \E p : /\ at' = [at EXCEPT ![c] = p] /\ p.where \in {"hooks", "compacting"}
                  /\ p.where = "compacting" /\ p.retry => ~overflowTried /\ overflowTried'
<1> DEFINE n == nextId
<1>1. n \in Nat /\ AgentTyped(n) /\ SessionTyped(n) /\ c \in Actors /\ at \in [Actors -> Places(n)]
    BY SessionAssumption, ActorsAre DEF TypeInv, AtTyped
<1>2. PICK P, next, t, entries, m :
           /\ P = at /\ next = Place("hooks")
           /\ t = transcript \o pendingBash /\ entries = branch \o pendingBash
           /\ m = Last(Keep(transcript \o pendingBash,
                            {e \in ToSet(transcript \o pendingBash) : IsReply(e)}))
    OBVIOUS
<1>3. next \in Places(n) /\ next.where = "hooks" /\ next.retry = FALSE
    BY <1>1, <1>2, PlaceType
<1>4. CheckCompaction(c, P, m, FALSE, next, t, entries) \/ at' = [at EXCEPT ![c] = next]
    BY <1>2 DEF Prompt, CheckCompaction, Strip
<1>5. CASE at' = [at EXCEPT ![c] = next]
    BY <1>3, <1>5
<1>6. CASE CheckCompaction(c, P, m, FALSE, next, t, entries)
  <2>1. /\ P \in [Actors -> Places(n)] /\ t \in Seq(Context(n)) /\ entries \in Seq(Entries(n))
        /\ autoCompacting \in BOOLEAN /\ overflowTried \in BOOLEAN
      BY <1>1, <1>2, CommandsJoin DEF SessionTyped
  <2>2. n \in Nat /\ c \in Actors
      BY <1>1
  <2> HIDE DEF n
  <2>3. \E p \in Places(n) :
          /\ at' = [P EXCEPT ![c] = p]
          /\ p # next => p.where = "compacting" /\ p.kept \in 1 .. Len(entries)
          /\ p # next /\ p.retry => m.why = "overflow" /\ ~overflowTried /\ overflowTried'
      BY <2>1, <2>2, <1>3, <1>6, CheckIs
  <2>4. QED
      BY <2>3, <1>2, <1>3
<1>7. QED
    BY <1>4, <1>5, <1>6

LEMMA PromptRetry == ASSUME TypeInv, RetryInv, NEW c \in Callers, Prompt(c) PROVE RetryInv'
<1>1. UNCHANGED <<status, answered, owed, events, lastReply, retryPromise, timers, thrown, unheard, refused>>
    BY DEF Prompt
<1>2. PICK p : at' = [at EXCEPT ![c] = p] /\ p.where \in {"hooks", "compacting"}
    BY PromptMoves
<1>3. c \in Actors /\ c # "handler" /\ p.where # "retry"
    BY <1>2, ActorsAre
<1>4. (Waits' => Waits) /\ (Sleeps => Sleeps')
    BY <1>1, <1>2, <1>3, StepAside
<1>5. QED
    BY <1>1, <1>4, RetryKeeps

LEMMA SendRetry == ASSUME TypeInv, RetryInv, NEW c \in Callers, SendPrompt(c) PROVE RetryInv'
<1>1. CASE status = "idle"
  <2>1. /\ nextId' \in 1 .. MaxId + 1 /\ nextId <= nextId' /\ nextId' \in Nat
        /\ nextId \in 1 .. nextId' - 1
      BY <1>1, FreshIs DEF SendPrompt
  <2> DEFINE ms == <<User(nextId)>>
  <2>2. User(nextId) \in Users(nextId')
      BY <2>1, MessageIs
  <2>3. ms \in Seq(Users(nextId')) /\ BeginRun(ms)
      BY <1>1, <2>2 DEF SendPrompt
  <2> HIDE DEF ms
  <2>4. PICK m0 : m0 = ms
      OBVIOUS
  <2>5. BeginRun(m0) /\ m0 \in Seq(Users(nextId'))
      BY <2>3, <2>4 DEF BeginRun, Begin, Hear
  <2>6. QED
      BY <2>1, <2>5, BeginRetry
<1>2. CASE status # "idle"
  <2>1. /\ at' = [at EXCEPT ![c] = Out(c)]
        /\ UNCHANGED <<status, answered, owed, events, lastReply, retryPromise, timers, thrown, unheard, refused>>
      BY <1>2 DEF SendPrompt, agentVars, agent, sessionVars, historyVars
  <2>2. c \in Actors /\ c # "handler" /\ Out(c).where # "retry"
      BY ActorsAre, PlaceType, 0 \in Nat
  <2>3. (Waits' => Waits) /\ (Sleeps => Sleeps')
      BY <2>1, <2>2, StepAside
  <2>4. QED
      BY <2>1, <2>3, RetryKeeps
<1>3. QED
    BY <1>1, <1>2

(* Nobody moves, and no run either. *)
LEMMA StillRetry ==
    ASSUME RetryInv, UNCHANGED <<status, answered, owed, events, lastReply, retryPromise, timers, at,
                                 thrown, unheard, refused>>
    PROVE  RetryInv'
<1>1. (Waits' => Waits) /\ (Sleeps => Sleeps')
    BY DEF Waits, Sleeps
<1>2. QED
    BY <1>1, RetryKeeps

LEMMA GiveUpRetry == ASSUME TypeInv, RetryInv, Abort \/ StartManual PROVE RetryInv'
<1>1. UNCHANGED <<status, answered, owed, events, lastReply, thrown, unheard, refused>>
    BY DEF Abort, StartManual, agent, historyVars
<1>2. BranchTyped(nextId) /\ nextId \in Nat
      /\ at \in [Actors -> Places(nextId)] /\ \A x \in Actors : Fine(x, at[x], Len(branch))
    BY SessionAssumption DEF TypeInv, AtTyped
<1>3. ~Waits' /\ ~retryPromise'
  <2>1. CASE Abort
    <3>1. PICK places : places = at
        OBVIOUS
    <3>2. AbortAll(places)
        BY <2>1, <3>1 DEF Abort, AbortAll
    <3>3. places \in [Actors -> Places(nextId)] /\ \A x \in Actors : Fine(x, places[x], Len(branch))
        BY <1>2, <3>1
    <3>4. QED
        BY <3>2, <3>3, AbortRetry
  <2>2. CASE StartManual
    <3> DEFINE p == Place(IF status = "idle" THEN "ready" ELSE "aborting")
               q == [at EXCEPT !["manual"] = p]
    <3>1. p \in Places(nextId) /\ p.where \in {"ready", "aborting"}
        BY <1>2, PlaceType
    <3>2. Fine("manual", p, Len(branch))
        BY <3>1, ActorsAre DEF Fine
    <3>3. PICK places : places = q
        OBVIOUS
    <3>4. AbortAll(places)
        BY <2>2, <3>3 DEF StartManual, AbortAll
    <3> HIDE DEF p
    <3>5. places \in [Actors -> Places(nextId)] /\ \A x \in Actors : Fine(x, places[x], Len(branch))
        BY <1>2, <3>1, <3>2, <3>3
    <3>6. QED
        BY <3>4, <3>5, AbortRetry
  <2>3. QED
      BY <2>1, <2>2
<1>4. QED
    BY <1>1, <1>3, RetryKeeps

LEMMA PrepareRetry == ASSUME TypeInv, RetryInv, PrepareManual PROVE RetryInv'
<1>1. UNCHANGED <<status, answered, owed, events, lastReply, retryPromise, timers, thrown, unheard, refused, branch>>
    BY DEF PrepareManual, agentVars, agent, historyVars
<1>2. nextId \in Nat /\ branch \in Seq(Entries(nextId)) /\ "manual" \in Actors
    BY SessionAssumption, ActorsAre DEF TypeInv, BranchTyped
<1>3. \E p : at' = [at EXCEPT !["manual"] = p] /\ p.where # "retry"
  <2>1. CASE CanCompact(branch)
    <3>1. PICK p \in Compacting(branch, FALSE) : at' = [at EXCEPT !["manual"] = p]
        BY <2>1 DEF PrepareManual
    <3>2. p.where = "compacting"
        BY <1>2, <3>1, CompactingIs
    <3>3. QED
        BY <3>1, <3>2
  <2>2. CASE ~CanCompact(branch)
    <3>1. at' = [at EXCEPT !["manual"] = Out("manual")]
        BY <2>2 DEF PrepareManual
    <3>2. Out("manual").where = "out"
        BY <1>2, PlaceType
    <3>3. QED
        BY <3>1, <3>2
  <2>3. QED
      BY <2>1, <2>2
<1>4. (Waits' => Waits) /\ (Sleeps => Sleeps')
    BY <1>1, <1>2, <1>3, StepAside
<1>5. QED
    BY <1>1, <1>4, RetryKeeps

LEMMA CompactRetry ==
    ASSUME TypeInv, RetryInv, NEW x \in Actors,
           AutoCompacted(x) \/ CompactionFails(x) \/ (x = "manual" /\ ManualCompacted)
    PROVE  RetryInv'
<1>1. UNCHANGED <<status, answered, owed, events, lastReply, retryPromise, thrown, unheard, refused>>
    BY DEF AutoCompacted, CompactionFails, ManualCompacted, agentVars, agent, historyVars, compactVars
<1>2. at[x].where = "compacting"
    BY DEF AutoCompacted, CompactionFails, ManualCompacted
<1>3. timers' = timers \/ timers' = timers + 1
    BY DEF AutoCompacted, CompactionFails, ManualCompacted
<1>4. at' = [at EXCEPT ![x] = After(x)] /\ After(x).where # "retry"
  <2>1. After("manual") = Out("manual")
      BY ActorsAre DEF After
  <2>2. After(x).where # "retry"
      BY AfterIs, 0 \in Nat
  <2>3. at' = [at EXCEPT ![x] = After(x)]
      BY <2>1 DEF AutoCompacted, CompactionFails, ManualCompacted
  <2>4. QED
      BY <2>2, <2>3
<1>5. (Waits' => Waits) /\ (Sleeps => Sleeps')
    BY <1>2, <1>3, <1>4, StepAside
<1>6. QED
    BY <1>1, <1>5, RetryKeeps

LEMMA RetryNext == TypeInv /\ RetryInv /\ [Next]_vars => RetryInv'
<1> SUFFICES ASSUME TypeInv, RetryInv, [Next]_vars PROVE RetryInv'
    OBVIOUS
<1>1. ASSUME AgentStep PROVE RetryInv'
    BY <1>1, InjectRetry, ModelRetry, ToolRetry, StopRetry, ThrowRetry, SettleRetry DEF AgentStep
<1>2. ASSUME HandlerStep PROVE RetryInv'
    BY <1>2, MessageRetry, EndRetry, SleepRetry, CancelledRetry DEF HandlerStep
<1>3. ASSUME CallerStep PROVE RetryInv'
  <2>1. ASSUME NEW c \in Callers, Prompt(c) \/ SendPrompt(c) PROVE RetryInv'
      BY <2>1, PromptRetry, SendRetry
  <2>2. ASSUME QueueSteer \/ ClearQueue \/ RecordBashResult PROVE RetryInv'
    <3>1. UNCHANGED <<status, answered, owed, events, lastReply, retryPromise, timers, at,
                      thrown, unheard, refused>>
        BY <2>2 DEF QueueSteer, ClearQueue, RecordBashResult, agent, historyVars
    <3>2. QED
        BY <3>1, StillRetry
  <2>3. ASSUME ManualCompacted PROVE RetryInv'
    <3>1. "manual" \in Actors
        BY ActorsAre
    <3>2. QED
        BY <2>3, <3>1, CompactRetry
  <2>4. ASSUME NEW x \in Actors, AutoCompacted(x) \/ CompactionFails(x) PROVE RetryInv'
      BY <2>4, CompactRetry
  <2>5. QED
      BY <1>3, <2>1, <2>2, <2>3, <2>4, GiveUpRetry, PrepareRetry DEF CallerStep
<1>4. ASSUME UNCHANGED vars PROVE RetryInv'
  <2>1. UNCHANGED <<status, answered, owed, events, lastReply, retryPromise, timers, at,
                    thrown, unheard, refused>>
      BY <1>4 DEF vars, agentVars, agent, historyVars
  <2>2. QED
      BY <2>1, StillRetry
<1>5. QED
    BY <1>1, <1>2, <1>3, <1>4, TimerRetry DEF Next

LEMMA RetryImplies == TypeInv /\ RetryInv => RetryResolves
<1> SUFFICES ASSUME TypeInv, RetryInv, ~thrown, unheard = {}, ~refused, Waits PROVE RetryHasOwner
    BY DEF RetryResolves, RetryHasOwner, Waits
<1>1. Sleeps \/ status # "idle" \/ Ending
    BY DEF RetryInv, Owned
<1>2. Ending => AgentEnd \in ToSet(events)
    BY DEF Ending, ToSet
<1>3. QED
    BY <1>1, <1>2 DEF RetryHasOwner, Sleeps

(* waitForRetry() is not waited for in vain: the promise that              *)
(* _handleAgentEvent makes is resolved, or a sleep of the handler, a timer *)
(* that continues the run, a run, or an end that is yet to be handled will *)
(* get to it; unless a run was thrown or not heard, or a timer found       *)
(* nothing to continue from.                                               *)
THEOREM RetriesResolve == Spec => []RetryResolves
<1>1. Init => TypeInv /\ RetryInv
    BY TypeInit, RetryInit
<1>2. TypeInv /\ RetryInv /\ [Next]_vars => (TypeInv /\ RetryInv)'
    BY TypeNext, RetryNext
<1>3. TypeInv /\ RetryInv => RetryResolves
    BY RetryImplies
<1>4. QED
    BY <1>1, <1>2, <1>3, PTL DEF Spec

-----------------------------------------------------------------------------
(* What is queued is what is shown, but for what was announced: it waits in *)
(* the events to be taken from the list, or was not heard.                  *)

Delivered(u) == u.id \in unheard \/ u \in ToSet(events)
QInv ==
    /\ Keep(shown, {u \in Users(nextId) : ~Delivered(u)}) = queued
    /\ \A i, j \in DOMAIN queued : queued[i] = queued[j] => i = j

LEMMA SetConcat ==
    ASSUME NEW X, NEW s \in Seq(X), NEW t \in Seq(X)
    PROVE  ToSet(s \o t) = ToSet(s) \cup ToSet(t)
<1>1. /\ Len(s) \in Nat /\ DOMAIN s = 1 .. Len(s) /\ Len(t) \in Nat /\ DOMAIN t = 1 .. Len(t)
      /\ s \o t \in Seq(X) /\ Len(s \o t) = Len(s) + Len(t)
      /\ \A i \in 1 .. Len(s) + Len(t) : (s \o t)[i] = IF i <= Len(s) THEN s[i] ELSE t[i - Len(s)]
    BY ConcatProperties, LenProperties
<1>2. DOMAIN (s \o t) = 1 .. Len(s) + Len(t)
    BY <1>1, LenProperties
<1> DEFINE q == s \o t
<1> HIDE DEF q
<1>3. ASSUME NEW i \in DOMAIN q PROVE q[i] \in ToSet(s) \cup ToSet(t)
  <2>1. CASE i <= Len(s)
      BY <2>1, <1>1, <1>2 DEF q, ToSet
  <2>2. CASE ~(i <= Len(s))
    <3>1. q[i] = t[i - Len(s)] /\ i - Len(s) \in DOMAIN t
        BY <2>2, <1>1, <1>2 DEF q
    <3>2. QED
        BY <3>1 DEF ToSet
  <2>3. QED
      BY <2>1, <2>2
<1>4. ASSUME NEW i \in DOMAIN s PROVE s[i] \in ToSet(q)
    BY <1>1, <1>2 DEF q, ToSet
<1>5. ASSUME NEW i \in DOMAIN t PROVE t[i] \in ToSet(q)
  <2>1. i + Len(s) \in DOMAIN q /\ ~(i + Len(s) <= Len(s)) /\ (i + Len(s)) - Len(s) = i
      BY <1>1, <1>2 DEF q
  <2>2. q[i + Len(s)] = t[i]
      BY <2>1, <1>1, <1>2 DEF q
  <2>3. QED
      BY <2>1, <2>2 DEF ToSet
<1>6. QED
    BY <1>3, <1>4, <1>5 DEF ToSet, q

LEMMA SetOne == ASSUME NEW e PROVE ToSet(<<e>>) = {e} /\ ToSet(<<>>) = {}
BY DEF ToSet

LEMMA SetTail ==
    ASSUME NEW X, NEW s \in Seq(X), s # <<>>
    PROVE  ToSet(s) = {Head(s)} \cup ToSet(Tail(s))
<1>1. /\ Head(s) \in X /\ Tail(s) \in Seq(X) /\ s = <<Head(s)>> \o Tail(s) /\ <<Head(s)>> \in Seq(X)
    BY HeadTailProperties
<1> DEFINE h == <<Head(s)>>
           t == Tail(s)
<1>2. h \in Seq(X) /\ t \in Seq(X) /\ s = h \o t /\ ToSet(h) = {Head(s)}
    BY <1>1, SetOne
<1> HIDE DEF h, t
<1>3. ToSet(h \o t) = ToSet(h) \cup ToSet(t)
    BY <1>2, SetConcat
<1>4. QED
    BY <1>2, <1>3 DEF t

LEMMA QueueInit == Init => QInv
<1> SUFFICES ASSUME Init PROVE QInv
    OBVIOUS
<1>1. shown = <<>> /\ queued = <<>>
    BY DEF Init
<1>2. QED
    BY <1>1, KeepEmpty DEF QInv

(* What the session hears says of each user message whether it is          *)
(* delivered.                                                              *)
LEMMA HeardUser ==
    ASSUME TypeInv, nextId' \in 1 .. MaxId + 1, nextId <= nextId',
           NEW ms \in Seq(Spoken(nextId')), NEW ends, Hear(ms, ends),
           NEW u \in Users(nextId), \A m \in ToSet(ms) : m.id = u.id => m = u
    PROVE  Delivered(u)' <=> Delivered(u) \/ u \in ToSet(ms)
<1> DEFINE X == Events(nextId')
           tail == IF ends = NoMessage THEN <<>> ELSE <<AgentEnd>>
<1>1. /\ events \in Seq(X) /\ AgentEnd \in X /\ ms \in Seq(X)
    BY SpokenEvents
<1>2. u # AgentEnd /\ u.id # AgentEnd.id
  <2>1. nextId \in Nat
      BY SessionAssumption DEF TypeInv
  <2>2. u.role = "user" /\ u.id \in 1 .. nextId - 1 /\ AgentEnd.role = "agent_end" /\ AgentEnd.id = 0
      BY <2>1, MessageIs
  <2>3. QED
      BY <2>1, <2>2
<1>3. tail \in Seq(X) /\ ToSet(tail) \subseteq {AgentEnd}
    BY <1>1, SetOne, EmptySeq
<1> HIDE DEF X, tail
<1>4. CASE Listening
  <2>1. events' = events \o ms \o tail /\ unheard' = unheard
      BY <1>4 DEF Hear, tail
  <2>2. events \o ms \in Seq(X) /\ ToSet(events \o ms) = ToSet(events) \cup ToSet(ms)
      BY <1>1, ConcatProperties, SetConcat
  <2> DEFINE q == events \o ms
  <2> HIDE DEF q
  <2>3. q \in Seq(X) /\ events' = q \o tail
      BY <2>1, <2>2 DEF q
  <2>4. ToSet(q \o tail) = ToSet(q) \cup ToSet(tail)
      BY <2>3, <1>3, SetConcat
  <2>5. QED
      BY <2>1, <2>2, <2>3, <2>4, <1>2, <1>3 DEF Delivered, q
<1>5. CASE ~Listening
  <2>1. /\ unheard' = unheard \cup Idset(ms) \cup (IF ends = NoMessage THEN {} ELSE {AgentEnd.id})
        /\ events' = events
      BY <1>5 DEF Hear
  <2>2. u.id \in Idset(ms) <=> u \in ToSet(ms)
      BY DEF Idset
  <2>3. QED
      BY <2>1, <2>2, <1>2 DEF Delivered
<1>6. QED
    BY <1>4, <1>5

(* Nothing moves in either queue, and nobody's message is delivered. *)
LEMMA QueueSame ==
    ASSUME TypeInv, nextId' \in 1 .. MaxId + 1, nextId <= nextId', QInv, UNCHANGED <<shown, queued>>,
           \A u \in Users(nextId) : Delivered(u)' <=> Delivered(u)
    PROVE  QInv'
<1> DEFINE S == {u \in Users(nextId) : ~Delivered(u)}
           T == {u \in Users(nextId') : ~Delivered(u)'}
<1>1. shown \in Seq(Users(nextId)) /\ nextId \in Nat /\ nextId' \in Nat
    BY SessionAssumption DEF TypeInv, SessionTyped
<1>2. Users(nextId) \subseteq Users(nextId')
    BY <1>1, Grown
<1>3. \A u \in Users(nextId) : u \in S <=> u \in T
    BY <1>2
<1> HIDE DEF S, T
<1>4. Keep(shown, S) = Keep(shown, T)
    BY <1>1, <1>3, KeepSame
<1>5. Keep(shown, S) = queued
    BY DEF QInv, S
<1>6. Keep(shown', {u \in Users(nextId) : ~Delivered(u)}') = queued'
    BY <1>4, <1>5 DEF T
<1>7. QED
    BY <1>6 DEF QInv

LEMMA QueueHears ==
    ASSUME TypeInv, nextId' \in 1 .. MaxId + 1, nextId <= nextId', QInv, UNCHANGED <<shown, queued>>,
           NEW ms \in Seq(Spoken(nextId')), NEW ends, Hear(ms, ends),
           \A m \in ToSet(ms) : m.id \notin 1 .. nextId - 1
    PROVE  QInv'
<1>1. nextId \in Nat
    BY SessionAssumption DEF TypeInv
<1>2. ASSUME NEW u \in Users(nextId) PROVE Delivered(u)' <=> Delivered(u)
  <2>1. u.id \in 1 .. nextId - 1
      BY <1>1, MessageIs
  <2>2. u \notin ToSet(ms) /\ \A m \in ToSet(ms) : m.id = u.id => m = u
      BY <2>1
  <2>3. Delivered(u)' <=> Delivered(u) \/ u \in ToSet(ms)
      BY <2>2, HeardUser
  <2>4. QED
      BY <2>2, <2>3
<1>3. QED
    BY <1>2, QueueSame

(* The head of the queue is announced. *)
LEMMA QueueHead ==
    ASSUME TypeInv, QInv, queued # <<>>, queued' = Tail(queued), UNCHANGED <<shown, nextId>>,
           Hear(<<Head(queued)>>, NoMessage)
    PROVE  QInv'
<1> DEFINE X == Users(nextId)
           S == {u \in X : ~Delivered(u)}
           T == {u \in X : ~Delivered(u)'}
           h == Head(queued)
           ms == <<h>>
<1>1. /\ shown \in Seq(X) /\ nextId \in Nat /\ queued \in Seq(X)
      /\ nextId' \in 1 .. MaxId + 1 /\ nextId <= nextId' /\ nextId' = nextId
    BY SessionAssumption, NoneGiven DEF TypeInv, SessionTyped, AgentTyped
<1>2. h \in X /\ Tail(queued) \in Seq(X) /\ ms \in Seq(X) /\ queued = ms \o Tail(queued)
    BY <1>1, HeadTailProperties
<1>3. ASSUME NEW u \in X PROVE Delivered(u)' <=> Delivered(u) \/ u = h
  <2>1. PICK m0 : m0 = ms
      OBVIOUS
  <2>2. ToSet(m0) = {h}
      BY <2>1, SetOne
  <2>3. m0 \in Seq(Spoken(nextId'))
      BY <2>1, <1>1, <1>2, SpokenEvents
  <2>4. Hear(m0, NoMessage)
      BY <2>1 DEF Hear
  <2>5. \A m \in ToSet(m0) : m.id = u.id => m = u
    <3>1. u = User(u.id) /\ h = User(h.id)
        BY <1>1, <1>2, <1>3, MessageIs
    <3>2. QED
        BY <3>1, <2>2
  <2>6. Delivered(u)' <=> Delivered(u) \/ u \in ToSet(m0)
      BY <1>1, <2>3, <2>4, <2>5, HeardUser
  <2>7. QED
      BY <2>2, <2>6
<1>4. Keep(shown, S) = queued
    BY DEF QInv
<1>5. \A u \in X : u \in T <=> u \in S /\ u \in T
    BY <1>3
<1>6. Keep(shown, T) = Keep(queued, T)
  <2> HIDE DEF S, T, X
  <2>1. Keep(Keep(shown, S), T) = Keep(shown, T)
      BY <1>1, <1>5, KeepTwice
  <2>2. QED
      BY <2>1, <1>4
<1>7. \A i, j \in DOMAIN queued : queued[i] = queued[j] => i = j
    BY DEF QInv
<1>8. /\ Len(queued) \in Nat \ {0} /\ Len(queued') = Len(queued) - 1
      /\ DOMAIN queued = 1 .. Len(queued) /\ DOMAIN queued' = 1 .. Len(queued')
      /\ \A i \in 1 .. Len(queued') : queued'[i] = queued[i + 1]
      /\ queued[1] = h
    BY <1>1, <1>2, EmptySeq, LenProperties, HeadTailProperties
<1>9. \A i, j \in DOMAIN queued' : queued'[i] = queued'[j] => i = j
  <2> TAKE i, j \in DOMAIN queued'
  <2>1. i + 1 \in DOMAIN queued /\ j + 1 \in DOMAIN queued
      BY <1>8
  <2>2. QED
      BY <2>1, <1>7, <1>8
<1>10. \A i \in DOMAIN queued' : queued'[i] \in S /\ queued'[i] # h
  <2> TAKE i \in DOMAIN queued'
  <2>1. i + 1 \in DOMAIN queued /\ i + 1 # 1 /\ 1 \in DOMAIN queued
      BY <1>8
  <2>2. queued'[i] # h
      BY <2>1, <1>7, <1>8
  <2>3. queued \in Seq(X \cap S)
    <3> HIDE DEF X, S
    <3>1. Keep(shown, S) \in Seq(X \cap S)
        BY <1>1, KeepType, Zenon
    <3>2. QED
        BY <3>1, <1>4
  <2>4. queued[i + 1] \in X \cap S
      BY <2>1, <2>3, ElementOfSeq, <1>8
  <2>5. QED
      BY <2>2, <2>4, <1>8
<1>11. Keep(queued, T) = queued'
  <2> DEFINE Q == ToSet(queued')
  <2>1. h \notin T /\ Q \subseteq T
    <3>1. \A u \in Q : u \in S /\ u # h
        BY <1>10 DEF ToSet
    <3>2. QED
        BY <3>1, <1>2, <1>3
  <2>2. queued' \in Seq(Q)
      BY <1>2, SetIs
  <2>3. queued = ms \o queued' /\ ms \in Seq(X) /\ queued' \in Seq(X)
      BY <1>2
  <2>4. Keep(ms, T) = <<>>
      BY <2>1, KeepOne
  <2> HIDE DEF S, T, X, ms, Q
  <2>5. Keep(ms \o queued', T) = Keep(ms, T) \o Keep(queued', T)
    <3>1. PICK t : t = queued'
        OBVIOUS
    <3>2. Keep(ms \o t, T) = Keep(ms, T) \o Keep(t, T)
        BY <2>3, <3>1, KeepConcat
    <3>3. QED
        BY <3>1, <3>2
  <2>6. Keep(queued', T) = queued'
      BY <2>1, <2>2, KeepAll
  <2>7. QED
      BY <2>3, <2>4, <2>5, <2>6, ConcatEmptySeq
<1>12. Keep(shown', {u \in Users(nextId) : ~Delivered(u)}') = queued'
    BY <1>1, <1>6, <1>11
<1>13. QED
    BY <1>9, <1>12 DEF QInv

LEMMA InjectQueue == ASSUME TypeInv, QInv, Inject PROVE QInv'
BY QueueHead DEF Inject, sessionVars, listVars

LEMMA ModelQueue == ASSUME TypeInv, QInv, ModelReplies PROVE QInv'
<1>1. /\ nextId' \in 1 .. MaxId + 1 /\ nextId <= nextId' /\ nextId' \in Nat /\ nextId \in Nat
      /\ nextId \in 1 .. nextId' - 1 /\ UNCHANGED <<shown, queued>>
    BY FreshIs DEF ModelReplies, sessionVars, listVars
<1>2. PICK reply \in GoodReplies \cup FailedReplies : \E ends : Hear(<<reply>>, ends)
    BY DEF ModelReplies
<1>3. PICK ends : Hear(<<reply>>, ends)
    BY <1>2
<1>4. reply \in Replies(nextId') /\ reply.id = nextId
    BY <1>1, ReplyIs
<1> DEFINE ms == <<reply>>
<1>5. ms \in Seq(Spoken(nextId')) /\ ToSet(ms) = {reply}
    BY <1>4, SetOne DEF Spoken
<1>6. Hear(ms, ends) /\ \A m \in ToSet(ms) : m.id \notin 1 .. nextId - 1
    BY <1>1, <1>3, <1>4, <1>5
<1> HIDE DEF ms
<1>7. QED
    BY <1>1, <1>5, <1>6, QueueHears

LEMMA ToolQueue == ASSUME TypeInv, QInv, ToolReturns PROVE QInv'
<1>1. /\ nextId' \in 1 .. MaxId + 1 /\ nextId <= nextId' /\ nextId' \in Nat /\ nextId \in Nat
      /\ nextId \in 1 .. nextId' - 1 /\ UNCHANGED <<shown, queued>> /\ AgentTyped(nextId')
    BY FreshIs, Still DEF ToolReturns, sessionVars, listVars
<1>2. PICK call \in owed : Hear(<<Result(call)>>, NoMessage)
    BY DEF ToolReturns
<1>3. Result(call) \in Results(nextId') /\ Result(call).id = nextId
  <2> DEFINE n == nextId'
             C == (1 .. n - 1) \X Nat
  <2>1. call \in C
      BY <1>1 DEF AgentTyped
  <2> HIDE DEF C
  <2>2. Result(call) \in [role : {"toolResult"}, id : 1 .. n - 1, stop : {"none"}, why : {"none"},
                calls : {0}, call : C]
      BY <1>1, <2>1 DEF Result
  <2>3. QED
      BY <2>2 DEF Results, Result, C
<1>4. PICK ms : ms = <<Result(call)>>
    OBVIOUS
<1>5. ms \in Seq(Spoken(nextId')) /\ ToSet(ms) = {Result(call)}
    BY <1>3, <1>4, SetOne DEF Spoken
<1>6. Hear(ms, NoMessage) /\ \A m \in ToSet(ms) : m.id \notin 1 .. nextId - 1
  <2>1. Hear(ms, NoMessage)
      BY <1>2, <1>4
  <2>2. QED
      BY <2>1, <1>1, <1>3, <1>5
<1>7. QED
    BY <1>1, <1>5, <1>6, QueueHears

LEMMA EndsQueue == ASSUME TypeInv, QInv, RunStops \/ RunThrows PROVE QInv'
<1>1. nextId' \in 1 .. MaxId + 1 /\ nextId <= nextId' /\ UNCHANGED <<shown, queued>>
    BY FreshIs, NoneGiven DEF RunStops, RunThrows, sessionVars, listVars
<1>2. PICK ends : Hear(<<>>, ends)
    BY DEF RunStops, RunThrows
<1>3. <<>> \in Seq(Spoken(nextId')) /\ ToSet(<<>>) = {}
    BY EmptySeq, SetOne
<1>4. QED
    BY <1>1, <1>2, <1>3, QueueHears

LEMMA TimerQueue == ASSUME TypeInv, QInv, TimerFires PROVE QInv'
<1>1. nextId' \in 1 .. MaxId + 1 /\ nextId <= nextId' /\ nextId' = nextId
    BY NoneGiven DEF TimerFires
<1>2. CASE status # "idle" \/ transcript = <<>> \/ (IsReply(Last(transcript)) /\ queued = <<>>)
  <2>1. UNCHANGED <<events, unheard, shown, queued>>
      BY <1>2 DEF TimerFires, agentVars, sessionVars, listVars
  <2>2. QED
      BY <2>1, <1>1, QueueSame DEF Delivered
<1>3. CASE ~(status # "idle" \/ transcript = <<>> \/ (IsReply(Last(transcript)) /\ queued = <<>>))
  <2>1. CASE status = "idle" /\ transcript # <<>> /\ IsReply(Last(transcript)) /\ queued # <<>>
    <3>1. queued' = Tail(queued) /\ Hear(<<Head(queued)>>, NoMessage) /\ shown' = shown
        BY <1>3, <2>1 DEF TimerFires, BeginRun, sessionVars, listVars
    <3>2. QED
        BY <1>1, <2>1, <3>1, QueueHead
  <2>2. CASE ~(status = "idle" /\ transcript # <<>> /\ IsReply(Last(transcript)) /\ queued # <<>>)
    <3>1. Hear(<<>>, NoMessage) /\ UNCHANGED <<shown, queued>>
        BY <1>3, <2>2 DEF TimerFires, BeginRun, sessionVars, listVars
    <3>2. <<>> \in Seq(Spoken(nextId')) /\ ToSet(<<>>) = {}
        BY EmptySeq, SetOne
    <3>3. QED
        BY <1>1, <3>1, <3>2, QueueHears
  <2>3. QED
      BY <2>1, <2>2
<1>4. QED
    BY <1>2, <1>3

LEMMA MessageQueue == ASSUME TypeInv, QInv, ProcessMessage PROVE QInv'
<1> DEFINE X == Events(nextId)
           U == Users(nextId)
<1>1. PICK i \in Due : events' = RemoveAt(events, i) /\ shown' = Keep(shown, ToSet(shown) \ {events[i]})
    BY DEF ProcessMessage
<1>2. events \in Seq(X) /\ shown \in Seq(U)
    BY DEF TypeInv, SessionTyped
<1>3. events # <<>> /\ i = 1 /\ events' = Tail(events)
    BY <1>1, <1>2, TakeEvent
<1> DEFINE m == events[1]
           S == {u \in U : ~Delivered(u)}
           T == {u \in U : ~Delivered(u)'}
           R == ToSet(shown) \ {m}
           Y == ToSet(shown)
<1>4. ToSet(events) = {m} \cup ToSet(events')
    BY <1>2, <1>3, SetTail, HeadTailProperties
<1>5. UNCHANGED <<queued, unheard, nextId>>
    BY DEF ProcessMessage, agentVars, historyVars
<1>6. \A u \in U : Delivered(u) <=> Delivered(u)' \/ u = m
    BY <1>4, <1>5 DEF Delivered
<1>7. Y \subseteq U /\ shown \in Seq(Y)
    BY <1>2, SetIs
<1>8. \A u \in Y : u \in S <=> u \in R /\ u \in T
    BY <1>6, <1>7
<1> HIDE DEF S, T, R, Y, X
<1>9. Keep(Keep(shown, R), T) = Keep(shown, S)
    BY <1>7, <1>8, KeepTwice
<1>10. shown' = Keep(shown, R) /\ Keep(shown, S) = queued
    BY <1>1, <1>3 DEF QInv, R, S
<1>11. Keep(shown', T) = queued'
    BY <1>5, <1>9, <1>10
<1>12. Keep(shown', {u \in Users(nextId) : ~Delivered(u)}') = queued'
    BY <1>5, <1>11 DEF T
<1>13. QED
    BY <1>5, <1>12 DEF QInv

LEMMA EndQueue == ASSUME TypeInv, QInv, ProcessEnd PROVE QInv'
<1> DEFINE X == Events(nextId)
<1>1. PICK i \in Due : events[i] = AgentEnd /\ events' = RemoveAt(events, i)
    BY DEF ProcessEnd
<1>2. events \in Seq(X)
    BY DEF TypeInv, SessionTyped
<1> HIDE DEF X
<1>3. events # <<>> /\ i = 1 /\ events' = Tail(events)
    BY <1>1, <1>2, TakeEvent
<1>4. ToSet(events) = {AgentEnd} \cup ToSet(events')
  <2>1. ToSet(events) = {Head(events)} \cup ToSet(Tail(events))
      BY <1>2, <1>3, SetTail
  <2>2. Head(events) = AgentEnd
      BY <1>1, <1>3
  <2>3. QED
      BY <2>1, <2>2, <1>3
<1>5. UNCHANGED <<queued, shown, unheard, nextId>> /\ nextId' \in 1 .. MaxId + 1 /\ nextId <= nextId' /\ nextId \in Nat
    BY NoneGiven DEF ProcessEnd, unchangedByEnd, listVars
<1>6. \A u \in Users(nextId) : u # AgentEnd
    BY <1>5, MessageIs
<1>7. QED
    BY <1>4, <1>5, <1>6, QueueSame DEF Delivered

LEMMA SteerQueue == ASSUME TypeInv, QInv, QueueSteer PROVE QInv'
<1> DEFINE n == nextId
           u == User(nextId)
           X == Users(nextId')
           S == {v \in Users(nextId) : ~Delivered(v)}
           T == {v \in X : ~Delivered(v)}
<1>1. /\ nextId' \in 1 .. MaxId + 1 /\ nextId <= nextId' /\ nextId' \in Nat /\ nextId \in Nat
      /\ nextId \in 1 .. nextId' - 1
    BY FreshIs DEF QueueSteer
<1>2. /\ shown' = Append(shown, u) /\ queued' = Append(queued, u) /\ UNCHANGED <<events, unheard>>
    BY DEF QueueSteer, historyVars
<1>3. /\ shown \in Seq(Users(nextId)) /\ queued \in Seq(Users(nextId)) /\ events \in Seq(Events(nextId))
      /\ unheard \subseteq 0 .. nextId - 1
    BY DEF TypeInv, SessionTyped, AgentTyped
<1>4. u \in X /\ u.id = nextId /\ Users(nextId) \subseteq X
    BY <1>1, MessageIs, Grown DEF User, Message
<1>5. \A v \in Users(nextId) \cup Events(nextId) : v.id \in 0 .. nextId - 1
    BY <1>1, MessageIs DEF Events, Spoken
<1>6. ~Delivered(u)
  <2>1. ToSet(events) \subseteq Events(nextId)
      BY <1>3, SetIs
  <2>2. u \notin ToSet(events)
      BY <2>1, <1>1, <1>4, <1>5
  <2>3. QED
      BY <2>2, <1>1, <1>3, <1>4 DEF Delivered
<1>7. Keep(shown, S) = queued /\ \A i, j \in DOMAIN queued : queued[i] = queued[j] => i = j
    BY DEF QInv
<1>8. \A v \in Users(nextId) : v \in S <=> v \in T
    BY <1>4
<1>9. shown \in Seq(X) /\ u \in T
    BY <1>3, <1>4, <1>6, SeqMonotonic
<1>10. /\ Len(queued) \in Nat /\ DOMAIN queued = 1 .. Len(queued) /\ queued' \in Seq(X)
       /\ Len(queued') = Len(queued) + 1 /\ queued'[Len(queued) + 1] = u
       /\ \A i \in 1 .. Len(queued) : queued'[i] = queued[i] /\ queued[i] \in Users(nextId)
  <2>1. queued \in Seq(X)
      BY <1>3, <1>4, SeqMonotonic
  <2>2. Len(queued) \in Nat /\ DOMAIN queued = 1 .. Len(queued)
      BY <1>3, LenProperties
  <2>3. /\ queued' \in Seq(X)
        /\ Len(queued') = Len(queued) + 1 /\ queued'[Len(queued) + 1] = u
        /\ \A i \in 1 .. Len(queued) : queued'[i] = queued[i]
      BY <2>1, <1>2, <1>4, AppendProperties
  <2>4. \A i \in 1 .. Len(queued) : queued[i] \in Users(nextId)
      BY <1>3, ElementOfSeq
  <2>5. QED
      BY <2>2, <2>3, <2>4
<1> HIDE DEF S, T, X, u
<1>11. Keep(shown, S) = Keep(shown, T)
    BY <1>3, <1>8, KeepSame
<1>12. Keep(Append(shown, u), T) = Append(Keep(shown, T), u)
    BY <1>4, <1>9, KeepAppend
<1>13. Keep(shown', {v \in Users(nextId) : ~Delivered(v)}') = queued'
    BY <1>2, <1>7, <1>11, <1>12 DEF T, X, Delivered
<1>14. \A i, j \in DOMAIN queued' : queued'[i] = queued'[j] => i = j
  <2>1. DOMAIN queued' = 1 .. Len(queued) + 1
      BY <1>10, LenProperties
  <2>2. u \notin Users(nextId)
      BY <1>1, <1>4, <1>5
  <2>3. QED
      BY <2>1, <2>2, <1>7, <1>10
<1>15. QED
    BY <1>13, <1>14 DEF QInv

LEMMA SendQueue == ASSUME TypeInv, QInv, NEW c \in Callers, SendPrompt(c) PROVE QInv'
<1>1. CASE status = "idle"
  <2>1. /\ nextId' \in 1 .. MaxId + 1 /\ nextId <= nextId' /\ nextId' \in Nat /\ nextId \in Nat
        /\ nextId \in 1 .. nextId' - 1
      BY <1>1, FreshIs DEF SendPrompt
  <2>2. User(nextId) \in Users(nextId') /\ User(nextId).id = nextId
      BY <2>1, MessageIs DEF User, Message
  <2>3. PICK ms : ms = <<User(nextId)>>
      OBVIOUS
  <2>4. Hear(ms, NoMessage) /\ UNCHANGED <<shown, queued>>
      BY <1>1, <2>3 DEF SendPrompt, BeginRun, Hear, sessionVars, listVars
  <2>5. ms \in Seq(Spoken(nextId')) /\ ToSet(ms) = {User(nextId)}
      BY <2>2, <2>3, SetOne DEF Spoken
  <2>6. \A m \in ToSet(ms) : m.id \notin 1 .. nextId - 1
      BY <2>1, <2>2, <2>5
  <2>7. QED
      BY <2>1, <2>4, <2>5, <2>6, QueueHears
<1>2. CASE status # "idle"
  <2>1. UNCHANGED <<shown, queued, events, unheard, nextId>> /\ nextId' \in 1 .. MaxId + 1 /\ nextId <= nextId'
      BY <1>2, NoneGiven DEF SendPrompt, agentVars, historyVars, sessionVars, listVars
  <2>2. QED
      BY <2>1, QueueSame DEF Delivered
<1>3. QED
    BY <1>1, <1>2

LEMMA ClearedQueue == ASSUME ClearQueue PROVE QInv'
<1>1. shown' = <<>> /\ queued' = <<>>
    BY DEF ClearQueue
<1>2. QED
    BY <1>1, KeepEmpty DEF QInv

(* The queues are left alone. *)
LEMMA StillQueue ==
    ASSUME TypeInv, QInv, UNCHANGED <<shown, queued, events, unheard>>,
           nextId' = nextId \/ Fresh
    PROVE  QInv'
<1>1. nextId' \in 1 .. MaxId + 1 /\ nextId <= nextId'
    BY FreshIs, NoneGiven
<1>2. \A u \in Users(nextId) : Delivered(u)' <=> Delivered(u)
    BY DEF Delivered
<1>3. QED
    BY <1>1, <1>2, QueueSame

LEMMA QueueNext == TypeInv /\ QInv /\ [Next]_vars => QInv'
<1> SUFFICES ASSUME TypeInv, QInv, [Next]_vars PROVE QInv'
    OBVIOUS
<1>1. ASSUME AgentStep PROVE QInv'
  <2>1. ASSUME RunSettles PROVE QInv'
    <3>1. UNCHANGED <<shown, queued, events, unheard, nextId>>
        BY <2>1 DEF RunSettles, sessionVars, listVars, historyVars
    <3>2. QED
        BY <3>1, StillQueue
  <2>2. QED
      BY <1>1, <2>1, InjectQueue, ModelQueue, ToolQueue, EndsQueue DEF AgentStep
<1>2. ASSUME HandlerStep PROVE QInv'
  <2>1. ASSUME SleepEnds \/ RetryCancelled PROVE QInv'
    <3>1. UNCHANGED <<shown, queued, events, unheard, nextId>>
        BY <2>1 DEF SleepEnds, RetryCancelled, unchangedByEnd, agentVars, listVars, historyVars
    <3>2. QED
        BY <3>1, StillQueue
  <2>2. QED
      BY <1>2, <2>1, MessageQueue, EndQueue DEF HandlerStep
<1>3. ASSUME CallerStep PROVE QInv'
  <2>1. ASSUME NEW c \in Callers, Prompt(c) PROVE QInv'
    <3>1. UNCHANGED <<shown, queued, events, unheard, nextId>>
        BY <2>1 DEF Prompt
    <3>2. QED
        BY <3>1, StillQueue
  <2>2. ASSUME Abort \/ StartManual \/ PrepareManual PROVE QInv'
    <3>1. UNCHANGED <<shown, queued, events, unheard, nextId>>
        BY <2>2 DEF Abort, StartManual, PrepareManual, listVars, agentVars, historyVars
    <3>2. QED
        BY <3>1, StillQueue
  <2>3. ASSUME RecordBashResult PROVE QInv'
    <3>1. UNCHANGED <<shown, queued, events, unheard>> /\ Fresh
        BY <2>3 DEF RecordBashResult, historyVars
    <3>2. QED
        BY <3>1, StillQueue
  <2>4. ASSUME NEW x \in Actors, AutoCompacted(x) PROVE QInv'
    <3>1. UNCHANGED <<shown, queued, events, unheard>> /\ Fresh
        BY <2>4 DEF AutoCompacted, Rebuild, listVars
    <3>2. QED
        BY <3>1, StillQueue
  <2>5. ASSUME NEW x \in Actors, CompactionFails(x) PROVE QInv'
    <3>1. UNCHANGED <<shown, queued, events, unheard, nextId>>
        BY <2>5 DEF CompactionFails, agentVars, listVars, historyVars
    <3>2. QED
        BY <3>1, StillQueue
  <2>6. ASSUME ManualCompacted PROVE QInv'
    <3>1. UNCHANGED <<shown, queued, events, unheard>> /\ Fresh
        BY <2>6 DEF ManualCompacted, Rebuild, listVars
    <3>2. QED
        BY <3>1, StillQueue
  <2>7. ASSUME NEW c \in Callers, SendPrompt(c) PROVE QInv'
      BY <2>7, SendQueue
  <2>8. QED
      BY <1>3, <2>1, <2>2, <2>3, <2>4, <2>5, <2>6, <2>7, SteerQueue, ClearedQueue DEF CallerStep
<1>4. ASSUME UNCHANGED vars PROVE QInv'
  <2>1. UNCHANGED <<shown, queued, events, unheard, nextId>>
      BY <1>4 DEF vars, agentVars, listVars, historyVars
  <2>2. QED
      BY <2>1, StillQueue
<1>5. QED
    BY <1>1, <1>2, <1>3, <1>4, TimerQueue DEF Next

LEMMA QueueImplies == TypeInv /\ QInv => QueueShown
<1> SUFFICES ASSUME TypeInv, QInv, events = <<>>
             PROVE  Keep(shown, {u \in ToSet(shown) : u.id \notin unheard}) = queued
    BY DEF QueueShown
<1> DEFINE S == {u \in Users(nextId) : ~Delivered(u)}
           T == {u \in ToSet(shown) : u.id \notin unheard}
           Y == ToSet(shown)
<1>1. Y \subseteq Users(nextId) /\ shown \in Seq(Y)
    BY SetIs DEF TypeInv, SessionTyped
<1>2. ToSet(events) = {}
    BY SetOne
<1>3. \A u \in Y : u \in S <=> u \in T
    BY <1>1, <1>2 DEF Delivered
<1>4. Keep(shown, S) = queued
    BY DEF QInv
<1> HIDE DEF S, T, Y
<1>5. Keep(shown, S) = Keep(shown, T)
    BY <1>1, <1>3, KeepSame
<1>6. QED
    BY <1>4, <1>5 DEF T

(* _steeringMessages and the agent's steering queue are two lists that     *)
(* prompts, deliveries, clearQueue() and the event handler change at       *)
(* different times: when the events are handled they are the same, but for *)
(* what was delivered while the session did not listen.                    *)
THEOREM QueueIsShown == Spec => []QueueShown
<1>1. Init => TypeInv /\ QInv
    BY TypeInit, QueueInit
<1>2. TypeInv /\ QInv /\ [Next]_vars => (TypeInv /\ QInv)'
    BY TypeNext, QueueNext
<1>3. TypeInv /\ QInv => QueueShown
    BY QueueImplies
<1>4. QED
    BY <1>1, <1>2, <1>3, PTL DEF Spec

-----------------------------------------------------------------------------
(* What is saved, and then what the queue of events holds, is what was      *)
(* heard.                                                                   *)

Limit    == MaxId + 1
Ids(s)   == IdSeq(Keep(s, Spoken(Limit)))
SavedInv == Ids(branch) \o Ids(events) = heard

Said     == Entries(Limit) \cup Events(Limit)
Numbers  == {e.id : e \in Said}

LEMMA LimitIs ==
    /\ Limit \in Nat /\ AgentEnd \notin Spoken(Limit)
    /\ Bashes(Limit) \cap Spoken(Limit) = {} /\ Marks(Limit) \cap Spoken(Limit) = {}
    /\ AgentEnd \in Events(Limit) /\ Spoken(Limit) \subseteq Events(Limit)
    /\ Spoken(Limit) \subseteq Entries(Limit) /\ Bashes(Limit) \subseteq Entries(Limit)
    /\ Marks(Limit) \subseteq Entries(Limit)
<1>1. Limit \in Nat
    BY SessionAssumption DEF Limit
<1>2. \A m \in Spoken(Limit) : m.role \in {"user", "assistant", "toolResult"}
    BY <1>1, MessageIs DEF Spoken
<1>3. /\ AgentEnd \notin Spoken(Limit)
      /\ Bashes(Limit) \cap Spoken(Limit) = {} /\ Marks(Limit) \cap Spoken(Limit) = {}
    BY <1>1, <1>2, MessageIs
<1>4. QED
    BY <1>1, <1>3 DEF Events, Entries

LEMMA Widest ==
    ASSUME TypeInv
    PROVE  /\ branch \in Seq(Said) /\ events \in Seq(Events(Limit)) /\ events \in Seq(Said)
           /\ pendingBash \in Seq(Bashes(Limit))
<1>1. nextId \in Nat /\ Limit \in Nat /\ nextId <= Limit
    BY SessionAssumption DEF TypeInv, Limit
<1>2. /\ Bashes(nextId) \subseteq Bashes(Limit) /\ Entries(nextId) \subseteq Entries(Limit)
      /\ Events(nextId) \subseteq Events(Limit)
    BY <1>1, Grown
<1>3. branch \in Seq(Entries(Limit)) /\ events \in Seq(Events(Limit)) /\ pendingBash \in Seq(Bashes(Limit))
    BY <1>2, SeqMonotonic DEF TypeInv, BranchTyped, SessionTyped
<1>4. Entries(Limit) \subseteq Said /\ Events(Limit) \subseteq Said
    BY DEF Said
<1>5. QED
    BY <1>3, <1>4, SeqMonotonic

LEMMA IdType ==
    ASSUME NEW X, NEW s \in Seq(X)
    PROVE  /\ IdSeq(s) \in Seq({e.id : e \in X}) /\ Len(IdSeq(s)) = Len(s)
           /\ \A i \in 1 .. Len(s) : IdSeq(s)[i] = s[i].id
<1>1. Len(s) \in Nat /\ DOMAIN s = 1 .. Len(s) /\ \A i \in 1 .. Len(s) : s[i] \in X
    BY LenProperties, ElementOfSeq
<1>2. IdSeq(s) \in Seq({e.id : e \in X}) /\ DOMAIN IdSeq(s) = 1 .. Len(s)
    BY <1>1, SeqDef DEF IdSeq
<1>3. Len(IdSeq(s)) \in Nat /\ DOMAIN IdSeq(s) = 1 .. Len(IdSeq(s))
    BY <1>2, LenProperties
<1>4. QED
    BY <1>1, <1>2, <1>3 DEF IdSeq

LEMMA IdConcat ==
    ASSUME NEW X, NEW s \in Seq(X), NEW t \in Seq(X)
    PROVE  IdSeq(s \o t) = IdSeq(s) \o IdSeq(t)
<1> DEFINE I == {e.id : e \in X}
<1>1. PICK a \in Seq(I) : a = IdSeq(s)
    BY IdType
<1>2. PICK b \in Seq(I) : b = IdSeq(t)
    BY IdType
<1>3. PICK q \in Seq(X) : q = s \o t
    BY ConcatProperties
<1>4. PICK r \in Seq(I) : r = IdSeq(q)
    BY IdType
<1> HIDE DEF I
<1>5. PICK c \in Seq(I) : c = a \o b
    BY ConcatProperties
<1>6. /\ Len(a) = Len(s) /\ Len(b) = Len(t) /\ Len(r) = Len(q)
      /\ \A i \in 1 .. Len(s) : a[i] = s[i].id
      /\ \A i \in 1 .. Len(t) : b[i] = t[i].id
      /\ \A i \in 1 .. Len(q) : r[i] = q[i].id
    BY <1>1, <1>2, <1>4, IdType
<1>7. /\ Len(q) = Len(s) + Len(t)
      /\ \A i \in 1 .. Len(s) + Len(t) : q[i] = IF i <= Len(s) THEN s[i] ELSE t[i - Len(s)]
    BY <1>3, ConcatProperties
<1>8. /\ Len(c) = Len(s) + Len(t)
      /\ \A i \in 1 .. Len(s) + Len(t) : c[i] = IF i <= Len(s) THEN a[i] ELSE b[i - Len(s)]
    BY <1>5, <1>6, ConcatProperties
<1>9. Len(s) \in Nat /\ Len(t) \in Nat
    BY LenProperties
<1>10. ASSUME NEW i \in 1 .. Len(s) + Len(t) PROVE c[i] = r[i]
  <2>1. CASE i <= Len(s)
    <3>1. i \in 1 .. Len(s)
        BY <2>1, <1>9
    <3>2. c[i] = a[i] /\ q[i] = s[i] /\ r[i] = q[i].id /\ a[i] = s[i].id
        BY <2>1, <3>1, <1>6, <1>7, <1>8
    <3>3. QED
        BY <3>2
  <2>2. CASE ~(i <= Len(s))
    <3>1. i - Len(s) \in 1 .. Len(t)
        BY <2>2, <1>9
    <3>2. /\ c[i] = b[i - Len(s)] /\ q[i] = t[i - Len(s)] /\ r[i] = q[i].id
          /\ b[i - Len(s)] = t[i - Len(s)].id
        BY <2>2, <3>1, <1>6, <1>7, <1>8
    <3>3. QED
        BY <3>2
  <2>3. QED
      BY <2>1, <2>2
<1>11. Len(c) = Len(r)
    BY <1>6, <1>7, <1>8
<1>12. c = r
    BY <1>8, <1>10, <1>11, SeqEqual
<1>13. QED
    BY <1>1, <1>2, <1>3, <1>4, <1>5, <1>12

LEMMA HeadAndTail ==
    ASSUME NEW X, NEW s \in Seq(X), s # <<>>
    PROVE  /\ Head(s) \in X /\ Tail(s) \in Seq(X)
           /\ s = <<Head(s)>> \o Tail(s)
<1>1. /\ Head(s) \in X /\ Tail(s) \in Seq(X) /\ Len(Tail(s)) = Len(s) - 1
      /\ \A i \in 1 .. Len(Tail(s)) : Tail(s)[i] = s[i + 1]
    BY HeadTailProperties
<1>2. Len(s) \in Nat \ {0} /\ Head(s) = s[1]
    BY EmptySeq, LenProperties
<1>3. PICK t \in Seq(X) : t = Tail(s)
    BY <1>1
<1>4. PICK a \in Seq(X) : a = <<Head(s)>> /\ Len(a) = 1 /\ a[1] = s[1]
  <2>1. PICK h \in X : h = Head(s)
      BY <1>1
  <2>2. <<h>> \in Seq(X) /\ Len(<<h>>) = 1 /\ <<h>>[1] = h
      OBVIOUS
  <2>3. QED
      BY <2>1, <2>2, <1>2
<1>5. PICK q \in Seq(X) : q = a \o t
    BY ConcatProperties
<1>6. /\ Len(q) = 1 + Len(t)
      /\ \A i \in 1 .. 1 + Len(t) : q[i] = IF i <= 1 THEN a[i] ELSE t[i - 1]
    BY <1>4, <1>5, ConcatProperties
<1>7. ASSUME NEW i \in 1 .. Len(s) PROVE q[i] = s[i]
  <2>1. CASE i = 1
      BY <2>1, <1>1, <1>2, <1>3, <1>4, <1>6
  <2>2. CASE i # 1
    <3>1. i - 1 \in 1 .. Len(t) /\ (i - 1) + 1 = i /\ ~(i <= 1) /\ i \in 1 .. 1 + Len(t)
        BY <2>2, <1>1, <1>2, <1>3
    <3>2. QED
        BY <3>1, <1>1, <1>3, <1>6
  <2>3. QED
      BY <2>1, <2>2
<1>8. Len(q) = Len(s)
    BY <1>1, <1>2, <1>3, <1>6
<1>9. q = s
    BY <1>7, <1>8, SeqEqual
<1>10. QED
    BY <1>1, <1>3, <1>4, <1>5, <1>9

LEMMA IdEmpty == IdSeq(<<>>) = <<>>
BY DEF IdSeq

LEMMA IdsType == ASSUME NEW s \in Seq(Said) PROVE Ids(s) \in Seq(Numbers)
<1>1. PICK k \in Seq(Said) : k = Keep(s, Spoken(Limit))
    BY KeepType
<1>2. IdSeq(k) \in Seq({e.id : e \in Said})
    BY IdType
<1>3. QED
    BY <1>1, <1>2 DEF Ids, Numbers

LEMMA IdsConcat ==
    ASSUME NEW s \in Seq(Said), NEW t \in Seq(Said)
    PROVE  Ids(s \o t) = Ids(s) \o Ids(t)
<1>1. PICK a \in Seq(Said) : a = Keep(s, Spoken(Limit))
    BY KeepType
<1>2. PICK b \in Seq(Said) : b = Keep(t, Spoken(Limit))
    BY KeepType
<1>3. Keep(s \o t, Spoken(Limit)) = Keep(s, Spoken(Limit)) \o Keep(t, Spoken(Limit))
    BY KeepConcat
<1>4. IdSeq(a \o b) = IdSeq(a) \o IdSeq(b)
    BY IdConcat
<1>5. QED
    BY <1>1, <1>2, <1>3, <1>4 DEF Ids

(* What joins the branch without being said changes nothing. *)
LEMMA IdsBeside ==
    ASSUME NEW s \in Seq(Said), NEW t \in Seq(Said), Keep(t, Spoken(Limit)) = <<>>
    PROVE  Ids(s \o t) = Ids(s) /\ Ids(t \o s) = Ids(s)
<1>1. Ids(s \o t) = Ids(s) \o Ids(t) /\ Ids(t \o s) = Ids(t) \o Ids(s)
    BY IdsConcat
<1>2. Ids(t) = <<>>
    BY IdEmpty DEF Ids
<1>3. PICK a \in Seq(Numbers) : a = Ids(s)
    BY IdsType
<1>4. a \o <<>> = a /\ <<>> \o a = a
    BY ConcatEmptySeq
<1>5. QED
    BY <1>1, <1>2, <1>3, <1>4

(* What is said moves from the queue to the branch. *)
LEMMA IdsMove ==
    ASSUME NEW s \in Seq(Said), NEW t \in Seq(Said), NEW u \in Seq(Said)
    PROVE  Ids(s \o t) \o Ids(u) = Ids(s) \o Ids(t \o u)
<1>1. PICK a \in Seq(Numbers) : a = Ids(s)
    BY IdsType
<1>2. PICK b \in Seq(Numbers) : b = Ids(t)
    BY IdsType
<1>3. PICK c \in Seq(Numbers) : c = Ids(u)
    BY IdsType
<1>4. Ids(s \o t) = Ids(s) \o Ids(t) /\ Ids(t \o u) = Ids(t) \o Ids(u)
    BY IdsConcat
<1>5. (a \o b) \o c = a \o (b \o c)
    BY ConcatAssociative
<1>6. QED
    BY <1>1, <1>2, <1>3, <1>4, <1>5

LEMMA IdsSaid ==
    ASSUME NEW s \in Seq(Spoken(Limit))
    PROVE  s \in Seq(Said) /\ Ids(s) = IdSeq(s)
<1>1. Spoken(Limit) \subseteq Said
    BY DEF Said, Entries
<1>2. Keep(s, Spoken(Limit)) = s
    BY KeepAll
<1>3. QED
    BY <1>1, <1>2, SeqMonotonic DEF Ids

LEMMA SavedInit == Init => SavedInv
<1> SUFFICES ASSUME Init PROVE SavedInv
    OBVIOUS
<1>1. branch = <<>> /\ events = <<>> /\ heard = <<>>
    BY DEF Init
<1>2. Ids(<<>>) = <<>>
    BY KeepEmpty, IdEmpty DEF Ids
<1>3. QED
    BY <1>1, <1>2 DEF SavedInv

(* What the session hears is queued. *)
LEMMA SavedHears ==
    ASSUME TypeInv, SavedInv, nextId' \in 1 .. MaxId + 1,
           NEW ms \in Seq(Spoken(nextId')), NEW ends, Hear(ms, ends), UNCHANGED branch
    PROVE  SavedInv'
<1>1. ms \in Seq(Spoken(Limit))
  <2>1. nextId' \in Nat /\ Limit \in Nat /\ nextId' <= Limit
      BY SessionAssumption DEF Limit
  <2>2. Spoken(nextId') \subseteq Spoken(Limit)
      BY <2>1, Grown
  <2>3. QED
      BY <2>2, SeqMonotonic
<1>2. CASE ~Listening
  <2>1. UNCHANGED <<events, heard>>
      BY <1>2 DEF Hear
  <2>2. QED
      BY <2>1 DEF SavedInv
<1>3. CASE Listening
  <2>1. PICK b \in Seq(Said) : b = branch
      BY Widest
  <2>2. PICK e \in Seq(Said) : e = events
      BY Widest
  <2>3. AgentEnd \in Said /\ AgentEnd \notin Spoken(Limit)
      BY LimitIs DEF Said
  <2>4. <<AgentEnd>> \in Seq(Said) /\ Keep(<<AgentEnd>>, Spoken(Limit)) = <<>>
      BY <2>3, KeepOne
  <2>5. <<>> \in Seq(Said) /\ Keep(<<>>, Spoken(Limit)) = <<>>
      BY EmptySeq, KeepEmpty
  <2>6. PICK t \in Seq(Said) : t = (IF ends = NoMessage THEN <<>> ELSE <<AgentEnd>>)
                               /\ Keep(t, Spoken(Limit)) = <<>>
      BY <2>4, <2>5
  <2>7. events' = e \o ms \o t /\ heard' = heard \o IdSeq(ms)
      BY <1>3, <2>2, <2>6 DEF Hear
  <2>8. ms \in Seq(Said) /\ Ids(ms) = IdSeq(ms)
      BY <1>1, IdsSaid
  <2>9. PICK q \in Seq(Said) : q = e \o ms
      BY <2>8, ConcatProperties
  <2>10. Ids(q \o t) = Ids(q) /\ Ids(q) = Ids(e) \o Ids(ms)
      BY <2>6, <2>8, <2>9, IdsBeside, IdsConcat
  <2>11. Ids(b \o e) \o Ids(ms) = Ids(b) \o Ids(e \o ms) /\ Ids(b \o e) = Ids(b) \o Ids(e)
      BY <2>8, IdsMove, IdsConcat
  <2>12. Ids(b) \o Ids(e) = heard
      BY <2>1, <2>2 DEF SavedInv
  <2>13. Ids(b) \o Ids(q) = heard'
      BY <2>7, <2>8, <2>9, <2>11, <2>12
  <2>14. branch' = b /\ events' = q \o t
      BY <2>1, <2>7, <2>9
  <2>15. QED
      BY <2>10, <2>13, <2>14 DEF SavedInv
<1>4. QED
    BY <1>2, <1>3

(* Entries that are not messages of the agent join the branch. *)
LEMMA SavedBeside ==
    ASSUME TypeInv, SavedInv, NEW es \in Seq(Bashes(Limit) \cup Marks(Limit)),
           branch' = branch \o es, UNCHANGED <<events, heard>>
    PROVE  SavedInv'
<1>1. PICK Y : Y = Bashes(Limit) \cup Marks(Limit)
    OBVIOUS
<1>2. Y \cap Spoken(Limit) = {} /\ Y \subseteq Said /\ es \in Seq(Y)
    BY <1>1, LimitIs DEF Said
<1>3. es \in Seq(Said) /\ Keep(es, Spoken(Limit)) = <<>>
    BY <1>2, SeqMonotonic, KeepNone
<1>4. PICK b \in Seq(Said) : b = branch
    BY Widest
<1>5. Ids(b \o es) = Ids(b)
    BY <1>3, IdsBeside
<1>6. branch' = b \o es
    BY <1>4
<1>7. QED
    BY <1>4, <1>5, <1>6 DEF SavedInv

LEMMA SavedSame == ASSUME SavedInv, UNCHANGED <<branch, events, heard>> PROVE SavedInv'
BY DEF SavedInv

(* The first event is saved. *)
LEMMA SavedMessage == ASSUME TypeInv, SavedInv, ProcessMessage PROVE SavedInv'
<1>1. PICK i \in Due : events[i] # AgentEnd /\ events' = RemoveAt(events, i) /\ branch' = Append(branch, events[i])
    BY DEF ProcessMessage
<1>2. PICK b \in Seq(Said) : b = branch
    BY Widest
<1>3. PICK e \in Seq(Events(Limit)) : e = events /\ e \in Seq(Said)
    BY Widest
<1>4. events # <<>> /\ i = 1 /\ events' = Tail(events)
    BY <1>1, <1>3, TakeEvent
<1>5. PICK m \in Events(Limit) : m = e[1]
    BY <1>3, <1>4, EmptySeq, LenProperties, ElementOfSeq
<1>6. m \in Said /\ <<m>> \in Seq(Said)
    BY DEF Said
<1>7. PICK t \in Seq(Said) : t = Tail(e) /\ e = <<m>> \o t
  <2>1. e # <<>> /\ Head(e) = m
      BY <1>3, <1>4, <1>5
  <2>2. Tail(e) \in Seq(Said) /\ e = <<Head(e)>> \o Tail(e)
      BY <1>3, <2>1, HeadAndTail
  <2>3. QED
      BY <2>1, <2>2
<1>8. branch' = b \o <<m>>
    BY <1>1, <1>2, <1>3, <1>4, <1>5, <1>6, AppendIsConcat
<1>9. events' = t /\ heard' = heard
    BY <1>3, <1>4, <1>7 DEF ProcessMessage, historyVars
<1>10. PICK one \in Seq(Said) : one = <<m>>
    BY <1>6
<1>11. Ids(b \o one) \o Ids(t) = Ids(b) \o Ids(one \o t)
    BY IdsMove
<1>12. QED
    BY <1>2, <1>3, <1>7, <1>8, <1>9, <1>10, <1>11 DEF SavedInv

LEMMA SavedEnd == ASSUME TypeInv, SavedInv, ProcessEnd PROVE SavedInv'
<1>1. PICK i \in Due : events[i] = AgentEnd /\ events' = RemoveAt(events, i)
    BY DEF ProcessEnd
<1>2. PICK e \in Seq(Said) : e = events
    BY Widest
<1>3. events # <<>> /\ i = 1 /\ events' = Tail(events)
    BY <1>1, <1>2, TakeEvent
<1>4. UNCHANGED <<branch, heard>>
    BY DEF ProcessEnd, unchangedByEnd
<1>5. PICK t \in Seq(Said) : t = Tail(e) /\ e = <<AgentEnd>> \o t
  <2>1. e # <<>> /\ Head(e) = AgentEnd
      BY <1>1, <1>2, <1>3
  <2>2. Tail(e) \in Seq(Said) /\ e = <<Head(e)>> \o Tail(e)
      BY <2>1, HeadAndTail
  <2>3. QED
      BY <2>1, <2>2
<1>6. PICK one \in Seq(Said) : one = <<AgentEnd>> /\ Keep(one, Spoken(Limit)) = <<>>
  <2>1. AgentEnd \in Said /\ AgentEnd \notin Spoken(Limit)
      BY LimitIs DEF Said
  <2>2. <<AgentEnd>> \in Seq(Said) /\ Keep(<<AgentEnd>>, Spoken(Limit)) = <<>>
      BY <2>1, KeepOne
  <2>3. QED
      BY <2>2
<1>7. Ids(one \o t) = Ids(t)
    BY <1>6, IdsBeside
<1>8. QED
    BY <1>2, <1>3, <1>4, <1>5, <1>6, <1>7 DEF SavedInv

LEMMA SavedUsers ==
    ASSUME TypeInv, SavedInv, UNCHANGED <<branch, nextId>>,
           NEW ms \in Seq(Users(nextId)), Hear(ms, NoMessage)
    PROVE  SavedInv'
<1>1. nextId' \in 1 .. MaxId + 1 /\ nextId' = nextId
    BY NoneGiven
<1>2. Users(nextId) \subseteq Spoken(nextId')
    BY <1>1 DEF Spoken
<1>3. ms \in Seq(Spoken(nextId'))
    BY <1>2, SeqMonotonic
<1>4. QED
    BY <1>1, <1>3, SavedHears

LEMMA QueuedUser ==
    ASSUME TypeInv, queued # <<>>
    PROVE  <<Head(queued)>> \in Seq(Users(nextId))
<1>1. queued \in Seq(Users(nextId))
    BY DEF TypeInv, AgentTyped
<1>2. Head(queued) \in Users(nextId)
    BY <1>1, HeadTailProperties
<1>3. QED
    BY <1>2

LEMMA InjectSaved == ASSUME TypeInv, SavedInv, Inject PROVE SavedInv'
<1>1. /\ Hear(<<Head(queued)>>, NoMessage) /\ queued # <<>> /\ UNCHANGED <<branch, nextId>>
    BY DEF Inject, sessionVars
<1>2. QED
    BY <1>1, QueuedUser, SavedUsers

LEMMA ModelSaved == ASSUME TypeInv, SavedInv, ModelReplies PROVE SavedInv'
<1>1. /\ nextId' \in 1 .. MaxId + 1 /\ nextId' \in Nat /\ nextId \in 1 .. nextId' - 1
      /\ UNCHANGED branch
    BY FreshIs DEF ModelReplies, sessionVars
<1>2. PICK reply \in GoodReplies \cup FailedReplies : \E ends : Hear(<<reply>>, ends)
    BY DEF ModelReplies
<1>3. PICK ends : Hear(<<reply>>, ends)
    BY <1>2
<1>4. reply \in Replies(nextId')
    BY <1>1, ReplyIs
<1>5. <<reply>> \in Seq(Spoken(nextId'))
    BY <1>4 DEF Spoken
<1>6. QED
    BY <1>1, <1>3, <1>5, SavedHears

LEMMA ToolSaved == ASSUME TypeInv, SavedInv, ToolReturns PROVE SavedInv'
<1>1. /\ nextId' \in 1 .. MaxId + 1 /\ nextId <= nextId' /\ nextId \in 1 .. nextId' - 1
      /\ UNCHANGED branch /\ AgentTyped(nextId')
    BY FreshIs, Still DEF ToolReturns, sessionVars
<1>2. PICK call \in owed : Hear(<<Result(call)>>, NoMessage)
    BY DEF ToolReturns
<1>3. Result(call) \in Results(nextId')
  <2> DEFINE n == nextId'
             C == (1 .. n - 1) \X Nat
  <2>1. call \in C
      BY <1>1 DEF AgentTyped
  <2> HIDE DEF C
  <2>2. Result(call) \in [role : {"toolResult"}, id : 1 .. n - 1, stop : {"none"}, why : {"none"},
                calls : {0}, call : C]
      BY <1>1, <2>1 DEF Result
  <2>3. QED
      BY <2>2 DEF Results, C
<1>4. PICK ms : ms = <<Result(call)>>
    OBVIOUS
<1>5. ms \in Seq(Spoken(nextId'))
    BY <1>3, <1>4 DEF Spoken
<1>6. Hear(ms, NoMessage)
    BY <1>2, <1>4
<1>7. QED
    BY <1>1, <1>5, <1>6, SavedHears

LEMMA EndsSaved == ASSUME TypeInv, SavedInv, RunStops \/ RunThrows PROVE SavedInv'
<1>1. nextId' \in 1 .. MaxId + 1 /\ UNCHANGED branch
    BY FreshIs, NoneGiven DEF RunStops, RunThrows, sessionVars
<1>2. PICK ends : Hear(<<>>, ends)
    BY DEF RunStops, RunThrows
<1>3. <<>> \in Seq(Spoken(nextId'))
    BY EmptySeq
<1>4. QED
    BY <1>1, <1>2, <1>3, SavedHears

LEMMA TimerSaved == ASSUME TypeInv, SavedInv, TimerFires PROVE SavedInv'
<1>1. nextId' = nextId
    BY DEF TimerFires
<1>2. CASE status # "idle" \/ transcript = <<>> \/ (IsReply(Last(transcript)) /\ queued = <<>>)
  <2>1. UNCHANGED <<branch, events, heard>>
      BY <1>2 DEF TimerFires, sessionVars
  <2>2. QED
      BY <2>1, SavedSame
<1>3. CASE ~(status # "idle" \/ transcript = <<>> \/ (IsReply(Last(transcript)) /\ queued = <<>>))
  <2>1. CASE status = "idle" /\ transcript # <<>> /\ IsReply(Last(transcript)) /\ queued # <<>>
    <3>1. Hear(<<Head(queued)>>, NoMessage) /\ UNCHANGED branch
        BY <1>3, <2>1 DEF TimerFires, BeginRun, sessionVars
    <3>2. QED
        BY <1>1, <2>1, <3>1, QueuedUser, SavedUsers
  <2>2. CASE ~(status = "idle" /\ transcript # <<>> /\ IsReply(Last(transcript)) /\ queued # <<>>)
    <3>1. Hear(<<>>, NoMessage) /\ UNCHANGED branch
        BY <1>3, <2>2 DEF TimerFires, BeginRun, sessionVars
    <3>2. <<>> \in Seq(Users(nextId))
        BY EmptySeq
    <3>3. QED
        BY <1>1, <3>1, <3>2, SavedUsers
  <2>3. QED
      BY <2>1, <2>2
<1>4. QED
    BY <1>2, <1>3

LEMMA SendSaved == ASSUME TypeInv, SavedInv, NEW c \in Callers, SendPrompt(c) PROVE SavedInv'
<1>1. CASE status = "idle"
  <2>1. nextId' \in 1 .. MaxId + 1 /\ nextId' \in Nat /\ nextId \in 1 .. nextId' - 1
      BY <1>1, FreshIs DEF SendPrompt
  <2>2. PICK ms : ms = <<User(nextId)>>
      OBVIOUS
  <2>3. Hear(ms, NoMessage) /\ UNCHANGED branch
      BY <1>1, <2>2 DEF SendPrompt, BeginRun, Hear, sessionVars
  <2>4. User(nextId) \in Users(nextId')
      BY <2>1, MessageIs
  <2>5. ms \in Seq(Spoken(nextId'))
      BY <2>2, <2>4 DEF Spoken
  <2>6. QED
      BY <2>1, <2>3, <2>5, SavedHears
<1>2. CASE status # "idle"
  <2>1. UNCHANGED <<branch, events, heard>>
      BY <1>2 DEF SendPrompt, historyVars, sessionVars
  <2>2. QED
      BY <2>1, SavedSame
<1>3. QED
    BY <1>1, <1>2

(* Commands and compactions are saved beside the messages. *)
LEMMA PromptSaved == ASSUME TypeInv, SavedInv, NEW c \in Callers, Prompt(c) PROVE SavedInv'
<1>1. branch' = branch \o pendingBash /\ UNCHANGED <<events, heard>>
    BY DEF Prompt
<1>2. PICK es : es = pendingBash
    OBVIOUS
<1>3. Bashes(Limit) \subseteq Bashes(Limit) \cup Marks(Limit) /\ es \in Seq(Bashes(Limit))
    BY <1>2, Widest
<1>4. es \in Seq(Bashes(Limit) \cup Marks(Limit))
    BY <1>3, SeqMonotonic
<1>5. branch' = branch \o es
    BY <1>1, <1>2
<1>6. QED
    BY <1>1, <1>4, <1>5, SavedBeside

LEMMA SavedOne ==
    ASSUME TypeInv, SavedInv, NEW e \in Bashes(Limit) \cup Marks(Limit),
           branch' = Append(branch, e), UNCHANGED <<events, heard>>
    PROVE  SavedInv'
<1>1. branch \in Seq(Said) /\ e \in Said
    BY Widest, LimitIs DEF Said
<1>2. branch' = branch \o <<e>>
    BY <1>1, AppendIsConcat
<1>3. <<e>> \in Seq(Bashes(Limit) \cup Marks(Limit))
    OBVIOUS
<1>4. QED
    BY <1>2, <1>3, SavedBeside

LEMMA BashSaved == ASSUME TypeInv, SavedInv, RecordBashResult PROVE SavedInv'
<1>1. UNCHANGED <<events, heard>>
    BY DEF RecordBashResult, historyVars
<1>2. CASE status = "idle"
  <2>1. branch' = Append(branch, Bash(nextId)) /\ Fresh
      BY <1>2 DEF RecordBashResult
  <2>2. nextId \in 1 .. Limit - 1 /\ Limit \in Nat
      BY <2>1, SessionAssumption DEF Fresh, TypeInv, Limit
  <2>3. Bash(nextId) \in Bashes(Limit)
      BY <2>2, MessageIs
  <2>4. QED
      BY <1>1, <2>1, <2>3, SavedOne
<1>3. CASE status # "idle"
  <2>1. UNCHANGED branch
      BY <1>3 DEF RecordBashResult
  <2>2. QED
      BY <1>1, <2>1, SavedSame
<1>4. QED
    BY <1>2, <1>3

LEMMA CompactedSaved ==
    ASSUME TypeInv, SavedInv, NEW x \in Actors, at[x].where = "compacting", Rebuild(at[x].kept),
           UNCHANGED <<events, heard>>
    PROVE  SavedInv'
<1> DEFINE k == at[x].kept
<1>1. Fresh /\ branch' = Append(branch, [role |-> "compaction", id |-> nextId, kept |-> k])
    BY DEF Rebuild
<1>2. nextId \in 1 .. Limit - 1 /\ k \in Nat
  <2>1. k \in 1 .. Len(branch) /\ Len(branch) \in Nat
      BY LenProperties DEF TypeInv, Fine, BranchTyped
  <2>2. QED
      BY <1>1, <2>1, SessionAssumption DEF Fresh, TypeInv, Limit
<1>3. [role |-> "compaction", id |-> nextId, kept |-> k] \in Marks(Limit)
    BY <1>2 DEF Marks
<1>4. QED
    BY <1>1, <1>3, SavedOne

LEMMA SavedNext == TypeInv /\ SavedInv /\ [Next]_vars => SavedInv'
<1> SUFFICES ASSUME TypeInv, SavedInv, [Next]_vars PROVE SavedInv'
    OBVIOUS
<1>1. ASSUME AgentStep PROVE SavedInv'
  <2>1. ASSUME RunSettles PROVE SavedInv'
      BY <2>1, SavedSame DEF RunSettles, sessionVars, historyVars
  <2>2. QED
      BY <1>1, <2>1, InjectSaved, ModelSaved, ToolSaved, EndsSaved DEF AgentStep
<1>2. ASSUME HandlerStep PROVE SavedInv'
  <2>1. ASSUME SleepEnds \/ RetryCancelled PROVE SavedInv'
      BY <2>1, SavedSame DEF SleepEnds, RetryCancelled, unchangedByEnd, historyVars
  <2>2. QED
      BY <1>2, <2>1, SavedMessage, SavedEnd DEF HandlerStep
<1>3. ASSUME CallerStep PROVE SavedInv'
  <2>1. ASSUME QueueSteer \/ ClearQueue \/ Abort \/ StartManual \/ PrepareManual PROVE SavedInv'
    <3>1. UNCHANGED <<branch, events, heard>>
        BY <2>1 DEF QueueSteer, ClearQueue, Abort, StartManual, PrepareManual, historyVars
    <3>2. QED
        BY <3>1, SavedSame
  <2>2. ASSUME NEW x \in Actors, AutoCompacted(x) PROVE SavedInv'
    <3>1. at[x].where = "compacting" /\ Rebuild(at[x].kept) /\ UNCHANGED <<events, heard>>
        BY <2>2 DEF AutoCompacted
    <3>2. QED
        BY <3>1, CompactedSaved
  <2>3. ASSUME NEW x \in Actors, CompactionFails(x) PROVE SavedInv'
      BY <2>3, SavedSame DEF CompactionFails, historyVars
  <2>4. ASSUME ManualCompacted PROVE SavedInv'
    <3>1. /\ at["manual"].where = "compacting" /\ Rebuild(at["manual"].kept)
          /\ UNCHANGED <<events, heard>>
        BY <2>4 DEF ManualCompacted
    <3>2. "manual" \in Actors
        BY ActorsAre
    <3>3. QED
        BY <3>1, <3>2, CompactedSaved
  <2>5. ASSUME NEW c \in Callers, Prompt(c) \/ SendPrompt(c) PROVE SavedInv'
      BY <2>5, PromptSaved, SendSaved
  <2>6. QED
      BY <1>3, <2>1, <2>2, <2>3, <2>4, <2>5, BashSaved DEF CallerStep
<1>4. ASSUME UNCHANGED vars PROVE SavedInv'
    BY <1>4, SavedSame DEF vars, historyVars
<1>5. QED
    BY <1>1, <1>2, <1>3, <1>4, TimerSaved DEF Next

LEMMA SavedImplies == TypeInv /\ SavedInv => SavedInOrder
<1> SUFFICES ASSUME TypeInv, SavedInv PROVE SavedInOrder
    OBVIOUS
<1> DEFINE saved   == {e \in ToSet(branch) : e.role \notin {"bash", "compaction"}}
           pending == ToSet(events) \ {AgentEnd}
<1>1. PICK Y : Y = ToSet(branch)
    OBVIOUS
<1>2. PICK Z : Z = ToSet(events)
    OBVIOUS
<1>3. /\ nextId \in Nat /\ branch \in Seq(Y) /\ Y \subseteq Entries(nextId)
      /\ events \in Seq(Z) /\ Z \subseteq Events(nextId)
    BY <1>1, <1>2, SessionAssumption, SetIs DEF TypeInv, BranchTyped, SessionTyped
<1>4. Spoken(nextId) \subseteq Spoken(Limit)
    BY <1>3, Grown, SessionAssumption DEF TypeInv, Limit
<1>5. \A m \in Spoken(nextId) : m.role \notin {"bash", "compaction"} /\ m \in Spoken(Limit) /\ m # AgentEnd
    BY <1>3, <1>4, MessageIs DEF Spoken
<1>6. \A m \in Bashes(nextId) \cup Marks(nextId) : m.role \in {"bash", "compaction"}
    BY <1>3, MessageIs
<1>7. \A m \in Spoken(Limit) : m.role \notin {"bash", "compaction"} /\ m # AgentEnd
    BY LimitIs, MessageIs DEF Spoken
<1>8. \A m \in Y : m \in Spoken(Limit) <=> m \in saved
    BY <1>1, <1>3, <1>5, <1>6, <1>7 DEF Entries
<1>9. \A m \in Z : m \in Spoken(Limit) <=> m \in pending
    BY <1>2, <1>3, <1>5, <1>7 DEF Events
<1> HIDE DEF saved, pending
<1>10. Keep(branch, Spoken(Limit)) = Keep(branch, saved)
    BY <1>3, <1>8, KeepSame
<1>11. Keep(events, Spoken(Limit)) = Keep(events, pending)
    BY <1>3, <1>9, KeepSame
<1>12. IdSeq(Keep(branch, saved)) \o IdSeq(Keep(events, pending)) = heard
    BY <1>10, <1>11 DEF SavedInv, Ids
<1>13. QED
    BY <1>12 DEF SavedInOrder, saved, pending

(* Whatever the handler awaits, and whoever compacts or runs commands      *)
(* meanwhile, the messages that were announced are appended to the session *)
(* once each, in the order of the announcements.                           *)
THEOREM SavedAsHeard == Spec => []SavedInOrder
<1>1. Init => TypeInv /\ SavedInv
    BY TypeInit, SavedInit
<1>2. TypeInv /\ SavedInv /\ [Next]_vars => (TypeInv /\ SavedInv)'
    BY TypeNext, SavedNext
<1>3. TypeInv /\ SavedInv => SavedInOrder
    BY SavedImplies
<1>4. QED
    BY <1>1, <1>2, <1>3, PTL DEF Spec

-----------------------------------------------------------------------------
(* What the session has yet to do by itself, in its parts *)

EndsIn(q)     == Len(Keep(q, {AgentEnd}))
Runs          == IF status = "running" THEN 1 ELSE 0
Sleeping      == IF at["handler"].where \in {"sleeping", "cancelled"} THEN 1 ELSE 0
Recovering(p) == {x \in Actors : p[x].where = "compacting" /\ p[x].retry}
Tries         == (MaxRetries - retryAttempt) + (IF overflowTried THEN 0 ELSE 1)

Work(t, e, r, s, c, k) ==
    4 * ((MaxRetries + 1) * (t + e + r + s + c) + k) + 2 * t + r + 3 * s + 3 * c

Eased == Effort' <= Effort /\ (timers' < timers => Effort' < Effort)

LEMMA EffortParts ==
    /\ Effort = Work(timers, EndsIn(events), Runs, Sleeping, Cardinality(Recovering(at)), Tries)
    /\ Effort' = Work(timers', EndsIn(events'), Runs', Sleeping', Cardinality(Recovering(at')), Tries')
BY DEF Effort, Work, EndsIn, Runs, Sleeping, Recovering, Tries

LEMMA ActorsFinite ==
    ASSUME NEW p
    PROVE  IsFiniteSet(Recovering(p)) /\ Cardinality(Recovering(p)) \in Nat
<1>1. IsFiniteSet(Callers \cup {"handler"})
    BY FS_AddElement, SessionAssumption
<1>2. IsFiniteSet((Callers \cup {"handler"}) \cup {"manual"})
    BY <1>1, FS_AddElement
<1>3. Actors = (Callers \cup {"handler"}) \cup {"manual"}
    BY DEF Actors
<1>4. Recovering(p) \in SUBSET Actors /\ IsFiniteSet(Actors)
    BY <1>2, <1>3 DEF Recovering
<1>5. PICK A, R : A = Actors /\ R = Recovering(p)
    OBVIOUS
<1>6. IsFiniteSet(R)
    BY <1>4, <1>5, FS_Subset
<1>7. QED
    BY <1>5, <1>6, FS_CardinalityType

LEMMA Left == ASSUME NEW m \in Nat, NEW a \in 0 .. m PROVE m - a \in Nat
OBVIOUS

LEMMA PartsTyped ==
    ASSUME TypeInv
    PROVE  /\ timers \in Nat /\ EndsIn(events) \in Nat /\ Runs \in {0, 1} /\ Sleeping \in {0, 1}
           /\ Tries \in Nat /\ retryAttempt \in 0 .. MaxRetries /\ MaxRetries \in Nat
<1>1. Keep(events, {AgentEnd}) \in Seq(Events(nextId))
    BY KeepType DEF TypeInv, SessionTyped
<1>2. EndsIn(events) \in Nat
    BY <1>1, LenProperties DEF EndsIn
<1>3. QED
    BY <1>2, SessionAssumption DEF TypeInv, SessionTyped, Runs, Sleeping, Tries

LEMMA PartsTypedNext ==
    ASSUME TypeInv'
    PROVE  /\ timers' \in Nat /\ EndsIn(events') \in Nat /\ Runs' \in {0, 1} /\ Sleeping' \in {0, 1}
           /\ Tries' \in Nat /\ retryAttempt' \in 0 .. MaxRetries
<1>0. /\ timers' \in Nat /\ retryAttempt' \in 0 .. MaxRetries /\ MaxRetries \in Nat
      /\ overflowTried' \in BOOLEAN
    BY SessionAssumption DEF TypeInv, SessionTyped
<1>1. Keep(events', {AgentEnd}) \in Seq(Events(nextId)')
    BY KeepType DEF TypeInv, SessionTyped
<1>2. EndsIn(events') \in Nat
    BY <1>1, LenProperties DEF EndsIn
<1>3. Tries' \in Nat
  <2> PICK a : a = retryAttempt'
      OBVIOUS
  <2> PICK o : o = overflowTried'
      OBVIOUS
  <2>1. a \in 0 .. MaxRetries /\ MaxRetries \in Nat
      BY <1>0
  <2>2. Tries' = (MaxRetries - a) + (IF o THEN 0 ELSE 1)
      BY DEF Tries
  <2>3. (IF o THEN 0 ELSE 1) = 0 \/ (IF o THEN 0 ELSE 1) = 1
      BY Zenon
  <2>4. MaxRetries - a \in Nat
      BY <2>1, Left
  <2>5. PICK k : k = IF o THEN 0 ELSE 1
      OBVIOUS
  <2>6. Tries' = (MaxRetries - a) + k /\ (k = 0 \/ k = 1)
      BY <2>2, <2>3, <2>5, Zenon
  <2>7. QED
      BY <2>4, <2>6
<1>4. Runs' \in {0, 1} /\ Sleeping' \in {0, 1}
    BY DEF Runs, Sleeping
<1>5. QED
    BY <1>0, <1>2, <1>3, <1>4

(* Work that becomes less than one piece by another, or that ends and gives *)
(* all attempts back *)
LEMMA LessWork ==
    ASSUME NEW t \in Nat, NEW e \in Nat, NEW r \in Nat, NEW s \in Nat, NEW c \in Nat, NEW k \in Nat,
           NEW t2 \in Nat, NEW e2 \in Nat, NEW r2 \in Nat, NEW s2 \in Nat, NEW c2 \in Nat, NEW k2 \in Nat,
           \/ /\ t2 + e2 + r2 + s2 + c2 <= t + e + r + s + c
              /\ 4 * k2 + 2 * t2 + r2 + 3 * s2 + 3 * c2 <= 4 * k + 2 * t + r + 3 * s + 3 * c
              /\ t2 < t => 4 * k2 + 2 * t2 + r2 + 3 * s2 + 3 * c2 < 4 * k + 2 * t + r + 3 * s + 3 * c
           \/ /\ t2 + e2 + r2 + s2 + c2 + 1 <= t + e + r + s + c
              /\ k2 <= k + MaxRetries /\ t2 <= t /\ r2 <= r /\ s2 <= s /\ c2 <= c
    PROVE  /\ Work(t2, e2, r2, s2, c2, k2) <= Work(t, e, r, s, c, k)
           /\ t2 < t => Work(t2, e2, r2, s2, c2, k2) < Work(t, e, r, s, c, k)
<1> DEFINE N == MaxRetries + 1
           w == t + e + r + s + c
           w2 == t2 + e2 + r2 + s2 + c2
<1>1. N \in Nat /\ w \in Nat /\ w2 \in Nat /\ MaxRetries \in Nat
    BY SessionAssumption
<1>2. /\ Work(t2, e2, r2, s2, c2, k2) = 4 * (N * w2 + k2) + 2 * t2 + r2 + 3 * s2 + 3 * c2
      /\ Work(t, e, r, s, c, k) = 4 * (N * w + k) + 2 * t + r + 3 * s + 3 * c
    BY DEF Work
<1> PICK n : n = N
    OBVIOUS
<1> HIDE DEF w, w2
<1>3. n \in Nat /\ N * w = n * w /\ N * w2 = n * w2
    BY <1>1
<1>4. n * w2 \in Nat /\ n * w \in Nat
    BY <1>1, <1>3
<1>5. ASSUME w2 <= w PROVE n * w2 <= n * w
    BY <1>1, <1>3, <1>5
<1>6. ASSUME w2 + 1 <= w PROVE n * w2 + n <= n * w
  <2>1. n * (w2 + 1) <= n * w
      BY <1>1, <1>3, <1>6
  <2>2. QED
      BY <2>1, <1>1, <1>3
<1>7. n = MaxRetries + 1
    OBVIOUS
<1>8. PICK x \in Nat, y \in Nat : x = n * w2 /\ y = n * w
    BY <1>4
<1> HIDE DEF N
<1>9. CASE /\ w2 <= w
           /\ 4 * k2 + 2 * t2 + r2 + 3 * s2 + 3 * c2 <= 4 * k + 2 * t + r + 3 * s + 3 * c
           /\ t2 < t => 4 * k2 + 2 * t2 + r2 + 3 * s2 + 3 * c2 < 4 * k + 2 * t + r + 3 * s + 3 * c
  <2>1. x <= y
      BY <1>5, <1>8, <1>9
  <2>2. QED
      BY <2>1, <1>2, <1>3, <1>8, <1>9
<1>10. CASE /\ w2 + 1 <= w
            /\ k2 <= k + MaxRetries /\ t2 <= t /\ r2 <= r /\ s2 <= s /\ c2 <= c
  <2>1. x + n <= y
      BY <1>6, <1>8, <1>10
  <2>2. QED
      BY <2>1, <1>1, <1>2, <1>3, <1>7, <1>8, <1>10
<1>11. QED
    BY <1>9, <1>10 DEF w, w2

(* The same of a step *)
LEMMA Eases ==
    ASSUME TypeInv, TypeInv', NEW e, NEW e2, NEW c, NEW c2,
           e = EndsIn(events), e2 = EndsIn(events'),
           c = Cardinality(Recovering(at)), c2 = Cardinality(Recovering(at')),
           \/ /\ timers' + e2 + Runs' + Sleeping' + c2 <= timers + e + Runs + Sleeping + c
              /\ 4 * Tries' + 2 * timers' + Runs' + 3 * Sleeping' + 3 * c2
                    <= 4 * Tries + 2 * timers + Runs + 3 * Sleeping + 3 * c
              /\ timers' < timers =>
                    4 * Tries' + 2 * timers' + Runs' + 3 * Sleeping' + 3 * c2
                       < 4 * Tries + 2 * timers + Runs + 3 * Sleeping + 3 * c
           \/ /\ timers' + e2 + Runs' + Sleeping' + c2 + 1 <= timers + e + Runs + Sleeping + c
              /\ Tries' <= Tries + MaxRetries /\ timers' <= timers /\ Runs' <= Runs
              /\ Sleeping' <= Sleeping /\ c2 <= c
    PROVE  Eased
<1>1. /\ timers \in Nat /\ e \in Nat /\ Runs \in Nat /\ Sleeping \in Nat /\ c \in Nat /\ Tries \in Nat
      /\ timers' \in Nat /\ e2 \in Nat /\ Runs' \in Nat /\ Sleeping' \in Nat /\ c2 \in Nat /\ Tries' \in Nat
    BY PartsTyped, PartsTypedNext, ActorsFinite
<1>2. PICK t, r, s, k, t2, r2, s2, k2 :
          /\ t = timers /\ r = Runs /\ s = Sleeping /\ k = Tries
          /\ t2 = timers' /\ r2 = Runs' /\ s2 = Sleeping' /\ k2 = Tries'
    OBVIOUS
<1>3. Effort = Work(t, e, r, s, c, k) /\ Effort' = Work(t2, e2, r2, s2, c2, k2)
    BY <1>2, EffortParts
<1>4. /\ t \in Nat /\ r \in Nat /\ s \in Nat /\ c \in Nat /\ e \in Nat /\ k \in Nat
      /\ t2 \in Nat /\ r2 \in Nat /\ s2 \in Nat /\ c2 \in Nat /\ e2 \in Nat /\ k2 \in Nat
    BY <1>1, <1>2
<1>5. \/ /\ t2 + e2 + r2 + s2 + c2 <= t + e + r + s + c
         /\ 4 * k2 + 2 * t2 + r2 + 3 * s2 + 3 * c2 <= 4 * k + 2 * t + r + 3 * s + 3 * c
         /\ t2 < t => 4 * k2 + 2 * t2 + r2 + 3 * s2 + 3 * c2 < 4 * k + 2 * t + r + 3 * s + 3 * c
      \/ /\ t2 + e2 + r2 + s2 + c2 + 1 <= t + e + r + s + c
         /\ k2 <= k + MaxRetries /\ t2 <= t /\ r2 <= r /\ s2 <= s /\ c2 <= c
    BY <1>2
<1>6. /\ Work(t2, e2, r2, s2, c2, k2) <= Work(t, e, r, s, c, k)
      /\ t2 < t => Work(t2, e2, r2, s2, c2, k2) < Work(t, e, r, s, c, k)
    BY <1>4, <1>5, LessWork
<1>7. QED
    BY <1>2, <1>3, <1>6 DEF Eased

-----------------------------------------------------------------------------
(* The parts of the work in a step *)

LEMMA EndsStay ==
    ASSUME NEW X, NEW s \in Seq(X), NEW t \in Seq(X), NEW Y, t \in Seq(Y), AgentEnd \notin Y
    PROVE  EndsIn(s \o t) = EndsIn(s)
<1>1. Keep(t, {AgentEnd}) = <<>>
    BY KeepNone
<1>2. Keep(s \o t, {AgentEnd}) = Keep(s, {AgentEnd}) \o Keep(t, {AgentEnd})
    BY KeepConcat
<1>3. PICK k \in Seq(X) : k = Keep(s, {AgentEnd})
    BY KeepType
<1>4. k \o <<>> = k
    BY ConcatEmptySeq
<1>5. QED
    BY <1>1, <1>2, <1>3, <1>4 DEF EndsIn

LEMMA EndsOne ==
    ASSUME NEW X, NEW s \in Seq(X), AgentEnd \in X
    PROVE  EndsIn(s \o <<AgentEnd>>) = EndsIn(s) + 1 /\ EndsIn(<<AgentEnd>> \o s) = EndsIn(s) + 1
<1>1. PICK a \in Seq(X) : a = <<AgentEnd>> /\ Keep(a, {AgentEnd}) = a /\ Len(a) = 1
  <2>1. <<AgentEnd>> \in Seq(X) /\ Len(<<AgentEnd>>) = 1
      OBVIOUS
  <2>2. Keep(<<AgentEnd>>, {AgentEnd}) = <<AgentEnd>>
      BY KeepOne
  <2>3. QED
      BY <2>1, <2>2
<1>2. /\ Keep(s \o a, {AgentEnd}) = Keep(s, {AgentEnd}) \o Keep(a, {AgentEnd})
      /\ Keep(a \o s, {AgentEnd}) = Keep(a, {AgentEnd}) \o Keep(s, {AgentEnd})
    BY KeepConcat
<1>3. PICK k \in Seq(X) : k = Keep(s, {AgentEnd})
    BY KeepType
<1>4. Len(k \o a) = Len(k) + 1 /\ Len(a \o k) = Len(k) + 1 /\ Len(k) \in Nat
    BY <1>1, ConcatProperties, LenProperties
<1>5. QED
    BY <1>1, <1>2, <1>3, <1>4 DEF EndsIn

LEMMA EndsHead ==
    ASSUME NEW X, NEW s \in Seq(X), s # <<>>, AgentEnd \in X
    PROVE  EndsIn(s) = EndsIn(Tail(s)) + (IF Head(s) = AgentEnd THEN 1 ELSE 0)
<1>1. PICK h \in X, t \in Seq(X) : h = Head(s) /\ t = Tail(s) /\ s = <<h>> \o t
    BY HeadAndTail
<1>2. CASE h = AgentEnd
    BY <1>1, <1>2, EndsOne
<1>3. CASE h # AgentEnd
  <2>1. PICK a \in Seq(X) : a = <<h>> /\ Keep(a, {AgentEnd}) = <<>>
    <3>1. <<h>> \in Seq(X)
        OBVIOUS
    <3>2. Keep(<<h>>, {AgentEnd}) = <<>>
        BY <1>3, KeepOne
    <3>3. QED
        BY <3>1, <3>2
  <2>2. Keep(a \o t, {AgentEnd}) = Keep(a, {AgentEnd}) \o Keep(t, {AgentEnd})
      BY KeepConcat
  <2>3. PICK k \in Seq(X) : k = Keep(t, {AgentEnd})
      BY KeepType
  <2>4. <<>> \o k = k /\ Len(k) \in Nat
      BY ConcatEmptySeq, LenProperties
  <2>5. Keep(s, {AgentEnd}) = k
    <3>1. s = a \o t
        BY <1>1, <2>1
    <3>2. Keep(s, {AgentEnd}) = <<>> \o k
        BY <3>1, <2>1, <2>2, <2>3
    <3>3. QED
        BY <3>2, <2>4
  <2>6. EndsIn(s) = Len(k) /\ EndsIn(t) = Len(k)
      BY <2>3, <2>5 DEF EndsIn
  <2>7. QED
      BY <1>1, <1>3, <2>4, <2>6
<1>4. QED
    BY <1>2, <1>3

(* What is heard adds no more ends than it has. *)
LEMMA HearEnds ==
    ASSUME TypeInv, nextId' \in 1 .. MaxId + 1, nextId <= nextId',
           NEW ms \in Seq(Spoken(nextId')), NEW ends, Hear(ms, ends)
    PROVE  EndsIn(events') = EndsIn(events)
           \/ (ends # NoMessage /\ EndsIn(events') = EndsIn(events) + 1)
<1>1. CASE ~Listening
    BY <1>1 DEF Hear
<1>2. CASE Listening
  <2>1. nextId' \in Nat /\ SessionTyped(nextId')
      BY SessionAssumption, Still
  <2>2. PICK X : X = Events(nextId')
      OBVIOUS
  <2>3. PICK Y : Y = Spoken(nextId')
      OBVIOUS
  <2>4. Y \subseteq X /\ AgentEnd \in X /\ AgentEnd \notin Y /\ ms \in Seq(Y)
      BY <2>1, <2>2, <2>3, MessageIs DEF Events, Spoken
  <2>5. PICK e \in Seq(X) : e = events
      BY <2>1, <2>2 DEF SessionTyped
  <2>6. ms \in Seq(X)
      BY <2>4, SeqMonotonic
  <2>7. PICK q \in Seq(X) : q = e \o ms
      BY <2>6, ConcatProperties
  <2>8. EndsIn(e \o ms) = EndsIn(e)
      BY <2>4, <2>6, EndsStay
  <2>9. events' = e \o ms \o (IF ends = NoMessage THEN <<>> ELSE <<AgentEnd>>)
      BY <1>2, <2>5 DEF Hear
  <2>10. q \o <<>> = q /\ EndsIn(q \o <<AgentEnd>>) = EndsIn(q) + 1
      BY <2>4, EndsOne, ConcatEmptySeq
  <2>11. QED
      BY <2>5, <2>7, <2>8, <2>9, <2>10
<1>3. QED
    BY <1>1, <1>2

(* The actor x goes to p. *)
LEMMA OneMoves ==
    ASSUME NEW x \in Actors, NEW P, NEW Q, NEW p,
           \A y \in Actors : Q[y] = IF y = x THEN p ELSE P[y]
    PROVE  LET was == IF P[x].where = "compacting" /\ P[x].retry THEN 1 ELSE 0
               is  == IF p.where = "compacting" /\ p.retry THEN 1 ELSE 0
           IN  Cardinality(Recovering(Q)) + was = Cardinality(Recovering(P)) + is
<1>1. PICK R : R = Recovering(P)
    OBVIOUS
<1>2. PICK S : S = Recovering(Q)
    OBVIOUS
<1>3. IsFiniteSet(R) /\ Cardinality(R) \in Nat /\ IsFiniteSet(S) /\ Cardinality(S) \in Nat
    BY <1>1, <1>2, ActorsFinite
<1>4. x \in R <=> P[x].where = "compacting" /\ P[x].retry
    BY <1>1 DEF Recovering
<1>5. x \in S <=> p.where = "compacting" /\ p.retry
    BY <1>2 DEF Recovering
<1>6. R \ {x} = S \ {x}
    BY <1>1, <1>2 DEF Recovering
<1>7. Cardinality(R \ {x}) = IF x \in R THEN Cardinality(R) - 1 ELSE Cardinality(R)
    BY <1>3, FS_RemoveElement
<1>8. Cardinality(S \ {x}) = IF x \in S THEN Cardinality(S) - 1 ELSE Cardinality(S)
    BY <1>3, FS_RemoveElement
<1>9. Cardinality(R) + (IF x \in S THEN 1 ELSE 0) = Cardinality(S) + (IF x \in R THEN 1 ELSE 0)
    BY <1>3, <1>6, <1>7, <1>8
<1>10. QED
    BY <1>1, <1>2, <1>4, <1>5, <1>9

LEMMA SameRecovering ==
    ASSUME \A x \in Actors : (at'[x].where = "compacting" /\ at'[x].retry)
                                <=> (at[x].where = "compacting" /\ at[x].retry)
    PROVE  Recovering(at') = Recovering(at)
BY DEF Recovering

(* No run, timer or attempt is concerned. *)
LEMMA SteadyEases ==
    ASSUME TypeInv, TypeInv', UNCHANGED <<timers, status, retryAttempt, overflowTried>>,
           EndsIn(events') = EndsIn(events), Sleeping' <= Sleeping,
           Cardinality(Recovering(at')) <= Cardinality(Recovering(at))
    PROVE  Eased
<1>1. PICK e, c, c2 : e = EndsIn(events) /\ c = Cardinality(Recovering(at)) /\ c2 = Cardinality(Recovering(at'))
    OBVIOUS
<1>2. e \in Nat /\ c \in Nat /\ c2 \in Nat /\ c2 <= c /\ e = EndsIn(events')
    BY <1>1, PartsTyped, ActorsFinite
<1>3. Tries' = Tries /\ Runs' = Runs
    BY DEF Tries, Runs
<1>4. timers \in Nat /\ Tries \in Nat /\ Runs \in {0, 1} /\ Sleeping \in {0, 1} /\ Sleeping' \in {0, 1}
    BY PartsTyped, PartsTypedNext
<1>5. PICK s, s2 : s = Sleeping /\ s2 = Sleeping'
    OBVIOUS
<1>6. s \in {0, 1} /\ s2 \in {0, 1} /\ s2 <= s /\ timers' = timers
    BY <1>4, <1>5
<1>7. /\ timers' + e + Runs' + s2 + c2 <= timers + e + Runs + s + c
      /\ 4 * Tries' + 2 * timers' + Runs' + 3 * s2 + 3 * c2
            <= 4 * Tries + 2 * timers + Runs + 3 * s + 3 * c
      /\ ~(timers' < timers)
    BY <1>2, <1>3, <1>4, <1>6
<1>8. QED
    BY <1>1, <1>2, <1>5, <1>7, Eases

LEMMA StillEases ==
    ASSUME TypeInv, TypeInv', UNCHANGED <<timers, status, retryAttempt, overflowTried, events, at>>
    PROVE  Eased
<1>1. Sleeping' = Sleeping /\ Sleeping \in {0, 1} /\ Cardinality(Recovering(at)) \in Nat
    BY PartsTyped, ActorsFinite DEF Sleeping
<1>2. QED
    BY <1>1, SteadyEases

(* A run goes on, or ends. *)
LEMMA HearEases ==
    ASSUME TypeInv, TypeInv', nextId' \in 1 .. MaxId + 1, nextId <= nextId',
           UNCHANGED <<timers, at, retryAttempt, overflowTried>>,
           NEW ms \in Seq(Spoken(nextId')), NEW ends, Hear(ms, ends),
           (ends = NoMessage /\ status' = status) \/ (status = "running" /\ status' = "over")
    PROVE  Eased
<1>1. EndsIn(events') = EndsIn(events)
      \/ (ends # NoMessage /\ EndsIn(events') = EndsIn(events) + 1)
    BY HearEnds
<1>2. Sleeping' = Sleeping /\ Tries' = Tries
    BY DEF Sleeping, Tries
<1>3. PICK e, e2, c : e = EndsIn(events) /\ e2 = EndsIn(events') /\ c = Cardinality(Recovering(at))
    OBVIOUS
<1>4. /\ timers \in Nat /\ Tries \in Nat /\ Runs \in {0, 1} /\ Sleeping \in {0, 1}
      /\ e \in Nat /\ e2 \in Nat /\ c \in Nat /\ c = Cardinality(Recovering(at'))
    BY <1>3, PartsTyped, PartsTypedNext, ActorsFinite
<1>5. CASE ends = NoMessage /\ status' = status
  <2>1. e2 = e /\ Runs' = Runs
      BY <1>1, <1>3, <1>5 DEF Runs
  <2>2. /\ timers' + e2 + Runs' + Sleeping' + c <= timers + e + Runs + Sleeping + c
        /\ 4 * Tries' + 2 * timers' + Runs' + 3 * Sleeping' + 3 * c
              <= 4 * Tries + 2 * timers + Runs + 3 * Sleeping + 3 * c
        /\ ~(timers' < timers)
      BY <2>1, <1>2, <1>4
  <2>3. QED
      BY <2>2, <1>3, <1>4, Eases
<1>6. CASE status = "running" /\ status' = "over"
  <2>1. e2 <= e + 1 /\ Runs = 1 /\ Runs' = 0
      BY <1>1, <1>3, <1>4, <1>6 DEF Runs
  <2>2. /\ timers' + e2 + Runs' + Sleeping' + c <= timers + e + Runs + Sleeping + c
        /\ 4 * Tries' + 2 * timers' + Runs' + 3 * Sleeping' + 3 * c
              <= 4 * Tries + 2 * timers + Runs + 3 * Sleeping + 3 * c
        /\ ~(timers' < timers)
      BY <2>1, <1>2, <1>4
  <2>3. QED
      BY <2>2, <1>3, <1>4, Eases
<1>7. QED
    BY <1>5, <1>6

LEMMA InjectEases == ASSUME TypeInv, TypeInv', Inject PROVE Eased
<1>1. /\ Hear(<<Head(queued)>>, NoMessage) /\ queued # <<>> /\ status' = status
      /\ UNCHANGED <<nextId, timers, at, retryAttempt, overflowTried>>
    BY DEF Inject, Say, sessionVars, compactVars
<1>2. nextId' \in 1 .. MaxId + 1 /\ nextId <= nextId'
    BY <1>1, NoneGiven
<1>3. Users(nextId) \subseteq Spoken(nextId') /\ <<Head(queued)>> \in Seq(Users(nextId))
    BY <1>1, QueuedUser DEF Spoken
<1>4. <<Head(queued)>> \in Seq(Spoken(nextId'))
    BY <1>3, SeqMonotonic
<1>5. QED
    BY <1>1, <1>2, <1>4, HearEases

LEMMA ModelEases == ASSUME TypeInv, TypeInv', ModelReplies PROVE Eased
<1>1. /\ nextId' \in 1 .. MaxId + 1 /\ nextId' \in Nat /\ nextId \in 1 .. nextId' - 1 /\ nextId <= nextId'
      /\ UNCHANGED <<timers, at, retryAttempt, overflowTried>>
    BY FreshIs DEF ModelReplies, sessionVars, compactVars
<1>2. PICK reply \in GoodReplies \cup FailedReplies :
            Answer(reply) /\ Hear(<<reply>>, IF Failed(reply) THEN reply ELSE NoMessage)
    BY DEF ModelReplies
<1>3. reply \in Replies(nextId')
    BY <1>1, ReplyIs
<1>4. <<reply>> \in Seq(Spoken(nextId'))
    BY <1>3 DEF Spoken
<1>5. PICK ends : ends = IF Failed(reply) THEN reply ELSE NoMessage
    OBVIOUS
<1>6. Hear(<<reply>>, ends)
    BY <1>2, <1>5
<1>7. (ends = NoMessage /\ status' = status) \/ (status = "running" /\ status' = "over")
    BY <1>2, <1>5 DEF Answer, Failed, IsReply
<1>8. QED
    BY <1>1, <1>4, <1>6, <1>7, HearEases

LEMMA ToolEases == ASSUME TypeInv, TypeInv', ToolReturns PROVE Eased
<1>1. /\ nextId' \in 1 .. MaxId + 1 /\ nextId <= nextId' /\ nextId \in 1 .. nextId' - 1
      /\ UNCHANGED <<timers, at, retryAttempt, overflowTried, status>> /\ AgentTyped(nextId')
    BY FreshIs, Still DEF ToolReturns, Deliver, sessionVars, compactVars
<1>2. PICK call \in owed : Hear(<<Result(call)>>, NoMessage)
    BY DEF ToolReturns
<1>3. Result(call) \in Results(nextId')
  <2> DEFINE n == nextId'
             C == (1 .. n - 1) \X Nat
  <2>1. call \in C
      BY <1>1 DEF AgentTyped
  <2> HIDE DEF C
  <2>2. Result(call) \in [role : {"toolResult"}, id : 1 .. n - 1, stop : {"none"}, why : {"none"},
                calls : {0}, call : C]
      BY <1>1, <2>1 DEF Result
  <2>3. QED
      BY <2>2 DEF Results, C
<1>4. PICK ms : ms = <<Result(call)>>
    OBVIOUS
<1>5. ms \in Seq(Spoken(nextId'))
    BY <1>3, <1>4 DEF Spoken
<1>6. Hear(ms, NoMessage)
    BY <1>2, <1>4
<1>7. QED
    BY <1>1, <1>5, <1>6, HearEases

LEMMA EndsEase == ASSUME TypeInv, TypeInv', RunStops \/ RunThrows PROVE Eased
<1>1. /\ nextId' \in 1 .. MaxId + 1 /\ nextId <= nextId' /\ status = "running" /\ status' = "over"
      /\ UNCHANGED <<timers, at, retryAttempt, overflowTried>>
    BY FreshIs, NoneGiven DEF RunStops, RunThrows, Stop, Break, sessionVars, compactVars
<1>2. PICK ends : Hear(<<>>, ends)
    BY DEF RunStops, RunThrows
<1>3. <<>> \in Seq(Spoken(nextId'))
    BY EmptySeq
<1>4. QED
    BY <1>1, <1>2, <1>3, HearEases

LEMMA SettleEases == ASSUME TypeInv, TypeInv', RunSettles PROVE Eased
<1>1. /\ status = "over" /\ status' = "idle"
      /\ UNCHANGED <<timers, events, retryAttempt, overflowTried>>
      /\ at' = [x \in Actors |->
                CASE at[x].where = "running" ->
                        IF retryPromise THEN Place("retry") ELSE Out(x)
                  [] at[x].where = "idle"     -> Out(x)
                  [] at[x].where = "aborting" -> Place("ready")
                  [] OTHER -> at[x]]
    BY DEF RunSettles, Settle, sessionVars, compactVars
<1>2. /\ Place("retry").where = "retry" /\ Place("ready").where = "ready"
      /\ \A x : Out(x).where \in {"free", "out"}
    BY PlaceType, 0 \in Nat
<1>3. \A x \in Actors : \/ at'[x] = at[x]
                        \/ at[x].where \in {"running", "idle", "aborting"}
                           /\ at'[x].where \in {"retry", "ready", "free", "out"}
    BY <1>1, <1>2
<1>4. Recovering(at') = Recovering(at)
    BY <1>3, SameRecovering
<1>5. at["handler"].where \in Allowed("handler") /\ "handler" \in Actors
    BY ActorsAre DEF TypeInv, Fine
<1>6. Sleeping' = Sleeping
    BY <1>3, <1>5, ActorsAre DEF Sleeping
<1>7. PICK e, c : e = EndsIn(events) /\ c = Cardinality(Recovering(at))
    OBVIOUS
<1>8. Tries' = Tries /\ Runs' = Runs
    BY <1>1 DEF Tries, Runs
<1>9. /\ timers \in Nat /\ Tries \in Nat /\ Runs \in {0, 1} /\ Sleeping \in {0, 1}
      /\ e \in Nat /\ c \in Nat /\ c = Cardinality(Recovering(at')) /\ e = EndsIn(events')
    BY <1>1, <1>4, <1>7, PartsTyped, ActorsFinite
<1>10. /\ timers' + e + Runs' + Sleeping' + c <= timers + e + Runs + Sleeping + c
       /\ 4 * Tries' + 2 * timers' + Runs' + 3 * Sleeping' + 3 * c
             <= 4 * Tries + 2 * timers + Runs + 3 * Sleeping + 3 * c
       /\ ~(timers' < timers)
    BY <1>1, <1>6, <1>8, <1>9
<1>11. QED
    BY <1>7, <1>9, <1>10, Eases

(* A timer is worth more than the run it begins. *)
LEMMA TimerEases == ASSUME TypeInv, TypeInv', TimerFires PROVE Eased
<1>1. /\ nextId' = nextId /\ at' = at /\ timers' = timers - 1 /\ timers > 0
      /\ UNCHANGED <<retryAttempt, overflowTried>>
    BY DEF TimerFires, BeginRun, sessionVars, compactVars
<1>2. EndsIn(events') = EndsIn(events) /\ (status' = status \/ (status = "idle" /\ status' = "running"))
  <2>1. CASE status # "idle" \/ transcript = <<>> \/ (IsReply(Last(transcript)) /\ queued = <<>>)
    <3>1. UNCHANGED <<status, events>>
        BY <2>1 DEF TimerFires, agentVars, agent
    <3>2. QED
        BY <3>1
  <2>2. CASE ~(status # "idle" \/ transcript = <<>> \/ (IsReply(Last(transcript)) /\ queued = <<>>))
    <3>1. PICK ms \in Seq(Users(nextId)) : Hear(ms, NoMessage) /\ status = "idle" /\ status' = "running"
      <4>1. CASE status = "idle" /\ transcript # <<>> /\ IsReply(Last(transcript)) /\ queued # <<>>
        <5>1. Hear(<<Head(queued)>>, NoMessage) /\ status' = "running"
            BY <2>2, <4>1 DEF TimerFires, BeginRun, Begin
        <5>2. <<Head(queued)>> \in Seq(Users(nextId))
            BY <4>1, QueuedUser
        <5>3. PICK ms \in Seq(Users(nextId)) : ms = <<Head(queued)>>
            BY <5>2
        <5>4. Hear(ms, NoMessage)
            BY <5>1, <5>3 DEF Hear
        <5>5. QED
            BY <4>1, <5>1, <5>4
      <4>2. CASE ~(status = "idle" /\ transcript # <<>> /\ IsReply(Last(transcript)) /\ queued # <<>>)
        <5>1. Hear(<<>>, NoMessage) /\ status = "idle" /\ status' = "running"
            BY <2>2, <4>2 DEF TimerFires, BeginRun, Begin
        <5>2. <<>> \in Seq(Users(nextId))
            BY EmptySeq
        <5>3. QED
            BY <5>1, <5>2
      <4>3. QED
          BY <4>1, <4>2
    <3>2. nextId' \in 1 .. MaxId + 1 /\ nextId <= nextId'
        BY <1>1, NoneGiven
    <3>3. Users(nextId) \subseteq Spoken(nextId')
        BY <1>1 DEF Spoken
    <3>4. ms \in Seq(Spoken(nextId'))
        BY <3>3, SeqMonotonic
    <3>5. EndsIn(events') = EndsIn(events)
        BY <3>1, <3>2, <3>4, HearEnds
    <3>6. QED
        BY <3>1, <3>5
  <2>3. QED
      BY <2>1, <2>2
<1>3. PICK e, c : e = EndsIn(events) /\ c = Cardinality(Recovering(at))
    OBVIOUS
<1>4. Tries' = Tries /\ Sleeping' = Sleeping
    BY <1>1 DEF Tries, Sleeping
<1>5. Runs' = Runs \/ (Runs = 0 /\ Runs' = 1)
    BY <1>2 DEF Runs
<1>6. /\ timers \in Nat /\ Tries \in Nat /\ Runs \in {0, 1} /\ Sleeping \in {0, 1}
      /\ e \in Nat /\ c \in Nat /\ c = Cardinality(Recovering(at')) /\ e = EndsIn(events')
    BY <1>1, <1>2, <1>3, PartsTyped, ActorsFinite
<1>7. /\ timers' + e + Runs' + Sleeping' + c <= timers + e + Runs + Sleeping + c
      /\ 4 * Tries' + 2 * timers' + Runs' + 3 * Sleeping' + 3 * c
            < 4 * Tries + 2 * timers + Runs + 3 * Sleeping + 3 * c
      /\ 4 * Tries' + 2 * timers' + Runs' + 3 * Sleeping' + 3 * c
            <= 4 * Tries + 2 * timers + Runs + 3 * Sleeping + 3 * c
    BY <1>1, <1>4, <1>5, <1>6
<1>8. QED
    BY <1>3, <1>6, <1>7, Eases

-----------------------------------------------------------------------------
(* The steps of the handler and the callers *)

(* One actor moves. *)
LEMMA OneEases ==
    ASSUME TypeInv, NEW x \in Actors, NEW p, at' = [at EXCEPT ![x] = p]
    PROVE  /\ \A y \in Actors : at'[y] = IF y = x THEN p ELSE at[y]
           /\ LET was == IF at[x].where = "compacting" /\ at[x].retry THEN 1 ELSE 0
                  is  == IF p.where = "compacting" /\ p.retry THEN 1 ELSE 0
              IN  Cardinality(Recovering(at')) + was = Cardinality(Recovering(at)) + is
           /\ x # "handler" => Sleeping' = Sleeping
           /\ x = "handler" => Sleeping' = IF p.where \in {"sleeping", "cancelled"} THEN 1 ELSE 0
<1>1. \A y \in Actors : at'[y] = IF y = x THEN p ELSE at[y]
    BY DEF TypeInv, AtTyped
<1>2. PICK P, Q : P = at /\ Q = at'
    OBVIOUS
<1>3. \A y \in Actors : Q[y] = IF y = x THEN p ELSE P[y]
    BY <1>1, <1>2
<1>4. LET was == IF P[x].where = "compacting" /\ P[x].retry THEN 1 ELSE 0
          is  == IF p.where = "compacting" /\ p.retry THEN 1 ELSE 0
      IN  Cardinality(Recovering(Q)) + was = Cardinality(Recovering(P)) + is
    BY <1>3, OneMoves
<1>5. "handler" \in Actors
    BY ActorsAre
<1>6. /\ x # "handler" => Sleeping' = Sleeping
      /\ x = "handler" => Sleeping' = IF p.where \in {"sleeping", "cancelled"} THEN 1 ELSE 0
    BY <1>1, <1>5 DEF Sleeping
<1>7. QED
    BY <1>1, <1>2, <1>4, <1>6

LEMMA PromptGoes == ASSUME TypeInv, NEW c \in Callers, Prompt(c) PROVE Prompted
<1>1. PICK p : at' = [at EXCEPT ![c] = p] /\ p.where \in {"hooks", "compacting"}
    BY PromptMoves
<1>2. c \in Actors /\ at[c].where = "out"
    BY ActorsAre DEF Prompt
<1>3. at'[c] = p
    BY <1>1, <1>2 DEF TypeInv, AtTyped
<1>4. QED
    BY <1>1, <1>2, <1>3 DEF Prompted

LEMMA SendGoes == ASSUME TypeInv, NEW c \in Callers, SendPrompt(c) PROVE Prompted
<1>1. at[c].where = "hooks" /\ c \in Actors
    BY ActorsAre DEF SendPrompt
<1>2. \E p : at' = [at EXCEPT ![c] = p] /\ p.where \in {"running", "out", "free"}
  <2>1. Place("running").where = "running" /\ Out(c).where \in {"out", "free"}
      BY PlaceType, 0 \in Nat
  <2>2. CASE status = "idle"
      BY <2>1, <2>2 DEF SendPrompt
  <2>3. CASE status # "idle"
      BY <2>1, <2>3 DEF SendPrompt
  <2>4. QED
      BY <2>2, <2>3
<1>3. PICK p : at' = [at EXCEPT ![c] = p] /\ p.where \in {"running", "out", "free"}
    BY <1>2
<1>4. at'[c] = p
    BY <1>1, <1>3 DEF TypeInv, AtTyped
<1>5. QED
    BY <1>1, <1>3, <1>4 DEF Prompted

(* Who gives up waits or sleeps no longer than before. *)
LEMMA AbortMoves ==
    ASSUME TypeInv, NEW places \in [Actors -> Places(nextId)],
           \A x \in Actors : Fine(x, places[x], Len(branch)),
           \A x \in Actors : \/ places[x] = at[x]
                             \/ x # "handler" /\ at[x].where # "compacting" /\ places[x].where # "compacting",
           AbortAll(places)
    PROVE  Recovering(at') = Recovering(at) /\ Sleeping' = Sleeping
<1>1. PICK n, length : n = nextId /\ length = Len(branch)
    OBVIOUS
<1>2. n \in Nat /\ length \in Nat /\ places \in [Actors -> Places(n)]
      /\ \A x \in Actors : Fine(x, places[x], length)
    BY <1>1, SessionAssumption, LenProperties DEF TypeInv, BranchTyped
<1>3. /\ \A x \in Actors \ {"handler"} : at'[x] = Resolved(places)[x]
      /\ at'["handler"] = IF places["handler"].where = "sleeping"
                          THEN [places["handler"] EXCEPT !.where = "cancelled"]
                          ELSE places["handler"]
    BY <1>2, AbortIs
<1>4. \A x \in Actors :
                IF places[x].where = "retry"
                THEN /\ Resolved(places)[x].where \in {Out(x).where, "idle"}
                     /\ Resolved(places)[x].retry = FALSE
                ELSE Resolved(places)[x] = places[x]
    BY <1>2, ResolvedIs
<1>5. "handler" \in Actors /\ places["handler"] = at["handler"] /\ places["handler"] \in Places(n)
    BY <1>2, ActorsAre
<1>6. at["handler"].where = "sleeping" => at'["handler"].where = "cancelled"
    BY <1>3, <1>5 DEF Places
<1>7. at["handler"].where # "sleeping" => at'["handler"] = at["handler"]
    BY <1>3, <1>5
<1>8. \A x : Out(x).where \in {"free", "out"}
    BY PlaceType, <1>2
<1>9. ASSUME NEW x \in Actors
      PROVE  (at'[x].where = "compacting" /\ at'[x].retry) <=> (at[x].where = "compacting" /\ at[x].retry)
  <2>1. CASE x = "handler"
      BY <2>1, <1>6, <1>7
  <2>2. CASE x # "handler"
    <3>1. at'[x] = Resolved(places)[x]
        BY <2>2, <1>3
    <3>2. CASE places[x].where = "retry"
        BY <3>1, <3>2, <1>4, <1>8
    <3>3. CASE places[x].where # "retry"
        BY <3>1, <3>3, <1>4
    <3>4. QED
        BY <3>2, <3>3
  <2>3. QED
      BY <2>1, <2>2
<1>10. Sleeping' = Sleeping
    BY <1>6, <1>7 DEF Sleeping
<1>11. QED
    BY <1>9, <1>10, SameRecovering

LEMMA GiveUpEases == ASSUME TypeInv, TypeInv', Abort \/ StartManual PROVE Eased
<1>1. UNCHANGED <<timers, status, retryAttempt, overflowTried, events>>
    BY DEF Abort, StartManual, agent, compactVars
<1>2. nextId \in Nat /\ at \in [Actors -> Places(nextId)] /\ \A x \in Actors : Fine(x, at[x], Len(branch))
    BY SessionAssumption DEF TypeInv, AtTyped
<1>3. Recovering(at') = Recovering(at) /\ Sleeping' = Sleeping
  <2>1. CASE Abort
    <3>1. PICK places : places = at
        OBVIOUS
    <3>2. AbortAll(places)
        BY <2>1, <3>1 DEF Abort, AbortAll
    <3>3. /\ places \in [Actors -> Places(nextId)] /\ \A x \in Actors : Fine(x, places[x], Len(branch))
          /\ \A x \in Actors : \/ places[x] = at[x]
                               \/ x # "handler" /\ at[x].where # "compacting" /\ places[x].where # "compacting"
        BY <1>2, <3>1
    <3>4. QED
        BY <3>2, <3>3, AbortMoves
  <2>2. CASE StartManual
    <3> DEFINE p == Place(IF status = "idle" THEN "ready" ELSE "aborting")
               q == [at EXCEPT !["manual"] = p]
    <3>1. p \in Places(nextId) /\ p.where \in {"ready", "aborting"}
        BY <1>2, PlaceType
    <3>2. Fine("manual", p, Len(branch))
        BY <3>1, ActorsAre DEF Fine
    <3>3. PICK places : places = q
        OBVIOUS
    <3>4. AbortAll(places)
        BY <2>2, <3>3 DEF StartManual, AbortAll
    <3>5. at["manual"].where = "out"
        BY <2>2 DEF StartManual, Listening
    <3> HIDE DEF p
    <3>6. places \in [Actors -> Places(nextId)] /\ \A x \in Actors : Fine(x, places[x], Len(branch))
        BY <1>2, <3>1, <3>2, <3>3
    <3>7. \A x \in Actors : \/ places[x] = at[x]
                            \/ x # "handler" /\ at[x].where # "compacting" /\ places[x].where # "compacting"
      <4>1. \A x \in Actors : places[x] = IF x = "manual" THEN p ELSE at[x]
          BY <1>2, <3>3
      <4>2. QED
          BY <4>1, <3>1, <3>5
    <3>8. QED
        BY <3>4, <3>6, <3>7, AbortMoves
  <2>3. QED
      BY <2>1, <2>2
<1>4. Sleeping \in {0, 1} /\ Cardinality(Recovering(at)) \in Nat
    BY PartsTyped, ActorsFinite
<1>5. QED
    BY <1>1, <1>3, <1>4, SteadyEases

LEMMA PrepareEases == ASSUME TypeInv, TypeInv', PrepareManual PROVE Eased
<1>1. UNCHANGED <<timers, status, retryAttempt, overflowTried, events>> /\ at["manual"].where = "ready"
    BY DEF PrepareManual, agentVars, agent, compactVars
<1>2. nextId \in Nat /\ branch \in Seq(Entries(nextId)) /\ "manual" \in Actors
    BY SessionAssumption, ActorsAre DEF TypeInv, BranchTyped
<1>3. \E p : at' = [at EXCEPT !["manual"] = p] /\ p.retry = FALSE
  <2>1. CASE CanCompact(branch)
    <3>1. PICK p \in Compacting(branch, FALSE) : at' = [at EXCEPT !["manual"] = p]
        BY <2>1 DEF PrepareManual
    <3>2. p.retry = FALSE
        BY <1>2, <3>1, CompactingIs
    <3>3. QED
        BY <3>1, <3>2
  <2>2. CASE ~CanCompact(branch)
    <3>1. at' = [at EXCEPT !["manual"] = Out("manual")]
        BY <2>2 DEF PrepareManual
    <3>2. Out("manual").retry = FALSE
        BY <1>2, PlaceType
    <3>3. QED
        BY <3>1, <3>2
  <2>3. QED
      BY <2>1, <2>2
<1>4. PICK p : at' = [at EXCEPT !["manual"] = p] /\ p.retry = FALSE
    BY <1>3
<1>5. /\ Sleeping' = Sleeping /\ Cardinality(Recovering(at')) = Cardinality(Recovering(at))
      /\ Sleeping \in {0, 1} /\ Cardinality(Recovering(at)) \in Nat
  <2>1. /\ LET was == IF at["manual"].where = "compacting" /\ at["manual"].retry THEN 1 ELSE 0
               is  == IF p.where = "compacting" /\ p.retry THEN 1 ELSE 0
           IN  Cardinality(Recovering(at')) + was = Cardinality(Recovering(at)) + is
        /\ Sleeping' = Sleeping
      BY <1>2, <1>4, OneEases
  <2>2. Cardinality(Recovering(at')) + 0 = Cardinality(Recovering(at)) + 0
      BY <2>1, <1>1, <1>4
  <2>3. Cardinality(Recovering(at)) \in Nat /\ Cardinality(Recovering(at')) \in Nat /\ Sleeping \in {0, 1}
      BY ActorsFinite, PartsTyped
  <2>4. QED
      BY <2>1, <2>2, <2>3
<1>6. QED
    BY <1>1, <1>5, SteadyEases

(* A compaction ends: one that the run continues after is a timer then. *)
LEMMA CompactEases ==
    ASSUME TypeInv, TypeInv', NEW x \in Actors,
           AutoCompacted(x) \/ CompactionFails(x) \/ (x = "manual" /\ ManualCompacted)
    PROVE  Kicked \/ Eased
<1>1. /\ UNCHANGED <<status, retryAttempt, overflowTried, events>> /\ at[x].where = "compacting"
    BY DEF AutoCompacted, CompactionFails, ManualCompacted, agentVars, agent, compactVars
<1>2. timers' = timers \/ (timers' = timers + 1 /\ (at[x].retry \/ queued # <<>>))
    BY DEF AutoCompacted, CompactionFails, ManualCompacted
<1>3. at' = [at EXCEPT ![x] = After(x)] /\ After(x).retry = FALSE
      /\ After(x).where \notin {"sleeping", "cancelled"}
  <2>1. After("manual") = Out("manual")
      BY ActorsAre DEF After
  <2>2. After(x).retry = FALSE /\ After(x).where \in {"free", "out", "hooks"}
      BY AfterIs, 0 \in Nat
  <2>3. at' = [at EXCEPT ![x] = After(x)]
      BY <2>1 DEF AutoCompacted, CompactionFails, ManualCompacted
  <2>4. QED
      BY <2>2, <2>3
<1>4. PICK p : p = After(x)
    OBVIOUS
<1>5. /\ LET was == IF at[x].where = "compacting" /\ at[x].retry THEN 1 ELSE 0
             is  == IF p.where = "compacting" /\ p.retry THEN 1 ELSE 0
         IN  Cardinality(Recovering(at')) + was = Cardinality(Recovering(at)) + is
      /\ Sleeping' = Sleeping
  <2>1. at' = [at EXCEPT ![x] = p]
      BY <1>3, <1>4
  <2>2. /\ LET was == IF at[x].where = "compacting" /\ at[x].retry THEN 1 ELSE 0
               is  == IF p.where = "compacting" /\ p.retry THEN 1 ELSE 0
           IN  Cardinality(Recovering(at')) + was = Cardinality(Recovering(at)) + is
        /\ x # "handler" => Sleeping' = Sleeping
        /\ x = "handler" => Sleeping' = IF p.where \in {"sleeping", "cancelled"} THEN 1 ELSE 0
      BY <2>1, OneEases
  <2>3. x = "handler" => Sleeping = 0
      BY <1>1 DEF Sleeping
  <2>4. QED
      BY <2>2, <2>3, <1>3, <1>4
<1>6. PICK e, c, c2 : e = EndsIn(events) /\ c = Cardinality(Recovering(at)) /\ c2 = Cardinality(Recovering(at'))
    OBVIOUS
<1>7. /\ e \in Nat /\ c \in Nat /\ c2 \in Nat /\ e = EndsIn(events')
      /\ timers \in Nat /\ Tries \in Nat /\ Runs \in {0, 1} /\ Sleeping \in {0, 1}
    BY <1>1, <1>6, PartsTyped, ActorsFinite
<1>8. c2 + (IF at[x].retry THEN 1 ELSE 0) = c
    BY <1>1, <1>3, <1>4, <1>5, <1>6, <1>7
<1>9. Tries' = Tries /\ Runs' = Runs
    BY <1>1 DEF Tries, Runs
<1>10. CASE timers' = timers
  <2>1. c2 <= c
      BY <1>7, <1>8
  <2>2. Sleeping' <= Sleeping
      BY <1>5, <1>7
  <2>3. EndsIn(events') = EndsIn(events) /\ Cardinality(Recovering(at')) <= Cardinality(Recovering(at))
      BY <1>6, <1>7, <2>1
  <2>4. UNCHANGED <<timers, status, retryAttempt, overflowTried>>
      BY <1>1, <1>10
  <2>5. QED
      BY <2>2, <2>3, <2>4, SteadyEases
<1>11. CASE timers' = timers + 1 /\ at[x].retry
  <2>1. c2 + 1 = c
      BY <1>7, <1>8, <1>11
  <2>2. /\ timers' + e + Runs' + Sleeping' + c2 <= timers + e + Runs + Sleeping + c
        /\ 4 * Tries' + 2 * timers' + Runs' + 3 * Sleeping' + 3 * c2
              <= 4 * Tries + 2 * timers + Runs + 3 * Sleeping + 3 * c
        /\ ~(timers' < timers)
      BY <2>1, <1>5, <1>7, <1>9, <1>11
  <2>3. Eased
      BY <2>2, <1>6, <1>7, Eases
  <2>4. QED
      BY <2>3
<1>12. CASE timers' = timers + 1 /\ queued # <<>>
    BY <1>7, <1>12 DEF Kicked
<1>13. QED
    BY <1>2, <1>10, <1>11, <1>12

(* The handler gives a retry up: it may begin the one compaction that the   *)
(* run continues after.                                                     *)
LEMMA NoRetryMoves ==
    ASSUME TypeInv, NEW reply, NoRetry(reply), at["handler"].where \in {"free", "cancelled"}
    PROVE  /\ Sleeping' = 0 /\ (overflowTried => overflowTried')
           /\ \/ Cardinality(Recovering(at')) = Cardinality(Recovering(at))
              \/ /\ Cardinality(Recovering(at')) = Cardinality(Recovering(at)) + 1
                 /\ reply.why = "overflow" /\ ~overflowTried /\ overflowTried'
<1> DEFINE n == nextId
<1>1. n \in Nat /\ AgentTyped(n) /\ SessionTyped(n) /\ BranchTyped(n) /\ at \in [Actors -> Places(n)]
    BY SessionAssumption DEF TypeInv, AtTyped
<1>2. PICK q, next, t, entries :
            q = Resolved(at) /\ next = Out("handler") /\ t = transcript /\ entries = branch
    OBVIOUS
<1>3. CheckCompaction("handler", q, reply, TRUE, next, t, entries)
    BY <1>2 DEF NoRetry, CheckCompaction, Strip
<1>4. PICK P : P = at
    OBVIOUS
<1>5. /\ Resolved(P) \in [Actors -> Places(n)]
      /\ \A x \in Actors :
            IF P[x].where = "retry"
            THEN /\ Resolved(P)[x].where \in {Out(x).where, "idle"}
                 /\ Resolved(P)[x].retry = FALSE
            ELSE Resolved(P)[x] = P[x]
  <2>1. n \in Nat /\ P \in [Actors -> Places(n)]
      BY <1>1, <1>4
  <2>2. QED
      BY <2>1, ResolvedIs
<1>6. q = Resolved(P)
    BY <1>2, <1>4
<1>7. /\ q \in [Actors -> Places(n)] /\ next \in Places(n) /\ t \in Seq(Context(n))
      /\ entries \in Seq(Entries(n)) /\ autoCompacting \in BOOLEAN /\ overflowTried \in BOOLEAN
      /\ next.where = "free" /\ next.retry = FALSE
    BY <1>1, <1>2, <1>5, <1>6, PlaceType DEF AgentTyped, SessionTyped, BranchTyped
<1> HIDE DEF n
<1>8. /\ overflowTried => overflowTried'
      /\ \E p \in Places(n) :
           /\ at' = [q EXCEPT !["handler"] = p]
           /\ p # next => p.where = "compacting" /\ p.kept \in 1 .. Len(entries)
           /\ p # next /\ p.retry => reply.why = "overflow" /\ ~overflowTried /\ overflowTried'
  <2>1. n \in Nat /\ "handler" \in Actors
      BY <1>1, ActorsAre
  <2>2. QED
      BY <2>1, <1>3, <1>7, CheckIs
<1>9. PICK p \in Places(n) :
           /\ at' = [q EXCEPT !["handler"] = p]
           /\ p # next => p.where = "compacting"
           /\ p # next /\ p.retry => reply.why = "overflow" /\ ~overflowTried /\ overflowTried'
    BY <1>8
<1>10. PICK Q : Q = at'
    OBVIOUS
<1>11. "handler" \in Actors /\ \A y \in Actors : Q[y] = IF y = "handler" THEN p ELSE q[y]
    BY <1>7, <1>9, <1>10, ActorsAre
<1>12. q["handler"].where \notin {"compacting", "retry"}
    BY <1>4, <1>5, <1>6, <1>11
<1>13. LET was == IF q["handler"].where = "compacting" /\ q["handler"].retry THEN 1 ELSE 0
           is  == IF p.where = "compacting" /\ p.retry THEN 1 ELSE 0
       IN  Cardinality(Recovering(Q)) + was = Cardinality(Recovering(q)) + is
    BY <1>11, OneMoves
<1>14. Recovering(q) = Recovering(P)
  <2>1. ASSUME NEW x \in Actors
        PROVE  (q[x].where = "compacting" /\ q[x].retry) <=> (P[x].where = "compacting" /\ P[x].retry)
    <3>1. CASE P[x].where = "retry"
      <4>1. q[x].retry = FALSE
          BY <3>1, <1>5, <1>6
      <4>2. QED
          BY <4>1, <3>1
    <3>2. CASE P[x].where # "retry"
        BY <3>2, <1>5, <1>6
    <3>3. QED
        BY <3>1, <3>2
  <2>2. QED
      BY <2>1 DEF Recovering
<1>15. PICK c, c2 : c = Cardinality(Recovering(P)) /\ c2 = Cardinality(Recovering(Q))
    OBVIOUS
<1>16. c \in Nat /\ c2 \in Nat
    BY <1>15, ActorsFinite
<1>17. c2 = c + (IF p.where = "compacting" /\ p.retry THEN 1 ELSE 0)
    BY <1>12, <1>13, <1>14, <1>15, <1>16
<1>18. p.where = "compacting" /\ p.retry => reply.why = "overflow" /\ ~overflowTried /\ overflowTried'
    BY <1>7, <1>9
<1>19. Sleeping' = 0
  <2>1. at'["handler"] = p /\ p.where \in {"free", "compacting"}
      BY <1>7, <1>9, <1>10, <1>11
  <2>2. QED
      BY <2>1 DEF Sleeping
<1>20. c = Cardinality(Recovering(at)) /\ c2 = Cardinality(Recovering(at'))
    BY <1>4, <1>10, <1>15
<1>21. c2 = c \/ (c2 = c + 1 /\ reply.why = "overflow" /\ ~overflowTried /\ overflowTried')
    BY <1>16, <1>17, <1>18
<1>22. QED
    BY <1>8, <1>19, <1>20, <1>21

(* The attempts left when a retry is given up, and when one is spent *)
LEMMA TriesBack ==
    ASSUME TypeInv, TypeInv', overflowTried => overflowTried'
    PROVE  Tries' <= Tries + MaxRetries
<1>1. PICK a, b, m : a = retryAttempt /\ b = retryAttempt' /\ m = MaxRetries
    OBVIOUS
<1>2. a \in 0 .. m /\ b \in 0 .. m /\ m \in Nat /\ overflowTried \in BOOLEAN /\ overflowTried' \in BOOLEAN
    BY <1>1, SessionAssumption DEF TypeInv, SessionTyped
<1>3. PICK k, l : k = (IF overflowTried THEN 0 ELSE 1) /\ l = (IF overflowTried' THEN 0 ELSE 1)
    OBVIOUS
<1>4. k \in {0, 1} /\ l \in {0, 1} /\ l <= k
    BY <1>3
<1>5. Tries = (m - a) + k /\ Tries' = (m - b) + l
    BY <1>1, <1>3 DEF Tries
<1>6. a \in Int /\ b \in Int /\ 0 <= b /\ a <= m /\ m \in Nat
    BY <1>2
<1>7. (m - b) + l <= ((m - a) + k) + m
    BY <1>4, <1>6
<1>8. QED
    BY <1>1, <1>5, <1>7

LEMMA TriesSpent ==
    ASSUME TypeInv, TypeInv',
           \/ retryAttempt' = retryAttempt + 1 /\ overflowTried' = overflowTried
           \/ retryAttempt' = retryAttempt /\ ~overflowTried /\ overflowTried'
    PROVE  Tries' + 1 = Tries
<1>1. PICK a, b, m : a = retryAttempt /\ b = retryAttempt' /\ m = MaxRetries
    OBVIOUS
<1>2. a \in 0 .. m /\ b \in 0 .. m /\ m \in Nat /\ overflowTried \in BOOLEAN /\ overflowTried' \in BOOLEAN
    BY <1>1, SessionAssumption DEF TypeInv, SessionTyped
<1>3. PICK k, l : k = (IF overflowTried THEN 0 ELSE 1) /\ l = (IF overflowTried' THEN 0 ELSE 1)
    OBVIOUS
<1>4. k \in {0, 1} /\ l \in {0, 1} /\ ((b = a + 1 /\ l = k) \/ (b = a /\ k = 1 /\ l = 0))
    BY <1>1, <1>3
<1>5. Tries = (m - a) + k /\ Tries' = (m - b) + l
    BY <1>1, <1>3 DEF Tries
<1>6. QED
    BY <1>2, <1>4, <1>5

LEMMA SleepEases == ASSUME TypeInv, TypeInv', SleepEnds PROVE Eased
<1>1. /\ UNCHANGED <<status, retryAttempt, overflowTried, events>> /\ at["handler"].where = "sleeping"
      /\ timers' = timers + 1 /\ at' = [at EXCEPT !["handler"] = Out("handler")]
    BY DEF SleepEnds, agentVars, agent, compactVars
<1>2. PICK p : p = Out("handler") /\ p.where = "free"
    BY PlaceType, 0 \in Nat
<1>3. "handler" \in Actors /\ at' = [at EXCEPT !["handler"] = p]
    BY <1>1, <1>2, ActorsAre
<1>4. /\ LET was == IF at["handler"].where = "compacting" /\ at["handler"].retry THEN 1 ELSE 0
             is  == IF p.where = "compacting" /\ p.retry THEN 1 ELSE 0
         IN  Cardinality(Recovering(at')) + was = Cardinality(Recovering(at)) + is
      /\ Sleeping' = IF p.where \in {"sleeping", "cancelled"} THEN 1 ELSE 0
    BY <1>3, OneEases
<1>5. PICK e, c, c2 : e = EndsIn(events) /\ c = Cardinality(Recovering(at)) /\ c2 = Cardinality(Recovering(at'))
    OBVIOUS
<1>6. /\ e \in Nat /\ c \in Nat /\ c2 \in Nat /\ e = EndsIn(events')
      /\ timers \in Nat /\ Tries \in Nat /\ Runs \in {0, 1} /\ Sleeping = 1 /\ Sleeping' = 0
      /\ Tries' = Tries /\ Runs' = Runs
    BY <1>1, <1>2, <1>4, <1>5, PartsTyped, ActorsFinite DEF Sleeping, Tries, Runs
<1>7. c2 = c
    BY <1>1, <1>2, <1>4, <1>5, <1>6
<1>8. /\ timers' + e + Runs' + Sleeping' + c2 <= timers + e + Runs + Sleeping + c
      /\ 4 * Tries' + 2 * timers' + Runs' + 3 * Sleeping' + 3 * c2
            <= 4 * Tries + 2 * timers + Runs + 3 * Sleeping + 3 * c
      /\ ~(timers' < timers)
    BY <1>1, <1>6, <1>7
<1>9. QED
    BY <1>5, <1>6, <1>8, Eases

LEMMA CancelledEases == ASSUME TypeInv, TypeInv', RetryCancelled PROVE Eased
<1>1. /\ UNCHANGED <<status, timers, events>> /\ at["handler"].where = "cancelled"
    BY DEF RetryCancelled, unchangedByEnd
<1>2. PICK reply : reply = at["handler"].reply
    OBVIOUS
<1>3. NoRetry(reply)
    BY <1>2 DEF RetryCancelled, NoRetry, CheckCompaction, Strip
<1>4. reply.why = "retryable"
    BY <1>1, <1>2, ActorsAre DEF TypeInv, Fine
<1>5. /\ Sleeping' = 0 /\ (overflowTried => overflowTried')
      /\ \/ Cardinality(Recovering(at')) = Cardinality(Recovering(at))
         \/ /\ Cardinality(Recovering(at')) = Cardinality(Recovering(at)) + 1
            /\ reply.why = "overflow" /\ ~overflowTried /\ overflowTried'
    BY <1>1, <1>3, NoRetryMoves
<1>6. Tries' <= Tries + MaxRetries
    BY <1>5, TriesBack
<1>7. PICK e, c, c2 : e = EndsIn(events) /\ c = Cardinality(Recovering(at)) /\ c2 = Cardinality(Recovering(at'))
    OBVIOUS
<1>8. /\ e \in Nat /\ c \in Nat /\ c2 = c /\ e = EndsIn(events')
      /\ timers \in Nat /\ Runs \in {0, 1} /\ Sleeping = 1 /\ Runs' = Runs
    BY <1>1, <1>4, <1>5, <1>7, PartsTyped, ActorsFinite DEF Sleeping, Runs
<1>9. /\ timers' + e + Runs' + Sleeping' + c2 + 1 <= timers + e + Runs + Sleeping + c
      /\ timers' <= timers /\ Runs' <= Runs /\ Sleeping' <= Sleeping /\ c2 <= c
    BY <1>1, <1>5, <1>8
<1>10. QED
    BY <1>6, <1>7, <1>8, <1>9, Eases

LEMMA EndEases == ASSUME TypeInv, TypeInv', ProcessEnd PROVE Eased
<1>1. UNCHANGED <<status, timers>>
    BY DEF ProcessEnd, unchangedByEnd
<1>2. PICK i \in Due : events[i] = AgentEnd /\ events' = RemoveAt(events, i)
    BY DEF ProcessEnd
<1>3. PICK X : X = Events(nextId)
    OBVIOUS
<1>4. events \in Seq(X) /\ AgentEnd \in X
    BY <1>3 DEF TypeInv, SessionTyped, Events
<1>5. at["handler"].where = "free" /\ events # <<>> /\ i = 1 /\ events' = Tail(events)
    BY <1>2, <1>4, TakeEvent
<1>6. PICK s, e, e2, c, c2 :
            /\ s = events /\ e = EndsIn(events) /\ e2 = EndsIn(events')
            /\ c = Cardinality(Recovering(at)) /\ c2 = Cardinality(Recovering(at'))
    OBVIOUS
<1>7. /\ e \in Nat /\ e2 \in Nat /\ c \in Nat /\ c2 \in Nat
      /\ timers \in Nat /\ Runs \in {0, 1} /\ Runs' = Runs /\ Sleeping = 0
      /\ Tries \in Nat /\ Tries' \in Nat
    BY <1>1, <1>5, <1>6, PartsTyped, PartsTypedNext, ActorsFinite DEF Sleeping, Runs
<1>8. e = e2 + 1
  <2>1. s \in Seq(X) /\ s # <<>> /\ Head(s) = AgentEnd
      BY <1>2, <1>4, <1>5, <1>6
  <2>2. EndsIn(s) = EndsIn(Tail(s)) + (IF Head(s) = AgentEnd THEN 1 ELSE 0)
      BY <1>4, <2>1, EndsHead
  <2>3. QED
      BY <1>5, <1>6, <2>1, <2>2
<1>9. ASSUME c2 = c, Sleeping' = 0, overflowTried => overflowTried'
      PROVE  Eased
  <2>1. Tries' <= Tries + MaxRetries
      BY <1>9, TriesBack
  <2>2. /\ timers' + e2 + Runs' + Sleeping' + c2 + 1 <= timers + e + Runs + Sleeping + c
        /\ timers' <= timers /\ Runs' <= Runs /\ Sleeping' <= Sleeping /\ c2 <= c
      BY <1>1, <1>7, <1>8, <1>9
  <2>3. QED
      BY <1>6, <2>1, <2>2, Eases
<1>10. ASSUME Tries' + 1 = Tries, (c2 = c /\ Sleeping' = 1) \/ (c2 = c + 1 /\ Sleeping' = 0)
       PROVE  Eased
  <2>1. PICK k, l, z : k = Tries' /\ l = Tries /\ z = Sleeping'
      OBVIOUS
  <2>2. k \in Nat /\ l \in Nat /\ k + 1 = l /\ timers' = timers
      BY <2>1, <1>1, <1>7, <1>10
  <2>3. (c2 = c /\ z = 1) \/ (c2 = c + 1 /\ z = 0)
      BY <2>1, <1>10
  <2>4. /\ timers' + e2 + Runs' + z + c2 <= timers + e + Runs + Sleeping + c
        /\ 4 * k + 2 * timers' + Runs' + 3 * z + 3 * c2
              <= 4 * l + 2 * timers + Runs + 3 * Sleeping + 3 * c
        /\ ~(timers' < timers)
      BY <2>2, <2>3, <1>7, <1>8
  <2>5. QED
      BY <1>6, <2>1, <2>4, Eases
<1>11. CASE lastReply = NoMessage
  <2>1. UNCHANGED <<at, overflowTried>>
      BY <1>11 DEF ProcessEnd, compactVars
  <2>2. c2 = c /\ Sleeping' = 0
      BY <1>6, <1>7, <2>1 DEF Sleeping
  <2>3. QED
      BY <2>1, <2>2, <1>9
<1>12. CASE lastReply # NoMessage /\ lastReply.why = "retryable" /\ AttemptsLeft
  <2>1. /\ retryAttempt' = retryAttempt + 1 /\ overflowTried' = overflowTried
        /\ at' = [at EXCEPT !["handler"] = [Place("sleeping") EXCEPT !.reply = lastReply]]
      BY <1>12 DEF ProcessEnd, compactVars
  <2>2. PICK p : p = [Place("sleeping") EXCEPT !.reply = lastReply]
      OBVIOUS
  <2>3. p.where = "sleeping" /\ at' = [at EXCEPT !["handler"] = p] /\ "handler" \in Actors
      BY <2>1, <2>2, ActorsAre DEF Place
  <2>4. /\ LET was == IF at["handler"].where = "compacting" /\ at["handler"].retry THEN 1 ELSE 0
               is  == IF p.where = "compacting" /\ p.retry THEN 1 ELSE 0
           IN  Cardinality(Recovering(at')) + was = Cardinality(Recovering(at)) + is
        /\ Sleeping' = IF p.where \in {"sleeping", "cancelled"} THEN 1 ELSE 0
      BY <2>3, OneEases
  <2>5. c2 = c /\ Sleeping' = 1
      BY <1>5, <1>6, <1>7, <2>3, <2>4
  <2>6. Tries' + 1 = Tries
      BY <2>1, TriesSpent
  <2>7. QED
      BY <2>5, <2>6, <1>10
<1>13. CASE lastReply # NoMessage /\ ~(lastReply.why = "retryable" /\ AttemptsLeft)
  <2>1. PICK reply : reply = lastReply
      OBVIOUS
  <2>2. NoRetry(reply) /\ retryAttempt' = (IF reply.why = "retryable" THEN 0 ELSE retryAttempt)
      BY <1>13, <2>1 DEF ProcessEnd, NoRetry, CheckCompaction, Strip
  <2>3. /\ Sleeping' = 0 /\ (overflowTried => overflowTried')
        /\ \/ Cardinality(Recovering(at')) = Cardinality(Recovering(at))
           \/ /\ Cardinality(Recovering(at')) = Cardinality(Recovering(at)) + 1
              /\ reply.why = "overflow" /\ ~overflowTried /\ overflowTried'
      BY <1>5, <2>2, NoRetryMoves
  <2>4. CASE c2 = c
      BY <2>3, <2>4, <1>9
  <2>5. CASE c2 = c + 1 /\ reply.why = "overflow" /\ ~overflowTried /\ overflowTried'
    <3>1. retryAttempt' = retryAttempt
        BY <2>2, <2>5
    <3>2. Tries' + 1 = Tries
        BY <2>5, <3>1, TriesSpent
    <3>3. QED
        BY <2>3, <2>5, <3>2, <1>10
  <2>6. QED
      BY <1>6, <2>3, <2>4, <2>5
<1>14. QED
    BY <1>11, <1>12, <1>13

LEMMA MessageEases == ASSUME TypeInv, TypeInv', ProcessMessage PROVE Encouraged \/ Eased
<1>1. PICK i \in Due :
            /\ events[i] # AgentEnd /\ events' = RemoveAt(events, i)
            /\ overflowTried' = (overflowTried /\ events[i].role # "user" /\ ~Recovered(events[i]))
            /\ retryAttempt' = IF Recovered(events[i]) THEN 0 ELSE retryAttempt
    BY DEF ProcessMessage
<1>2. UNCHANGED <<status, timers, at>>
    BY DEF ProcessMessage, agentVars, agent
<1>3. PICK X : X = Events(nextId)
    OBVIOUS
<1>4. events \in Seq(X) /\ AgentEnd \in X
    BY <1>3 DEF TypeInv, SessionTyped, Events
<1>5. events # <<>> /\ i = 1 /\ events' = Tail(events)
    BY <1>1, <1>4, TakeEvent
<1>6. PICK s, m : s = events /\ m = events[i] /\ m = Head(s)
    BY <1>4, <1>5
<1>7. CASE m.role = "user" \/ Recovered(m)
    BY <1>5, <1>6, <1>7 DEF Encouraged, Recovered
<1>8. CASE m.role # "user" /\ ~Recovered(m)
  <2>1. overflowTried' = overflowTried /\ retryAttempt' = retryAttempt
    <3>1. overflowTried \in BOOLEAN
        BY DEF TypeInv, SessionTyped
    <3>2. QED
        BY <3>1, <1>1, <1>6, <1>8
  <2>2. EndsIn(events') = EndsIn(events)
    <3>1. s \in Seq(X) /\ s # <<>> /\ Head(s) # AgentEnd
        BY <1>1, <1>4, <1>5, <1>6
    <3>2. EndsIn(s) = EndsIn(Tail(s)) + (IF Head(s) = AgentEnd THEN 1 ELSE 0)
        BY <1>4, <3>1, EndsHead
    <3>3. EndsIn(events) \in Nat /\ EndsIn(events') \in Nat
        BY PartsTyped, PartsTypedNext
    <3>4. PICK a, b : a = EndsIn(events) /\ b = EndsIn(events') /\ a \in Nat /\ b \in Nat
        BY <3>3
    <3>5. a = b + 0
        BY <1>5, <1>6, <3>1, <3>2, <3>4
    <3>6. QED
        BY <3>4, <3>5
  <2>3. Sleeping' = Sleeping /\ Sleeping \in {0, 1} /\ Cardinality(Recovering(at)) \in Nat
      BY <1>2, PartsTyped, ActorsFinite DEF Sleeping
  <2>4. Sleeping' <= Sleeping /\ Cardinality(Recovering(at')) <= Cardinality(Recovering(at))
      BY <1>2, <2>3
  <2>5. QED
      BY <1>2, <2>1, <2>2, <2>4, SteadyEases
<1>9. QED
    BY <1>7, <1>8

-----------------------------------------------------------------------------
LEMMA RestNext ==
    ASSUME TypeInv, TypeInv', [Next]_vars
    PROVE  [Prompted \/ Encouraged \/ Kicked \/
            (Effort' <= Effort /\ (timers' < timers => Effort' < Effort))]_vars
<1> DEFINE Goal == Prompted \/ Encouraged \/ Kicked \/ Eased
<1>1. ASSUME AgentStep PROVE Goal
    BY <1>1, InjectEases, ModelEases, ToolEases, EndsEase, SettleEases DEF AgentStep
<1>2. ASSUME HandlerStep PROVE Goal
    BY <1>2, MessageEases, EndEases, SleepEases, CancelledEases DEF HandlerStep
<1>3. ASSUME CallerStep PROVE Goal
  <2>1. ASSUME NEW c \in Callers, Prompt(c) \/ SendPrompt(c) PROVE Goal
      BY <2>1, PromptGoes, SendGoes
  <2>2. ASSUME QueueSteer \/ ClearQueue \/ RecordBashResult PROVE Goal
    <3>1. UNCHANGED <<timers, status, retryAttempt, overflowTried, events, at>>
        BY <2>2 DEF QueueSteer, ClearQueue, RecordBashResult, agent, compactVars
    <3>2. QED
        BY <3>1, StillEases
  <2>3. ASSUME ManualCompacted PROVE Goal
    <3>1. "manual" \in Actors
        BY ActorsAre
    <3>2. QED
        BY <2>3, <3>1, CompactEases
  <2>4. ASSUME NEW x \in Actors, AutoCompacted(x) \/ CompactionFails(x) PROVE Goal
      BY <2>4, CompactEases
  <2>5. QED
      BY <1>3, <2>1, <2>2, <2>3, <2>4, GiveUpEases, PrepareEases DEF CallerStep
<1>4. ASSUME TimerFires PROVE Goal
    BY <1>4, TimerEases
<1>5. Next => Goal
    BY <1>1, <1>2, <1>3, <1>4 DEF Next
<1>6. QED
    BY <1>5 DEF Eased

(* Retries, recoveries from an overflow, compactions and the timers that   *)
(* continue a run do not keep the session busy by themselves: a step adds  *)
(* nothing to what is yet to be done, and the firing of a timer takes from *)
(* it, unless a caller prompts, a message of a user or a good reply is     *)
(* handled, or a compaction ends while messages are queued.                *)
THEOREM SessionRests == Spec => ComesToRest
<1>1. TypeInv /\ TypeInv' /\ [Next]_vars =>
        [Prompted \/ Encouraged \/ Kicked \/
         (Effort' <= Effort /\ (timers' < timers => Effort' < Effort))]_vars
    BY RestNext
<1>2. QED
    BY <1>1, TypeAlways, PTL DEF Spec, ComesToRest
-----------------------------------------------------------------------------
(* The model sees the same in the transcript and in the session file, which *)
(* are compared as sets: T and R are the messages of the transcript and of  *)
(* the rebuilt branch, B the entries, E what waits in the queue of events,  *)
(* Q and H what the agent and the session hold back.                        *)

Alike(P)    == \A m, r \in P : m.id = r.id => (Failed(m) <=> Failed(r))
Lives(i, P) == \E m \in P : m.id = i /\ ~Failed(m)
Differs(id, P) == \A m \in P : m.id # id

(* Outside the ids in but, what lives in the transcript and was heard is    *)
(* what lives in the rebuilt branch or is on its way there.  What was not   *)
(* heard is nowhere else, and what the agent holds back is nowhere yet.     *)
Agreed(T, B, R, E, Q, H, un, but) ==
    /\ \A i : i \notin but => (Lives(i, T) /\ i \notin un <=> Lives(i, R \cup E))
    /\ \A m \in B \cup E \cup Q \cup H : m.id \notin un
    /\ \A q \in Q : Differs(q.id, B \cup E \cup H)
    /\ Alike(T \cup B \cup R \cup E \cup Q \cup H)

Announced == ToSet(events) \ {AgentEnd}
CtxInv ==
    Agreed(ToSet(transcript), ToSet(branch), ToSet(Rebuilt(branch)), Announced,
           ToSet(queued), ToSet(pendingBash), unheard, overtaken \cup mistaken)

(* A message is said, and heard or not. *)
LEMMA SaidAgrees ==
    ASSUME NEW T, NEW B, NEW R, NEW E, NEW Q, NEW H, NEW un, NEW but,
           Agreed(T, B, R, E, Q, H, un, but),
           NEW m, NEW W, W \subseteq Q, m.id \notin un, Differs(m.id, B \cup E \cup W \cup H),
           Differs(m.id, R), Alike({m} \cup T \cup B \cup R \cup E \cup W \cup H)
    PROVE  /\ Agreed(T \cup {m}, B, R, E \cup {m}, W, H, un, but)
           /\ Agreed(T \cup {m}, B, R, E, W, H, un \cup {m.id}, but)
<1>1. /\ \A i : i \notin but => (Lives(i, T) /\ i \notin un <=> Lives(i, R \cup E))
      /\ \A e \in B \cup E \cup Q \cup H : e.id \notin un
      /\ \A q \in Q : Differs(q.id, B \cup E \cup H)
    BY DEF Agreed
<1>2. \A P, i : Lives(i, P \cup {m}) <=> Lives(i, P) \/ (i = m.id /\ ~Failed(m))
    BY DEF Lives
<1>3. ~Lives(m.id, R \cup E)
    BY DEF Lives, Differs
<1>4. Agreed(T \cup {m}, B, R, E \cup {m}, W, H, un, but)
  <2>1. \A i : i \notin but => (Lives(i, T \cup {m}) /\ i \notin un <=> Lives(i, (R \cup E) \cup {m}))
      BY <1>1, <1>2
  <2>2. R \cup (E \cup {m}) = (R \cup E) \cup {m}
      OBVIOUS
  <2>3. \A e \in B \cup (E \cup {m}) \cup W \cup H : e.id \notin un
      BY <1>1
  <2>4. \A q \in W : Differs(q.id, B \cup (E \cup {m}) \cup H)
      BY <1>1 DEF Differs
  <2>5. Alike((T \cup {m}) \cup B \cup R \cup (E \cup {m}) \cup W \cup H)
      BY DEF Alike
  <2>6. QED
      BY <2>1, <2>2, <2>3, <2>4, <2>5 DEF Agreed
<1>5. Agreed(T \cup {m}, B, R, E, W, H, un \cup {m.id}, but)
  <2>1. \A i : i \notin but => (Lives(i, T \cup {m}) /\ i \notin un \cup {m.id} <=> Lives(i, R \cup E))
      BY <1>1, <1>2, <1>3
  <2>2. \A e \in B \cup E \cup W \cup H : e.id \notin un \cup {m.id}
      BY <1>1 DEF Differs
  <2>3. \A q \in W : Differs(q.id, B \cup E \cup H)
      BY <1>1
  <2>4. Alike((T \cup {m}) \cup B \cup R \cup E \cup W \cup H)
      BY DEF Alike
  <2>5. QED
      BY <2>1, <2>2, <2>3, <2>4 DEF Agreed
<1>6. QED
    BY <1>4, <1>5

(* The transcript loses what failed or is counted out; more is counted out, *)
(* and more is not heard that nobody has.                                   *)
LEMMA LostAgrees ==
    ASSUME NEW T, NEW B, NEW R, NEW E, NEW Q, NEW H, NEW un, NEW but,
           Agreed(T, B, R, E, Q, H, un, but),
           NEW U, NEW out, U \subseteq T, but \subseteq out,
           \A m \in T \ U : Failed(m) \/ m.id \in out
    PROVE  Agreed(U, B, R, E, Q, H, un, out)
<1>1. \A i : i \notin out => (Lives(i, U) <=> Lives(i, T))
    BY DEF Lives
<1>2. Alike(U \cup B \cup R \cup E \cup Q \cup H)
    BY DEF Agreed, Alike
<1>3. QED
    BY <1>1, <1>2 DEF Agreed

LEMMA MissedAgrees ==
    ASSUME NEW T, NEW B, NEW R, NEW E, NEW Q, NEW H, NEW un, NEW but,
           Agreed(T, B, R, E, Q, H, un, but), NEW i,
           Differs(i, T \cup B \cup E \cup Q \cup H)
    PROVE  Agreed(T, B, R, E, Q, H, un \cup {i}, but)
<1>1. ~Lives(i, T)
    BY DEF Lives, Differs
<1>2. \A j : j \notin but => (Lives(j, T) /\ j \notin un \cup {i} <=> Lives(j, R \cup E))
    BY <1>1 DEF Agreed
<1>3. \A m \in B \cup E \cup Q \cup H : m.id \notin un \cup {i}
    BY DEF Agreed, Differs
<1>4. QED
    BY <1>2, <1>3 DEF Agreed

(* A failed reply that is announced to nobody *)
LEMMA FailedAgrees ==
    ASSUME NEW T, NEW B, NEW R, NEW E, NEW Q, NEW H, NEW un, NEW but,
           Agreed(T, B, R, E, Q, H, un, but), NEW m, Failed(m),
           Alike({m} \cup T \cup B \cup R \cup E \cup Q \cup H)
    PROVE  Agreed(T \cup {m}, B, R, E, Q, H, un, but)
<1>1. \A i : Lives(i, T \cup {m}) <=> Lives(i, T)
    BY DEF Lives
<1>2. Alike((T \cup {m}) \cup B \cup R \cup E \cup Q \cup H)
    BY DEF Alike
<1>3. QED
    BY <1>1, <1>2 DEF Agreed

(* A new message is queued, or a command's output held back. *)
LEMMA HeldAgrees ==
    ASSUME NEW T, NEW B, NEW R, NEW E, NEW Q, NEW H, NEW un, NEW but,
           Agreed(T, B, R, E, Q, H, un, but), NEW m, m.id \notin un,
           Differs(m.id, T \cup B \cup R \cup E \cup Q \cup H)
    PROVE  /\ Agreed(T, B, R, E, Q \cup {m}, H, un, but)
           /\ Agreed(T, B, R, E, Q, H \cup {m}, un, but)
           /\ ~Failed(m) => Agreed(T \cup {m}, B \cup {m}, R \cup {m}, E, Q, H, un, but)
<1>1. Alike({m} \cup T \cup B \cup R \cup E \cup Q \cup H)
    BY DEF Alike, Differs, Agreed
<1>2. /\ Alike(T \cup B \cup R \cup E \cup (Q \cup {m}) \cup H)
      /\ Alike(T \cup B \cup R \cup E \cup Q \cup (H \cup {m}))
      /\ Alike((T \cup {m}) \cup (B \cup {m}) \cup (R \cup {m}) \cup E \cup Q \cup H)
    BY <1>1 DEF Alike
<1>3. /\ \A i : i \notin but => (Lives(i, T) /\ i \notin un <=> Lives(i, R \cup E))
      /\ \A e \in B \cup E \cup Q \cup H : e.id \notin un
      /\ \A q \in Q : Differs(q.id, B \cup E \cup H)
    BY DEF Agreed
<1>4. /\ \A e \in {m} \cup B \cup E \cup Q \cup H : e.id \notin un
      /\ \A q \in Q \cup {m} : Differs(q.id, B \cup E \cup H)
      /\ \A q \in Q : Differs(q.id, {m} \cup B \cup E \cup H)
    BY <1>3 DEF Differs
<1>5. Agreed(T, B, R, E, Q \cup {m}, H, un, but)
    BY <1>2, <1>3, <1>4 DEF Agreed
<1>6. Agreed(T, B, R, E, Q, H \cup {m}, un, but)
  <2>1. \A q \in Q : Differs(q.id, B \cup E \cup (H \cup {m}))
      BY <1>4 DEF Differs
  <2>2. QED
      BY <1>2, <1>3, <1>4, <2>1 DEF Agreed
<1>7. ASSUME ~Failed(m) PROVE Agreed(T \cup {m}, B \cup {m}, R \cup {m}, E, Q, H, un, but)
  <2>1. \A i, P : Lives(i, P \cup {m}) <=> Lives(i, P) \/ i = m.id
      BY <1>7 DEF Lives
  <2>2. (R \cup {m}) \cup E = (R \cup E) \cup {m}
      OBVIOUS
  <2>3. \A i : i \notin but => (Lives(i, T \cup {m}) /\ i \notin un <=> Lives(i, (R \cup E) \cup {m}))
      BY <1>3, <2>1
  <2>4. \A q \in Q : Differs(q.id, (B \cup {m}) \cup E \cup H)
      BY <1>4 DEF Differs
  <2>5. QED
      BY <1>2, <1>4, <2>2, <2>3, <2>4 DEF Agreed
<1>8. QED
    BY <1>5, <1>6, <1>7

(* What was held back is shown and saved. *)
LEMMA FlushAgrees ==
    ASSUME NEW T, NEW B, NEW R, NEW E, NEW Q, NEW H, NEW un, NEW but,
           Agreed(T, B, R, E, Q, H, un, but)
    PROVE  Agreed(T \cup H, B \cup H, R \cup H, E, Q, {}, un, but)
<1>1. \A i, P : Lives(i, P \cup H) <=> Lives(i, P) \/ Lives(i, H)
    BY DEF Lives
<1>2. \A i : Lives(i, H) => i \notin un
    BY DEF Lives, Agreed
<1>3. \A i : i \notin but => (Lives(i, T \cup H) /\ i \notin un <=> Lives(i, (R \cup E) \cup H))
    BY <1>1, <1>2 DEF Agreed
<1>4. (R \cup H) \cup E = (R \cup E) \cup H
    OBVIOUS
<1>5. \A q \in Q : Differs(q.id, (B \cup H) \cup E \cup {})
    BY DEF Agreed, Differs
<1>6. Alike((T \cup H) \cup (B \cup H) \cup (R \cup H) \cup E \cup Q \cup {})
    BY DEF Agreed, Alike
<1>7. \A m \in (B \cup H) \cup E \cup Q \cup {} : m.id \notin un
    BY DEF Agreed
<1>8. QED
    BY <1>3, <1>4, <1>5, <1>6, <1>7 DEF Agreed

(* What waited is saved. *)
LEMMA SavesAgree ==
    ASSUME NEW T, NEW B, NEW R, NEW E, NEW Q, NEW H, NEW un, NEW but,
           Agreed(T, B, R, E, Q, H, un, but), NEW m, NEW F, E = F \cup {m}
    PROVE  Agreed(T, B \cup {m}, R \cup {m}, F, Q, H, un, but)
<1>1. (R \cup {m}) \cup F = R \cup E
    OBVIOUS
<1>2. \A q \in Q : Differs(q.id, (B \cup {m}) \cup F \cup H)
    BY DEF Agreed, Differs
<1>3. \A e \in (B \cup {m}) \cup F \cup Q \cup H : e.id \notin un
    BY DEF Agreed
<1>4. Alike(T \cup (B \cup {m}) \cup (R \cup {m}) \cup F \cup Q \cup H)
    BY DEF Agreed, Alike
<1>5. QED
    BY <1>1, <1>2, <1>3, <1>4 DEF Agreed

(* The transcript is rebuilt, with a new compaction in the branch. *)
LEMMA RebuiltAgrees ==
    ASSUME NEW T, NEW B, NEW R, NEW E, NEW Q, NEW H, NEW un, NEW but,
           Agreed(T, B, R, E, Q, H, un, but), NEW c, ~Failed(c), c.id \notin un,
           Differs(c.id, T \cup B \cup R \cup E \cup Q \cup H), NEW S, NEW U, NEW out,
           \A m \in S : \E b \in B \cup {c} : b.id = m.id /\ (Failed(m) <=> Failed(b)),
           U \subseteq S, \A m \in S \ U : Failed(m), but \subseteq out, \A m \in E : m.id \in out
    PROVE  Agreed(U, B \cup {c}, S, E, Q, H, un, out)
<1>1. \A i : Lives(i, U) <=> Lives(i, S)
    BY DEF Lives
<1>2. \A i : i \notin out => ~Lives(i, E)
    BY DEF Lives
<1>3. \A i : Lives(i, S) => i \notin un
    BY DEF Lives, Agreed
<1>4. \A i : Lives(i, S \cup E) <=> Lives(i, S) \/ Lives(i, E)
    BY DEF Lives
<1>5. ASSUME NEW i, i \notin out PROVE Lives(i, U) /\ i \notin un <=> Lives(i, S \cup E)
  <2>1. Lives(i, U) <=> Lives(i, S)
      BY <1>1
  <2>2. Lives(i, S \cup E) <=> Lives(i, S)
      BY <1>5 DEF Lives
  <2>3. Lives(i, S) => i \notin un
      BY <1>3
  <2>4. QED
      BY <2>1, <2>2, <2>3
<1>6. \A m \in (B \cup {c}) \cup E \cup Q \cup H : m.id \notin un
    BY DEF Agreed
<1>7. \A q \in Q : Differs(q.id, (B \cup {c}) \cup E \cup H)
    BY DEF Agreed, Differs
<1>8. Alike((B \cup {c}) \cup E \cup Q \cup H)
    BY DEF Agreed, Alike, Differs
<1>9. Alike(U \cup (B \cup {c}) \cup S \cup E \cup Q \cup H)
  <2>1. \A m \in U \cup S : \E b \in B \cup {c} : b.id = m.id /\ (Failed(m) <=> Failed(b))
      OBVIOUS
  <2>2. QED
      BY <1>8, <2>1 DEF Alike
<1>10. QED
    BY <1>5, <1>6, <1>7, <1>9 DEF Agreed

-----------------------------------------------------------------------------
(* The rebuilt context, as a set *)

LEMMA KeepSet ==
    ASSUME NEW X, NEW s \in Seq(X), NEW S
    PROVE  ToSet(Keep(s, S)) = ToSet(s) \cap S
<1> DEFINE U == {t \in Seq(X) : ToSet(Keep(t, S)) = ToSet(t) \cap S}
<1>1. <<>> \in U
    BY EmptySeq, KeepEmpty, SetOne
<1>2. ASSUME NEW t \in U, NEW e \in X PROVE Append(t, e) \in U
  <2>1. PICK k \in Seq(X) : k = Keep(t, S)
      BY KeepType
  <2>2. PICK one \in Seq(X) : one = <<e>> /\ ToSet(one) = {e}
    <3>1. <<e>> \in Seq(X) /\ ToSet(<<e>>) = {e}
        BY SetOne
    <3>2. QED
        BY <3>1
  <2>3. t \in Seq(X) /\ ToSet(k) = ToSet(t) \cap S
    <3>1. t \in Seq(X) /\ ToSet(Keep(t, S)) = ToSet(t) \cap S
        BY <1>2
    <3>2. QED
        BY <2>1, <3>1
  <2>4. ToSet(t \o one) = ToSet(t) \cup {e} /\ ToSet(k \o one) = ToSet(k) \cup {e}
    <3>1. ToSet(t \o one) = ToSet(t) \cup ToSet(one)
        BY <2>3, SetConcat
    <3>2. ToSet(k \o one) = ToSet(k) \cup ToSet(one)
        BY SetConcat
    <3>3. QED
        BY <2>2, <3>1, <3>2
  <2>5. Append(t, e) = t \o one /\ Append(k, e) = k \o one
      BY <2>1, <2>2, <2>3, AppendIsConcat
  <2>6. Keep(Append(t, e), S) = IF e \in S THEN Append(k, e) ELSE k
      BY <2>1, <2>3, KeepAppend
  <2>7. ToSet(Keep(Append(t, e), S)) = ToSet(Append(t, e)) \cap S
    <3>1. CASE e \in S
        BY <3>1, <2>3, <2>4, <2>5, <2>6
    <3>2. CASE e \notin S
        BY <3>2, <2>3, <2>4, <2>5, <2>6
    <3>3. QED
        BY <3>1, <3>2
  <2>8. QED
      BY <2>3, <2>7, AppendProperties
<1> HIDE DEF U
<1>3. s \in U
    BY <1>1, <1>2, SeqInduct
<1>4. QED
    BY <1>3 DEF U

(* The end of a sequence, from some place on *)
LEMMA SetFrom ==
    ASSUME NEW X, NEW s \in Seq(X), NEW a \in Nat \ {0}
    PROVE  /\ SubSeq(s, a, Len(s)) \in Seq(X)
           /\ ToSet(SubSeq(s, a, Len(s))) = {s[i] : i \in a .. Len(s)}
<1>1. /\ Len(s) \in Nat /\ DOMAIN s = 1 .. Len(s)
      /\ \A i \in a .. Len(s) : s[i] \in X
    BY LenProperties, ElementOfSeq
<1> DEFINE n == Len(s)
           q == SubSeq(s, a, n)
<1>2. q \in Seq(X) /\ Len(q) = IF a <= n THEN n - a + 1 ELSE 0
    BY <1>1, SubSeqProperties
<1>3. \A i \in 1 .. n - a + 1 : q[i] = s[a + i - 1]
    BY <1>1, SubSeqProperties
<1>4. DOMAIN q = 1 .. Len(q)
    BY <1>2, LenProperties
<1>5. n \in Nat
    BY <1>1
<1> HIDE DEF q, n
<1>6. ASSUME NEW i \in DOMAIN q PROVE q[i] \in {s[j] : j \in a .. n}
  <2>1. a <= n /\ i \in 1 .. n - a + 1
      BY <1>2, <1>4, <1>5
  <2>2. a + i - 1 \in a .. n
      BY <2>1, <1>5
  <2>3. QED
      BY <1>3, <2>1, <2>2
<1>7. ASSUME NEW j \in a .. n PROVE s[j] \in ToSet(q)
  <2>1. j - a + 1 \in 1 .. n - a + 1 /\ a <= n /\ a + (j - a + 1) - 1 = j
      BY <1>5
  <2>2. j - a + 1 \in DOMAIN q
      BY <2>1, <1>2, <1>4
  <2>3. q[j - a + 1] = s[j]
      BY <2>1, <1>3
  <2>4. QED
      BY <2>2, <2>3 DEF ToSet
<1>8. ToSet(q) = {s[j] : j \in a .. n}
    BY <1>6, <1>7 DEF ToSet
<1>9. QED
    BY <1>2, <1>8 DEF q, n

FromKept(s) == IF LastCompaction(s) = 0 THEN 1 ELSE s[LastCompaction(s)].kept
SummaryOf(s) ==
    IF LastCompaction(s) = 0 THEN {}
    ELSE {Message("summary", s[LastCompaction(s)].id, "none", "none")}
ShownOf(s) == {s[i] : i \in {j \in FromKept(s) .. Len(s) : s[j].role # "compaction"}}

LEMMA RebuiltIs ==
    ASSUME NEW n \in Nat, NEW s \in Seq(Entries(n)),
           \A i \in DOMAIN s : s[i].role = "compaction" => s[i].kept \in 1 .. Len(s)
    PROVE  /\ FromKept(s) \in Nat \ {0} /\ (FromKept(s) = 1 \/ FromKept(s) <= Len(s))
           /\ ToSet(Rebuilt(s)) = SummaryOf(s) \cup ShownOf(s)
<1> DEFINE c    == LastCompaction(s)
           from == FromKept(s)
           S    == {e \in ToSet(s) : e.role # "compaction"}
           rest == SubSeq(s, from, Len(s))
           head == IF c = 0 THEN <<>> ELSE <<Message("summary", s[c].id, "none", "none")>>
<1>1. c \in 0 .. Len(s) /\ (c > 0 => c \in 1 .. Len(s) /\ s[c].role = "compaction")
    BY LastCompactionIs
<1>2. DOMAIN s = 1 .. Len(s) /\ Len(s) \in Nat /\ \A i \in 1 .. Len(s) : s[i] \in ToSet(s)
    BY LenProperties, SetIs
<1>3. from \in Nat \ {0} /\ (from = 1 \/ from <= Len(s))
    BY <1>1, <1>2 DEF FromKept
<1>4. Rebuilt(s) = head \o Keep(rest, S)
    BY DEF Rebuilt, FromKept
<1>5. rest \in Seq(Entries(n)) /\ ToSet(rest) = {s[i] : i \in from .. Len(s)}
  <2> HIDE DEF from
  <2>1. QED
      BY <1>3, SetFrom
<1>6. PICK X : X = Entries(n) \cup ToSet(head)
    OBVIOUS
<1>7. head \in Seq(X) /\ ToSet(head) = SummaryOf(s)
  <2>1. ToSet(head) = SummaryOf(s)
      BY SetOne DEF SummaryOf
  <2>2. CASE c = 0
      BY <2>1, <2>2, EmptySeq
  <2>3. CASE c # 0
    <3>1. head = <<Message("summary", s[c].id, "none", "none")>> /\ head[1] \in ToSet(head)
        BY <2>3 DEF ToSet
    <3>2. Message("summary", s[c].id, "none", "none") \in X
        BY <3>1, <1>6
    <3>3. head \in Seq(X)
        BY <3>1, <3>2
    <3>4. QED
        BY <2>1, <3>3
  <2>4. QED
      BY <2>2, <2>3
<1> HIDE DEF c, from, S, rest, head
<1>8. PICK k \in Seq(X) : k = Keep(rest, S)
  <2>1. Keep(rest, S) \in Seq(Entries(n))
      BY <1>5, KeepType
  <2>2. Entries(n) \subseteq X
      BY <1>6
  <2>3. QED
      BY <2>1, <2>2, SeqMonotonic
<1>9. ToSet(k) = ToSet(rest) \cap S
    BY <1>5, <1>8, KeepSet
<1>10. ToSet(head \o k) = ToSet(head) \cup ToSet(k)
    BY <1>7, <1>8, SetConcat
<1>11. ToSet(rest) \cap S = ShownOf(s)
  <2>1. \A i \in from .. Len(s) : s[i] \in S <=> s[i].role # "compaction"
      BY <1>2, <1>3 DEF S
  <2>2. QED
      BY <2>1, <1>5 DEF ShownOf, from
<1>12. QED
    BY <1>3, <1>4, <1>7, <1>8, <1>9, <1>10, <1>11 DEF from

(* What a rebuilt context shows is an entry, or the summary that stands for *)
(* a compaction.                                                            *)
LEMMA RebuiltFrom ==
    ASSUME NEW n \in Nat, NEW s \in Seq(Entries(n)),
           \A i \in DOMAIN s : s[i].role = "compaction" => s[i].kept \in 1 .. Len(s),
           NEW m \in ToSet(Rebuilt(s))
    PROVE  \E e \in ToSet(s) : e.id = m.id /\ (Failed(m) <=> Failed(e))
<1> DEFINE c == LastCompaction(s)
<1>1. c \in 0 .. Len(s) /\ (c > 0 => c \in 1 .. Len(s) /\ s[c].role = "compaction")
    BY LastCompactionIs
<1>2. \A i \in 1 .. Len(s) : s[i] \in ToSet(s)
    BY SetIs
<1>3. FromKept(s) \in Nat \ {0} /\ m \in SummaryOf(s) \cup ShownOf(s) /\ Len(s) \in Nat
    BY RebuiltIs, LenProperties
<1>4. CASE m \in ShownOf(s)
  <2>1. PICK i \in FromKept(s) .. Len(s) : m = s[i]
      BY <1>4 DEF ShownOf
  <2>2. i \in 1 .. Len(s)
      BY <2>1, <1>3
  <2>3. QED
      BY <2>1, <2>2, <1>2
<1>5. CASE m \in SummaryOf(s)
  <2>1. c # 0 /\ m = Message("summary", s[c].id, "none", "none")
      BY <1>5 DEF SummaryOf
  <2>2. s[c] \in ToSet(s) /\ s[c].role = "compaction"
      BY <2>1, <1>1, <1>2
  <2>3. m.id = s[c].id /\ m.role = "summary"
      BY <2>1 DEF Message
  <2>4. ~Failed(m) /\ ~Failed(s[c])
      BY <2>2, <2>3 DEF Failed, IsReply
  <2>5. QED
      BY <2>2, <2>3, <2>4
<1>6. QED
    BY <1>3, <1>4, <1>5

(* Entries that are not compactions are shown at its end. *)
LEMMA RebuiltGrows ==
    ASSUME NEW n \in Nat, NEW s \in Seq(Entries(n)), NEW t \in Seq(Entries(n)),
           \A i \in DOMAIN s : s[i].role = "compaction" => s[i].kept \in 1 .. Len(s),
           \A i \in DOMAIN t : t[i].role # "compaction"
    PROVE  ToSet(Rebuilt(s \o t)) = ToSet(Rebuilt(s)) \cup ToSet(t)
<1> DEFINE q == s \o t
           c == LastCompaction(s)
           d == LastCompaction(q)
<1>1. /\ q \in Seq(Entries(n)) /\ Len(q) = Len(s) + Len(t)
      /\ \A i \in 1 .. Len(s) + Len(t) : q[i] = IF i <= Len(s) THEN s[i] ELSE t[i - Len(s)]
    BY ConcatProperties
<1>2. /\ Len(s) \in Nat /\ Len(t) \in Nat /\ DOMAIN s = 1 .. Len(s) /\ DOMAIN t = 1 .. Len(t)
      /\ DOMAIN q = 1 .. Len(q)
    BY <1>1, LenProperties
<1> HIDE DEF q
<1>3. /\ \A i \in 1 .. Len(s) : i \in DOMAIN q /\ q[i] = s[i]
      /\ \A j \in 1 .. Len(t) : Len(s) + j \in DOMAIN q /\ q[Len(s) + j] = t[j]
  <2>1. ASSUME NEW j \in 1 .. Len(t) PROVE Len(s) + j \in DOMAIN q /\ q[Len(s) + j] = t[j]
    <3>1. Len(s) + j \in 1 .. Len(s) + Len(t) /\ ~(Len(s) + j <= Len(s)) /\ (Len(s) + j) - Len(s) = j
        BY <1>2
    <3>2. QED
        BY <3>1, <1>1, <1>2
  <2>2. ASSUME NEW i \in 1 .. Len(s) PROVE i \in DOMAIN q /\ q[i] = s[i]
    <3>1. i \in 1 .. Len(s) + Len(t) /\ i <= Len(s)
        BY <1>2
    <3>2. QED
        BY <3>1, <1>1, <1>2
  <2>3. QED
      BY <2>1, <2>2
<1>4. \A k \in DOMAIN q : k \in 1 .. Len(s) \/ \E j \in 1 .. Len(t) : k = Len(s) + j
  <2>1. ASSUME NEW k \in DOMAIN q, ~(k <= Len(s)) PROVE \E j \in 1 .. Len(t) : k = Len(s) + j
    <3>1. k - Len(s) \in 1 .. Len(t) /\ k = Len(s) + (k - Len(s))
        BY <2>1, <1>1, <1>2
    <3>2. QED
        BY <3>1
  <2>2. QED
      BY <2>1, <1>1, <1>2
<1>5. Compactions(q) = Compactions(s)
    BY <1>2, <1>3, <1>4 DEF Compactions
<1>6. d = c
    BY <1>5 DEF LastCompaction
<1>7. c \in 0 .. Len(s) /\ (c > 0 => c \in 1 .. Len(s) /\ s[c].role = "compaction")
    BY LastCompactionIs
<1>8. SummaryOf(q) = SummaryOf(s) /\ FromKept(q) = FromKept(s)
  <2>1. CASE c = 0
      BY <2>1, <1>6 DEF SummaryOf, FromKept
  <2>2. CASE c # 0
    <3>1. q[c] = s[c]
        BY <2>2, <1>3, <1>7
    <3>2. QED
        BY <2>2, <3>1, <1>6 DEF SummaryOf, FromKept
  <2>3. QED
      BY <2>1, <2>2
<1>9. \A i \in DOMAIN q : q[i].role = "compaction" => q[i].kept \in 1 .. Len(q)
  <2>1. ASSUME NEW i \in DOMAIN q, q[i].role = "compaction" PROVE q[i].kept \in 1 .. Len(q)
    <3>1. i \in DOMAIN s /\ q[i] = s[i]
        BY <2>1, <1>2, <1>3, <1>4
    <3>2. s[i].kept \in 1 .. Len(s)
        BY <2>1, <3>1
    <3>3. QED
        BY <3>1, <3>2, <1>1, <1>2
  <2>2. QED
      BY <2>1
<1>10. /\ FromKept(s) \in Nat \ {0} /\ (FromKept(s) = 1 \/ FromKept(s) <= Len(s))
       /\ ToSet(Rebuilt(s)) = SummaryOf(s) \cup ShownOf(s)
    BY RebuiltIs
<1>11. ToSet(Rebuilt(q)) = SummaryOf(q) \cup ShownOf(q)
    BY <1>1, <1>9, RebuiltIs
<1>12. ShownOf(q) = ShownOf(s) \cup ToSet(t)
  <2> DEFINE from == FromKept(s)
  <2>1. from \in Nat \ {0} /\ from <= Len(s) + 1
      BY <1>10, <1>2
  <2>2. ShownOf(s) = {s[i] : i \in {j \in from .. Len(s) : s[j].role # "compaction"}}
        /\ ShownOf(q) = {q[i] : i \in {j \in from .. Len(q) : q[j].role # "compaction"}}
      BY <1>8 DEF ShownOf
  <2> HIDE DEF from
  <2>3. ASSUME NEW i \in from .. Len(s), s[i].role # "compaction" PROVE s[i] \in ShownOf(q)
    <3>1. i \in 1 .. Len(s) /\ i \in from .. Len(q)
        BY <2>1, <1>1, <1>2
    <3>2. q[i] = s[i]
        BY <3>1, <1>3
    <3>3. QED
        BY <2>2, <2>3, <3>1, <3>2
  <2>4. ASSUME NEW j \in 1 .. Len(t) PROVE t[j] \in ShownOf(q)
    <3>1. Len(s) + j \in from .. Len(q)
        BY <2>1, <1>1, <1>2
    <3>2. q[Len(s) + j] = t[j] /\ t[j].role # "compaction"
        BY <1>2, <1>3
    <3>3. QED
        BY <2>2, <3>1, <3>2
  <2>5. ASSUME NEW k \in from .. Len(q), q[k].role # "compaction" PROVE q[k] \in ShownOf(s) \cup ToSet(t)
    <3>1. k \in DOMAIN q
        BY <2>1, <1>1, <1>2
    <3>2. CASE k \in 1 .. Len(s)
      <4>1. q[k] = s[k] /\ k \in from .. Len(s)
          BY <3>2, <2>1, <1>2, <1>3
      <4>2. QED
          BY <4>1, <2>2, <2>5
    <3>3. CASE \E j \in 1 .. Len(t) : k = Len(s) + j
        BY <3>3, <1>2, <1>3 DEF ToSet
    <3>4. QED
        BY <3>1, <3>2, <3>3, <1>4
  <2>6. ToSet(t) = {t[j] : j \in 1 .. Len(t)}
      BY <1>2 DEF ToSet
  <2>7. QED
      BY <2>2, <2>3, <2>4, <2>5, <2>6
<1>13. QED
    BY <1>8, <1>10, <1>11, <1>12 DEF q

-----------------------------------------------------------------------------
(* The sets of a state, and what the types say of them *)

Sets(T, B, R, E, Q, H, un, but) ==
    /\ T = ToSet(transcript) /\ B = ToSet(branch) /\ R = ToSet(Rebuilt(branch))
    /\ E = Announced /\ Q = ToSet(queued) /\ H = ToSet(pendingBash)
    /\ un = unheard /\ but = overtaken \cup mistaken

LEMMA CtxHolds ==
    ASSUME NEW T, NEW B, NEW R, NEW E, NEW Q, NEW H, NEW un, NEW but,
           Sets(T, B, R, E, Q, H, un, but)', Agreed(T, B, R, E, Q, H, un, but)
    PROVE  CtxInv'
BY DEF Sets, CtxInv

LEMMA CtxSets ==
    ASSUME TypeInv, CtxInv
    PROVE  \E T, B, R, E, Q, H, un, but :
             /\ Sets(T, B, R, E, Q, H, un, but) /\ Agreed(T, B, R, E, Q, H, un, but)
             /\ \A m \in T \cup B \cup R \cup E \cup Q \cup H : m.id \in 1 .. nextId - 1
             /\ T \subseteq Context(nextId) /\ B \subseteq Entries(nextId)
             /\ R \subseteq Context(nextId) /\ E \subseteq Spoken(nextId)
             /\ Q \subseteq Users(nextId) /\ H \subseteq Bashes(nextId) /\ un \subseteq 0 .. nextId - 1
<1>1. PICK T, B, R, E, Q, H, un, but : Sets(T, B, R, E, Q, H, un, but)
    BY DEF Sets
<1>2. Agreed(T, B, R, E, Q, H, un, but)
    BY <1>1 DEF Sets, CtxInv
<1>3. PICK n \in Nat : n = nextId
    BY SessionAssumption DEF TypeInv
<1>4. /\ transcript \in Seq(Context(n)) /\ queued \in Seq(Users(n)) /\ events \in Seq(Events(n))
      /\ pendingBash \in Seq(Bashes(n)) /\ branch \in Seq(Entries(n)) /\ KeptBefore(branch)
      /\ unheard \subseteq 0 .. n - 1
    BY <1>3 DEF TypeInv, AgentTyped, SessionTyped, BranchTyped
<1>5. Rebuilt(branch) \in Seq(Context(n))
  <2>1. PICK b : b = branch
      OBVIOUS
  <2>2. b \in Seq(Entries(n)) /\ \A i \in DOMAIN b : b[i].role = "compaction" => b[i].kept \in 1 .. Len(b)
      BY <1>4, <2>1 DEF KeptBefore
  <2>3. QED
      BY <2>1, <2>2, RebuiltType
<1>6. /\ ToSet(transcript) \subseteq Context(n) /\ ToSet(queued) \subseteq Users(n)
      /\ ToSet(events) \subseteq Events(n) /\ ToSet(pendingBash) \subseteq Bashes(n)
      /\ ToSet(branch) \subseteq Entries(n) /\ ToSet(Rebuilt(branch)) \subseteq Context(n)
  <2>1. ToSet(transcript) \subseteq Context(n)
      BY <1>4, SetIs
  <2>2. ToSet(queued) \subseteq Users(n)
      BY <1>4, SetIs
  <2>3. ToSet(events) \subseteq Events(n)
      BY <1>4, SetIs
  <2>4. ToSet(pendingBash) \subseteq Bashes(n)
      BY <1>4, SetIs
  <2>5. ToSet(branch) \subseteq Entries(n)
      BY <1>4, SetIs
  <2>6. PICK r : r = Rebuilt(branch)
      OBVIOUS
  <2>7. ToSet(r) \subseteq Context(n)
      BY <1>5, <2>6, SetIs
  <2>8. QED
      BY <2>1, <2>2, <2>3, <2>4, <2>5, <2>6, <2>7
<1>7. Announced \subseteq Spoken(n)
    BY <1>6 DEF Announced, Events
<1>8. \A m \in Context(n) \cup Entries(n) \cup Spoken(n) \cup Users(n) \cup Bashes(n) : m.id \in 1 .. n - 1
    BY MessageIs DEF Context, Entries, Spoken
<1>9. /\ T \subseteq Context(n) /\ B \subseteq Entries(n) /\ R \subseteq Context(n) /\ E \subseteq Spoken(n)
      /\ Q \subseteq Users(n) /\ H \subseteq Bashes(n) /\ un \subseteq 0 .. n - 1
    BY <1>1, <1>4, <1>6, <1>7 DEF Sets
<1>10. \A m \in T \cup B \cup R \cup E \cup Q \cup H : m.id \in 1 .. n - 1
    BY <1>8, <1>9
<1>11. QED
    BY <1>1, <1>2, <1>3, <1>9, <1>10

LEMMA CtxInit == Init => CtxInv
<1> SUFFICES ASSUME Init PROVE CtxInv
    OBVIOUS
<1>1. /\ transcript = <<>> /\ branch = <<>> /\ events = <<>> /\ queued = <<>> /\ pendingBash = <<>>
      /\ unheard = {} /\ overtaken = {} /\ mistaken = {}
    BY DEF Init, Idle
<1>2. PICK s \in Seq(Entries(0)) : s = <<>>
    BY EmptySeq
<1>3. ToSet(s) = {}
    BY <1>2, SetOne
<1>4. \A i \in DOMAIN s : s[i].role = "compaction" => s[i].kept \in 1 .. Len(s)
    BY <1>2
<1>5. ToSet(Rebuilt(s)) = {}
  <2>1. ASSUME NEW m \in ToSet(Rebuilt(s)) PROVE FALSE
    <3>1. \E e \in ToSet(s) : e.id = m.id
        BY <1>4, RebuiltFrom
    <3>2. QED
        BY <3>1, <1>3
  <2>2. QED
      BY <2>1
<1>6. Announced = {}
    BY <1>1, <1>2, <1>3 DEF Announced
<1>7. Agreed({}, {}, {}, {}, {}, {}, {}, {})
    BY DEF Agreed, Alike, Lives
<1>8. CtxInv <=> Agreed({}, {}, {}, {}, {}, {}, {}, {} \cup {})
    BY <1>1, <1>2, <1>3, <1>5, <1>6 DEF CtxInv
<1>9. QED
    BY <1>7, <1>8

LEMMA CtxSame ==
    ASSUME CtxInv, UNCHANGED <<transcript, branch, events, queued, pendingBash, unheard, overtaken, mistaken>>
    PROVE  CtxInv'
BY DEF CtxInv, Announced

(* What the session hears *)
LEMMA HearsSet ==
    ASSUME TypeInv, nextId' \in 1 .. MaxId + 1, nextId <= nextId',
           NEW ms \in Seq(Spoken(nextId')), NEW ends, Hear(ms, ends)
    PROVE  \/ Announced' = Announced \cup ToSet(ms) /\ unheard' = unheard
           \/ /\ Announced' = Announced
              /\ unheard' \in {unheard \cup Idset(ms), unheard \cup Idset(ms) \cup {0}}
<1> DEFINE X == Events(nextId')
           tail == IF ends = NoMessage THEN <<>> ELSE <<AgentEnd>>
<1>1. /\ events \in Seq(X) /\ AgentEnd \in X /\ ms \in Seq(X)
    BY SpokenEvents
<1>2. AgentEnd.id = 0 /\ AgentEnd \notin ToSet(ms)
  <2>1. nextId' \in Nat
      BY SessionAssumption
  <2>2. ToSet(ms) \subseteq Spoken(nextId')
      BY SetIs
  <2>3. AgentEnd.id = 0 /\ \A m \in Spoken(nextId') : m.id # 0
      BY <2>1, MessageIs DEF Spoken
  <2>4. QED
      BY <2>2, <2>3
<1>3. tail \in Seq(X) /\ ToSet(tail) \subseteq {AgentEnd}
    BY <1>1, SetOne, EmptySeq
<1> HIDE DEF X, tail
<1>4. CASE Listening
  <2>1. events' = events \o ms \o tail /\ unheard' = unheard
      BY <1>4 DEF Hear, tail
  <2>2. events \o ms \in Seq(X) /\ ToSet(events \o ms) = ToSet(events) \cup ToSet(ms)
      BY <1>1, ConcatProperties, SetConcat
  <2> DEFINE q == events \o ms
  <2> HIDE DEF q
  <2>3. q \in Seq(X) /\ events' = q \o tail
      BY <2>1, <2>2 DEF q
  <2>4. ToSet(q \o tail) = ToSet(q) \cup ToSet(tail)
      BY <2>3, <1>3, SetConcat
  <2>5. ToSet(events') = (ToSet(events) \cup ToSet(ms)) \cup ToSet(tail)
      BY <2>2, <2>3, <2>4 DEF q
  <2>6. Announced' = Announced \cup ToSet(ms)
      BY <2>5, <1>2, <1>3 DEF Announced
  <2>7. QED
      BY <2>1, <2>6
<1>5. CASE ~Listening
  <2>1. /\ unheard' = unheard \cup Idset(ms) \cup (IF ends = NoMessage THEN {} ELSE {AgentEnd.id})
        /\ events' = events
      BY <1>5 DEF Hear
  <2>2. Announced' = Announced
      BY <2>1 DEF Announced
  <2>3. QED
      BY <2>1, <2>2, <1>2
<1>6. QED
    BY <1>4, <1>5

-----------------------------------------------------------------------------
(* The agent *)

LEMMA SetJoins ==
    ASSUME NEW X, NEW s \in Seq(X), NEW e \in X
    PROVE  ToSet(s \o <<e>>) = ToSet(s) \cup {e}
<1>1. PICK one \in Seq(X) : one = <<e>> /\ ToSet(one) = {e}
  <2>1. <<e>> \in Seq(X) /\ ToSet(<<e>>) = {e}
      BY SetOne
  <2>2. QED
      BY <2>1
<1>2. ToSet(s \o one) = ToSet(s) \cup ToSet(one)
    BY SetConcat
<1>3. QED
    BY <1>1, <1>2

(* What is shown has the id of an entry. *)
LEMMA ShownFrom ==
    ASSUME TypeInv, NEW r \in ToSet(Rebuilt(branch))
    PROVE  \E e \in ToSet(branch) : e.id = r.id
<1>1. PICK n \in Nat : n = nextId
    BY SessionAssumption DEF TypeInv
<1>2. PICK b : b = branch
    OBVIOUS
<1>3. b \in Seq(Entries(n)) /\ \A i \in DOMAIN b : b[i].role = "compaction" => b[i].kept \in 1 .. Len(b)
    BY <1>1, <1>2 DEF TypeInv, BranchTyped, KeptBefore
<1>4. r \in ToSet(Rebuilt(b))
    BY <1>2
<1>5. \E e \in ToSet(b) : e.id = r.id
    BY <1>3, <1>4, RebuiltFrom
<1>6. QED
    BY <1>2, <1>5

(* One message is said: a new one, or the next of the queue. *)
LEMMA OneSaid ==
    ASSUME TypeInv, CtxInv, nextId' \in 1 .. MaxId + 1, nextId <= nextId',
           NEW m \in Spoken(nextId'), NEW ends, Hear(<<m>>, ends), transcript' = transcript \o <<m>>,
           UNCHANGED <<branch, pendingBash, overtaken, mistaken>>,
           NEW W, W = ToSet(queued'), W \subseteq ToSet(queued),
           m.id = nextId \/ (m \in ToSet(queued) /\ Differs(m.id, W))
    PROVE  CtxInv'
<1>1. PICK T, B, R, E, Q, H, un, but :
             /\ Sets(T, B, R, E, Q, H, un, but) /\ Agreed(T, B, R, E, Q, H, un, but)
             /\ \A e \in T \cup B \cup R \cup E \cup Q \cup H : e.id \in 1 .. nextId - 1
             /\ un \subseteq 0 .. nextId - 1
    BY CtxSets
<1>2. nextId \in Nat \ {0} /\ W \subseteq Q
    BY <1>1, SessionAssumption DEF TypeInv, Sets
<1>3. m.id \notin un /\ Differs(m.id, B \cup E \cup W \cup H) /\ m.id # 0
  <2>1. CASE m.id = nextId
      BY <2>1, <1>1, <1>2 DEF Differs
  <2>2. CASE m \in ToSet(queued) /\ Differs(m.id, W)
    <3>1. m \in Q
        BY <2>2, <1>1 DEF Sets
    <3>2. m.id \notin un /\ Differs(m.id, B \cup E \cup H)
        BY <3>1, <1>1 DEF Agreed
    <3>3. m.id # 0
        BY <3>1, <1>1
    <3>4. QED
        BY <2>2, <3>2, <3>3 DEF Differs
  <2>3. QED
      BY <2>1, <2>2
<1>4. Differs(m.id, R)
  <2>1. \A r \in R : \E e \in B : e.id = r.id
      BY <1>1, ShownFrom DEF Sets
  <2>2. QED
      BY <2>1, <1>3 DEF Differs
<1>5. Alike({m} \cup T \cup B \cup R \cup E \cup W \cup H)
  <2>1. Alike(T \cup B \cup R \cup E \cup Q \cup H)
      BY <1>1 DEF Agreed
  <2>2. CASE m.id = nextId
    <3>1. \A e \in T \cup B \cup R \cup E \cup Q \cup H : e.id # m.id
        BY <2>2, <1>1, <1>2
    <3>2. QED
        BY <2>1, <3>1, <1>2 DEF Alike
  <2>3. CASE m \in ToSet(queued)
    <3>1. m \in Q
        BY <2>3, <1>1 DEF Sets
    <3>2. QED
        BY <2>1, <3>1, <1>2 DEF Alike
  <2>4. QED
      BY <2>2, <2>3
<1>6. /\ Agreed(T \cup {m}, B, R, E \cup {m}, W, H, un, but)
      /\ Agreed(T \cup {m}, B, R, E, W, H, un \cup {m.id}, but)
    BY <1>1, <1>2, <1>3, <1>4, <1>5, SaidAgrees
<1>7. Differs(0, (T \cup {m}) \cup B \cup E \cup W \cup H)
    BY <1>1, <1>2, <1>3 DEF Differs
<1>8. Agreed(T \cup {m}, B, R, E, W, H, (un \cup {m.id}) \cup {0}, but)
    BY <1>6, <1>7, MissedAgrees
<1>9. ToSet(transcript') = T \cup {m}
  <2>1. PICK n \in Nat : n = nextId'
      BY SessionAssumption
  <2>2. transcript \in Seq(Context(n)) /\ m \in Context(n)
      BY <2>1, Still DEF AgentTyped, Context
  <2>3. ToSet(transcript \o <<m>>) = ToSet(transcript) \cup {m}
      BY <2>2, SetJoins
  <2>4. QED
      BY <2>3, <1>1 DEF Sets
<1>10. \/ Announced' = E \cup {m} /\ unheard' = un
       \/ Announced' = E /\ unheard' \in {un \cup {m.id}, (un \cup {m.id}) \cup {0}}
  <2>1. PICK ms \in Seq(Spoken(nextId')) : ms = <<m>> /\ ToSet(ms) = {m} /\ Idset(ms) = {m.id}
    <3>1. <<m>> \in Seq(Spoken(nextId')) /\ ToSet(<<m>>) = {m}
        BY SetOne
    <3>2. Idset(<<m>>) = {m.id}
        BY <3>1 DEF Idset
    <3>3. QED
        BY <3>1, <3>2
  <2>2. Hear(ms, ends)
      BY <2>1
  <2>3. \/ Announced' = Announced \cup ToSet(ms) /\ unheard' = unheard
        \/ /\ Announced' = Announced
           /\ unheard' \in {unheard \cup Idset(ms), unheard \cup Idset(ms) \cup {0}}
      BY <2>2, HearsSet
  <2>4. QED
      BY <2>1, <2>3, <1>1 DEF Sets
<1>11. /\ B = ToSet(branch') /\ R = ToSet(Rebuilt(branch'))
       /\ H = ToSet(pendingBash') /\ but = overtaken' \cup mistaken'
    BY <1>1 DEF Sets
<1>12. PICK U, V, v : /\ U = T \cup {m} /\ V = Announced' /\ v = unheard'
                      /\ Agreed(U, B, R, V, W, H, v, but)
    BY <1>6, <1>8, <1>10
<1>13. Sets(U, B, R, V, W, H, v, but)'
    BY <1>9, <1>11, <1>12 DEF Sets
<1>14. QED
    BY <1>12, <1>13, CtxHolds

(* Nothing is said, but perhaps the run ends. *)
LEMMA NoneSaid ==
    ASSUME TypeInv, CtxInv, nextId' \in 1 .. MaxId + 1, nextId <= nextId', NEW ends, Hear(<<>>, ends),
           UNCHANGED <<branch, queued, pendingBash, overtaken, mistaken>>,
           NEW U, U = ToSet(transcript'),
           U = ToSet(transcript) \/
             \E reply \in FailedReplies : nextId \in 1 .. nextId' - 1 /\ U = ToSet(transcript) \cup {reply}
    PROVE  CtxInv'
<1>1. PICK T, B, R, E, Q, H, un, but :
             /\ Sets(T, B, R, E, Q, H, un, but) /\ Agreed(T, B, R, E, Q, H, un, but)
             /\ \A e \in T \cup B \cup R \cup E \cup Q \cup H : e.id \in 1 .. nextId - 1
             /\ un \subseteq 0 .. nextId - 1
    BY CtxSets
<1>2. nextId \in Nat \ {0} /\ nextId' \in Nat
    BY SessionAssumption DEF TypeInv
<1>3. Announced' = E /\ unheard' \in {un, un \cup {0}}
  <2>1. PICK ms \in Seq(Spoken(nextId')) : ms = <<>> /\ ToSet(ms) = {} /\ Idset(ms) = {}
    <3>1. <<>> \in Seq(Spoken(nextId')) /\ ToSet(<<>>) = {}
        BY SetOne, EmptySeq
    <3>2. Idset(<<>>) = {}
        BY <3>1 DEF Idset
    <3>3. QED
        BY <3>1, <3>2
  <2>2. Hear(ms, ends)
      BY <2>1
  <2>3. \/ Announced' = Announced \cup ToSet(ms) /\ unheard' = unheard
        \/ /\ Announced' = Announced
           /\ unheard' \in {unheard \cup Idset(ms), unheard \cup Idset(ms) \cup {0}}
      BY <2>2, HearsSet
  <2>4. QED
      BY <2>1, <2>3, <1>1 DEF Sets
<1>4. /\ B = ToSet(branch') /\ R = ToSet(Rebuilt(branch')) /\ Q = ToSet(queued')
      /\ H = ToSet(pendingBash') /\ but = overtaken' \cup mistaken'
    BY <1>1 DEF Sets
<1>5. Differs(0, U \cup B \cup E \cup Q \cup H) /\ Agreed(U, B, R, E, Q, H, un, but)
  <2>1. CASE U = ToSet(transcript)
    <3>1. U = T
        BY <2>1, <1>1 DEF Sets
    <3>2. Differs(0, T \cup B \cup E \cup Q \cup H)
        BY <1>1 DEF Differs
    <3>3. QED
        BY <3>1, <3>2, <1>1
  <2>2. ASSUME NEW reply \in FailedReplies, nextId \in 1 .. nextId' - 1, U = ToSet(transcript) \cup {reply}
        PROVE  Differs(0, U \cup B \cup E \cup Q \cup H) /\ Agreed(U, B, R, E, Q, H, un, but)
    <3>1. reply.id = nextId /\ Failed(reply)
        BY <1>2, <2>2, ReplyIs
    <3>2. \A e \in T \cup B \cup R \cup E \cup Q \cup H : e.id # reply.id
        BY <3>1, <1>1, <1>2
    <3>3. Alike({reply} \cup T \cup B \cup R \cup E \cup Q \cup H)
        BY <3>2, <1>1 DEF Alike, Agreed
    <3>4. Agreed(T \cup {reply}, B, R, E, Q, H, un, but)
        BY <3>1, <3>3, <1>1, FailedAgrees
    <3>5. Differs(0, (T \cup {reply}) \cup B \cup E \cup Q \cup H)
        BY <3>1, <1>1, <1>2 DEF Differs
    <3>6. U = T \cup {reply}
        BY <2>2, <1>1 DEF Sets
    <3>7. QED
        BY <3>4, <3>5, <3>6
  <2>3. QED
      BY <2>1, <2>2
<1>6. PICK v : v = unheard' /\ Agreed(U, B, R, E, Q, H, v, but)
  <2>1. Agreed(U, B, R, E, Q, H, un \cup {0}, but)
      BY <1>5, MissedAgrees
  <2>2. QED
      BY <2>1, <1>3, <1>5
<1>7. Sets(U, B, R, E, Q, H, v, but)'
    BY <1>3, <1>4, <1>5, <1>6 DEF Sets
<1>8. QED
    BY <1>6, <1>7, CtxHolds

LEMMA HeadIs ==
    ASSUME TypeInv, QInv, queued # <<>>
    PROVE  /\ Head(queued) \in Users(nextId) /\ Head(queued) \in ToSet(queued)
           /\ ToSet(Tail(queued)) \subseteq ToSet(queued)
           /\ Differs(Head(queued).id, ToSet(Tail(queued)))
<1>1. PICK n \in Nat : n = nextId
    BY SessionAssumption DEF TypeInv
<1>2. queued \in Seq(Users(n))
    BY <1>1 DEF TypeInv, AgentTyped
<1>3. Head(queued) \in Users(n) /\ ToSet(queued) = {Head(queued)} \cup ToSet(Tail(queued))
    BY <1>2, SetTail, HeadTailProperties
<1>4. /\ Len(queued) \in Nat /\ DOMAIN queued = 1 .. Len(queued) /\ Head(queued) = queued[1]
      /\ Tail(queued) \in Seq(Users(n)) /\ Len(Tail(queued)) = Len(queued) - 1
      /\ \A i \in 1 .. Len(Tail(queued)) : Tail(queued)[i] = queued[i + 1]
    BY <1>2, HeadTailProperties, LenProperties
<1>5. Len(queued) # 0
    BY <1>2, EmptySeq
<1>6. ASSUME NEW m \in ToSet(Tail(queued)), m.id = Head(queued).id PROVE FALSE
  <2>1. DOMAIN Tail(queued) = 1 .. Len(Tail(queued))
      BY <1>4, LenProperties
  <2>2. PICK i \in 1 .. Len(Tail(queued)) : m = Tail(queued)[i]
      BY <2>1 DEF ToSet
  <2>3. m = queued[i + 1] /\ i + 1 \in DOMAIN queued /\ 1 \in DOMAIN queued
      BY <2>2, <1>4, <1>5
  <2>4. m \in Users(n)
      BY <2>2, <1>4, ElementOfSeq
  <2>5. m = User(m.id) /\ Head(queued) = User(Head(queued).id)
      BY <2>4, <1>3, MessageIs
  <2>6. queued[1] = queued[i + 1]
      BY <2>3, <2>5, <1>4, <1>6
  <2>7. 1 = i + 1
      BY <2>3, <2>6 DEF QInv
  <2>8. QED
      BY <2>2, <2>7, <1>4
<1>7. QED
    BY <1>1, <1>3, <1>6 DEF Differs

(* The next of the queue is said. *)
LEMMA HeadSaid ==
    ASSUME TypeInv, QInv, CtxInv, queued # <<>>, queued' = Tail(queued), nextId' = nextId,
           Hear(<<Head(queued)>>, NoMessage), transcript' = transcript \o <<Head(queued)>>,
           UNCHANGED <<branch, pendingBash, overtaken, mistaken>>
    PROVE  CtxInv'
<1>1. PICK m, W : m = Head(queued) /\ W = ToSet(queued')
    OBVIOUS
<1>2. /\ m \in Users(nextId) /\ m \in ToSet(queued) /\ W \subseteq ToSet(queued) /\ Differs(m.id, W)
    BY <1>1, HeadIs
<1>3. nextId' \in 1 .. MaxId + 1 /\ nextId <= nextId'
    BY NoneGiven
<1>4. m \in Spoken(nextId')
    BY <1>2 DEF Spoken
<1>5. Hear(<<m>>, NoMessage) /\ transcript' = transcript \o <<m>>
    BY <1>1
<1>6. QED
    BY <1>1, <1>2, <1>3, <1>4, <1>5, OneSaid

LEMMA InjectCtx == ASSUME TypeInv, QInv, CtxInv, Inject PROVE CtxInv'
<1>1. /\ queued # <<>> /\ queued' = Tail(queued) /\ Hear(<<Head(queued)>>, NoMessage)
      /\ transcript' = transcript \o <<Head(queued)>>
      /\ UNCHANGED <<branch, pendingBash, overtaken, mistaken, nextId>>
    BY DEF Inject, Say, sessionVars, listVars
<1>2. QED
    BY <1>1, HeadSaid

(* A new message is said. *)
LEMMA NewSaid ==
    ASSUME TypeInv, CtxInv, Fresh, NEW m \in Spoken(nextId'), m.id = nextId, NEW ends, Hear(<<m>>, ends),
           transcript' = transcript \o <<m>>, UNCHANGED <<branch, queued, pendingBash, overtaken, mistaken>>
    PROVE  CtxInv'
<1>1. PICK W : W = ToSet(queued') /\ W \subseteq ToSet(queued)
    OBVIOUS
<1>2. nextId' \in 1 .. MaxId + 1 /\ nextId <= nextId'
    BY FreshIs
<1>3. QED
    BY <1>1, <1>2, OneSaid

LEMMA ModelCtx == ASSUME TypeInv, CtxInv, ModelReplies PROVE CtxInv'
<1>1. /\ nextId' \in Nat /\ nextId \in 1 .. nextId' - 1 /\ Fresh /\ AgentTyped(nextId')
      /\ nextId' \in 1 .. MaxId + 1
      /\ UNCHANGED <<branch, queued, pendingBash, overtaken, mistaken>>
    BY FreshIs, Still DEF ModelReplies, sessionVars, listVars
<1>2. PICK reply \in GoodReplies \cup FailedReplies :
         Answer(reply) /\ Hear(<<reply>>, IF Failed(reply) THEN reply ELSE NoMessage)
    BY DEF ModelReplies
<1>3. reply \in Replies(nextId') /\ reply.id = nextId
    BY <1>1, ReplyIs
<1>4. PICK ends : Hear(<<reply>>, ends)
    BY <1>2
<1>5. reply \in Spoken(nextId') /\ reply \in Context(nextId')
    BY <1>3 DEF Spoken, Context
<1>6. transcript' = transcript \o <<reply>>
    BY <1>1, <1>2, <1>5, AppendIsConcat DEF Answer, AgentTyped
<1>7. QED
    BY <1>1, <1>3, <1>4, <1>5, <1>6, NewSaid

LEMMA ToolCtx == ASSUME TypeInv, CtxInv, ToolReturns PROVE CtxInv'
<1>1. /\ nextId' \in 1 .. MaxId + 1 /\ nextId' \in Nat /\ nextId \in 1 .. nextId' - 1 /\ Fresh
      /\ AgentTyped(nextId') /\ UNCHANGED <<branch, queued, pendingBash, overtaken, mistaken>>
    BY FreshIs, Still DEF ToolReturns, sessionVars, listVars
<1>2. PICK call \in owed : Deliver(Result(call)) /\ Hear(<<Result(call)>>, NoMessage)
    BY DEF ToolReturns
<1>3. Result(call) \in Results(nextId')
  <2> DEFINE n == nextId'
             C == (1 .. n - 1) \X Nat
  <2>1. call \in C
      BY <1>1 DEF AgentTyped
  <2> HIDE DEF C
  <2>2. Result(call) \in [role : {"toolResult"}, id : 1 .. n - 1, stop : {"none"}, why : {"none"},
                calls : {0}, call : C]
      BY <1>1, <2>1 DEF Result
  <2>3. QED
      BY <2>2 DEF Results, C
<1>4. PICK m : m = Result(call) /\ m.id = nextId
  <2>1. Result(call).id = nextId
      BY DEF Result
  <2>2. QED
      BY <2>1
<1>5. m \in Spoken(nextId') /\ m \in Context(nextId') /\ Hear(<<m>>, NoMessage)
    BY <1>2, <1>3, <1>4 DEF Spoken, Context
<1>6. transcript' = Append(transcript, m)
    BY <1>2, <1>4 DEF Deliver
<1>7. transcript' = transcript \o <<m>>
    BY <1>1, <1>5, <1>6, AppendIsConcat DEF AgentTyped
<1>8. QED
    BY <1>1, <1>4, <1>5, <1>7, NewSaid

LEMMA StopCtx == ASSUME TypeInv, CtxInv, RunStops PROVE CtxInv'
<1>1. /\ nextId' \in 1 .. MaxId + 1 /\ nextId <= nextId' /\ Hear(<<>>, AgentEnd)
      /\ UNCHANGED <<transcript, branch, queued, pendingBash, overtaken, mistaken>>
    BY NoneGiven DEF RunStops, Stop, sessionVars, listVars
<1>2. PICK U : U = ToSet(transcript') /\ U = ToSet(transcript)
    BY <1>1
<1>3. QED
    BY <1>1, <1>2, NoneSaid

LEMMA ThrowCtx == ASSUME TypeInv, CtxInv, RunThrows PROVE CtxInv'
<1>1. /\ nextId' \in 1 .. MaxId + 1 /\ nextId' \in Nat /\ nextId <= nextId' /\ nextId \in 1 .. nextId' - 1
      /\ AgentTyped(nextId')
      /\ UNCHANGED <<branch, queued, pendingBash, overtaken, mistaken>>
    BY FreshIs, Still DEF RunThrows, sessionVars, listVars
<1>2. PICK reply \in FailedReplies : Break(reply) /\ Hear(<<>>, reply)
    BY DEF RunThrows
<1>3. reply \in Replies(nextId')
    BY <1>1, ReplyIs
<1>4. transcript \in Seq(Context(nextId')) /\ reply \in Context(nextId')
    BY <1>1, <1>3 DEF AgentTyped, Context, Spoken
<1>5. ToSet(transcript \o <<reply>>) = ToSet(transcript) \cup {reply}
      /\ Append(transcript, reply) = transcript \o <<reply>>
    BY <1>4, SetJoins, AppendIsConcat
<1>6. PICK U : U = ToSet(transcript') /\ U = ToSet(transcript) \cup {reply}
    BY <1>2, <1>5 DEF Break
<1>7. PICK ends : Hear(<<>>, ends)
    BY <1>2
<1>8. QED
    BY <1>1, <1>6, <1>7, NoneSaid

LEMMA TimerCtx == ASSUME TypeInv, QInv, CtxInv, TimerFires PROVE CtxInv'
<1>1. nextId' = nextId /\ nextId' \in 1 .. MaxId + 1 /\ nextId <= nextId'
    BY NoneGiven DEF TimerFires
<1>2. CASE status # "idle" \/ transcript = <<>> \/ (IsReply(Last(transcript)) /\ queued = <<>>)
  <2>1. UNCHANGED <<transcript, branch, events, queued, pendingBash, unheard, overtaken, mistaken>>
      BY <1>2 DEF TimerFires, sessionVars, listVars, agentVars, agent
  <2>2. QED
      BY <2>1, CtxSame
<1>3. CASE ~(status # "idle" \/ transcript = <<>> \/ (IsReply(Last(transcript)) /\ queued = <<>>))
  <2>1. CASE status = "idle" /\ transcript # <<>> /\ IsReply(Last(transcript)) /\ queued # <<>>
    <3>1. queued' = Tail(queued) /\ BeginRun(<<Head(queued)>>)
        BY <1>3, <2>1 DEF TimerFires
    <3>2. /\ Hear(<<Head(queued)>>, NoMessage) /\ transcript' = transcript \o <<Head(queued)>>
          /\ UNCHANGED <<branch, pendingBash, overtaken, mistaken>>
        BY <3>1 DEF BeginRun, Begin, sessionVars, listVars
    <3>3. QED
        BY <1>1, <2>1, <3>1, <3>2, HeadSaid
  <2>2. CASE ~(status = "idle" /\ transcript # <<>> /\ IsReply(Last(transcript)) /\ queued # <<>>)
    <3>1. UNCHANGED queued /\ BeginRun(<<>>)
        BY <1>3, <2>2 DEF TimerFires
    <3>2. /\ Hear(<<>>, NoMessage) /\ transcript' = transcript \o <<>>
          /\ UNCHANGED <<branch, pendingBash, overtaken, mistaken>>
        BY <3>1 DEF BeginRun, Begin, sessionVars, listVars
    <3>3. transcript' = transcript
        BY <3>2, ConcatEmptySeq DEF TypeInv, AgentTyped
    <3>4. PICK U : U = ToSet(transcript') /\ U = ToSet(transcript)
        BY <3>3
    <3>5. QED
        BY <1>1, <3>1, <3>2, <3>4, NoneSaid
  <2>3. QED
      BY <2>1, <2>2
<1>4. QED
    BY <1>2, <1>3

LEMMA SendCtx == ASSUME TypeInv, CtxInv, NEW c \in Callers, SendPrompt(c) PROVE CtxInv'
<1>1. CASE status = "idle"
  <2>1. Fresh /\ nextId' \in Nat /\ nextId \in 1 .. nextId' - 1
      BY <1>1, FreshIs DEF SendPrompt
  <2>2. PICK m : m = User(nextId)
      OBVIOUS
  <2>3. BeginRun(<<m>>) /\ UNCHANGED queued
      BY <1>1, <2>2 DEF SendPrompt
  <2>4. Hear(<<m>>, NoMessage) /\ transcript' = transcript \o <<m>>
        /\ UNCHANGED <<branch, pendingBash, overtaken, mistaken>>
      BY <2>3 DEF BeginRun, Begin, sessionVars, listVars
  <2>5. m \in Spoken(nextId') /\ m.id = nextId
      BY <2>1, <2>2, MessageIs DEF Spoken, User, Message
  <2>6. QED
      BY <2>1, <2>3, <2>4, <2>5, NewSaid
<1>2. CASE status # "idle"
  <2>1. UNCHANGED <<transcript, branch, events, queued, pendingBash, unheard, overtaken, mistaken>>
      BY <1>2 DEF SendPrompt, sessionVars, listVars, agentVars, agent, historyVars
  <2>2. QED
      BY <2>1, CtxSame
<1>3. QED
    BY <1>1, <1>2

-----------------------------------------------------------------------------
(* The event handler *)

(* Entries that are not compactions join the branch. *)
LEMMA BranchShows ==
    ASSUME TypeInv, nextId' \in 1 .. MaxId + 1, nextId <= nextId',
           NEW es \in Seq(Entries(nextId')), branch' = branch \o es,
           \A i \in DOMAIN es : es[i].role # "compaction"
    PROVE  /\ ToSet(branch') = ToSet(branch) \cup ToSet(es)
           /\ ToSet(Rebuilt(branch')) = ToSet(Rebuilt(branch)) \cup ToSet(es)
<1>1. PICK n \in Nat : n = nextId'
    BY SessionAssumption
<1>2. PICK b : b = branch
    OBVIOUS
<1>3. /\ b \in Seq(Entries(n)) /\ es \in Seq(Entries(n))
      /\ \A i \in DOMAIN b : b[i].role = "compaction" => b[i].kept \in 1 .. Len(b)
    BY <1>1, <1>2, Still DEF BranchTyped, TypeInv, KeptBefore
<1>4. ToSet(b \o es) = ToSet(b) \cup ToSet(es)
    BY <1>3, SetConcat
<1>5. ToSet(Rebuilt(b \o es)) = ToSet(Rebuilt(b)) \cup ToSet(es)
    BY <1>3, RebuiltGrows
<1>6. QED
    BY <1>2, <1>4, <1>5

LEMMA MessageCtx == ASSUME TypeInv, CtxInv, ProcessMessage PROVE CtxInv'
<1>1. PICK i \in Due : events[i] # AgentEnd /\ events' = RemoveAt(events, i) /\ branch' = Append(branch, events[i])
    BY DEF ProcessMessage
<1>2. /\ nextId' = nextId /\ nextId' \in 1 .. MaxId + 1 /\ nextId <= nextId'
      /\ UNCHANGED <<transcript, queued, pendingBash, unheard, overtaken, mistaken>>
    BY NoneGiven DEF ProcessMessage, agentVars, agent, historyVars
<1>3. PICK n \in Nat : n = nextId
    BY SessionAssumption DEF TypeInv
<1>4. PICK ev \in Seq(Events(n)) : ev = events
    BY <1>3 DEF TypeInv, SessionTyped
<1>5. events # <<>> /\ i = 1 /\ events' = Tail(events) /\ events[i] \in Events(n)
    BY <1>1, <1>4, TakeEvent
<1>6. PICK m \in Events(n) : m = events[i] /\ m # AgentEnd
    BY <1>1, <1>5
<1>7. m \in Spoken(n) /\ m \in Entries(n)
    BY <1>6 DEF Events, Entries
<1>8. Head(ev) = m /\ ToSet(ev) = {Head(ev)} \cup ToSet(Tail(ev))
    BY <1>4, <1>5, <1>6, SetTail, HeadTailProperties
<1>9. Announced = Announced' \cup {m}
    BY <1>4, <1>5, <1>6, <1>8 DEF Announced
<1>10. PICK es \in Seq(Entries(n)) : es = <<m>> /\ ToSet(es) = {m} /\ \A j \in DOMAIN es : es[j].role # "compaction"
  <2>1. m.role # "compaction"
      BY <1>7, MessageIs DEF Spoken
  <2>2. <<m>> \in Seq(Entries(n)) /\ ToSet(<<m>>) = {m} /\ \A j \in DOMAIN <<m>> : <<m>>[j].role # "compaction"
      BY <1>7, <2>1, SetOne
  <2>3. QED
      BY <2>2
<1>11. branch' = branch \o es
    BY <1>1, <1>3, <1>6, <1>7, <1>10, AppendIsConcat DEF TypeInv, BranchTyped
<1>12. /\ ToSet(branch') = ToSet(branch) \cup {m}
       /\ ToSet(Rebuilt(branch')) = ToSet(Rebuilt(branch)) \cup {m}
    BY <1>2, <1>3, <1>10, <1>11, BranchShows
<1>13. PICK T, B, R, E, Q, H, un, but :
             Sets(T, B, R, E, Q, H, un, but) /\ Agreed(T, B, R, E, Q, H, un, but)
    BY CtxSets
<1>14. PICK F : F = Announced' /\ E = F \cup {m}
    BY <1>9, <1>13 DEF Sets
<1>15. PICK C, S : C = B \cup {m} /\ S = R \cup {m} /\ Agreed(T, C, S, F, Q, H, un, but)
  <2>1. Agreed(T, B \cup {m}, R \cup {m}, F, Q, H, un, but)
      BY <1>13, <1>14, SavesAgree
  <2>2. QED
      BY <2>1
<1>16. Sets(T, C, S, F, Q, H, un, but)'
    BY <1>2, <1>12, <1>13, <1>14, <1>15 DEF Sets
<1>17. QED
    BY <1>15, <1>16, CtxHolds

LEMMA FrontLoses ==
    ASSUME NEW X, NEW t \in Seq(X), t # <<>>
    PROVE  /\ ToSet(Front(t)) \subseteq ToSet(t)
           /\ \A m \in ToSet(t) \ ToSet(Front(t)) : m = Last(t)
<1>1. /\ Front(t) \in Seq(X) /\ Len(Front(t)) = Len(t) - 1 /\ Len(t) \in Nat
      /\ \A i \in 1 .. Len(t) - 1 : Front(t)[i] = t[i]
    BY FrontIs, LenProperties
<1>2. DOMAIN Front(t) = 1 .. Len(t) - 1 /\ DOMAIN t = 1 .. Len(t)
    BY <1>1, LenProperties
<1>3. ToSet(Front(t)) \subseteq ToSet(t)
    BY <1>1, <1>2 DEF ToSet
<1>4. ASSUME NEW m \in ToSet(t), m \notin ToSet(Front(t)) PROVE m = Last(t)
  <2>1. PICK i \in 1 .. Len(t) : m = t[i]
      BY <1>2 DEF ToSet
  <2>2. i \notin 1 .. Len(t) - 1
      BY <1>1, <1>2, <1>4, <2>1 DEF ToSet
  <2>3. i = Len(t)
      BY <2>1, <2>2, <1>1
  <2>4. QED
      BY <2>1, <2>3 DEF Last
<1>5. QED
    BY <1>3, <1>4

(* What a transcript loses when it is stripped *)
LEMMA StripLoses ==
    ASSUME NEW X, NEW t \in Seq(X), Strip(t) \/ (transcript' = t /\ mistaken' = mistaken)
    PROVE  /\ ToSet(transcript') \subseteq ToSet(t) /\ mistaken \subseteq mistaken'
           /\ \A m \in ToSet(t) \ ToSet(transcript') : Failed(m) \/ m.id \in mistaken'
<1> DEFINE found == t # <<>> /\ IsReply(Last(t))
<1>1. CASE Strip(t) /\ found
  <2>1. /\ transcript' = Front(t)
        /\ mistaken' = mistaken \cup (IF Good(Last(t)) THEN {Last(t).id} ELSE {})
      BY <1>1 DEF Strip
  <2>2. /\ ToSet(Front(t)) \subseteq ToSet(t)
        /\ \A m \in ToSet(t) \ ToSet(Front(t)) : m = Last(t)
      BY <1>1, FrontLoses
  <2>3. Failed(Last(t)) \/ Good(Last(t))
      BY <1>1 DEF Good
  <2>4. QED
      BY <2>1, <2>2, <2>3
<1>2. CASE Strip(t) /\ ~found
    BY <1>2 DEF Strip
<1>3. CASE transcript' = t /\ mistaken' = mistaken
    BY <1>3
<1>4. QED
    BY <1>1, <1>2, <1>3

LEMMA LosesCtx ==
    ASSUME TypeInv, CtxInv, UNCHANGED <<branch, queued, pendingBash, unheard, overtaken>>,
           Announced' = Announced,
           Strip(transcript) \/ (transcript' = transcript /\ mistaken' = mistaken)
    PROVE  CtxInv'
<1>1. PICK T, B, R, E, Q, H, un, but :
             Sets(T, B, R, E, Q, H, un, but) /\ Agreed(T, B, R, E, Q, H, un, but)
    BY CtxSets
<1>2. PICK X, t : X = Context(nextId) /\ t = transcript
    OBVIOUS
<1>3. t \in Seq(X)
    BY <1>2 DEF TypeInv, AgentTyped
<1>4. Strip(t) \/ (transcript' = t /\ mistaken' = mistaken)
    BY <1>2 DEF Strip
<1>5. /\ ToSet(transcript') \subseteq ToSet(t) /\ mistaken \subseteq mistaken'
      /\ \A m \in ToSet(t) \ ToSet(transcript') : Failed(m) \/ m.id \in mistaken'
    BY <1>3, <1>4, StripLoses
<1>6. PICK U, out : U = ToSet(transcript') /\ out = overtaken' \cup mistaken'
    OBVIOUS
<1>7. U \subseteq T /\ but \subseteq out /\ \A m \in T \ U : Failed(m) \/ m.id \in out
    BY <1>1, <1>2, <1>5, <1>6 DEF Sets
<1>8. Agreed(U, B, R, E, Q, H, un, out)
    BY <1>1, <1>7, LostAgrees
<1>9. Sets(U, B, R, E, Q, H, un, out)'
    BY <1>1, <1>6 DEF Sets
<1>10. QED
    BY <1>8, <1>9, CtxHolds

LEMMA NoRetryStrips ==
    ASSUME NEW reply, NoRetry(reply)
    PROVE  Strip(transcript) \/ (transcript' = transcript /\ mistaken' = mistaken)
BY DEF NoRetry, CheckCompaction

LEMMA EndCtx == ASSUME TypeInv, CtxInv, ProcessEnd PROVE CtxInv'
<1>1. PICK i \in Due : events[i] = AgentEnd /\ events' = RemoveAt(events, i)
    BY DEF ProcessEnd
<1>2. PICK X, ev : X = Events(nextId) /\ ev = events
    OBVIOUS
<1>3. ev \in Seq(X)
    BY <1>2 DEF TypeInv, SessionTyped
<1>4. events # <<>> /\ i = 1 /\ events' = Tail(events)
    BY <1>1, <1>2, <1>3, TakeEvent
<1>5. Head(ev) = AgentEnd /\ ToSet(ev) = {Head(ev)} \cup ToSet(Tail(ev))
    BY <1>1, <1>2, <1>3, <1>4, SetTail, HeadTailProperties
<1>6. Announced' = Announced
    BY <1>2, <1>4, <1>5 DEF Announced
<1>7. UNCHANGED <<branch, queued, pendingBash, unheard, overtaken>>
    BY DEF ProcessEnd, unchangedByEnd, listVars
<1>8. Strip(transcript) \/ (transcript' = transcript /\ mistaken' = mistaken)
  <2>1. CASE lastReply = NoMessage
      BY <2>1 DEF ProcessEnd
  <2>2. CASE lastReply # NoMessage /\ lastReply.why = "retryable" /\ AttemptsLeft
      BY <2>2 DEF ProcessEnd
  <2>3. CASE lastReply # NoMessage /\ ~(lastReply.why = "retryable" /\ AttemptsLeft)
    <3>1. NoRetry(lastReply)
        BY <2>3 DEF ProcessEnd
    <3>2. QED
        BY <3>1, NoRetryStrips
  <2>4. QED
      BY <2>1, <2>2, <2>3
<1>9. QED
    BY <1>6, <1>7, <1>8, LosesCtx

LEMMA CancelledCtx == ASSUME TypeInv, CtxInv, RetryCancelled PROVE CtxInv'
<1>1. /\ UNCHANGED <<branch, queued, pendingBash, unheard, overtaken>>
      /\ NoRetry(at["handler"].reply) /\ Announced' = Announced
    BY DEF RetryCancelled, unchangedByEnd, listVars, Announced
<1>2. Strip(transcript) \/ (transcript' = transcript /\ mistaken' = mistaken)
    BY <1>1, NoRetryStrips
<1>3. QED
    BY <1>1, <1>2, LosesCtx

-----------------------------------------------------------------------------
(* The callers *)

LEMMA PromptCtx == ASSUME TypeInv, CtxInv, NEW c \in Callers, Prompt(c) PROVE CtxInv'
<1> DEFINE t == transcript \o pendingBash
           es == branch \o pendingBash
           replies == Keep(t, {m \in ToSet(t) : IsReply(m)})
<1>1. /\ branch' = es /\ pendingBash' = <<>>
      /\ IF replies # <<>>
         THEN CheckCompaction(c, at, Last(replies), FALSE, Place("hooks"), t, es)
         ELSE transcript' = t /\ UNCHANGED mistaken
      /\ UNCHANGED <<events, queued, nextId, unheard, overtaken>>
    BY DEF Prompt
<1>2. Strip(t) \/ (transcript' = t /\ mistaken' = mistaken)
  <2>1. CASE replies # <<>>
    <3>1. CheckCompaction(c, at, Last(replies), FALSE, Place("hooks"), t, es)
        BY <1>1, <2>1
    <3> HIDE DEF t, es, replies
    <3>2. QED
        BY <3>1 DEF CheckCompaction
  <2>2. CASE ~(replies # <<>>)
      BY <1>1, <2>2
  <2>3. QED
      BY <2>1, <2>2
<1>3. PICK n \in Nat : n = nextId /\ n = nextId' /\ n \in 1 .. MaxId + 1
    BY <1>1, SessionAssumption DEF TypeInv
<1>4. PICK h \in Seq(Bashes(n)) : h = pendingBash
    BY <1>3 DEF TypeInv, SessionTyped
<1>5. /\ h \in Seq(Context(n)) /\ h \in Seq(Entries(n)) /\ transcript \in Seq(Context(n))
      /\ \A i \in DOMAIN h : h[i].role # "compaction"
  <2>1. Bashes(n) \subseteq Context(n) /\ Bashes(n) \subseteq Entries(n)
      BY DEF Context, Entries
  <2>2. h \in Seq(Context(n)) /\ h \in Seq(Entries(n))
      BY <2>1, SeqMonotonic
  <2>3. \A i \in DOMAIN h : h[i] \in Bashes(n)
      BY ElementOfSeq, LenProperties
  <2>4. \A i \in DOMAIN h : h[i].role # "compaction"
      BY <2>3, MessageIs
  <2>5. QED
      BY <1>3, <2>2, <2>4 DEF TypeInv, AgentTyped
<1>6. t \in Seq(Context(n)) /\ ToSet(t) = ToSet(transcript) \cup ToSet(h)
  <2>1. PICK X, s : X = Context(n) /\ s = transcript
      OBVIOUS
  <2>2. s \in Seq(X) /\ h \in Seq(X)
      BY <2>1, <1>5
  <2>3. s \o h \in Seq(X) /\ ToSet(s \o h) = ToSet(s) \cup ToSet(h)
      BY <2>2, SetConcat, ConcatProperties
  <2>4. QED
      BY <2>1, <2>3, <1>4
<1>7. /\ ToSet(branch') = ToSet(branch) \cup ToSet(h)
      /\ ToSet(Rebuilt(branch')) = ToSet(Rebuilt(branch)) \cup ToSet(h)
  <2>1. branch' = branch \o h
      BY <1>1, <1>4
  <2>2. nextId' \in 1 .. MaxId + 1 /\ nextId <= nextId' /\ h \in Seq(Entries(nextId'))
      BY <1>3, <1>5
  <2>3. QED
      BY <2>1, <2>2, <1>5, BranchShows
<1>8. /\ ToSet(transcript') \subseteq ToSet(t) /\ mistaken \subseteq mistaken'
      /\ \A m \in ToSet(t) \ ToSet(transcript') : Failed(m) \/ m.id \in mistaken'
  <2>1. PICK s \in Seq(Context(n)) : s = t
      BY <1>6
  <2>2. Strip(s) \/ (transcript' = s /\ mistaken' = mistaken)
      BY <1>2, <2>1 DEF Strip
  <2>3. /\ ToSet(transcript') \subseteq ToSet(s) /\ mistaken \subseteq mistaken'
        /\ \A m \in ToSet(s) \ ToSet(transcript') : Failed(m) \/ m.id \in mistaken'
      BY <2>2, StripLoses
  <2>4. QED
      BY <2>1, <2>3
<1> HIDE DEF t, es, replies
<1>9. PICK T, B, R, E, Q, H, un, but :
             Sets(T, B, R, E, Q, H, un, but) /\ Agreed(T, B, R, E, Q, H, un, but)
    BY CtxSets
<1>10. H = ToSet(h) /\ Agreed(T \cup H, B \cup H, R \cup H, E, Q, {}, un, but)
    BY <1>4, <1>9, FlushAgrees DEF Sets
<1>11. PICK V, C, S, None : /\ V = T \cup H /\ C = B \cup H /\ S = R \cup H /\ None = {}
                            /\ Agreed(V, C, S, E, Q, None, un, but)
    BY <1>10
<1>12. PICK U, out : U = ToSet(transcript') /\ out = overtaken' \cup mistaken'
    OBVIOUS
<1>13. ToSet(t) = V
    BY <1>6, <1>9, <1>10, <1>11 DEF Sets
<1>14. U \subseteq V /\ but \subseteq out /\ \A m \in V \ U : Failed(m) \/ m.id \in out
    BY <1>1, <1>8, <1>9, <1>12, <1>13 DEF Sets
<1>15. Agreed(U, C, S, E, Q, None, un, out)
    BY <1>11, <1>14, LostAgrees
<1>16. ToSet(pendingBash') = None
    BY <1>1, <1>11, SetOne
<1>17. Announced' = Announced
    BY <1>1 DEF Announced
<1>18. Sets(U, C, S, E, Q, None, un, out)'
    BY <1>1, <1>7, <1>9, <1>10, <1>11, <1>12, <1>16, <1>17 DEF Sets
<1>19. QED
    BY <1>15, <1>18, CtxHolds

LEMMA SteerCtx == ASSUME TypeInv, CtxInv, QueueSteer PROVE CtxInv'
<1>1. /\ queued' = Append(queued, User(nextId)) /\ nextId \in Nat
      /\ UNCHANGED <<transcript, branch, events, pendingBash, unheard, overtaken, mistaken>>
    BY SessionAssumption DEF QueueSteer, agent, historyVars, TypeInv
<1>2. PICK m, X : /\ m = User(nextId) /\ X = Users(nextId) \cup {m} /\ m.id = nextId
  <2>1. User(nextId).id = nextId
      BY DEF User, Message
  <2>2. QED
      BY <2>1
<1>3. queued \in Seq(X) /\ m \in X
  <2>1. queued \in Seq(Users(nextId)) /\ Users(nextId) \subseteq X
      BY <1>2 DEF TypeInv, AgentTyped
  <2>2. QED
      BY <1>2, <2>1, SeqMonotonic
<1>4. queued' = queued \o <<m>> /\ ToSet(queued \o <<m>>) = ToSet(queued) \cup {m}
    BY <1>1, <1>2, <1>3, SetJoins, AppendIsConcat
<1>5. PICK T, B, R, E, Q, H, un, but :
             /\ Sets(T, B, R, E, Q, H, un, but) /\ Agreed(T, B, R, E, Q, H, un, but)
             /\ \A e \in T \cup B \cup R \cup E \cup Q \cup H : e.id \in 1 .. nextId - 1
             /\ un \subseteq 0 .. nextId - 1
    BY CtxSets
<1>6. m.id \notin un /\ Differs(m.id, T \cup B \cup R \cup E \cup Q \cup H)
    BY <1>1, <1>2, <1>5 DEF Differs
<1>7. Agreed(T, B, R, E, Q \cup {m}, H, un, but)
    BY <1>5, <1>6, HeldAgrees
<1>8. PICK W : W = Q \cup {m} /\ Agreed(T, B, R, E, W, H, un, but)
    BY <1>7
<1>9. Sets(T, B, R, E, W, H, un, but)'
    BY <1>1, <1>4, <1>5, <1>8 DEF Sets, Announced
<1>10. QED
    BY <1>8, <1>9, CtxHolds

LEMMA ClearCtx == ASSUME TypeInv, CtxInv, ClearQueue PROVE CtxInv'
<1>1. /\ queued' = <<>>
      /\ UNCHANGED <<transcript, branch, events, pendingBash, unheard, overtaken, mistaken>>
    BY DEF ClearQueue, agent, historyVars
<1>2. PICK T, B, R, E, Q, H, un, but :
             /\ Sets(T, B, R, E, Q, H, un, but) /\ Agreed(T, B, R, E, Q, H, un, but)
    BY CtxSets
<1>3. PICK W : W = {} /\ Agreed(T, B, R, E, W, H, un, but)
  <2>1. Agreed(T, B, R, E, {}, H, un, but)
      BY <1>2 DEF Agreed, Alike
  <2>2. QED
      BY <2>1
<1>4. ToSet(queued') = W
    BY <1>1, <1>3, SetOne
<1>5. Sets(T, B, R, E, W, H, un, but)'
    BY <1>1, <1>2, <1>4 DEF Sets, Announced
<1>6. QED
    BY <1>3, <1>5, CtxHolds

LEMMA BashCtx == ASSUME TypeInv, CtxInv, RecordBashResult PROVE CtxInv'
<1>1. /\ nextId' \in 1 .. MaxId + 1 /\ nextId <= nextId' /\ nextId' \in Nat /\ nextId \in Nat
      /\ nextId \in 1 .. nextId' - 1
      /\ AgentTyped(nextId') /\ SessionTyped(nextId') /\ BranchTyped(nextId')
      /\ UNCHANGED <<events, queued, unheard, overtaken, mistaken>>
    BY FreshIs, Still DEF RecordBashResult, historyVars
<1>2. PICK m : m = Bash(nextId) /\ m.id = nextId /\ ~Failed(m) /\ m.role = "bash"
  <2>1. Bash(nextId).id = nextId /\ Bash(nextId).role = "bash" /\ ~Failed(Bash(nextId))
      BY DEF Bash, Message, Failed, IsReply
  <2>2. QED
      BY <2>1
<1>3. /\ transcript \in Seq(Context(nextId')) /\ pendingBash \in Seq(Bashes(nextId'))
      /\ branch \in Seq(Entries(nextId')) /\ m \in Bashes(nextId')
      /\ m \in Context(nextId') /\ m \in Entries(nextId')
    BY <1>1, <1>2, MessageIs DEF AgentTyped, SessionTyped, BranchTyped, Context, Entries
<1>4. PICK T, B, R, E, Q, H, un, but :
             /\ Sets(T, B, R, E, Q, H, un, but) /\ Agreed(T, B, R, E, Q, H, un, but)
             /\ \A e \in T \cup B \cup R \cup E \cup Q \cup H : e.id \in 1 .. nextId - 1
             /\ un \subseteq 0 .. nextId - 1
    BY CtxSets
<1>5. m.id \notin un /\ Differs(m.id, T \cup B \cup R \cup E \cup Q \cup H)
    BY <1>1, <1>2, <1>4 DEF Differs
<1>6. /\ Agreed(T, B, R, E, Q, H \cup {m}, un, but)
      /\ Agreed(T \cup {m}, B \cup {m}, R \cup {m}, E, Q, H, un, but)
    BY <1>2, <1>4, <1>5, HeldAgrees
<1>7. CASE status # "idle"
  <2>1. pendingBash' = Append(pendingBash, m) /\ UNCHANGED <<transcript, branch>>
      BY <1>2, <1>7 DEF RecordBashResult
  <2>2. pendingBash' = pendingBash \o <<m>> /\ ToSet(pendingBash \o <<m>>) = ToSet(pendingBash) \cup {m}
      BY <1>3, <2>1, SetJoins, AppendIsConcat
  <2>3. PICK G : G = H \cup {m} /\ Agreed(T, B, R, E, Q, G, un, but)
      BY <1>6
  <2>4. Sets(T, B, R, E, Q, G, un, but)'
      BY <1>1, <1>4, <2>1, <2>2, <2>3 DEF Sets, Announced
  <2>5. QED
      BY <2>3, <2>4, CtxHolds
<1>8. CASE status = "idle"
  <2>1. transcript' = Append(transcript, m) /\ branch' = Append(branch, m) /\ UNCHANGED pendingBash
      BY <1>2, <1>8 DEF RecordBashResult
  <2>2. transcript' = transcript \o <<m>> /\ ToSet(transcript \o <<m>>) = ToSet(transcript) \cup {m}
      BY <1>3, <2>1, SetJoins, AppendIsConcat
  <2>3. PICK es \in Seq(Entries(nextId')) : es = <<m>> /\ ToSet(es) = {m} /\ \A j \in DOMAIN es : es[j].role # "compaction"
    <3>1. <<m>> \in Seq(Entries(nextId')) /\ ToSet(<<m>>) = {m} /\ \A j \in DOMAIN <<m>> : <<m>>[j].role # "compaction"
        BY <1>2, <1>3, SetOne
    <3>2. QED
        BY <3>1
  <2>4. branch' = branch \o es
      BY <1>3, <2>1, <2>3, AppendIsConcat
  <2>5. /\ ToSet(branch') = ToSet(branch) \cup {m}
        /\ ToSet(Rebuilt(branch')) = ToSet(Rebuilt(branch)) \cup {m}
      BY <1>1, <2>3, <2>4, BranchShows
  <2>6. PICK U, C, S : /\ U = T \cup {m} /\ C = B \cup {m} /\ S = R \cup {m}
                       /\ Agreed(U, C, S, E, Q, H, un, but)
      BY <1>6
  <2>7. Sets(U, C, S, E, Q, H, un, but)'
      BY <1>1, <1>4, <2>1, <2>2, <2>5, <2>6 DEF Sets, Announced
  <2>8. QED
      BY <2>6, <2>7, CtxHolds
<1>9. QED
    BY <1>7, <1>8

(* A compaction ends. *)
LEMMA CompactedCtx ==
    ASSUME TypeInv, CtxInv, NEW x \in Actors, at[x].where = "compacting", Rebuild(at[x].kept),
           UNCHANGED <<events, queued, pendingBash, unheard, mistaken>>,
           ToSet(transcript') \subseteq ToSet(Rebuilt(branch')),
           \A m \in ToSet(Rebuilt(branch')) \ ToSet(transcript') : Failed(m)
    PROVE  CtxInv'
<1> DEFINE k == at[x].kept
<1>1. /\ nextId' \in 1 .. MaxId + 1 /\ nextId <= nextId' /\ nextId' \in Nat
      /\ nextId \in 1 .. nextId' - 1 /\ nextId \in Nat
      /\ branch' \in Seq(Entries(nextId')) /\ KeptBefore(branch') /\ BranchTyped(nextId')
    BY FreshIs, Still, RebuildTypes DEF Rebuild
<1>2. /\ branch' = Append(branch, [role |-> "compaction", id |-> nextId, kept |-> k])
      /\ overtaken' = overtaken \cup Idset(events)
    BY DEF Rebuild
<1>3. k \in Nat
    BY LenProperties DEF TypeInv, Fine, BranchTyped
<1> HIDE DEF k
<1>4. PICK c : /\ c = [role |-> "compaction", id |-> nextId, kept |-> k]
               /\ c.id = nextId /\ ~Failed(c)
  <2> DEFINE e == [role |-> "compaction", id |-> nextId, kept |-> k]
  <2>1. e.id = nextId /\ e.role # "assistant"
      OBVIOUS
  <2> HIDE DEF e
  <2>2. ~Failed(e)
      BY <2>1 DEF Failed, IsReply
  <2>3. QED
      BY <2>1, <2>2 DEF e
<1>5. PICK n, b : n = nextId' /\ b = branch'
    OBVIOUS
<1>6. c \in Entries(n)
    BY <1>1, <1>3, <1>4, <1>5 DEF Marks, Entries
<1>7. branch' = branch \o <<c>> /\ ToSet(branch \o <<c>>) = ToSet(branch) \cup {c}
  <2>1. branch \in Seq(Entries(n))
      BY <1>1, <1>5 DEF BranchTyped
  <2>2. branch' = Append(branch, c)
      BY <1>2, <1>4
  <2>3. QED
      BY <2>1, <2>2, <1>6, SetJoins, AppendIsConcat
<1>8. PICK T, B, R, E, Q, H, un, but :
             /\ Sets(T, B, R, E, Q, H, un, but) /\ Agreed(T, B, R, E, Q, H, un, but)
             /\ \A e \in T \cup B \cup R \cup E \cup Q \cup H : e.id \in 1 .. nextId - 1
             /\ un \subseteq 0 .. nextId - 1
    BY CtxSets
<1>9. PICK S, U, C, out : /\ S = ToSet(Rebuilt(branch')) /\ U = ToSet(transcript')
                          /\ C = B \cup {c} /\ out = overtaken' \cup mistaken'
    OBVIOUS
<1>10. ToSet(branch') = C
    BY <1>7, <1>8, <1>9 DEF Sets
<1>11. \A m \in S : \E e \in B \cup {c} : e.id = m.id /\ (Failed(m) <=> Failed(e))
  <2>1. b \in Seq(Entries(n)) /\ \A i \in DOMAIN b : b[i].role = "compaction" => b[i].kept \in 1 .. Len(b)
      BY <1>1, <1>5 DEF KeptBefore
  <2>2. n \in Nat
      BY <1>1, <1>5
  <2>3. \A m \in ToSet(Rebuilt(b)) : \E e \in ToSet(b) : e.id = m.id /\ (Failed(m) <=> Failed(e))
      BY <2>1, <2>2, RebuiltFrom
  <2>4. QED
      BY <2>3, <1>5, <1>9, <1>10
<1>12. but \subseteq out /\ \A m \in E : m.id \in out
    BY <1>2, <1>8, <1>9 DEF Sets, Announced, Idset
<1>13. c.id \notin un /\ Differs(c.id, T \cup B \cup R \cup E \cup Q \cup H)
    BY <1>1, <1>4, <1>8 DEF Differs
<1>14. U \subseteq S /\ \A m \in S \ U : Failed(m)
    BY <1>9
<1>15. Agreed(U, B \cup {c}, S, E, Q, H, un, out)
    BY <1>4, <1>8, <1>11, <1>12, <1>13, <1>14, RebuiltAgrees
<1>16. Agreed(U, C, S, E, Q, H, un, out)
    BY <1>9, <1>15
<1>17. Sets(U, C, S, E, Q, H, un, out)'
    BY <1>8, <1>9, <1>10 DEF Sets, Announced
<1>18. QED
    BY <1>16, <1>17, CtxHolds

LEMMA ManualCtx == ASSUME TypeInv, CtxInv, ManualCompacted PROVE CtxInv'
<1>1. /\ at["manual"].where = "compacting" /\ Rebuild(at["manual"].kept) /\ "manual" \in Actors
      /\ transcript' = Rebuilt(branch')
      /\ UNCHANGED <<events, queued, pendingBash, unheard, mistaken>>
    BY ActorsAre DEF ManualCompacted, listVars
<1>2. QED
    BY <1>1, CompactedCtx

LEMMA AutoCtx == ASSUME TypeInv, CtxInv, NEW x \in Actors, AutoCompacted(x) PROVE CtxInv'
<1>1. /\ at[x].where = "compacting" /\ Rebuild(at[x].kept)
      /\ transcript' = LET t == Rebuilt(branch')
                       IN  IF at[x].retry /\ IsReply(Last(t)) /\ Last(t).stop = "error"
                           THEN Front(t) ELSE t
      /\ UNCHANGED <<events, queued, pendingBash, unheard, mistaken>>
    BY DEF AutoCompacted, listVars
<1>2. PICK X, t : X = Context(nextId') /\ t = Rebuilt(branch')
    OBVIOUS
<1>3. t \in Seq(X) /\ t # <<>>
    BY <1>1, <1>2, RebuildTypes
<1>4. ToSet(transcript') \subseteq ToSet(t) /\ \A m \in ToSet(t) \ ToSet(transcript') : Failed(m)
  <2>1. CASE transcript' = t
      BY <2>1
  <2>2. CASE transcript' = Front(t) /\ IsReply(Last(t)) /\ Last(t).stop = "error"
    <3>1. Failed(Last(t))
        BY <2>2 DEF Failed, FailedStops
    <3>2. QED
        BY <2>2, <3>1, <1>3, FrontLoses
  <2>3. QED
      BY <1>1, <1>2, <2>1, <2>2
<1>5. /\ ToSet(transcript') \subseteq ToSet(Rebuilt(branch'))
      /\ \A m \in ToSet(Rebuilt(branch')) \ ToSet(transcript') : Failed(m)
    BY <1>2, <1>4
<1>6. QED
    BY <1>1, <1>5, CompactedCtx

LEMMA CtxNext == TypeInv /\ QInv /\ CtxInv /\ [Next]_vars => CtxInv'
<1> SUFFICES ASSUME TypeInv, QInv, CtxInv, [Next]_vars PROVE CtxInv'
    OBVIOUS
<1>1. ASSUME AgentStep PROVE CtxInv'
  <2>1. ASSUME RunSettles PROVE CtxInv'
      BY <2>1, CtxSame DEF RunSettles, Settle, sessionVars, listVars, historyVars
  <2>2. QED
      BY <1>1, <2>1, InjectCtx, ModelCtx, ToolCtx, StopCtx, ThrowCtx DEF AgentStep
<1>2. ASSUME HandlerStep PROVE CtxInv'
  <2>1. ASSUME SleepEnds PROVE CtxInv'
      BY <2>1, CtxSame DEF SleepEnds, agentVars, agent, listVars, historyVars
  <2>2. QED
      BY <1>2, <2>1, MessageCtx, EndCtx, CancelledCtx DEF HandlerStep
<1>3. ASSUME CallerStep PROVE CtxInv'
  <2>1. ASSUME Abort \/ StartManual \/ PrepareManual PROVE CtxInv'
    <3>1. UNCHANGED <<transcript, branch, events, queued, pendingBash, unheard, overtaken, mistaken>>
        BY <2>1 DEF Abort, StartManual, PrepareManual, agentVars, agent, listVars, historyVars
    <3>2. QED
        BY <3>1, CtxSame
  <2>2. ASSUME NEW x \in Actors, CompactionFails(x) PROVE CtxInv'
      BY <2>2, CtxSame DEF CompactionFails, agentVars, agent, listVars, historyVars
  <2>3. QED
      BY <1>3, <2>1, <2>2, PromptCtx, SendCtx, SteerCtx, ClearCtx, BashCtx, ManualCtx, AutoCtx
         DEF CallerStep
<1>4. ASSUME UNCHANGED vars PROVE CtxInv'
    BY <1>4, CtxSame DEF vars, agentVars, agent, listVars, historyVars
<1>5. QED
    BY <1>1, <1>2, <1>3, <1>4, TimerCtx DEF Next

LEMMA CtxImplies == TypeInv /\ CtxInv => ContextAgrees
<1> SUFFICES ASSUME TypeInv, CtxInv, Quiet
             PROVE  LET alive(ms) == Idset(ms) \ {m.id : m \in {r \in ToSet(ms) : Failed(r)}}
                        but       == overtaken \cup mistaken
                    IN  (alive(transcript) \ unheard) \cup but = alive(Rebuilt(branch)) \cup but
    BY DEF ContextAgrees
<1> DEFINE alive(ms) == Idset(ms) \ {m.id : m \in {r \in ToSet(ms) : Failed(r)}}
<1>1. PICK T, B, R, E, Q, H, un, but :
             Sets(T, B, R, E, Q, H, un, but) /\ Agreed(T, B, R, E, Q, H, un, but)
    BY CtxSets
<1>2. E = {}
  <2>1. events = <<>>
      BY DEF Quiet
  <2>2. QED
      BY <2>1, <1>1, SetOne DEF Sets, Announced
<1>3. \A i : i \notin but => (Lives(i, T) /\ i \notin un <=> Lives(i, R))
  <2>1. R \cup E = R
      BY <1>2
  <2>2. QED
      BY <2>1, <1>1 DEF Agreed
<1>4. \A i : i \in alive(transcript) <=> Lives(i, T)
    BY <1>1 DEF Sets, Agreed, Alike, Lives, Idset
<1>5. \A i : i \in alive(Rebuilt(branch)) <=> Lives(i, R)
    BY <1>1 DEF Sets, Agreed, Alike, Lives, Idset
<1> HIDE DEF alive
<1>6. but = overtaken \cup mistaken /\ un = unheard
    BY <1>1 DEF Sets
<1>7. ASSUME NEW i
      PROVE  i \in (alive(transcript) \ unheard) \cup but <=> i \in alive(Rebuilt(branch)) \cup but
  <2>1. CASE i \in but
      BY <2>1
  <2>2. CASE i \notin but
    <3>1. i \in alive(transcript) /\ i \notin un <=> i \in alive(Rebuilt(branch))
        BY <2>2, <1>3, <1>4, <1>5, Zenon
    <3>2. QED
        BY <2>2, <3>1, <1>6
  <2>3. QED
      BY <2>1, <2>2
<1>8. (alive(transcript) \ unheard) \cup but = alive(Rebuilt(branch)) \cup but
    BY <1>7
<1>9. QED
    BY <1>6, <1>8 DEF alive

(* Whatever the model, the user, commands, retries and compactions do to   *)
(* the transcript, once all is quiet it shows the model what the session   *)
(* file would, but for the messages of four kinds the property names: the  *)
(* two copies of the conversation drift apart in no other way.             *)
THEOREM ContextsAgree == Spec => []ContextAgrees
<1>1. Init => TypeInv /\ QInv /\ CtxInv
    BY TypeInit, QueueInit, CtxInit
<1>2. TypeInv /\ QInv /\ CtxInv /\ [Next]_vars => (TypeInv /\ QInv /\ CtxInv)'
    BY TypeNext, QueueNext, CtxNext
<1>3. TypeInv /\ CtxInv => ContextAgrees
    BY CtxImplies
<1>4. QED
    BY <1>1, <1>2, <1>3, PTL DEF Spec

=============================================================================

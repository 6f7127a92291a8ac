--------------------------- MODULE FileToolsProofs ---------------------------
(***************************************************************************)
(* The mutation queues exclude and keep the order for any number of calls  *)
(* and keys.  The invariant is about the line of a key: from its second    *)
(* place on everybody waits, and waits for the one in front.               *)
(*                                                                         *)
(* The tools implement the queue's specification, so what is proved of the *)
(* queue holds of them: two calls work on one file at the same time only   *)
(* in the two ways OneAtATimeOr names, and outside them what a tool said   *)
(* it wrote stays in the file.                                             *)
(***************************************************************************)
EXTENDS FileTools, TLAPS

Places(k) == 1 .. Len(line[k])

(* Whoever is in a line has asked for its key and is not done; only the    *)
(* first may have been let in.                                             *)
LineActive ==
    \A k \in Keys : \A i \in Places(k) :
        /\ keyOf[line[k][i]] = k
        /\ phase[line[k][i]] \in {"waiting", "holding"}
        /\ i # 1 => phase[line[k][i]] = "waiting"

(* Whoever has asked for a key and is not done is in its line. *)
ActiveInLine ==
    \A c \in Calls :
        phase[c] \in {"waiting", "holding"} =>
            \E i \in Places(keyOf[c]) : line[keyOf[c]][i] = c

(* In a line one waits for the one in front. *)
LineChained ==
    \A k \in Keys : \A i \in Places(k) :
        i # 1 => before[line[k][i]] = line[k][i - 1]

(* Nobody stands in a line twice. *)
LineDistinct ==
    \A k \in Keys : \A i, j \in Places(k) : line[k][i] = line[k][j] => i = j

IInv ==
    /\ QueueTypeOK
    /\ LineActive
    /\ ActiveInLine
    /\ LineChained
    /\ LineDistinct
    /\ MapExact

-----------------------------------------------------------------------------
(* At first nobody has asked: the state of the module when it is   *)
(* loaded satisfies the invariant.                                         *)
LEMMA InitIInv == QueueInit => IInv
<1> SUFFICES ASSUME QueueInit PROVE IInv
    OBVIOUS
<1>1. \A k \in Keys : line[k] = <<>> /\ Len(line[k]) = 0
    BY DEF QueueInit
<1>2. \A k \in Keys : Places(k) = {}
    BY <1>1 DEF Places
<1>3. QueueTypeOK
    BY DEF QueueInit, QueueTypeOK
<1>4. MapExact
    BY <1>1 DEF QueueInit, MapExact
<1> QED
    BY <1>2, <1>3, <1>4 DEF QueueInit, IInv, LineActive, ActiveInLine, LineChained,
        LineDistinct

(* What is in a line are calls. *)
LEMMA LineOfCalls ==
    ASSUME QueueTypeOK, NEW k \in Keys
    PROVE  /\ line[k] \in Seq(Calls)
           /\ Len(line[k]) \in Nat
           /\ \A i \in Places(k) : line[k][i] \in Calls
BY DEF QueueTypeOK, Places

(* A call that may enter is the first of its line: what withFileMutation-  *)
(* Queue awaits before fn is enough.                                       *)
LEMMA ReadyIsFirst ==
    ASSUME IInv, NEW c \in Calls, phase[c] = "waiting", Ready(c)
    PROVE  /\ keyOf[c] \in Keys
           /\ 1 \in Places(keyOf[c])
           /\ line[keyOf[c]][1] = c
<1> DEFINE k == keyOf[c]
<1>1. k \in Keys
    BY DEF IInv, QueueTypeOK
<1>2. PICK i \in Places(k) : line[k][i] = c
    BY DEF IInv, ActiveInLine
<1>3. i = 1
    <2> SUFFICES ASSUME i # 1 PROVE FALSE
        OBVIOUS
    <2>1. i - 1 \in Places(k)
        BY <1>1, <1>2, LineOfCalls DEF IInv, Places
    <2>2. before[c] = line[k][i - 1]
        BY <1>1, <1>2 DEF IInv, LineChained
    <2>3. before[c] # NoCall
        BY <1>1, <2>1, <2>2, LineOfCalls, QueueAssumption DEF IInv
    <2>4. phase[line[k][i - 1]] \in {"waiting", "holding"}
        BY <1>1, <2>1 DEF IInv, LineActive
    <2> QED
        BY <2>2, <2>3, <2>4 DEF Ready
<1> QED
    BY <1>1, <1>2, <1>3

(* So is a call that is in fn. *)
LEMMA HoldingIsFirst ==
    ASSUME IInv, NEW c \in Calls, phase[c] = "holding"
    PROVE  /\ keyOf[c] \in Keys
           /\ 1 \in Places(keyOf[c])
           /\ line[keyOf[c]][1] = c
<1>1. keyOf[c] \in Keys
    BY DEF IInv, QueueTypeOK
<1>2. PICK i \in Places(keyOf[c]) : line[keyOf[c]][i] = c
    BY DEF IInv, ActiveInLine
<1>3. i = 1
    BY <1>1, <1>2 DEF IInv, LineActive
<1> QED
    BY <1>1, <1>2, <1>3

-----------------------------------------------------------------------------
(* A call that leaves its promise in the map goes to the end of the line,  *)
(* and nobody moves.                                                       *)
LEMMA RequestIInv ==
    ASSUME IInv, NEW c \in Calls, NEW k \in Keys, Request(c, k)
    PROVE  IInv'
<1> USE DEF Places
<1> DEFINE n == Len(line[k])
<1>1. QueueTypeOK /\ QueueTypeOK'
    BY DEF IInv, QueueTypeOK, Request
<1>2. n \in Nat /\ line[k] \in Seq(Calls)
    BY <1>1, LineOfCalls
<1>3. line'[k] = Append(line[k], c)
    BY <1>1 DEF Request, QueueTypeOK
<1>4. /\ Len(line'[k]) = n + 1
      /\ line'[k][n + 1] = c
      /\ \A i \in 1 .. n : line'[k][i] = line[k][i]
    BY <1>2, <1>3
<1>5. \A l \in Keys : l # k => line'[l] = line[l] /\ tail'[l] = tail[l]
    BY <1>1 DEF Request, QueueTypeOK
<1>6. \A l \in Keys : \A i \in Places(l) : line[l][i] # c /\ line[l][i] \in Calls
    BY <1>1, LineOfCalls DEF IInv, LineActive, Request
<1>7. \A d \in Calls : d # c => /\ phase'[d] = phase[d]
                                /\ keyOf'[d] = keyOf[d]
                                /\ before'[d] = before[d]
    BY <1>1 DEF Request, QueueTypeOK
<1>8. phase'[c] = "waiting" /\ keyOf'[c] = k /\ before'[c] = tail[k] /\ tail'[k] = c
    BY <1>1 DEF Request, QueueTypeOK
<1>9. \A i \in 1 .. n + 1 : i # n + 1 => i \in 1 .. n
    BY <1>2
<1>10. LineActive'
    <2> SUFFICES ASSUME NEW l \in Keys, NEW i \in 1 .. Len(line'[l])
                 PROVE  /\ keyOf'[line'[l][i]] = l
                        /\ phase'[line'[l][i]] \in {"waiting", "holding"}
                        /\ i # 1 => phase'[line'[l][i]] = "waiting"
        BY DEF LineActive
    <2>1. CASE l # k
        BY <2>1, <1>5, <1>6, <1>7 DEF IInv, LineActive
    <2>2. CASE l = k /\ i = n + 1
        BY <2>2, <1>4, <1>8
    <2>3. CASE l = k /\ i # n + 1
        BY <2>3, <1>4, <1>6, <1>7, <1>9 DEF IInv, LineActive
    <2> QED
        BY <2>1, <2>2, <2>3
<1>11. ActiveInLine'
    <2> SUFFICES ASSUME NEW d \in Calls, phase'[d] \in {"waiting", "holding"}
                 PROVE  \E i \in 1 .. Len(line'[keyOf'[d]]) : line'[keyOf'[d]][i] = d
        BY DEF ActiveInLine
    <2>1. CASE d = c
        BY <2>1, <1>2, <1>4, <1>8
    <2>2. CASE d # c
        <3>1. PICK i \in 1 .. Len(line[keyOf[d]]) : line[keyOf[d]][i] = d
            BY <2>2, <1>7 DEF IInv, ActiveInLine
        <3>2. keyOf[d] \in Keys
            BY <1>1 DEF QueueTypeOK
        <3>3. CASE keyOf[d] # k
            BY <2>2, <3>1, <3>2, <3>3, <1>5, <1>7
        <3>4. CASE keyOf[d] = k
            BY <2>2, <3>1, <3>4, <1>2, <1>4, <1>7
        <3> QED
            BY <3>3, <3>4
    <2> QED
        BY <2>1, <2>2
<1>12. LineChained'
    <2> SUFFICES ASSUME NEW l \in Keys, NEW i \in 1 .. Len(line'[l]), i # 1
                 PROVE  before'[line'[l][i]] = line'[l][i - 1]
        BY DEF LineChained
    <2>1. CASE l # k
        BY <2>1, <1>5, <1>6, <1>7 DEF IInv, LineChained
    <2>2. CASE l = k /\ i = n + 1
        <3>1. n # 0 /\ n \in 1 .. n
            BY <2>2, <1>2
        <3>2. line[k] # <<>>
            BY <3>1
        <3>3. tail[k] = line[k][n]
            BY <3>2 DEF IInv, MapExact
        <3>4. line'[k][n] = line[k][n]
            BY <3>1, <1>4
        <3>5. i - 1 = n
            BY <2>2, <1>2
        <3> QED
            BY <2>2, <3>3, <3>4, <3>5, <1>4, <1>8
    <2>3. CASE l = k /\ i # n + 1
        <3>1. i \in 1 .. n /\ i - 1 \in 1 .. n
            BY <2>3, <1>2, <1>4, <1>9
        <3> QED
            BY <2>3, <3>1, <1>4, <1>6, <1>7 DEF IInv, LineChained
    <2> QED
        BY <2>1, <2>2, <2>3
<1>13. LineDistinct'
    <2> SUFFICES ASSUME NEW l \in Keys,
                        NEW i \in 1 .. Len(line'[l]), NEW j \in 1 .. Len(line'[l]),
                        line'[l][i] = line'[l][j]
                 PROVE  i = j
        BY DEF LineDistinct
    <2>1. CASE l # k
        BY <2>1, <1>5 DEF IInv, LineDistinct
    <2>2. CASE l = k
        BY <2>2, <1>4, <1>6, <1>9 DEF IInv, LineDistinct
    <2> QED
        BY <2>1, <2>2
<1>14. MapExact'
    <2> SUFFICES ASSUME NEW l \in Keys
                 PROVE  tail'[l] = IF line'[l] = <<>> THEN NoCall
                                   ELSE line'[l][Len(line'[l])]
        BY DEF MapExact
    <2>1. CASE l # k
        BY <2>1, <1>5 DEF IInv, MapExact
    <2>2. CASE l = k
        <3>1. line'[k] # <<>>
            BY <1>2, <1>3
        <3> QED
            BY <2>2, <3>1, <1>4, <1>8
    <2> QED
        BY <2>1, <2>2
<1> QED
    BY <1>1, <1>10, <1>11, <1>12, <1>13, <1>14 DEF IInv

(* A call whose promise is resolved is let in, and is alone at the front.  *)
LEMMA EnterIInv ==
    ASSUME IInv, NEW c \in Calls, Enter(c)
    PROVE  IInv'
<1> USE DEF Places
<1> DEFINE k == keyOf[c]
<1>1. QueueTypeOK /\ QueueTypeOK'
    BY DEF IInv, QueueTypeOK, Enter
<1>2. k \in Keys /\ 1 \in Places(k) /\ line[k][1] = c
    BY ReadyIsFirst DEF Enter
<1>3. keyOf' = keyOf /\ tail' = tail /\ line' = line
    BY DEF Enter
<1>4. phase'[c] = "holding"
    BY <1>1 DEF Enter, QueueTypeOK
<1>5. \A d \in Calls : d # c => phase'[d] = phase[d] /\ before'[d] = before[d]
    BY <1>1 DEF Enter, QueueTypeOK
<1>6. \A l \in Keys : \A i \in Places(l) :
        line[l][i] \in Calls /\ (line[l][i] = c => l = k /\ i = 1)
    <2> SUFFICES ASSUME NEW l \in Keys, NEW i \in Places(l)
                 PROVE  line[l][i] \in Calls /\ (line[l][i] = c => l = k /\ i = 1)
        OBVIOUS
    <2>1. line[l][i] \in Calls
        BY <1>1, LineOfCalls
    <2>2. line[l][i] = c => l = k
        BY DEF IInv, LineActive
    <2> QED
        BY <2>1, <2>2, <1>2 DEF IInv, LineDistinct
<1>7. LineActive'
    BY <1>3, <1>4, <1>5, <1>6 DEF IInv, LineActive
<1>8. ActiveInLine'
    BY <1>1, <1>2, <1>3, <1>5 DEF IInv, ActiveInLine
<1>9. LineChained'
    BY <1>3, <1>5, <1>6 DEF IInv, LineChained
<1>10. LineDistinct' /\ MapExact'
    BY <1>3 DEF IInv, LineDistinct, MapExact
<1> QED
    BY <1>1, <1>7, <1>8, <1>9, <1>10 DEF IInv

(* A call whose fn is over leaves the front of its line; the promise in    *)
(* the map is its own only if nobody came after it.                        *)
LEMMA LeaveIInv ==
    ASSUME IInv, NEW c \in Calls, Leave(c)
    PROVE  IInv'
<1> USE DEF Places
<1> DEFINE k == keyOf[c]
           n == Len(line[k])
<1>1. QueueTypeOK
    BY DEF IInv
<1>2. k \in Keys /\ 1 \in Places(k) /\ line[k][1] = c
    BY HoldingIsFirst DEF Leave, Done
<1>3. n \in Nat /\ n # 0 /\ line[k] \in Seq(Calls) /\ line[k] # <<>>
    BY <1>1, <1>2, LineOfCalls
<1>4. keyOf' = keyOf /\ before' = before
    BY DEF Leave, Done
<1>5. line'[k] = Tail(line[k])
    BY <1>1, <1>2 DEF Leave, Done, QueueTypeOK
<1>6. /\ line'[k] \in Seq(Calls)
      /\ Len(line'[k]) = n - 1
      /\ \A i \in 1 .. n - 1 : i + 1 \in 1 .. n /\ line'[k][i] = line[k][i + 1]
    BY <1>3, <1>5
<1>7. \A l \in Keys : l # k => line'[l] = line[l] /\ tail'[l] = tail[l]
    BY <1>1 DEF Leave, Done, QueueTypeOK
<1>8. phase'[c] = "done"
    BY <1>1 DEF Leave, Done, QueueTypeOK
<1>9. \A d \in Calls : d # c => phase'[d] = phase[d]
    BY <1>1 DEF Leave, Done, QueueTypeOK
<1>10. tail'[k] = IF tail[k] = c THEN NoCall ELSE tail[k]
    BY <1>1, <1>2 DEF Leave, QueueTypeOK
<1>11. QueueTypeOK'
    <2>1. phase' \in [Calls -> {"new", "waiting", "holding", "done"}]
        BY <1>1 DEF QueueTypeOK, Leave, Done
    <2>2. tail' \in [Keys -> Calls \cup {NoCall}]
        BY <1>1 DEF QueueTypeOK, Leave
    <2>3. line' \in [Keys -> Seq(Calls)]
        BY <1>1, <1>2, <1>5, <1>6 DEF QueueTypeOK, Leave, Done
    <2> QED
        BY <1>1, <1>4, <2>1, <2>2, <2>3 DEF QueueTypeOK
<1>12. \A l \in Keys : \A i \in Places(l) :
        line[l][i] \in Calls /\ (line[l][i] = c => l = k /\ i = 1)
    <2> SUFFICES ASSUME NEW l \in Keys, NEW i \in Places(l)
                 PROVE  line[l][i] \in Calls /\ (line[l][i] = c => l = k /\ i = 1)
        OBVIOUS
    <2>1. line[l][i] \in Calls
        BY <1>1, LineOfCalls
    <2>2. line[l][i] = c => l = k
        BY DEF IInv, LineActive
    <2> QED
        BY <2>1, <2>2, <1>2 DEF IInv, LineDistinct
<1>13. \A i \in 1 .. n - 1 : i + 1 # 1 /\ line[k][i + 1] # c
    BY <1>2, <1>3, <1>6, <1>12
<1>14. LineActive'
    <2> SUFFICES ASSUME NEW l \in Keys, NEW i \in 1 .. Len(line'[l])
                 PROVE  /\ keyOf'[line'[l][i]] = l
                        /\ phase'[line'[l][i]] \in {"waiting", "holding"}
                        /\ i # 1 => phase'[line'[l][i]] = "waiting"
        BY DEF LineActive
    <2>1. CASE l # k
        BY <2>1, <1>4, <1>7, <1>9, <1>12 DEF IInv, LineActive
    <2>2. CASE l = k
        <3>1. i \in 1 .. n - 1
            BY <2>2, <1>6
        <3>2. line'[k][i] = line[k][i + 1] /\ i + 1 \in Places(k)
            BY <3>1, <1>6
        <3>3. phase[line[k][i + 1]] = "waiting" /\ keyOf[line[k][i + 1]] = k
            BY <3>1, <3>2, <1>2, <1>13 DEF IInv, LineActive
        <3>4. phase'[line[k][i + 1]] = phase[line[k][i + 1]]
            BY <3>1, <3>2, <1>2, <1>9, <1>12, <1>13
        <3> QED
            BY <2>2, <3>2, <3>3, <3>4, <1>4
    <2> QED
        BY <2>1, <2>2
<1>15. ActiveInLine'
    <2> SUFFICES ASSUME NEW d \in Calls, phase'[d] \in {"waiting", "holding"}
                 PROVE  \E i \in 1 .. Len(line'[keyOf'[d]]) : line'[keyOf'[d]][i] = d
        BY DEF ActiveInLine
    <2>1. d # c
        BY <1>8
    <2>2. PICK i \in 1 .. Len(line[keyOf[d]]) : line[keyOf[d]][i] = d
        BY <2>1, <1>9 DEF IInv, ActiveInLine
    <2>3. keyOf[d] \in Keys
        BY <1>1 DEF QueueTypeOK
    <2>4. CASE keyOf[d] # k
        BY <2>2, <2>3, <2>4, <1>4, <1>7
    <2>5. CASE keyOf[d] = k
        <3>1. i # 1
            BY <2>1, <2>2, <2>5, <1>2
        <3>2. i - 1 \in 1 .. n - 1 /\ (i - 1) + 1 = i
            BY <3>1, <2>2, <2>5, <1>3
        <3>3. line'[k][i - 1] = d
            BY <3>2, <2>2, <2>5, <1>6
        <3> QED
            BY <3>2, <3>3, <2>5, <1>4, <1>6
    <2> QED
        BY <2>4, <2>5
<1>16. LineChained'
    <2> SUFFICES ASSUME NEW l \in Keys, NEW i \in 1 .. Len(line'[l]), i # 1
                 PROVE  before'[line'[l][i]] = line'[l][i - 1]
        BY DEF LineChained
    <2>1. CASE l # k
        BY <2>1, <1>4, <1>7 DEF IInv, LineChained
    <2>2. CASE l = k
        <3>1. i \in 1 .. n - 1 /\ i - 1 \in 1 .. n - 1 /\ (i - 1) + 1 = i /\ (i + 1) - 1 = i
            BY <2>2, <1>3, <1>6
        <3>2. line'[k][i] = line[k][i + 1] /\ line'[k][i - 1] = line[k][i]
            BY <3>1, <1>6
        <3>3. i + 1 \in Places(k) /\ i + 1 # 1
            BY <3>1, <1>6, <1>13
        <3>4. before[line[k][i + 1]] = line[k][i]
            BY <3>1, <3>3, <1>2 DEF IInv, LineChained
        <3> QED
            BY <2>2, <3>2, <3>4, <1>4
    <2> QED
        BY <2>1, <2>2
<1>17. LineDistinct'
    <2> SUFFICES ASSUME NEW l \in Keys,
                        NEW i \in 1 .. Len(line'[l]), NEW j \in 1 .. Len(line'[l]),
                        line'[l][i] = line'[l][j]
                 PROVE  i = j
        BY DEF LineDistinct
    <2>1. CASE l # k
        BY <2>1, <1>7 DEF IInv, LineDistinct
    <2>2. CASE l = k
        <3>1. i \in 1 .. n - 1 /\ j \in 1 .. n - 1
            BY <2>2, <1>6
        <3>2. i + 1 \in Places(k) /\ j + 1 \in Places(k) /\ line[k][i + 1] = line[k][j + 1]
            BY <3>1, <2>2, <1>6
        <3>3. i + 1 = j + 1
            BY <3>2, <1>2 DEF IInv, LineDistinct
        <3> QED
            BY <3>1, <3>3, <1>3
    <2> QED
        BY <2>1, <2>2
<1>18. MapExact'
    <2> SUFFICES ASSUME NEW l \in Keys
                 PROVE  tail'[l] = IF line'[l] = <<>> THEN NoCall
                                   ELSE line'[l][Len(line'[l])]
        BY DEF MapExact
    <2>1. CASE l # k
        BY <2>1, <1>7 DEF IInv, MapExact
    <2>2. CASE l = k
        <3>1. tail[k] = line[k][n] /\ n \in Places(k)
            BY <1>2, <1>3 DEF IInv, MapExact
        <3>2. CASE n = 1
            <4>1. line'[k] = <<>>
                BY <3>2, <1>6
            <4> QED
                BY <2>2, <3>1, <3>2, <4>1, <1>2, <1>10
        <3>3. CASE n # 1
            <4>1. n \in Nat /\ n # 0 /\ n # 1
                BY <3>3, <1>3
            <4>2. \A x \in Nat : x # 0 /\ x # 1 => x - 1 \in 1 .. x - 1 /\ (x - 1) + 1 = x
                OBVIOUS
            <4>3. n - 1 \in 1 .. n - 1 /\ (n - 1) + 1 = n
                BY <4>1, <4>2
            <4>4. line'[k][n - 1] = line[k][n] /\ line'[k] # <<>>
                BY <4>3, <1>6
            <4>5. tail[k] # c
                BY <3>1, <3>3, <1>2, <1>12
            <4> QED
                BY <2>2, <3>1, <4>4, <4>5, <1>6, <1>10
        <3> QED
            BY <3>2, <3>3
    <2> QED
        BY <2>1, <2>2
<1> QED
    BY <1>11, <1>14, <1>15, <1>16, <1>17, <1>18 DEF IInv

-----------------------------------------------------------------------------
(* Every step of the queue preserves the invariant. *)
LEMMA NextIInv == IInv /\ [QueueNext]_queueVars => IInv'
<1> SUFFICES ASSUME IInv, [QueueNext]_queueVars PROVE IInv'
    OBVIOUS
<1>1. ASSUME NEW c \in Calls, NEW k \in Keys, Request(c, k) PROVE IInv'
    BY <1>1, RequestIInv
<1>2. ASSUME NEW c \in Calls, Enter(c) PROVE IInv'
    BY <1>2, EnterIInv
<1>3. ASSUME NEW c \in Calls, Leave(c) PROVE IInv'
    BY <1>3, LeaveIInv
<1>4. CASE UNCHANGED queueVars
    BY <1>4 DEF queueVars, IInv, QueueTypeOK, LineActive, ActiveInLine, LineChained,
        LineDistinct, MapExact, Places
<1> QED
    BY <1>1, <1>2, <1>3, <1>4 DEF QueueNext

(* The invariant says that whoever is in fn is the first of its line. *)
LEMMA IInvExclusive == IInv => Exclusive
<1> SUFFICES ASSUME IInv, NEW c \in Calls, phase[c] = "holding"
             PROVE  line[keyOf[c]] # <<>> /\ c = Head(line[keyOf[c]])
    BY DEF Exclusive
<1>1. keyOf[c] \in Keys /\ 1 \in Places(keyOf[c]) /\ line[keyOf[c]][1] = c
    BY HoldingIsFirst
<1>2. line[keyOf[c]] \in Seq(Calls)
    BY <1>1 DEF IInv, QueueTypeOK
<1> QED
    BY <1>1, <1>2 DEF Places

(* withFileMutationQueue runs one fn at a time per key, in the order of    *)
(* the calls, whatever is deleted from and put into the map meanwhile.     *)
THEOREM QueueExclusive == QueueSpec => []Exclusive
<1>1. QueueSpec => []IInv
    BY InitIInv, NextIInv, PTL DEF QueueSpec
<1> QED
    BY <1>1, IInvExclusive, PTL

(* The map of the queues holds one entry per key in use, the last promise  *)
(* of its line, and nothing when all is done.                              *)
THEOREM QueueMapExact == QueueSpec => []MapExact
<1>1. QueueSpec => []IInv
    BY InitIInv, NextIInv, PTL DEF QueueSpec
<1>2. IInv => MapExact
    BY DEF IInv
<1> QED
    BY <1>1, <1>2, PTL

(* The state of the queues stays well-typed. *)
THEOREM QueueTypeCorrect == QueueSpec => []QueueTypeOK
<1>1. QueueSpec => []IInv
    BY InitIInv, NextIInv, PTL DEF QueueSpec
<1>2. IInv => QueueTypeOK
    BY DEF IInv
<1> QED
    BY <1>1, <1>2, PTL

-----------------------------------------------------------------------------
(* The tools *)

(* A call at work has its turn, unless its promise is settled. *)
WorkHolds ==
    \A c \in Calls :
        AtWork(c) => /\ phase[c] \in {"holding", "done"}
                     /\ ~Settled(c) => phase[c] = "holding"

(* A call is in the queue of its file, or asked through a link before      *)
(* there was a file.                                                       *)
KeyOrEarly ==
    \A c \in Calls : phase[c] # "new" => keyOf[c] = File(c) \/ c \in early

Bodies   == {"none", "access", "mkdir", "read", "open", "fill", "over"}
Outcomes == {"none", "ok", "error", "aborted"}

ToolInv ==
    /\ QueueTypeOK
    /\ path \in [Calls -> Keys]
    /\ body \in [Calls -> Bodies]
    /\ outcome \in [Calls -> Outcomes]
    /\ WorkHolds
    /\ KeyOrEarly

-----------------------------------------------------------------------------
(* A body's step, and an abort, leave the queue alone. *)
LEMMA BodyStepQueue ==
    ASSUME NEW c \in Calls, BodyStep(c)
    PROVE  UNCHANGED <<queueVars, path, early>>
BY DEF BodyStep, Access, Read, MakeDirectory, Open, Fill, OperationFails, Operation, Fails

(* The key a tool asks for is a key. *)
LEMMA KeyIsKey == \A p \in Keys : Key(p) \in Keys
BY ToolsAssumption DEF Key

(* Every step of the tools is a step of the queue, or none. *)
LEMMA StepImplements == [Next]_vars => [QueueNext]_queueVars
<1> SUFFICES ASSUME [Next]_vars PROVE [QueueNext]_queueVars
    OBVIOUS
<1>1. ASSUME NEW c \in Calls, NEW p \in Keys, NEW t \in {"edit", "write"}, Execute(c, p, t)
      PROVE  QueueNext
    BY <1>1, KeyIsKey DEF Execute, QueueNext
<1>2. ASSUME NEW c \in Calls, Begin(c) PROVE QueueNext
    BY <1>2 DEF Begin, QueueNext
<1>3. ASSUME NEW c \in Calls, Return(c) PROVE QueueNext
    BY <1>3 DEF Return, QueueNext
<1>4. ASSUME NEW c \in Calls, BodyStep(c) PROVE UNCHANGED queueVars
    BY <1>4, BodyStepQueue
<1>5. ASSUME NEW r \in Runs, Abort(r) PROVE UNCHANGED queueVars
    BY <1>5 DEF Abort
<1>6. CASE UNCHANGED vars
    BY <1>6 DEF vars
<1> QED
    BY <1>1, <1>2, <1>3, <1>4, <1>5, <1>6 DEF Next

(* edit and write use withFileMutationQueue as its specification allows:   *)
(* what is shown of the queue holds of the files.                          *)
THEOREM ToolsImplementQueue == Spec => ImplementsQueue
<1>1. Init => QueueInit
    BY DEF Init
<1> QED
    BY <1>1, StepImplements, PTL DEF Spec, QueueSpec, ImplementsQueue

(* In the composed system too, one fn at a time runs per key. *)
THEOREM ToolsExclusive == Spec => []Exclusive
BY ToolsImplementQueue, QueueExclusive, PTL DEF ImplementsQueue

-----------------------------------------------------------------------------
(* At first nobody has asked for anything. *)
LEMMA InitToolInv == Init => ToolInv
<1> SUFFICES ASSUME Init PROVE ToolInv
    OBVIOUS
<1>1. QueueTypeOK
    BY InitIInv DEF Init, IInv
<1>2. \A c \in Calls : body[c] = "none" /\ phase[c] = "new"
    BY DEF Init, QueueInit
<1>3. path \in [Calls -> Keys]
    BY <1>1 DEF Init, QueueTypeOK
<1>4. body \in [Calls -> Bodies] /\ outcome \in [Calls -> Outcomes]
    BY DEF Init, Bodies, Outcomes
<1> QED
    BY <1>1, <1>2, <1>3, <1>4 DEF ToolInv, WorkHolds, KeyOrEarly, AtWork

(* A tool is called: its key is the real path if there is a file. *)
LEMMA ExecuteToolInv ==
    ASSUME ToolInv, QueueTypeOK', NEW c \in Calls, NEW p \in Keys,
           NEW t \in {"edit", "write"}, Execute(c, p, t)
    PROVE  ToolInv'
<1>1. /\ phase[c] = "new"
      /\ phase'[c] = "waiting"
      /\ keyOf'[c] = Key(p)
      /\ path'[c] = p
    BY DEF Execute, Request, ToolInv, QueueTypeOK
<1>2. \A d \in Calls : d # c => /\ phase'[d] = phase[d]
                                /\ keyOf'[d] = keyOf[d]
                                /\ path'[d] = path[d]
    BY DEF Execute, Request, ToolInv, QueueTypeOK
<1>3. body' = body /\ outcome' = outcome
    BY DEF Execute
<1>4. WorkHolds'
    BY <1>1, <1>2, <1>3 DEF ToolInv, WorkHolds, AtWork, Settled
<1>5. early \subseteq early'
    BY DEF Execute
<1>6. keyOf'[c] = Target[p] \/ c \in early'
    BY <1>1 DEF Execute, Key
<1>7. KeyOrEarly'
    BY <1>1, <1>2, <1>5, <1>6 DEF ToolInv, KeyOrEarly, File
<1>8. path' \in [Calls -> Keys]
    BY DEF Execute, ToolInv
<1> QED
    BY <1>3, <1>4, <1>7, <1>8 DEF ToolInv

(* fn begins, with the turn. *)
LEMMA BeginToolInv ==
    ASSUME ToolInv, QueueTypeOK', NEW c \in Calls, Begin(c)
    PROVE  ToolInv'
<1>1. phase[c] = "waiting" /\ phase'[c] = "holding"
    BY DEF Begin, Enter, ToolInv, QueueTypeOK
<1>2. \A d \in Calls : d # c => /\ phase'[d] = phase[d]
                                /\ body'[d] = body[d]
                                /\ outcome'[d] = outcome[d]
    BY DEF Begin, Enter, ToolInv, QueueTypeOK
<1>3. keyOf' = keyOf /\ path' = path /\ early' = early
    BY DEF Begin, Enter
<1>4. body' \in [Calls -> Bodies] /\ outcome' \in [Calls -> Outcomes]
    BY DEF Begin, ToolInv, Bodies, Outcomes
<1>5. WorkHolds'
    BY <1>1, <1>2 DEF ToolInv, WorkHolds, AtWork, Settled
<1>6. KeyOrEarly'
    BY <1>1, <1>2, <1>3 DEF ToolInv, KeyOrEarly, File
<1> QED
    BY <1>3, <1>4, <1>5, <1>6 DEF ToolInv

(* The turn passes on only when the promise is settled. *)
LEMMA ReturnToolInv ==
    ASSUME ToolInv, QueueTypeOK', NEW c \in Calls, Return(c)
    PROVE  ToolInv'
<1>1. Settled(c) /\ phase'[c] = "done" /\ phase[c] = "holding"
    BY DEF Return, Leave, Done, ToolInv, QueueTypeOK
<1>2. \A d \in Calls : d # c => phase'[d] = phase[d]
    BY DEF Return, Leave, Done, ToolInv, QueueTypeOK
<1>3. /\ keyOf' = keyOf /\ path' = path /\ early' = early
      /\ body' = body /\ outcome' = outcome
    BY DEF Return, Leave, Done, toolVars
<1>4. WorkHolds'
    BY <1>1, <1>2, <1>3 DEF ToolInv, WorkHolds, AtWork, Settled
<1>5. KeyOrEarly'
    BY <1>1, <1>2, <1>3 DEF ToolInv, KeyOrEarly, File
<1> QED
    BY <1>3, <1>4, <1>5 DEF ToolInv

(* A body's step starts no work, and takes nothing back that was settled.  *)
LEMMA BodyStepWork ==
    ASSUME ToolInv, NEW c \in Calls, BodyStep(c)
    PROVE  /\ body' \in [Calls -> Bodies]
           /\ outcome' \in [Calls -> Outcomes]
           /\ \A d \in Calls : AtWork(d)' => AtWork(d)
           /\ \A d \in Calls : Settled(d) => Settled(d)'
<1> USE DEF ToolInv, Operation, GoesOn, Fails, AtWork, Settled, Bodies, Outcomes
<1>1. CASE Access(c)
    BY <1>1 DEF Access
<1>2. CASE Read(c)
    BY <1>2 DEF Read
<1>3. CASE MakeDirectory(c)
    BY <1>3 DEF MakeDirectory
<1>4. CASE Open(c)
    BY <1>4 DEF Open
<1>5. CASE Fill(c)
    BY <1>5 DEF Fill
<1>6. CASE OperationFails(c)
    BY <1>6 DEF OperationFails
<1> QED
    BY <1>1, <1>2, <1>3, <1>4, <1>5, <1>6 DEF BodyStep

(* So whoever is at work still has its turn. *)
LEMMA BodyStepToolInv ==
    ASSUME ToolInv, QueueTypeOK', NEW c \in Calls, BodyStep(c)
    PROVE  ToolInv'
<1>1. /\ phase' = phase /\ keyOf' = keyOf /\ path' = path /\ early' = early
    BY BodyStepQueue DEF queueVars
<1>2. WorkHolds'
    BY <1>1, BodyStepWork DEF ToolInv, WorkHolds
<1>3. KeyOrEarly'
    BY <1>1 DEF ToolInv, KeyOrEarly, File
<1> QED
    BY <1>1, <1>2, <1>3, BodyStepWork DEF ToolInv

(* An abort settles the promises of the calls at work, and stops nobody.   *)
LEMMA AbortToolInv ==
    ASSUME ToolInv, QueueTypeOK', NEW r \in Runs, Abort(r)
    PROVE  ToolInv'
<1>1. /\ phase' = phase /\ keyOf' = keyOf /\ path' = path /\ early' = early
      /\ body' = body
    BY DEF Abort, queueVars
<1>2. outcome' \in [Calls -> Outcomes] /\ \A d \in Calls : Settled(d) => Settled(d)'
    BY DEF Abort, ToolInv, Outcomes, Settled
<1>3. WorkHolds'
    BY <1>1, <1>2 DEF ToolInv, WorkHolds, AtWork
<1>4. KeyOrEarly'
    BY <1>1 DEF ToolInv, KeyOrEarly, File
<1> QED
    BY <1>1, <1>2, <1>3, <1>4 DEF ToolInv

(* Every step of the tools preserves their invariant. *)
LEMMA NextToolInv == ToolInv /\ QueueTypeOK' /\ [Next]_vars => ToolInv'
<1> SUFFICES ASSUME ToolInv, QueueTypeOK', [Next]_vars PROVE ToolInv'
    OBVIOUS
<1>1. ASSUME NEW c \in Calls, NEW p \in Keys, NEW t \in {"edit", "write"}, Execute(c, p, t)
      PROVE  ToolInv'
    BY <1>1, ExecuteToolInv
<1>2. ASSUME NEW c \in Calls, Begin(c) PROVE ToolInv'
    BY <1>2, BeginToolInv
<1>3. ASSUME NEW c \in Calls, Return(c) PROVE ToolInv'
    BY <1>3, ReturnToolInv
<1>4. ASSUME NEW c \in Calls, BodyStep(c) PROVE ToolInv'
    BY <1>4, BodyStepToolInv
<1>5. ASSUME NEW r \in Runs, Abort(r) PROVE ToolInv'
    BY <1>5, AbortToolInv
<1>6. CASE UNCHANGED vars
    BY <1>6 DEF vars, toolVars, queueVars, ToolInv, WorkHolds, KeyOrEarly, AtWork,
        Settled, File
<1> QED
    BY <1>1, <1>2, <1>3, <1>4, <1>5, <1>6 DEF Next

(* Two calls with a turn in one queue are one call. *)
LEMMA ExclusiveIsUnique ==
    ASSUME Exclusive, NEW c \in Calls, NEW d \in Calls,
           phase[c] = "holding", phase[d] = "holding", keyOf[c] = keyOf[d]
    PROVE  c = d
BY DEF Exclusive

(* With exclusive queues, the invariant leaves two ways for two calls to   *)
(* be at work on one file.                                                 *)
LEMMA ToolInvOneAtATime == ToolInv /\ Exclusive => OneAtATimeOr
<1> SUFFICES ASSUME ToolInv, Exclusive, NEW c \in Calls, NEW d \in Calls,
                    AtWork(c), AtWork(d), c # d, File(c) = File(d),
                    ~Settled(c), ~Settled(d), c \notin early, d \notin early
             PROVE  FALSE
    BY DEF OneAtATimeOr
<1>1. phase[c] = "holding" /\ phase[d] = "holding"
    BY DEF ToolInv, WorkHolds
<1>2. keyOf[c] = keyOf[d]
    BY <1>1 DEF ToolInv, KeyOrEarly
<1> QED
    BY <1>1, <1>2, ExclusiveIsUnique

(* edit and write of one file exclude each other, but for a body that an   *)
(* abort has cut off from its turn (edit.ts and write.ts reject at once),  *)
(* and for a path whose real path was not known when it was asked for.     *)
THEOREM ToolsOneAtATime == Spec => []OneAtATimeOr
<1>1. Spec => []QueueTypeOK
    BY ToolsImplementQueue, QueueTypeCorrect, PTL DEF ImplementsQueue
<1>2. Spec => []ToolInv
    BY <1>1, InitToolInv, NextToolInv, PTL DEF Spec
<1> QED
    BY <1>2, ToolsExclusive, ToolInvOneAtATime, PTL

-----------------------------------------------------------------------------
(* What a file holds.  A file that is not spoiled has one queue, so at     *)
(* most one call is at work on it, and that call was not aborted.          *)
Working == {"access", "mkdir", "read", "open", "fill"}
InQueue(c) == phase[c] \in {"waiting", "holding"}

ToolType ==
    /\ tool \in [Calls -> {"none", "edit", "write"}]
    /\ signals \subseteq Runs
    /\ early \subseteq Calls
    /\ \A c \in Calls : phase[c] # "new" => tool[c] \in {"edit", "write"}

DiskType ==
    /\ disk \in [Files -> Contents]
    /\ text \in [Calls -> Contents]
    /\ succeeded \in [Files -> SUBSET Calls]
    /\ spoiled \subseteq Files

(* The calls of a file that two queues did not serve have one key. *)
OneKey ==
    \A c, d \in Calls :
        InQueue(c) /\ InQueue(d) /\ File(c) = File(d) /\ File(c) \notin spoiled
          => keyOf[c] = keyOf[d]

(* Whoever was cut short at work spoiled its file. *)
CutShortSpoils == \A c \in Calls : AtWork(c) /\ Settled(c) => File(c) \in spoiled

(* Before a call writes it has the text: what the file held, and its edit. *)
TextReady ==
    \A c \in Calls :
        /\ body[c] \in {"access", "read"} => tool[c] = "edit"
        /\ body[c] = "mkdir" => tool[c] = "write"
        /\ body[c] \in {"open", "fill"} =>
              /\ text[c].state = "whole"
              /\ File(c) \notin spoiled =>
                    text[c].changes = IF tool[c] = "write" THEN {c}
                                      ELSE succeeded[File(c)] \cup {c}

(* A call is settled at work, or when it begins. *)
UnsettledBefore == \A c \in Calls : phase[c] \in {"new", "waiting"} => ~Settled(c)

(* A file nobody fills is whole, or was never there. *)
DiskExact ==
    \A f \in Files \ spoiled :
        \/ \E c \in Calls : body[c] = "fill" /\ File(c) = f
        \/ disk[f].state # "torn" /\ succeeded[f] = disk[f].changes

DiskInv ==
    /\ ToolType /\ DiskType
    /\ OneKey /\ CutShortSpoils /\ UnsettledBefore
    /\ TextReady /\ DiskExact

(* Two calls at work on a file that is not spoiled are one. *)
LEMMA AloneAtWork ==
    ASSUME ToolInv, DiskInv, Exclusive, NEW c \in Calls, NEW d \in Calls,
           AtWork(c), AtWork(d), File(c) = File(d), File(c) \notin spoiled
    PROVE  c = d
<1>1. ~Settled(c) /\ ~Settled(d)
    BY DEF DiskInv, CutShortSpoils
<1>2. phase[c] = "holding" /\ phase[d] = "holding"
    BY <1>1 DEF ToolInv, WorkHolds
<1>3. keyOf[c] = keyOf[d]
    BY <1>2 DEF DiskInv, OneKey, InQueue
<1> QED
    BY <1>2, <1>3, ExclusiveIsUnique

(* A path stands for a file. *)
LEMMA FileIsFile == ToolInv => \A c \in Calls : File(c) \in Files
BY ToolsAssumption DEF ToolInv, File, Files

(* What the contents of a file may be. *)
LEMMA ContentsOf ==
    /\ Missing \in Contents /\ Torn \in Contents
    /\ \A S \in SUBSET Calls : /\ Whole(S) \in Contents
                               /\ Whole(S).state = "whole" /\ Whole(S).changes = S
    /\ Missing.state = "missing" /\ Torn.state = "torn" /\ Missing.changes = {}
    /\ \A x \in Contents : x.changes \subseteq Calls
BY DEF Contents, Missing, Torn, Whole

(* At first files are whole and nobody works. *)
LEMMA InitDiskInv == Init => DiskInv
<1> SUFFICES ASSUME Init PROVE DiskInv
    OBVIOUS
<1>1. \A c \in Calls : body[c] = "none" /\ phase[c] = "new"
    BY DEF Init, QueueInit
<1>2. ToolType
    BY <1>1 DEF Init, ToolType
<1>3. DiskType
    BY ContentsOf DEF Init, DiskType
<1>4. OneKey /\ CutShortSpoils /\ TextReady /\ UnsettledBefore
    BY <1>1 DEF OneKey, CutShortSpoils, TextReady, UnsettledBefore, AtWork, InQueue, Settled,
        Init
<1>5. \A f \in Files : disk[f] \in {Missing, Whole({})} /\ succeeded[f] = {}
    BY DEF Init
<1>6. DiskExact
    BY <1>5, ContentsOf DEF DiskExact
<1> QED
    BY <1>2, <1>3, <1>4, <1>6 DEF DiskInv

(* A call that is in a queue no more, or not yet, is not counted; one that *)
(* asks spoils the file if another queue serves it.                        *)
LEMMA ExecuteDiskInv ==
    ASSUME ToolInv, QueueTypeOK', DiskInv, NEW c \in Calls, NEW p \in Keys,
           NEW t \in {"edit", "write"}, Execute(c, p, t)
    PROVE  DiskInv'
<1>1. /\ phase[c] = "new" /\ phase'[c] = "waiting"
      /\ keyOf'[c] = Key(p) /\ path'[c] = p /\ tool'[c] = t
      /\ UNCHANGED <<disk, body, text, outcome, signals, succeeded>>
    BY DEF Execute, Request, ToolInv, QueueTypeOK, DiskInv, ToolType
<1>2. \A d \in Calls : d # c => /\ phase'[d] = phase[d] /\ keyOf'[d] = keyOf[d]
                                /\ path'[d] = path[d] /\ tool'[d] = tool[d]
    BY DEF Execute, Request, ToolInv, QueueTypeOK, DiskInv, ToolType
<1>3. \A d \in Calls : d # c => File(d)' = File(d)
    BY <1>2 DEF File
<1>4. File(c)' = Target[p] /\ Target[p] \in Files
    BY <1>1 DEF File, Files
<1>5. /\ spoiled \subseteq spoiled' /\ spoiled' \subseteq Files
      /\ early' \subseteq Calls
    BY <1>4 DEF Execute, DiskInv, DiskType, ToolType
<1>6. body[c] \notin Working
    BY <1>1 DEF ToolInv, WorkHolds, AtWork, Working
<1>7. ToolType'
    BY <1>1, <1>2, <1>5 DEF DiskInv, ToolType, Execute
<1>8. DiskType'
    BY <1>1, <1>5 DEF DiskInv, DiskType
<1>9. \A d \in Calls : /\ d # c /\ InQueue(d)' /\ File(d)' = Target[p]
                       /\ Target[p] \notin spoiled'
                       => keyOf'[d] = Key(p)
    BY <1>1, <1>2, <1>3 DEF Execute, InQueue
<1>10. OneKey'
    BY <1>1, <1>2, <1>3, <1>4, <1>5, <1>9 DEF DiskInv, OneKey, InQueue
<1>11. CutShortSpoils' /\ TextReady' /\ UnsettledBefore'
    BY <1>1, <1>2, <1>3, <1>5, <1>6
    DEF DiskInv, CutShortSpoils, TextReady, UnsettledBefore, AtWork, Settled, Working
<1>12. DiskExact'
    BY <1>1, <1>2, <1>3, <1>5, <1>6 DEF DiskInv, DiskExact, Working
<1> QED
    BY <1>7, <1>8, <1>10, <1>11, <1>12 DEF DiskInv

(* fn begins, or finds that it was aborted while it waited. *)
LEMMA BeginDiskInv ==
    ASSUME ToolInv, QueueTypeOK', DiskInv, NEW c \in Calls, Begin(c)
    PROVE  DiskInv'
<1>1. /\ phase[c] = "waiting" /\ phase'[c] = "holding"
      /\ body'[c] = "over" \/ body'[c] = (IF tool[c] = "edit" THEN "access" ELSE "mkdir")
      /\ body'[c] = "over" \/ outcome' = outcome
      /\ UNCHANGED <<keyOf, path, disk, tool, text, signals, succeeded, spoiled, early>>
    BY DEF Begin, Enter, ToolInv, QueueTypeOK
<1>2. \A d \in Calls : d # c => /\ phase'[d] = phase[d] /\ body'[d] = body[d]
                                /\ outcome'[d] = outcome[d]
    BY DEF Begin, Enter, ToolInv, QueueTypeOK
<1>3. \A d \in Calls : File(d)' = File(d)
    BY <1>1 DEF File
<1>4. body[c] \notin Working
    BY <1>1 DEF ToolInv, WorkHolds, AtWork, Working
<1>5. tool[c] \in {"edit", "write"}
    BY <1>1 DEF DiskInv, ToolType
<1>6. ToolType' /\ DiskType'
    BY <1>1, <1>2, <1>5 DEF DiskInv, ToolType, DiskType
<1>7. OneKey'
    BY <1>1, <1>2, <1>3 DEF DiskInv, OneKey, InQueue
<1>8. AtWork(c)' => outcome'[c] = "none" \/ File(c) \in spoiled
    BY <1>1 DEF AtWork, DiskInv, UnsettledBefore, Settled
<1>9. TextReady'
    BY <1>1, <1>2, <1>3, <1>5 DEF DiskInv, TextReady
<1>10. DiskExact'
    BY <1>1, <1>2, <1>3, <1>4 DEF DiskInv, DiskExact, Working
<1>11. CutShortSpoils' /\ UnsettledBefore'
    BY <1>1, <1>2, <1>3, <1>8 DEF DiskInv, CutShortSpoils, UnsettledBefore, AtWork, Settled
<1> QED
    BY <1>6, <1>7, <1>9, <1>10, <1>11 DEF DiskInv

LEMMA ReturnDiskInv ==
    ASSUME ToolInv, QueueTypeOK', DiskInv, NEW c \in Calls, Return(c)
    PROVE  DiskInv'
<1>1. /\ phase[c] = "holding" /\ phase'[c] = "done"
      /\ UNCHANGED <<keyOf, path, toolVars>>
    BY DEF Return, Leave, Done, ToolInv, QueueTypeOK, toolVars
<1>2. \A d \in Calls : d # c => phase'[d] = phase[d]
    BY DEF Return, Leave, Done, ToolInv, QueueTypeOK
<1>3. \A d \in Calls : File(d)' = File(d)
    BY <1>1 DEF File
<1>4. ToolType' /\ DiskType'
    BY <1>1, <1>2 DEF DiskInv, ToolType, DiskType, toolVars
<1>5. OneKey'
    BY <1>1, <1>2, <1>3 DEF DiskInv, OneKey, InQueue, toolVars
<1>6. CutShortSpoils' /\ UnsettledBefore'
    BY <1>1, <1>2, <1>3 DEF DiskInv, CutShortSpoils, UnsettledBefore, AtWork, Settled, toolVars
<1>7. TextReady'
    BY <1>1, <1>3 DEF DiskInv, TextReady, toolVars
<1>8. DiskExact'
    BY <1>1, <1>3 DEF DiskInv, DiskExact, toolVars
<1> QED
    BY <1>4, <1>5, <1>6, <1>7, <1>8 DEF DiskInv

(* A step of a body that does not touch the disk and starts no write. *)
LEMMA QuietBodyDiskInv ==
    ASSUME ToolInv, DiskInv, NEW c \in Calls, BodyStep(c), AtWork(c), body[c] # "fill",
           UNCHANGED <<disk, succeeded, spoiled>>,
           \A d \in Calls : d # c => text'[d] = text[d],
           text' \in [Calls -> Contents],
           body'[c] \in {"over", "read", "open"},
           body'[c] = "read" => tool[c] = "edit",
           body'[c] # "over" => outcome' = outcome,
           \A d \in Calls : d # c => outcome'[d] = outcome[d] /\ body'[d] = body[d],
           body'[c] = "open" =>
                /\ text'[c].state = "whole"
                /\ File(c) \notin spoiled =>
                        text'[c].changes = IF tool[c] = "write" THEN {c}
                                           ELSE succeeded[File(c)] \cup {c}
    PROVE  DiskInv'
<1>1. UNCHANGED <<queueVars, tool, path, signals, early>>
    BY BodyStepQueue DEF BodyStep, Access, Read, MakeDirectory, Open, Fill, OperationFails,
        Operation
<1>2. \A d \in Calls : File(d)' = File(d)
    BY <1>1 DEF File
<1>3. ToolType' /\ DiskType'
    BY <1>1 DEF DiskInv, ToolType, DiskType, queueVars
<1>4. OneKey'
    BY <1>1, <1>2 DEF DiskInv, OneKey, InQueue, queueVars
<1>5. CutShortSpoils' /\ UnsettledBefore'
    BY <1>1, <1>2 DEF DiskInv, CutShortSpoils, UnsettledBefore, AtWork, Settled, queueVars,
        ToolInv, WorkHolds
<1>6. ASSUME NEW d \in Calls
      PROVE  /\ body'[d] \in {"access", "read"} => tool'[d] = "edit"
             /\ body'[d] = "mkdir" => tool'[d] = "write"
             /\ body'[d] \in {"open", "fill"} =>
                   /\ text'[d].state = "whole"
                   /\ File(d) \notin spoiled =>
                         text'[d].changes = IF tool[d] = "write" THEN {d}
                                            ELSE succeeded[File(d)] \cup {d}
    <2>1. CASE d = c
        BY <1>1, <2>1
    <2>2. CASE d # c
        BY <1>1, <2>2 DEF DiskInv, TextReady
    <2> QED
        BY <2>1, <2>2
<1>7. DiskExact'
    BY <1>2 DEF DiskInv, DiskExact
<1>8. TextReady'
    BY <1>1, <1>2, <1>6 DEF TextReady
<1> QED
    BY <1>3, <1>4, <1>5, <1>7, <1>8 DEF DiskInv

LEMMA AccessDiskInv ==
    ASSUME ToolInv, DiskInv, NEW c \in Calls, Access(c)
    PROVE  DiskInv'
<1>1. /\ body[c] = "access" /\ tool[c] = "edit" /\ AtWork(c) /\ BodyStep(c)
      /\ UNCHANGED <<disk, text, succeeded, spoiled>>
      /\ body'[c] \in {"over", "read"}
      /\ body'[c] = "read" => outcome' = outcome
      /\ \A d \in Calls : d # c => outcome'[d] = outcome[d] /\ body'[d] = body[d]
    BY DEF Access, Operation, GoesOn, Fails, AtWork, BodyStep, ToolInv, DiskInv, TextReady
<1>2. text' \in [Calls -> Contents]
    BY <1>1 DEF DiskInv, DiskType
<1>3. /\ body[c] # "fill" /\ UNCHANGED <<disk, succeeded, spoiled>>
      /\ \A d \in Calls : d # c => text'[d] = text[d]
      /\ body'[c] \in {"over", "read", "open"} /\ body'[c] # "open"
      /\ body'[c] = "read" => tool[c] = "edit"
      /\ body'[c] # "over" => outcome' = outcome
    BY <1>1
<1> QED
    BY <1>1, <1>2, <1>3, QuietBodyDiskInv

LEMMA ReadDiskInv ==
    ASSUME ToolInv, DiskInv, Exclusive, NEW c \in Calls, Read(c)
    PROVE  DiskInv'
<1>1. /\ body[c] = "read" /\ tool[c] = "edit" /\ AtWork(c) /\ BodyStep(c)
      /\ UNCHANGED <<disk, succeeded, spoiled>>
      /\ body'[c] \in {"over", "open"}
      /\ body'[c] = "open" => outcome' = outcome
      /\ \A d \in Calls : d # c => outcome'[d] = outcome[d] /\ body'[d] = body[d]
    BY DEF Read, Operation, GoesOn, Fails, AtWork, BodyStep, ToolInv, DiskInv, TextReady
<1>2. File(c) \in Files /\ disk[File(c)].changes \subseteq Calls
    BY FileIsFile, ContentsOf DEF DiskInv, DiskType
<1> DEFINE now == Whole(disk[File(c)].changes \cup {c})
<1>3. now \in Contents /\ now.state = "whole" /\ now.changes = disk[File(c)].changes \cup {c}
    BY <1>2, ContentsOf
<1>4. /\ text' = text \/ text' = [text EXCEPT ![c] = now]
      /\ body'[c] = "open" => text' = [text EXCEPT ![c] = now]
    BY DEF Read, Fails, ToolInv
<1>5. text \in [Calls -> Contents]
    BY DEF DiskInv, DiskType
<1> HIDE DEF now
<1>6. /\ text' \in [Calls -> Contents]
      /\ \A d \in Calls : d # c => text'[d] = text[d]
      /\ body'[c] = "open" => text'[c] = now
    BY <1>3, <1>4, <1>5
<1>7. ASSUME File(c) \notin spoiled PROVE succeeded[File(c)] = disk[File(c)].changes
    <2>1. \A d \in Calls : ~(body[d] = "fill" /\ File(d) = File(c))
        BY <1>1, <1>7, AloneAtWork DEF AtWork
    <2> QED
        BY <1>2, <1>7, <2>1 DEF DiskInv, DiskExact
<1>8. /\ body[c] # "fill" /\ body'[c] # "read"
      /\ body'[c] \in {"over", "read", "open"}
      /\ body'[c] # "over" => outcome' = outcome
    BY <1>1
<1>9. body'[c] = "open" =>
        /\ text'[c].state = "whole"
        /\ File(c) \notin spoiled =>
                text'[c].changes = IF tool[c] = "write" THEN {c}
                                   ELSE succeeded[File(c)] \cup {c}
    BY <1>1, <1>3, <1>6, <1>7
<1> QED
    BY <1>1, <1>6, <1>8, <1>9, QuietBodyDiskInv

LEMMA MakeDirectoryDiskInv ==
    ASSUME ToolInv, DiskInv, NEW c \in Calls, MakeDirectory(c)
    PROVE  DiskInv'
<1>1. /\ body[c] = "mkdir" /\ tool[c] = "write" /\ AtWork(c) /\ BodyStep(c)
      /\ UNCHANGED <<disk, succeeded, spoiled, outcome>>
      /\ body'[c] \in {"over", "open"}
      /\ \A d \in Calls : d # c => body'[d] = body[d]
      /\ text' = [text EXCEPT ![c] = Whole({c})]
    BY DEF MakeDirectory, Operation, GoesOn, AtWork, BodyStep, ToolInv, DiskInv, TextReady
<1>2. Whole({c}) \in Contents /\ Whole({c}).state = "whole" /\ Whole({c}).changes = {c}
    BY ContentsOf
<1>3. text \in [Calls -> Contents]
    BY DEF DiskInv, DiskType
<1>4. /\ text' \in [Calls -> Contents] /\ text'[c] = Whole({c})
      /\ \A d \in Calls : d # c => text'[d] = text[d]
    BY <1>1, <1>2, <1>3
<1> QED
    BY <1>1, <1>2, <1>4, QuietBodyDiskInv

(* From here on the file is torn, until the text is there. *)
LEMMA OpenDiskInv ==
    ASSUME ToolInv, DiskInv, Exclusive, NEW c \in Calls, Open(c)
    PROVE  DiskInv'
<1>1. /\ body[c] = "open" /\ AtWork(c)
      /\ disk' = [disk EXCEPT ![File(c)] = Torn]
      /\ body'[c] = "fill"
      /\ \A d \in Calls : d # c => body'[d] = body[d]
      /\ UNCHANGED <<queueVars, tool, path, signals, text, outcome, succeeded, spoiled, early>>
    BY DEF Open, Operation, AtWork, ToolInv
<1>2. \A d \in Calls : File(d)' = File(d)
    BY <1>1 DEF File
<1>3. File(c) \in Files
    BY FileIsFile
<1>4. ToolType' /\ DiskType'
    BY <1>1, <1>3, ContentsOf DEF DiskInv, ToolType, DiskType, queueVars
<1>5. OneKey'
    BY <1>1, <1>2 DEF DiskInv, OneKey, InQueue, queueVars
<1>6. CutShortSpoils' /\ UnsettledBefore'
    BY <1>1, <1>2 DEF DiskInv, CutShortSpoils, UnsettledBefore, AtWork, Settled, queueVars
<1>7. TextReady'
    BY <1>1, <1>2 DEF DiskInv, TextReady
<1>8. ASSUME NEW f \in Files \ spoiled
      PROVE  \/ \E d \in Calls : body'[d] = "fill" /\ File(d) = f
             \/ disk'[f].state # "torn" /\ succeeded[f] = disk'[f].changes
    <2>1. CASE f = File(c)
        BY <1>1, <2>1
    <2>2. CASE f # File(c)
        <3>1. disk'[f] = disk[f]
            BY <1>1, <2>2 DEF DiskInv, DiskType
        <3>2. ASSUME NEW d \in Calls, body[d] = "fill", File(d) = f
              PROVE  body'[d] = "fill"
            BY <1>1, <3>2
        <3> QED
            BY <3>1, <3>2 DEF DiskInv, DiskExact
    <2> QED
        BY <2>1, <2>2
<1>9. DiskExact'
    BY <1>1, <1>2, <1>8 DEF DiskExact
<1> QED
    BY <1>4, <1>5, <1>6, <1>7, <1>9 DEF DiskInv

(* The text is there, and if the call is not cut short it is told so. *)
LEMMA FillDiskInv ==
    ASSUME ToolInv, DiskInv, Exclusive, NEW c \in Calls, Fill(c)
    PROVE  DiskInv'
<1>1. /\ body[c] = "fill" /\ AtWork(c)
      /\ disk' = [disk EXCEPT ![File(c)] = text[c]]
      /\ text' = [text EXCEPT ![c] = Missing]
      /\ body'[c] = "over"
      /\ \A d \in Calls : d # c => body'[d] = body[d] /\ outcome'[d] = outcome[d]
      /\ UNCHANGED <<queueVars, tool, path, signals, spoiled, early>>
    BY DEF Fill, Operation, AtWork, ToolInv
<1>2. \A d \in Calls : File(d)' = File(d)
    BY <1>1 DEF File
<1>3. File(c) \in Files /\ text[c] \in Contents /\ text[c].state = "whole"
    BY <1>1, FileIsFile DEF DiskInv, DiskType, TextReady
<1> DEFINE now == IF tool[c] = "write" THEN {c} ELSE succeeded[File(c)] \cup {c}
<1>4. /\ Settled(c) => File(c) \in spoiled
      /\ File(c) \notin spoiled => text[c].changes = now
      /\ now \in SUBSET Calls
    BY <1>1, <1>3 DEF DiskInv, DiskType, CutShortSpoils, TextReady
<1>5. /\ succeeded' = succeeded \/ succeeded' = [succeeded EXCEPT ![File(c)] = now]
      /\ ~Settled(c) => succeeded' = [succeeded EXCEPT ![File(c)] = now]
    BY DEF Fill
<1> HIDE DEF now
<1>6. /\ succeeded' \in [Files -> SUBSET Calls]
      /\ \A f \in Files : f # File(c) => succeeded'[f] = succeeded[f]
      /\ File(c) \notin spoiled => succeeded'[File(c)] = text[c].changes
    BY <1>3, <1>4, <1>5 DEF DiskInv, DiskType
<1>7. ToolType' /\ DiskType'
    BY <1>1, <1>3, <1>6, ContentsOf DEF DiskInv, ToolType, DiskType, queueVars
<1>8. OneKey'
    BY <1>1, <1>2 DEF DiskInv, OneKey, InQueue, queueVars
<1>9. phase[c] \in {"holding", "done"}
    BY <1>1 DEF ToolInv, WorkHolds
<1>10. CutShortSpoils' /\ UnsettledBefore'
    BY <1>1, <1>2, <1>9 DEF DiskInv, CutShortSpoils, UnsettledBefore, AtWork, Settled, queueVars
<1>11. ASSUME NEW d \in Calls, d # c, AtWork(d), File(d) \notin spoiled
       PROVE  File(d) # File(c)
    BY <1>1, <1>11, AloneAtWork
<1>12. ASSUME NEW d \in Calls
       PROVE  /\ body'[d] \in {"access", "read"} => tool'[d] = "edit"
              /\ body'[d] = "mkdir" => tool'[d] = "write"
              /\ body'[d] \in {"open", "fill"} =>
                    /\ text'[d].state = "whole"
                    /\ File(d) \notin spoiled =>
                          text'[d].changes = IF tool[d] = "write" THEN {d}
                                             ELSE succeeded'[File(d)] \cup {d}
    <2>1. CASE d = c
        BY <1>1, <2>1
    <2>2. CASE d # c
        <3>1. text'[d] = text[d] /\ body'[d] = body[d] /\ tool'[d] = tool[d]
            BY <1>1, <2>2 DEF DiskInv, DiskType
        <3>2. body[d] \in {"open", "fill"} /\ File(d) \notin spoiled =>
                  succeeded'[File(d)] = succeeded[File(d)]
            BY <1>6, <1>11, <2>2, FileIsFile DEF AtWork
        <3> QED
            BY <3>1, <3>2 DEF DiskInv, TextReady
    <2> QED
        BY <2>1, <2>2
<1>13. TextReady'
    BY <1>1, <1>2, <1>12 DEF TextReady
<1>14. ASSUME NEW f \in Files \ spoiled
       PROVE  \/ \E d \in Calls : body'[d] = "fill" /\ File(d) = f
              \/ disk'[f].state # "torn" /\ succeeded'[f] = disk'[f].changes
    <2>1. CASE f = File(c)
        BY <1>1, <1>3, <1>6, <2>1 DEF DiskInv, DiskType
    <2>2. CASE f # File(c)
        <3>1. disk'[f] = disk[f] /\ succeeded'[f] = succeeded[f]
            BY <1>1, <1>6, <2>2 DEF DiskInv, DiskType
        <3>2. ASSUME NEW d \in Calls, body[d] = "fill", File(d) = f
              PROVE  body'[d] = "fill"
            BY <1>1, <2>2, <3>2
        <3> QED
            BY <3>1, <3>2 DEF DiskInv, DiskExact
    <2> QED
        BY <2>1, <2>2
<1>15. DiskExact'
    BY <1>1, <1>2, <1>14 DEF DiskExact
<1> QED
    BY <1>7, <1>8, <1>10, <1>13, <1>15 DEF DiskInv

(* An operation that fails: what is torn by then is spoiled. *)
LEMMA FailDiskInv ==
    ASSUME ToolInv, DiskInv, NEW c \in Calls, OperationFails(c)
    PROVE  DiskInv'
<1>1. /\ AtWork(c)
      /\ body'[c] = "over"
      /\ \A d \in Calls : d # c => body'[d] = body[d] /\ outcome'[d] = outcome[d]
      /\ spoiled' = IF body[c] = "fill" THEN spoiled \cup {File(c)} ELSE spoiled
      /\ UNCHANGED <<queueVars, tool, path, signals, disk, text, succeeded, early>>
    BY DEF OperationFails, Operation, Fails, AtWork, ToolInv
<1>2. \A d \in Calls : File(d)' = File(d)
    BY <1>1 DEF File
<1>3. spoiled \subseteq spoiled' /\ spoiled' \subseteq Files
    BY <1>1, FileIsFile DEF DiskInv, DiskType
<1>4. ToolType' /\ DiskType'
    BY <1>1, <1>3 DEF DiskInv, ToolType, DiskType, queueVars
<1>5. OneKey'
    BY <1>1, <1>2, <1>3 DEF DiskInv, OneKey, InQueue, queueVars
<1>6. phase[c] \in {"holding", "done"}
    BY <1>1 DEF ToolInv, WorkHolds
<1>7. CutShortSpoils' /\ UnsettledBefore'
    BY <1>1, <1>2, <1>3, <1>6 DEF DiskInv, CutShortSpoils, UnsettledBefore, AtWork, Settled,
        queueVars
<1>8. TextReady'
    BY <1>1, <1>2, <1>3 DEF DiskInv, TextReady
<1>9. DiskExact'
    BY <1>1, <1>2, <1>3 DEF DiskInv, DiskExact
<1> QED
    BY <1>4, <1>5, <1>7, <1>8, <1>9 DEF DiskInv

LEMMA AbortDiskInv ==
    ASSUME ToolInv, DiskInv, NEW r \in Runs, Abort(r)
    PROVE  DiskInv'
<1>1. /\ UNCHANGED <<queueVars, disk, tool, path, body, text, succeeded, early>>
      /\ signals' = signals \cup {r}
      /\ spoiled' = spoiled \cup {File(c) : c \in {d \in Calls : RunOf[d] = r /\ AtWork(d)
                                                             /\ ~Settled(d)}}
      /\ \A c \in Calls : outcome'[c] = IF RunOf[c] = r /\ AtWork(c) /\ ~Settled(c)
                                        THEN "aborted" ELSE outcome[c]
    BY DEF Abort
<1>2. \A d \in Calls : File(d)' = File(d)
    BY <1>1 DEF File
<1>3. spoiled \subseteq spoiled' /\ spoiled' \subseteq Files
    BY <1>1, FileIsFile DEF DiskInv, DiskType
<1>4. ToolType' /\ DiskType'
    BY <1>1, <1>3 DEF DiskInv, ToolType, DiskType, queueVars
<1>5. OneKey'
    BY <1>1, <1>2, <1>3 DEF DiskInv, OneKey, InQueue, queueVars
<1>6. \A c \in Calls : AtWork(c) => phase[c] \in {"holding", "done"}
    BY DEF ToolInv, WorkHolds
<1>7. UnsettledBefore'
    BY <1>1, <1>6 DEF DiskInv, UnsettledBefore, Settled, queueVars
<1>8. CutShortSpoils'
    BY <1>1, <1>2, <1>3 DEF DiskInv, CutShortSpoils, AtWork, Settled
<1>9. TextReady'
    BY <1>1, <1>2, <1>3 DEF DiskInv, TextReady
<1>10. DiskExact'
    BY <1>1, <1>2, <1>3 DEF DiskInv, DiskExact
<1> QED
    BY <1>4, <1>5, <1>7, <1>8, <1>9, <1>10 DEF DiskInv

(* Every step of the tools preserves what is known of the files. *)
LEMMA NextDiskInv ==
    ToolInv /\ QueueTypeOK' /\ Exclusive /\ DiskInv /\ [Next]_vars => DiskInv'
<1> SUFFICES ASSUME ToolInv, QueueTypeOK', Exclusive, DiskInv, [Next]_vars PROVE DiskInv'
    OBVIOUS
<1>1. ASSUME NEW c \in Calls, NEW p \in Keys, NEW t \in {"edit", "write"}, Execute(c, p, t)
      PROVE  DiskInv'
    BY <1>1, ExecuteDiskInv
<1>2. ASSUME NEW c \in Calls, Begin(c) \/ Return(c) PROVE DiskInv'
    BY <1>2, BeginDiskInv, ReturnDiskInv
<1>3. ASSUME NEW c \in Calls, BodyStep(c) PROVE DiskInv'
    BY <1>3, AccessDiskInv, ReadDiskInv, MakeDirectoryDiskInv, OpenDiskInv, FillDiskInv,
       FailDiskInv DEF BodyStep
<1>4. ASSUME NEW r \in Runs, Abort(r) PROVE DiskInv'
    BY <1>4, AbortDiskInv
<1>5. CASE UNCHANGED vars
    BY <1>5 DEF vars, toolVars, queueVars, DiskInv, ToolType, DiskType, OneKey, InQueue,
        CutShortSpoils, UnsettledBefore, TextReady, DiskExact, AtWork, Settled, File
<1> QED
    BY <1>1, <1>2, <1>3, <1>4, <1>5 DEF Next

LEMMA DiskInvKept == DiskInv => ChangesKept
BY DEF DiskInv, DiskExact, ChangesKept, AtWork

LEMMA InvsTypeOK == ToolInv /\ DiskInv => TypeOK
<1> SUFFICES ASSUME ToolInv, DiskInv PROVE TypeOK
    OBVIOUS
<1>1. \A c \in Calls : body[c] \in {"open", "fill"} => text[c] # Missing
    BY ContentsOf DEF DiskInv, TextReady
<1> QED
    BY <1>1 DEF ToolInv, DiskInv, ToolType, DiskType, TypeOK, Bodies, Outcomes

(* What the tools did to the files, for any calls, paths, links and runs.  *)
LEMMA ToolsKnown == Spec => [](ToolInv /\ DiskInv)
<1>1. Spec => []QueueTypeOK
    BY ToolsImplementQueue, QueueTypeCorrect, PTL DEF ImplementsQueue
<1>2. Spec => []ToolInv
    BY <1>1, InitToolInv, NextToolInv, PTL DEF Spec
<1> QED
    BY <1>1, <1>2, ToolsExclusive, InitDiskInv, NextDiskInv, PTL DEF Spec

(* The state of the tools stays well-typed, and no body writes before it   *)
(* has a text.                                                             *)
THEOREM ToolsTypeCorrect == Spec => []TypeOK
BY ToolsKnown, InvsTypeOK, PTL

(* edit and write keep each other's changes: unless a call was cut short   *)
(* or two queues served one file, a file at rest is whole and holds the    *)
(* last text written and every edit since that was reported.               *)
THEOREM ToolsKeepChanges == Spec => []ChangesKept
BY ToolsKnown, DiskInvKept, PTL
=============================================================================

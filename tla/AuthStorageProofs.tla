------------------------- MODULE AuthStorageProofs -------------------------
(***************************************************************************)
(* For any processes, calls, providers and credentials: unless the lock    *)
(* was taken from a live process, one token is refreshed at a time, on     *)
(* what the file holds, no refresh token is spent twice, and no change of  *)
(* the file is lost.                                                       *)
(***************************************************************************)
EXTENDS AuthStorage, FiniteSetTheorems, TLAPS

Contents == [Providers -> Credentials]
CallType ==
    [at : {"idle", "waiting", "refreshing", "done", "failed", "reload"},
     of : Providers \cup {"nothing"}, read : Contents, compromised : BOOLEAN]
LockType ==
    [holder : {"nobody", "call", "dead"}, by : Calls \cup {"nobody"},
     age : {"young", "aging", "old"}]

(* The state but for the calls and the lock *)
StoreType ==
    /\ file \in Contents /\ should \in Contents
    /\ broken \in BOOLEAN
    /\ up \in [Processes -> BOOLEAN]
    /\ data \in [Processes -> Contents]
    /\ loadError \in [Processes -> BOOLEAN]
    /\ made \in Ids /\ expired \subseteq Ids /\ spent \subseteq Ids /\ orphaned \subseteq Ids
    /\ taken \in BOOLEAN /\ torn \in BOOLEAN

(* A call that has, or had, the lock *)
Active(c) == call[c].at \in {"refreshing", "done", "failed"}

(* A live holder keeps its lock from getting old. *)
LiveRenewed == lock.holder = "call" => lock.age # "old"

(* A call is for a provider, what it sent is a token's, and before it has  *)
(* the lock nothing tells it that the lock is lost.                        *)
CallKnown ==
    \A c \in Calls :
        /\ call[c].at # "idle" => call[c].of \in Providers
        /\ call[c].at = "refreshing" => call[c].read[call[c].of].id \in Ids
        /\ call[c].at = "waiting" => ~call[c].compromised

(* If no lock was taken, a call at work has it. *)
LockKnown ==
    taken \/ \A c \in Calls :
        Active(c) => ~call[c].compromised /\ lock.holder = "call" /\ lock.by = c

(* Only a process that dies in a write leaves a file that does not parse. *)
TornKnown == broken => torn

IInv ==
    /\ StoreType /\ call \in [Calls -> CallType] /\ lock \in LockType
    /\ LiveRenewed /\ CallKnown /\ LockKnown
    /\ TornKnown /\ SnapshotCurrent /\ NoChangeLost

-----------------------------------------------------------------------------
(* Types of the parts *)

LEMMA EmptyType == Empty \in Contents /\ None \in Credentials
BY DEF Empty, Contents, Credentials

LEMMA CredentialType ==
    ASSUME NEW kind \in {"key", "oauth"}, NEW n \in Ids
    PROVE  /\ Credential(kind, n) \in Credentials
           /\ Credential(kind, n).kind = kind /\ Credential(kind, n).id = n
BY DEF Credentials, Credential

LEMMA NoCallType ==
    /\ NoCall \in CallType
    /\ \A q \in Providers : [NoCall EXCEPT !.at = "waiting", !.of = q] \in CallType
BY EmptyType DEF NoCall, CallType

LEMMA LocksType ==
    /\ Free \in LockType /\ Left \in LockType
    /\ \A c \in Calls : Held(c) \in LockType
BY DEF Free, Left, Held, LockType

LEMMA PartsAreTypes == IInv => TypeOK
BY DEF IInv, TypeOK, StoreType, CallType, LockType, Contents

LEMMA NextId ==
    ASSUME made \in Ids, made < MaxIds
    PROVE  made + 1 \in Ids
BY AuthAssumption DEF Ids

(* The synchronous lock: its type, and what it means if it was not taken. *)
LEMMA SyncLock ==
    ASSUME IInv, WithLock \/ Locked \/ UNCHANGED <<lock, taken>>
    PROVE  /\ lock' \in LockType /\ taken' \in BOOLEAN
           /\ (taken => taken')
           /\ lock'.holder = "call" => lock' = lock
           /\ ~taken' /\ lock.holder = "call" => lock' = lock
<1>1. lock \in LockType /\ taken \in BOOLEAN
    BY DEF IInv, StoreType
<1>2. CASE WithLock
    BY <1>1, <1>2, LocksType DEF WithLock, Free
<1>3. CASE Locked \/ UNCHANGED <<lock, taken>>
    BY <1>1, <1>3 DEF Locked
<1> QED
    BY <1>2, <1>3

-----------------------------------------------------------------------------
(* What the kinds of steps keep *)

(* Nobody refreshes while no call has the lock. *)
LEMMA NobodyRefreshes ==
    ASSUME IInv, ~taken, lock.holder # "call"
    PROVE  Refreshing = {} /\ \A c \in Calls : ~Active(c)
BY DEF IInv, LockKnown, Active, Refreshing

(* A step that leaves the calls alone, and takes the lock at most as a     *)
(* synchronous one                                                         *)
LEMMA CallsStay ==
    ASSUME IInv, call' = call, WithLock \/ Locked \/ UNCHANGED <<lock, taken>>
    PROVE  /\ call' \in [Calls -> CallType] /\ lock' \in LockType
           /\ LiveRenewed' /\ CallKnown' /\ LockKnown'
<1>1. /\ lock' \in LockType /\ (taken => taken')
      /\ lock'.holder = "call" => lock' = lock
      /\ ~taken' /\ lock.holder = "call" => lock' = lock
    BY SyncLock
<1>2. call' \in [Calls -> CallType] /\ CallKnown'
    BY DEF IInv, CallKnown
<1>3. LiveRenewed'
    BY <1>1 DEF IInv, LiveRenewed
<1>4. LockKnown'
  <2> SUFFICES ASSUME ~taken', NEW c \in Calls, Active(c)
               PROVE  ~call[c].compromised /\ lock'.holder = "call" /\ lock'.by = c
      BY DEF LockKnown, Active
  <2>1. ~taken
      BY <1>1
  <2>2. ~call[c].compromised /\ lock.holder = "call" /\ lock.by = c
      BY <2>1 DEF IInv, LockKnown
  <2>3. lock' = lock
      BY <1>1, <2>2
  <2> QED
      BY <2>2, <2>3
<1> QED
    BY <1>1, <1>2, <1>3, <1>4

(* A step that leaves the file alone and starts no refresh *)
LEMMA FileStays ==
    ASSUME IInv, UNCHANGED <<file, broken, should>>, taken => taken', torn => torn',
           \A c \in Calls : call'[c].at = "refreshing" => call'[c] = call[c]
    PROVE  TornKnown' /\ SnapshotCurrent' /\ NoChangeLost'
<1>1. TornKnown' /\ NoChangeLost'
    BY DEF IInv, TornKnown, NoChangeLost
<1>2. SnapshotCurrent'
  <2> SUFFICES ASSUME ~taken, ~torn, NEW c \in Calls, call'[c].at = "refreshing"
               PROVE  call'[c].read = file
      BY DEF SnapshotCurrent, Refreshing
  <2> QED
      BY DEF IInv, SnapshotCurrent, Refreshing
<1> QED
    BY <1>1, <1>2

(* One call moves on: the others, and the lock if they have it, stay.      *)
LEMMA OneCall ==
    ASSUME IInv, NEW c \in Calls, NEW to \in CallType, call' = [call EXCEPT ![c] = to],
           to.at # "idle" => to.of \in Providers,
           to.at = "refreshing" => to.read[to.of].id \in Ids,
           to.at = "waiting" => ~to.compromised
    PROVE  /\ call' \in [Calls -> CallType] /\ CallKnown'
           /\ call'[c] = to /\ \A d \in Calls \ {c} : call'[d] = call[d]
<1>1. call \in [Calls -> CallType]
    BY DEF IInv
<1>2. call' \in [Calls -> CallType]
    BY <1>1
<1>3. call'[c] = to /\ \A d \in Calls \ {c} : call'[d] = call[d]
    BY <1>1
<1>4. CallKnown'
  <2> SUFFICES ASSUME NEW d \in Calls
               PROVE  /\ call'[d].at # "idle" => call'[d].of \in Providers
                      /\ call'[d].at = "refreshing" => call'[d].read[call'[d].of].id \in Ids
                      /\ call'[d].at = "waiting" => ~call'[d].compromised
      BY DEF CallKnown
  <2>1. CASE d = c
      BY <2>1, <1>3
  <2>2. CASE d # c
      BY <2>2, <1>3 DEF IInv, CallKnown
  <2> QED
      BY <2>1, <2>2
<1> QED
    BY <1>2, <1>3, <1>4

LEMMA ReloadTypes ==
    ASSUME IInv, NEW p \in Processes, NEW known \in Contents, ReloadFrom(p, known)
    PROVE  /\ data' \in [Processes -> Contents] /\ loadError' \in [Processes -> BOOLEAN]
           /\ WithLock \/ Locked
<1> DEFINE loaded == FreeForSync /\ ~broken
           found == IF loaded THEN file ELSE known
           failed == ~loaded
<1>1. /\ data' = [data EXCEPT ![p] = found] /\ loadError' = [loadError EXCEPT ![p] = failed]
      /\ WithLock \/ Locked
    BY DEF ReloadFrom
<1>2. StoreType
    BY DEF IInv
<1>3. found \in Contents
    BY <1>2 DEF StoreType
<1>4. failed \in BOOLEAN
    OBVIOUS
<1> HIDE DEF found, failed, loaded
<1> QED
    BY <1>1, <1>2, <1>3, <1>4 DEF StoreType

-----------------------------------------------------------------------------
(* The actions *)

LEMMA AgeIInv ==
    ASSUME IInv, Age
    PROVE  IInv'
<1>1. UNCHANGED <<file, broken, up, data, loadError, call, made, expired, should, spent,
                  orphaned, taken, torn>>
    BY DEF Age, history
<1>2. /\ lock \in LockType
      /\ \/ lock' = [lock EXCEPT !.age = "aging"]
         \/ lock.holder = "dead" /\ lock' = [lock EXCEPT !.age = "old"]
    BY DEF IInv, Age
<1>3. /\ lock' \in LockType /\ lock'.holder = lock.holder /\ lock'.by = lock.by
      /\ lock.holder = "call" => lock'.age # "old"
    BY <1>2 DEF LockType
<1>4. StoreType' /\ call' \in [Calls -> CallType]
    BY <1>1 DEF IInv, StoreType
<1>5. LiveRenewed' /\ CallKnown' /\ LockKnown'
    BY <1>1, <1>3 DEF IInv, LiveRenewed, CallKnown, LockKnown, Active
<1>6. TornKnown' /\ SnapshotCurrent' /\ NoChangeLost'
    BY <1>1, FileStays
<1> QED
    BY <1>3, <1>4, <1>5, <1>6 DEF IInv

LEMMA RenewIInv ==
    ASSUME IInv, NEW c \in Calls, Renew(c)
    PROVE  IInv'
<1>1. /\ UNCHANGED <<file, broken, up, data, loadError, made, expired, should, spent,
                     orphaned, taken, torn>>
      /\ Active(c)
    BY DEF Renew, history, Active
<1>2. StoreType' /\ call \in [Calls -> CallType] /\ lock \in LockType
    BY <1>1 DEF IInv, StoreType
<1>3. CASE lock.holder = "call" /\ lock.by = c
  <2>1. call' = call /\ lock' = [lock EXCEPT !.age = "young"]
      BY <1>3 DEF Renew
  <2>2. /\ lock' \in LockType /\ lock'.holder = lock.holder /\ lock'.by = lock.by
        /\ lock'.age = "young"
      BY <1>2, <2>1 DEF LockType
  <2>3. LiveRenewed' /\ CallKnown' /\ LockKnown'
      BY <1>1, <2>1, <2>2 DEF IInv, LiveRenewed, CallKnown, LockKnown, Active
  <2>4. TornKnown' /\ SnapshotCurrent' /\ NoChangeLost'
      BY <1>1, <2>1, FileStays
  <2> QED
      BY <1>2, <2>1, <2>2, <2>3, <2>4 DEF IInv
<1>4. CASE ~(lock.holder = "call" /\ lock.by = c)
  <2> DEFINE to == [call[c] EXCEPT !.compromised = TRUE]
  <2>1. call' = [call EXCEPT ![c] = to] /\ lock' = lock
      BY <1>4 DEF Renew
  <2>2. /\ to \in CallType /\ to.at = call[c].at /\ to.of = call[c].of
        /\ to.read = call[c].read
      BY <1>2 DEF CallType
  <2>3. /\ to.at # "idle" => to.of \in Providers
        /\ to.at = "refreshing" => to.read[to.of].id \in Ids
        /\ to.at # "waiting"
      BY <1>1, <2>2 DEF IInv, CallKnown, Active
  <2> HIDE DEF to
  <2>4. call' \in [Calls -> CallType] /\ CallKnown'
      BY <2>1, <2>2, <2>3, OneCall
  <2>5. taken
      BY <1>1, <1>4 DEF IInv, LockKnown
  <2>6. LiveRenewed' /\ LockKnown' /\ TornKnown' /\ SnapshotCurrent' /\ NoChangeLost'
      BY <1>1, <2>1, <2>5 DEF IInv, LiveRenewed, LockKnown, TornKnown, SnapshotCurrent,
         NoChangeLost
  <2> QED
      BY <1>2, <2>1, <2>4, <2>6 DEF IInv
<1> QED
    BY <1>3, <1>4

LEMMA LoadIInv ==
    ASSUME IInv, NEW p \in Processes, Launch(p) \/ Reload(p)
    PROVE  IInv'
<1>1. /\ UNCHANGED <<file, broken, call, made, expired, should, spent, orphaned, torn>>
      /\ up' = up \/ up' = [up EXCEPT ![p] = TRUE]
      /\ \E known \in Contents : ReloadFrom(p, known)
    BY EmptyType DEF Launch, Reload, IInv, StoreType
<1>2. PICK known \in Contents : ReloadFrom(p, known)
    BY <1>1
<1>3. /\ data' \in [Processes -> Contents] /\ loadError' \in [Processes -> BOOLEAN]
      /\ WithLock \/ Locked
    BY <1>2, ReloadTypes
<1>4. taken' \in BOOLEAN /\ (taken => taken')
    BY <1>3, SyncLock
<1>5. StoreType'
    BY <1>1, <1>3, <1>4 DEF IInv, StoreType
<1>6. /\ call' \in [Calls -> CallType] /\ lock' \in LockType
      /\ LiveRenewed' /\ CallKnown' /\ LockKnown'
    BY <1>1, <1>3, CallsStay
<1>7. TornKnown' /\ SnapshotCurrent' /\ NoChangeLost'
    BY <1>1, <1>4, FileStays
<1> QED
    BY <1>5, <1>6, <1>7 DEF IInv

(* A change is made to the file as it is, when no call has the lock. *)
LEMMA ChangeIInv ==
    ASSUME IInv, NEW p \in Processes, NEW q \in Providers, NEW k \in Credentials,
           Change(p, q, k), made' \in Ids
    PROVE  IInv'
<1>1. /\ UNCHANGED <<broken, up, loadError, call, expired, spent, orphaned, torn>>
      /\ data' = [data EXCEPT ![p][q] = k]
      /\ WithLock \/ Locked \/ UNCHANGED <<lock, taken>>
    BY DEF Change, PersistProviderChange
<1>2. \/ UNCHANGED <<file, should>>
      \/ WithLock /\ file' = [file EXCEPT ![q] = k] /\ should' = [should EXCEPT ![q] = k]
    BY DEF Change, PersistProviderChange, Merged, Locked
<1>3. taken' \in BOOLEAN /\ (taken => taken')
    BY <1>1, SyncLock
<1>4. data' \in [Processes -> Contents] /\ file' \in Contents /\ should' \in Contents
    BY <1>1, <1>2 DEF IInv, StoreType, Contents
<1>5. StoreType'
    BY <1>1, <1>3, <1>4 DEF IInv, StoreType
<1>6. /\ call' \in [Calls -> CallType] /\ lock' \in LockType
      /\ LiveRenewed' /\ CallKnown' /\ LockKnown'
    BY <1>1, CallsStay
<1>7. CASE UNCHANGED <<file, should>>
  <2>1. TornKnown' /\ SnapshotCurrent' /\ NoChangeLost'
      BY <1>1, <1>3, <1>7, FileStays
  <2> QED
      BY <1>5, <1>6, <2>1 DEF IInv
<1>8. CASE /\ WithLock /\ file' = [file EXCEPT ![q] = k] /\ should' = [should EXCEPT ![q] = k]
  <2>1. TornKnown' /\ NoChangeLost'
      BY <1>1, <1>3, <1>8 DEF IInv, TornKnown, NoChangeLost
  <2>2. taken' \/ Refreshing = {}
      BY <1>3, <1>8, NobodyRefreshes DEF WithLock
  <2>3. Refreshing' = Refreshing
      BY <1>1 DEF Refreshing
  <2>4. SnapshotCurrent'
      BY <2>2, <2>3 DEF SnapshotCurrent
  <2> QED
      BY <1>5, <1>6, <2>1, <2>4 DEF IInv
<1> QED
    BY <1>2, <1>7, <1>8

LEMMA SetIInv ==
    ASSUME IInv, NEW p \in Processes, NEW q \in Providers, NEW kind \in {"key", "oauth"},
           Set(p, q, kind)
    PROVE  IInv'
<1>1. made \in Ids /\ made < MaxIds /\ made' = made + 1
    BY DEF Set, IInv, StoreType
<1>2. made + 1 \in Ids
    BY <1>1, NextId
<1>3. Credential(kind, made + 1) \in Credentials
    BY <1>2, CredentialType
<1> QED
    BY <1>1, <1>2, <1>3, ChangeIInv DEF Set

LEMMA RemoveIInv ==
    ASSUME IInv, NEW p \in Processes, NEW q \in Providers, Remove(p, q)
    PROVE  IInv'
BY EmptyType, ChangeIInv DEF Remove, IInv, StoreType

LEMMA GetApiKeyIInv ==
    ASSUME IInv, NEW c \in Calls, NEW q \in Providers, GetApiKey(c, q)
    PROVE  IInv'
<1> DEFINE to == [NoCall EXCEPT !.at = "waiting", !.of = q]
<1>1. /\ UNCHANGED <<file, broken, lock, up, data, loadError, made, expired, should, spent,
                     orphaned, taken, torn>>
      /\ call' = [call EXCEPT ![c] = to] /\ call[c].at = "idle"
    BY DEF GetApiKey, history
<1>2. to \in CallType /\ to.at = "waiting" /\ to.of = q /\ ~to.compromised
    BY NoCallType DEF NoCall
<1> HIDE DEF to
<1>3. StoreType' /\ lock' \in LockType /\ LiveRenewed'
    BY <1>1 DEF IInv, StoreType, LiveRenewed
<1>4. /\ call' \in [Calls -> CallType] /\ CallKnown'
      /\ call'[c] = to /\ \A d \in Calls \ {c} : call'[d] = call[d]
    BY <1>1, <1>2, OneCall
<1>5. \A d \in Calls : Active(d)' => Active(d) /\ call'[d] = call[d]
    BY <1>2, <1>4 DEF Active
<1>6. LockKnown'
    BY <1>1, <1>5 DEF IInv, LockKnown
<1>7. \A d \in Calls : call'[d].at = "refreshing" => call'[d] = call[d]
    BY <1>2, <1>4
<1>8. TornKnown' /\ SnapshotCurrent' /\ NoChangeLost'
    BY <1>1, <1>7, FileStays
<1> QED
    BY <1>3, <1>4, <1>6, <1>8 DEF IInv

(* The lock is free, so no other call is at work. *)
LEMMA BeginIInv ==
    ASSUME IInv, NEW c \in Calls, Begin(c)
    PROVE  IInv'
<1> DEFINE q == call[c].of
           k == file[q]
           p == By[c]
           sent == [call[c] EXCEPT !.at = "refreshing", !.read = file]
           to(at) == [call[c] EXCEPT !.at = at]
<1>1. /\ call[c].at = "waiting" /\ FreeForAsync /\ lock' = Held(c)
      /\ UNCHANGED <<file, broken, up, made, expired, should, orphaned, taken, torn>>
      /\ \/ UNCHANGED <<data, loadError>>
         \/ /\ data' = [data EXCEPT ![p] = file]
            /\ loadError' = [loadError EXCEPT ![p] = FALSE]
      /\ \/ spent' = spent /\ call' = [call EXCEPT ![c] = to("failed")]
         \/ spent' = spent /\ call' = [call EXCEPT ![c] = to("done")]
         \/ /\ ~broken /\ Expired(k) /\ spent' = spent \cup {k.id}
            /\ call' = [call EXCEPT ![c] = sent]
    BY DEF Begin, Current
<1>2. /\ StoreType /\ call[c] \in CallType /\ q \in Providers /\ ~call[c].compromised
      /\ file \in Contents
    BY <1>1 DEF IInv, CallKnown, StoreType
<1>3. Expired(k) => k.id \in Ids
    BY <1>2 DEF Expired, StoreType
<1>4. /\ sent \in CallType /\ sent.at = "refreshing" /\ sent.of = q /\ sent.read = file
      /\ ~sent.compromised
    BY <1>2 DEF CallType
<1>5. \A at \in {"failed", "done"} :
          to(at) \in CallType /\ to(at).at = at /\ to(at).of = q /\ ~to(at).compromised
    BY <1>2 DEF CallType
<1> HIDE DEF k, q, sent, to
<1>6. StoreType'
  <2>1. p \in Processes
      BY AuthAssumption
  <2>2. data' \in [Processes -> Contents] /\ loadError' \in [Processes -> BOOLEAN]
      BY <1>1, <1>2, <2>1 DEF StoreType
  <2>3. spent' \subseteq Ids
      BY <1>1, <1>2, <1>3 DEF StoreType
  <2> QED
      BY <1>1, <1>2, <2>2, <2>3 DEF StoreType
<1>7. lock' \in LockType /\ LiveRenewed' /\ lock'.holder = "call" /\ lock'.by = c
    BY <1>1, LocksType DEF Held, LiveRenewed
<1>8. lock.holder # "call"
    BY <1>1 DEF FreeForAsync, IInv, LiveRenewed
<1>9. ASSUME NEW rec \in CallType, call' = [call EXCEPT ![c] = rec], rec.of = q,
             ~rec.compromised, rec.at \in {"failed", "done", "refreshing"},
             rec.at = "refreshing" => rec = sent /\ Expired(k)
      PROVE  IInv'
  <2>1. rec.at = "refreshing" => rec.read[rec.of].id \in Ids
      BY <1>3, <1>4, <1>9 DEF k
  <2>2. /\ call' \in [Calls -> CallType] /\ CallKnown'
        /\ call'[c] = rec /\ \A d \in Calls \ {c} : call'[d] = call[d]
      BY <1>2, <1>9, <2>1, OneCall
  <2>3. LockKnown'
    <3> SUFFICES ASSUME ~taken, NEW d \in Calls, Active(d)'
                 PROVE  ~call'[d].compromised /\ lock'.holder = "call" /\ lock'.by = d
        BY <1>1 DEF LockKnown
    <3>1. d = c
        BY <1>8, <2>2, NobodyRefreshes DEF Active
    <3> QED
        BY <1>7, <1>9, <2>2, <3>1
  <2>4. SnapshotCurrent'
    <3> SUFFICES ASSUME ~taken, ~torn, NEW d \in Calls, call'[d].at = "refreshing"
                 PROVE  call'[d].read = file
        BY <1>1 DEF SnapshotCurrent, Refreshing
    <3>1. CASE d = c
        BY <1>4, <1>9, <2>2, <3>1
    <3>2. CASE d # c
        BY <1>8, <2>2, <3>2, NobodyRefreshes DEF Active
    <3> QED
        BY <3>1, <3>2
  <2>5. TornKnown' /\ NoChangeLost'
      BY <1>1 DEF IInv, TornKnown, NoChangeLost
  <2> QED
      BY <1>6, <1>7, <2>2, <2>3, <2>4, <2>5 DEF IInv
<1> QED
    BY <1>1, <1>4, <1>5, <1>9

(* A request that ends: the call keeps the lock, and refreshes no more. *)
LEMMA EndedKeeps ==
    ASSUME IInv, NEW c \in Calls, NEW at \in {"done", "failed"}, call[c].at = "refreshing",
           call' = Ended(c, at), UNCHANGED <<lock, taken>>
    PROVE  /\ call' \in [Calls -> CallType] /\ CallKnown' /\ LockKnown'
           /\ lock' \in LockType /\ LiveRenewed'
           /\ \A d \in Calls : call'[d].at = "refreshing" => call'[d] = call[d] /\ d # c
<1> DEFINE to == [call[c] EXCEPT !.at = at, !.read = Empty]
<1>1. call' = [call EXCEPT ![c] = to]
    BY DEF Ended
<1>2. /\ to \in CallType /\ to.at = at /\ to.of = call[c].of /\ to.of \in Providers
      /\ to.compromised = call[c].compromised
    BY EmptyType DEF IInv, CallType, CallKnown
<1> HIDE DEF to
<1>3. /\ call' \in [Calls -> CallType] /\ CallKnown'
      /\ call'[c] = to /\ \A d \in Calls \ {c} : call'[d] = call[d]
    BY <1>1, <1>2, OneCall
<1>4. \A d \in Calls : Active(d)' => Active(d) /\ call'[d].compromised = call[d].compromised
    BY <1>2, <1>3 DEF Active
<1>5. LockKnown'
    BY <1>4 DEF IInv, LockKnown
<1>6. \A d \in Calls : call'[d].at = "refreshing" => call'[d] = call[d] /\ d # c
    BY <1>2, <1>3
<1> QED
    BY <1>3, <1>5, <1>6 DEF IInv, LiveRenewed

(* What is written back is what was read, but for the new token. *)
LEMMA AnswerIInv ==
    ASSUME IInv, NEW c \in Calls, Answer(c)
    PROVE  IInv'
<1> DEFINE q == call[c].of
           p == By[c]
           old == call[c].read[q].id
           k == Credential("oauth", made + 1)
           merged == [call[c].read EXCEPT ![q] = k]
<1>1. /\ call[c].at = "refreshing" /\ made < MaxIds /\ made' = made + 1
      /\ data' = [data EXCEPT ![p] = merged]
      /\ loadError' = [loadError EXCEPT ![p] = FALSE]
      /\ UNCHANGED <<lock, up, expired, spent, taken, torn>>
      /\ \/ /\ call[c].compromised /\ call' = Ended(c, "failed")
            /\ orphaned' = orphaned \cup {old}
            /\ UNCHANGED <<file, broken, should>>
         \/ /\ call' = Ended(c, "done") /\ UNCHANGED orphaned
            /\ file' = merged /\ broken' = FALSE /\ should' = [should EXCEPT ![q] = k]
    BY DEF Answer
<1>2. /\ StoreType /\ q \in Providers /\ old \in Ids /\ call[c].read \in Contents
      /\ made + 1 \in Ids /\ p \in Processes
    BY <1>1, NextId, AuthAssumption DEF IInv, CallKnown, StoreType, CallType
<1>3. k \in Credentials
    BY <1>2, CredentialType
<1> HIDE DEF k
<1>4. merged \in Contents
    BY <1>2, <1>3 DEF Contents
<1>5. StoreType'
  <2>1. data' \in [Processes -> Contents] /\ loadError' \in [Processes -> BOOLEAN]
    <3> HIDE DEF merged, p
    <3> QED
        BY <1>1, <1>2, <1>4 DEF StoreType
  <2>2. should' \in Contents
      BY <1>1, <1>2, <1>3 DEF StoreType, Contents
  <2>3. file' \in Contents /\ broken' \in BOOLEAN
    <3> HIDE DEF merged
    <3> QED
        BY <1>1, <1>2, <1>4 DEF StoreType
  <2>4. orphaned' \subseteq Ids
    <3> HIDE DEF old
    <3> QED
        BY <1>1, <1>2 DEF StoreType
  <2>5. made' \in Ids
      BY <1>1, <1>2
  <2> QED
      BY <1>1, <1>2, <2>1, <2>2, <2>3, <2>4, <2>5 DEF StoreType
<1>6. /\ call' \in [Calls -> CallType] /\ CallKnown' /\ LockKnown'
      /\ lock' \in LockType /\ LiveRenewed'
      /\ \A d \in Calls : call'[d].at = "refreshing" => call'[d] = call[d] /\ d # c
    BY <1>1, EndedKeeps
<1>7. CASE UNCHANGED <<file, broken, should>>
  <2>1. TornKnown' /\ SnapshotCurrent' /\ NoChangeLost'
      BY <1>1, <1>6, <1>7, FileStays
  <2> QED
      BY <1>5, <1>6, <2>1 DEF IInv
<1>8. CASE file' = merged /\ broken' = FALSE /\ should' = [should EXCEPT ![q] = k]
  <2>1. TornKnown'
      BY <1>8 DEF TornKnown
  <2>2. NoChangeLost'
    <3> SUFFICES ASSUME ~taken, ~torn PROVE file' = should'
        BY <1>1 DEF NoChangeLost
    <3>1. call[c].read = file /\ file = should
        BY <1>1 DEF IInv, SnapshotCurrent, NoChangeLost, Refreshing
    <3> QED
        BY <1>8, <3>1
  <2>3. SnapshotCurrent'
    <3> SUFFICES ASSUME ~taken, NEW d \in Calls, call'[d].at = "refreshing"
                 PROVE  FALSE
        BY <1>1 DEF SnapshotCurrent, Refreshing
    <3>1. call[d].at = "refreshing" /\ d # c
        BY <1>6
    <3> QED
        BY <1>1, <3>1 DEF IInv, LockKnown, Active
  <2> QED
      BY <1>5, <1>6, <2>1, <2>2, <2>3 DEF IInv
<1> QED
    BY <1>1, <1>7, <1>8

LEMMA RefuseIInv ==
    ASSUME IInv, NEW c \in Calls, Refuse(c)
    PROVE  IInv'
<1> DEFINE old == call[c].read[call[c].of].id
<1>1. /\ call[c].at = "refreshing" /\ call' = Ended(c, "failed")
      /\ orphaned' = orphaned \cup {old}
      /\ UNCHANGED <<file, broken, lock, up, data, loadError, made, expired, should, spent,
                     taken, torn>>
    BY DEF Refuse
<1>2. old \in Ids
    BY <1>1 DEF IInv, CallKnown
<1> HIDE DEF old
<1>3. StoreType'
    BY <1>1, <1>2 DEF IInv, StoreType
<1>4. /\ call' \in [Calls -> CallType] /\ CallKnown' /\ LockKnown'
      /\ lock' \in LockType /\ LiveRenewed'
      /\ \A d \in Calls : call'[d].at = "refreshing" => call'[d] = call[d] /\ d # c
    BY <1>1, EndedKeeps
<1>5. TornKnown' /\ SnapshotCurrent' /\ NoChangeLost'
    BY <1>1, <1>4, FileStays
<1> QED
    BY <1>3, <1>4, <1>5 DEF IInv

(* The lock's directory goes; if none was taken it was this call's. *)
LEMMA ReleaseIInv ==
    ASSUME IInv, NEW c \in Calls, Release(c)
    PROVE  IInv'
<1> DEFINE moved == [call[c] EXCEPT !.at = "reload"]
           to == IF call[c].at = "done" THEN NoCall ELSE moved
<1>1. /\ call[c].at \in {"done", "failed"}
      /\ lock' = IF call[c].compromised THEN lock ELSE Free
      /\ call' = [call EXCEPT ![c] = to]
      /\ UNCHANGED <<file, broken, up, data, loadError, made, expired, should, spent, orphaned,
                     taken, torn>>
    BY DEF Release, Released, history
<1>2. /\ moved \in CallType /\ moved.at = "reload" /\ moved.of \in Providers
    BY <1>1 DEF IInv, CallType, CallKnown
<1>3. to \in CallType /\ to.at \in {"idle", "reload"} /\ (to.at # "idle" => to.of \in Providers)
    BY <1>2, NoCallType DEF NoCall
<1> HIDE DEF to
<1>4. /\ call' \in [Calls -> CallType] /\ CallKnown'
      /\ call'[c] = to /\ \A d \in Calls \ {c} : call'[d] = call[d]
    BY <1>1, <1>3, OneCall
<1>5. StoreType' /\ lock' \in LockType /\ LiveRenewed'
    BY <1>1, LocksType DEF IInv, StoreType, LiveRenewed, Free
<1>6. LockKnown'
  <2> SUFFICES ASSUME ~taken, NEW d \in Calls, Active(d)'
               PROVE  FALSE
      BY <1>1 DEF LockKnown
  <2>1. d # c /\ Active(d)
      BY <1>3, <1>4 DEF Active
  <2> QED
      BY <1>1, <2>1 DEF IInv, LockKnown, Active
<1>7. \A d \in Calls : call'[d].at = "refreshing" => call'[d] = call[d]
    BY <1>3, <1>4
<1>8. TornKnown' /\ SnapshotCurrent' /\ NoChangeLost'
    BY <1>1, <1>7, FileStays
<1> QED
    BY <1>4, <1>5, <1>6, <1>8 DEF IInv

LEMMA FallbackIInv ==
    ASSUME IInv, NEW c \in Calls, Fallback(c)
    PROVE  IInv'
<1>1. /\ call[c].at \in {"reload", "waiting"}
      /\ ReloadFrom(By[c], data[By[c]]) /\ call' = [call EXCEPT ![c] = NoCall]
      /\ UNCHANGED <<file, broken, up, made, expired, should, spent, orphaned, torn>>
    BY DEF Fallback
<1>2. By[c] \in Processes /\ data[By[c]] \in Contents
    BY AuthAssumption DEF IInv, StoreType
<1>3. /\ data' \in [Processes -> Contents] /\ loadError' \in [Processes -> BOOLEAN]
      /\ WithLock \/ Locked
    BY <1>1, <1>2, ReloadTypes
<1>4. /\ lock' \in LockType /\ taken' \in BOOLEAN
      /\ (taken => taken')
      /\ lock'.holder = "call" => lock' = lock
      /\ ~taken' /\ lock.holder = "call" => lock' = lock
    BY <1>3, SyncLock
<1>5. StoreType'
    BY <1>1, <1>3, <1>4 DEF IInv, StoreType
<1>6. NoCall.at = "idle" /\ NoCall \in CallType
    BY NoCallType DEF NoCall
<1>7. /\ call' \in [Calls -> CallType] /\ CallKnown'
      /\ call'[c] = NoCall /\ \A d \in Calls \ {c} : call'[d] = call[d]
    BY <1>1, <1>6, OneCall
<1>8. LiveRenewed'
    BY <1>4 DEF IInv, LiveRenewed
<1>9. LockKnown'
  <2> SUFFICES ASSUME ~taken', NEW d \in Calls, Active(d)'
               PROVE  ~call'[d].compromised /\ lock'.holder = "call" /\ lock'.by = d
      BY DEF LockKnown
  <2>1. Active(d) /\ call'[d] = call[d]
      BY <1>6, <1>7 DEF Active
  <2>2. ~call[d].compromised /\ lock.holder = "call" /\ lock.by = d
      BY <1>4, <2>1 DEF IInv, LockKnown
  <2> QED
      BY <1>4, <2>1, <2>2
<1>10. \A d \in Calls : call'[d].at = "refreshing" => call'[d] = call[d]
    BY <1>6, <1>7
<1>11. TornKnown' /\ SnapshotCurrent' /\ NoChangeLost'
    BY <1>1, <1>4, <1>10, FileStays
<1> QED
    BY <1>4, <1>5, <1>7, <1>8, <1>9, <1>11 DEF IInv

LEMMA ExpireIInv ==
    ASSUME IInv, NEW n \in Ids, Expire(n)
    PROVE  IInv'
<1>1. /\ UNCHANGED <<file, broken, lock, up, data, loadError, call, made, should, spent,
                     orphaned, taken, torn>>
      /\ expired' = expired \cup {n}
    BY DEF Expire, history
<1>2. StoreType'
    BY <1>1 DEF IInv, StoreType
<1>3. /\ call' \in [Calls -> CallType] /\ lock' \in LockType
      /\ LiveRenewed' /\ CallKnown' /\ LockKnown'
    BY <1>1, CallsStay
<1>4. TornKnown' /\ SnapshotCurrent' /\ NoChangeLost'
    BY <1>1, FileStays
<1> QED
    BY <1>2, <1>3, <1>4 DEF IInv

(* The calls of a process die with it, and what they sent is counted. *)
LEMMA DiesKeeps ==
    ASSUME IInv, NEW p \in Processes, Dies(p)
    PROVE  /\ up' \in [Processes -> BOOLEAN] /\ data' \in [Processes -> Contents]
           /\ loadError' \in [Processes -> BOOLEAN] /\ orphaned' \subseteq Ids
           /\ UNCHANGED <<made, expired, spent>>
           /\ call' \in [Calls -> CallType] /\ CallKnown'
           /\ \A d \in Calls : \/ call'[d] = call[d] /\ By[d] # p
                               \/ call'[d].at = "idle" /\ ~Active(d)'
<1>1. /\ up' = [up EXCEPT ![p] = FALSE] /\ data' = [data EXCEPT ![p] = Empty]
      /\ loadError' = [loadError EXCEPT ![p] = FALSE]
      /\ call' = [c \in Calls |-> IF By[c] = p THEN NoCall ELSE call[c]]
      /\ orphaned' = orphaned \cup {call[c].read[call[c].of].id : c \in Unanswered(p)}
      /\ UNCHANGED <<made, expired, spent>>
    BY DEF Dies
<1>2. up' \in [Processes -> BOOLEAN] /\ loadError' \in [Processes -> BOOLEAN]
    BY <1>1 DEF IInv, StoreType
<1>3. data' \in [Processes -> Contents]
    BY <1>1, EmptyType DEF IInv, StoreType
<1>4. \A c \in Unanswered(p) : call[c].read[call[c].of].id \in Ids
    BY DEF IInv, CallKnown, Unanswered
<1>5. orphaned' \subseteq Ids
    BY <1>1, <1>4 DEF IInv, StoreType
<1>6. NoCall.at = "idle" /\ NoCall \in CallType
    BY NoCallType DEF NoCall
<1>7. call' \in [Calls -> CallType]
    BY <1>1, <1>6 DEF IInv
<1>8. \A d \in Calls : \/ call'[d] = call[d] /\ By[d] # p
                       \/ call'[d].at = "idle" /\ ~Active(d)'
    BY <1>1, <1>6 DEF Active
<1>9. CallKnown'
  <2> SUFFICES ASSUME NEW d \in Calls
               PROVE  /\ call'[d].at # "idle" => call'[d].of \in Providers
                      /\ call'[d].at = "refreshing" => call'[d].read[call'[d].of].id \in Ids
                      /\ call'[d].at = "waiting" => ~call'[d].compromised
      BY DEF CallKnown
  <2> QED
      BY <1>8 DEF IInv, CallKnown
<1> QED
    BY <1>1, <1>2, <1>3, <1>5, <1>7, <1>8, <1>9

(* The lock that is left is that of a call of the process, if any's. *)
LEMMA LeftKeeps ==
    ASSUME IInv, NEW p \in Processes, Dies(p), LockLeft(p), taken' = taken
    PROVE  lock' \in LockType /\ LiveRenewed' /\ LockKnown'
<1> DEFINE left == [Left EXCEPT !.age = lock.age]
<1>1. left \in LockType /\ left.holder = "dead"
    BY LocksType DEF IInv, LockType, Left
<1>2. \/ lock' = left /\ lock.holder = "call" /\ By[lock.by] = p
      \/ lock' = lock
    BY DEF LockLeft
<1> HIDE DEF left
<1>3. lock' \in LockType /\ LiveRenewed'
    BY <1>1, <1>2 DEF IInv, LiveRenewed
<1>4. LockKnown'
  <2> SUFFICES ASSUME ~taken, NEW d \in Calls, Active(d)'
               PROVE  ~call'[d].compromised /\ lock'.holder = "call" /\ lock'.by = d
      BY DEF LockKnown
  <2>1. call'[d] = call[d] /\ By[d] # p /\ Active(d)
      BY DiesKeeps DEF Active
  <2>2. ~call[d].compromised /\ lock.holder = "call" /\ lock.by = d
      BY <2>1 DEF IInv, LockKnown
  <2> QED
      BY <1>2, <2>1, <2>2
<1> QED
    BY <1>3, <1>4

LEMMA KillIInv ==
    ASSUME IInv, NEW p \in Processes, Kill(p)
    PROVE  IInv'
<1>1. Dies(p) /\ LockLeft(p) /\ UNCHANGED <<file, broken, should, taken, torn>>
    BY DEF Kill
<1>2. lock' \in LockType /\ LiveRenewed' /\ LockKnown'
    BY <1>1, LeftKeeps
<1>3. /\ up' \in [Processes -> BOOLEAN] /\ data' \in [Processes -> Contents]
      /\ loadError' \in [Processes -> BOOLEAN] /\ orphaned' \subseteq Ids
      /\ UNCHANGED <<made, expired, spent>>
      /\ call' \in [Calls -> CallType] /\ CallKnown'
      /\ \A d \in Calls : \/ call'[d] = call[d] /\ By[d] # p
                          \/ call'[d].at = "idle" /\ ~Active(d)'
    BY <1>1, DiesKeeps
<1>4. StoreType'
    BY <1>1, <1>3 DEF IInv, StoreType
<1>5. \A d \in Calls : call'[d].at = "refreshing" => call'[d] = call[d]
    BY <1>3
<1>6. TornKnown' /\ SnapshotCurrent' /\ NoChangeLost'
    BY <1>1, <1>5, FileStays
<1> QED
    BY <1>2, <1>3, <1>4, <1>6 DEF IInv

LEMMA KillWritingIInv ==
    ASSUME IInv, NEW p \in Processes, KillWriting(p)
    PROVE  IInv'
<1>1. /\ Dies(p) /\ torn' = TRUE /\ should' = should
      /\ \/ file' = Empty /\ broken' = FALSE
         \/ broken' = TRUE /\ file' = file
      /\ \/ FreeForSync /\ lock' = Left /\ taken' = (taken \/ lock.holder = "call")
         \/ LockLeft(p) /\ taken' = taken
    BY DEF KillWriting
<1>2. /\ up' \in [Processes -> BOOLEAN] /\ data' \in [Processes -> Contents]
      /\ loadError' \in [Processes -> BOOLEAN] /\ orphaned' \subseteq Ids
      /\ UNCHANGED <<made, expired, spent>>
      /\ call' \in [Calls -> CallType] /\ CallKnown'
      /\ \A d \in Calls : \/ call'[d] = call[d] /\ By[d] # p
                          \/ call'[d].at = "idle" /\ ~Active(d)'
    BY <1>1, DiesKeeps
<1>3. taken' \in BOOLEAN /\ torn' \in BOOLEAN
    BY <1>1 DEF IInv, StoreType
<1>4. file' \in Contents /\ broken' \in BOOLEAN /\ should' \in Contents
    BY <1>1, EmptyType DEF IInv, StoreType
<1>5. StoreType'
    BY <1>2, <1>3, <1>4 DEF IInv, StoreType
<1>6. CASE FreeForSync /\ lock' = Left /\ taken' = (taken \/ lock.holder = "call")
  <2>1. lock' \in LockType /\ LiveRenewed'
      BY <1>6, LocksType DEF LiveRenewed, Left
  <2>2. LockKnown'
    <3> SUFFICES ASSUME ~taken', NEW d \in Calls, Active(d)'
                 PROVE  FALSE
        BY DEF LockKnown
    <3>1. ~taken /\ lock.holder # "call"
        BY <1>6
    <3>2. Active(d)
        BY <1>2 DEF Active
    <3> QED
        BY <3>1, <3>2, NobodyRefreshes
  <2> QED
      BY <1>1, <1>2, <1>5, <2>1, <2>2 DEF IInv, TornKnown, SnapshotCurrent, NoChangeLost
<1>7. CASE LockLeft(p) /\ taken' = taken
  <2>1. lock' \in LockType /\ LiveRenewed' /\ LockKnown'
      BY <1>1, <1>7, LeftKeeps
  <2> QED
      BY <1>1, <1>2, <1>5, <2>1 DEF IInv, TornKnown, SnapshotCurrent, NoChangeLost
<1> QED
    BY <1>1, <1>6, <1>7

-----------------------------------------------------------------------------
(* Theorems *)

LEMMA InitIInv == Init => IInv
<1> SUFFICES ASSUME Init PROVE IInv
    OBVIOUS
<1>1. 1 \in Ids
    BY AuthAssumption DEF Ids
<1>2. file \in Contents
    BY <1>1, CredentialType, EmptyType DEF Init, Contents
<1>3. StoreType
    BY <1>1, <1>2, EmptyType DEF Init, StoreType
<1>4. call \in [Calls -> CallType] /\ lock \in LockType
    BY NoCallType, LocksType DEF Init
<1>5. \A c \in Calls : call[c].at = "idle"
    BY DEF Init, NoCall
<1>6. LiveRenewed /\ CallKnown /\ LockKnown
    BY <1>5 DEF Init, LiveRenewed, CallKnown, LockKnown, Active, Free
<1>7. TornKnown /\ SnapshotCurrent /\ NoChangeLost
    BY <1>5 DEF Init, TornKnown, SnapshotCurrent, NoChangeLost, Refreshing
<1> QED
    BY <1>3, <1>4, <1>6, <1>7 DEF IInv

LEMMA NextIInv == IInv /\ [Next]_vars => IInv'
<1> SUFFICES ASSUME IInv, [Next]_vars PROVE IInv'
    OBVIOUS
<1>1. ASSUME NEW p \in Processes,
             \/ Launch(p) \/ Reload(p) \/ Kill(p) \/ KillWriting(p)
             \/ \E q \in Providers : Remove(p, q) \/ \E kind \in {"key", "oauth"} : Set(p, q, kind)
      PROVE  IInv'
    BY <1>1, LoadIInv, KillIInv, KillWritingIInv, RemoveIInv, SetIInv
<1>2. ASSUME NEW c \in Calls,
             \/ \E q \in Providers : GetApiKey(c, q)
             \/ Begin(c) \/ Answer(c) \/ Refuse(c) \/ Release(c) \/ Fallback(c) \/ Renew(c)
      PROVE  IInv'
    BY <1>2, GetApiKeyIInv, BeginIInv, AnswerIInv, RefuseIInv, ReleaseIInv, FallbackIInv,
       RenewIInv
<1>3. CASE Age \/ \E n \in Ids : Expire(n)
    BY <1>3, AgeIInv, ExpireIInv
<1>4. CASE UNCHANGED vars
    BY <1>4 DEF vars, history, IInv, StoreType, LiveRenewed, CallKnown, LockKnown, Active,
       TornKnown, SnapshotCurrent, Refreshing, NoChangeLost
<1> QED
    BY <1>1, <1>2, <1>3, <1>4 DEF Next

(* The state of auth-storage.ts keeps its type. *)
THEOREM TypeCorrect == Spec => []TypeOK
BY InitIInv, NextIInv, PartsAreTypes, PTL DEF Spec

(* Two calls, of one process or of two, refresh a token at the same time   *)
(* only after withLock took the lock of withLockAsync from one that lived. *)
THEOREM RefreshExclusive == Spec => []OneRefresherOr
<1>1. IInv => OneRefresherOr
  <2> SUFFICES ASSUME IInv, ~taken PROVE Cardinality(Refreshing) <= 1
      BY DEF OneRefresherOr, OneRefresher
  <2>1. \A c, d \in Refreshing : c = d
      BY DEF IInv, LockKnown, Active, Refreshing
  <2>2. CASE Refreshing = {}
      BY <2>2, FS_EmptySet
  <2>3. CASE Refreshing # {}
    <3>1. PICK c : c \in Refreshing
        BY <2>3
    <3>2. Refreshing = {c}
        BY <2>1, <3>1
    <3>3. Cardinality({c}) = 1
        BY FS_Singleton, Zenon
    <3> QED
        BY <3>2, <3>3
  <2> QED
      BY <2>2, <2>3
<1> QED
    BY InitIInv, NextIInv, <1>1, PTL DEF Spec

(* What a refresh writes back over the file is what it read there, but for *)
(* the new token, unless the lock was taken or a write torn.               *)
THEOREM SnapshotsCurrent == Spec => []SnapshotCurrent
<1>1. IInv => SnapshotCurrent
    BY DEF IInv
<1> QED
    BY InitIInv, NextIInv, <1>1, PTL DEF Spec

(* Hence no change that persistProviderChange made is ever undone.         *)
THEOREM ChangesKept == Spec => []NoChangeLost
<1>1. IInv => NoChangeLost
    BY DEF IInv
<1> QED
    BY InitIInv, NextIInv, <1>1, PTL DEF Spec

-----------------------------------------------------------------------------
(* Who has the lock *)

(* A step that takes the lock at most as a synchronous one, and leaves the *)
(* call that has it alone                                                  *)
LEMMA OwnedStays ==
    ASSUME IInv, LockOwned, WithLock \/ Locked \/ UNCHANGED <<lock, taken>>,
           lock.holder = "call" => call'[lock.by] = call[lock.by]
    PROVE  LockOwned'
BY SyncLock DEF LockOwned

(* A step of one call, which had no lock or goes on having it *)
LEMMA OwnedByCall ==
    ASSUME IInv, LockOwned, NEW c \in Calls, NEW to,
           call' = [call EXCEPT ![c] = to], WithLock \/ Locked \/ UNCHANGED <<lock, taken>>,
           \/ ~Active(c)
           \/ to.at \in {"refreshing", "done", "failed"} /\ to.compromised = call[c].compromised
    PROVE  LockOwned'
<1>1. call'[c] = to /\ \A d : d \in Calls /\ d # c => call'[d] = call[d]
    BY DEF IInv
<1>2. lock'.holder = "call" => lock' = lock
    BY SyncLock
<1>3. ASSUME lock'.holder = "call"
      PROVE  /\ lock.by \in Calls
             /\ call'[lock.by].at \in {"refreshing", "done", "failed"}
             /\ ~call'[lock.by].compromised
  <2>1. /\ lock.by \in Calls
        /\ call[lock.by].at \in {"refreshing", "done", "failed"} /\ ~call[lock.by].compromised
      BY <1>2, <1>3 DEF LockOwned
  <2>2. CASE lock.by = c
      BY <1>1, <2>1, <2>2 DEF Active
  <2>3. CASE lock.by # c
      BY <1>1, <2>1, <2>3
  <2> QED
      BY <2>2, <2>3
<1> QED
    BY <1>2, <1>3 DEF LockOwned

LEMMA OwnedNext ==
    ASSUME IInv, LockOwned, [Next]_vars
    PROVE  LockOwned'
<1>1. ASSUME NEW p \in Processes, Launch(p) \/ Reload(p)
      PROVE  LockOwned'
    BY <1>1, OwnedStays DEF Launch, Reload, ReloadFrom
<1>2. ASSUME NEW p \in Processes, NEW q \in Providers, NEW k, Change(p, q, k)
      PROVE  LockOwned'
    BY <1>2, OwnedStays DEF Change, PersistProviderChange
<1>3. ASSUME NEW p \in Processes, Kill(p) \/ KillWriting(p)
      PROVE  LockOwned'
  <2>1. /\ Dies(p)
        /\ lock' = Left \/ LockLeft(p)
      BY <1>3 DEF Kill, KillWriting
  <2>2. CASE lock' = Left
      BY <2>2 DEF LockOwned, Left
  <2>3. CASE LockLeft(p)
    <3> DEFINE left == [Left EXCEPT !.age = lock.age]
    <3>1. left.holder = "dead"
        BY DEF Left
    <3>2. \/ lock' = left
          \/ lock' = lock /\ (lock.holder = "call" => By[lock.by] # p)
        BY <2>3 DEF LockLeft
    <3> HIDE DEF left
    <3>3. ASSUME lock' = lock, lock.holder = "call" PROVE call'[lock.by] = call[lock.by]
        BY <2>1, <3>1, <3>2, <3>3 DEF LockOwned, Dies
    <3> QED
        BY <3>1, <3>2, <3>3 DEF LockOwned
  <2> QED
      BY <2>1, <2>2, <2>3
<1>4. ASSUME NEW c \in Calls, NEW q \in Providers, GetApiKey(c, q)
      PROVE  LockOwned'
  <2> DEFINE to == [NoCall EXCEPT !.at = "waiting", !.of = q]
  <2>1. /\ ~Active(c) /\ UNCHANGED <<lock, taken>>
        /\ call' = [call EXCEPT ![c] = to]
      BY <1>4 DEF GetApiKey, Active, history
  <2> HIDE DEF to
  <2> QED
      BY <2>1, OwnedByCall
<1>5. ASSUME NEW c \in Calls, Begin(c)
      PROVE  LockOwned'
  <2> DEFINE done == [call[c] EXCEPT !.at = "done"]
             failed == [call[c] EXCEPT !.at = "failed"]
             sent == [call[c] EXCEPT !.at = "refreshing", !.read = file]
  <2>1. /\ lock' = Held(c) /\ call[c] \in CallType /\ ~call[c].compromised
        /\ \E to \in {done, failed, sent} : call' = [call EXCEPT ![c] = to]
      BY <1>5 DEF Begin, Current, IInv, CallKnown
  <2>2. \A to \in {done, failed, sent} :
            to.at \in {"refreshing", "done", "failed"} /\ ~to.compromised
      BY <2>1 DEF CallType
  <2> HIDE DEF done, failed, sent
  <2>3. call'[c].at \in {"refreshing", "done", "failed"} /\ ~call'[c].compromised
      BY <2>1, <2>2 DEF IInv
  <2> QED
      BY <2>1, <2>3 DEF LockOwned, Held
<1>6. ASSUME NEW c \in Calls, Answer(c) \/ Refuse(c)
      PROVE  LockOwned'
  <2> DEFINE done == [call[c] EXCEPT !.at = "done", !.read = Empty]
             failed == [call[c] EXCEPT !.at = "failed", !.read = Empty]
  <2>1. /\ UNCHANGED <<lock, taken>> /\ call[c] \in CallType
        /\ call' = [call EXCEPT ![c] = done] \/ call' = [call EXCEPT ![c] = failed]
      BY <1>6 DEF Answer, Refuse, Ended, IInv
  <2>2. /\ done.at = "done" /\ done.compromised = call[c].compromised
        /\ failed.at = "failed" /\ failed.compromised = call[c].compromised
      BY <2>1 DEF CallType
  <2> HIDE DEF done, failed
  <2> QED
      BY <2>1, <2>2, OwnedByCall
<1>7. ASSUME NEW c \in Calls, Release(c)
      PROVE  LockOwned'
  <2>1. CASE call[c].compromised
    <3>1. lock' = lock /\ \A d \in Calls \ {c} : call'[d] = call[d]
        BY <1>7, <2>1 DEF Release, Released, IInv
    <3> QED
        BY <2>1, <3>1 DEF LockOwned
  <2>2. CASE ~call[c].compromised
      BY <1>7, <2>2 DEF Release, Released, LockOwned, Free
  <2> QED
      BY <2>1, <2>2
<1>8. ASSUME NEW c \in Calls, Fallback(c)
      PROVE  LockOwned'
  <2>1. /\ ~Active(c) /\ call' = [call EXCEPT ![c] = NoCall]
        /\ WithLock \/ Locked
      BY <1>8 DEF Fallback, ReloadFrom, Active
  <2> QED
      BY <2>1, OwnedByCall
<1>9. ASSUME NEW c \in Calls, Renew(c)
      PROVE  LockOwned'
  <2>1. CASE lock.holder = "call" /\ lock.by = c
    <3>1. call' = call /\ lock' = [lock EXCEPT !.age = "young"]
        BY <1>9, <2>1 DEF Renew
    <3>2. lock'.holder = lock.holder /\ lock'.by = lock.by
        BY <3>1 DEF IInv, LockType
    <3> QED
        BY <3>1, <3>2 DEF LockOwned
  <2>2. CASE ~(lock.holder = "call" /\ lock.by = c)
    <3>1. lock' = lock /\ \A d \in Calls \ {c} : call'[d] = call[d]
        BY <1>9, <2>2 DEF Renew, IInv
    <3> QED
        BY <2>2, <3>1 DEF LockOwned
  <2> QED
      BY <2>1, <2>2
<1>10. CASE Age
  <2>1. call' = call /\ lock'.holder = lock.holder /\ lock'.by = lock.by
      BY <1>10 DEF Age, IInv, LockType
  <2> QED
      BY <2>1 DEF LockOwned
<1>11. ASSUME NEW n \in Ids, Expire(n)
      PROVE  LockOwned'
    BY <1>11 DEF Expire, LockOwned
<1>12. CASE UNCHANGED vars
    BY <1>12 DEF vars, LockOwned
<1> QED
    BY <1>1, <1>2, <1>3, <1>4, <1>5, <1>6, <1>7, <1>8, <1>9, <1>10, <1>11, <1>12
       DEF Next, Set, Remove

(* withLockAsync and the library give every lock back, or a process dies   *)
(* with it: no lock stays in the name of a call that is over.              *)
THEOREM LocksOwned == Spec => []LockOwned
<1>1. Init => LockOwned
    BY DEF Init, LockOwned, Free
<1>2. IInv /\ LockOwned /\ [Next]_vars => LockOwned'
    BY OwnedNext
<1> QED
    BY InitIInv, NextIInv, <1>1, <1>2, PTL DEF Spec
-----------------------------------------------------------------------------
(* What was sent to the providers *)

(* The ids in the file and those that were sent have been made, and no two *)
(* providers have one token.                                               *)
FileMade ==
    \A q \in Providers :
        /\ file[q].id <= made
        /\ \A r \in Providers : file[q].id = file[r].id => q = r \/ file[q] = None

SpentMade == \A n \in spent : n <= made

(* A token that was sent is lost, or on its way, or not in the file.       *)
Accounted(q) ==
    file[q].kind = "oauth" /\ file[q].id \in spent =>
        \/ file[q].id \in orphaned
        \/ \E c \in Refreshing : call[c].of = q /\ call[c].read[q] = file[q]

FreshInv == taken \/ torn \/ (FileMade /\ SpentMade /\ \A q \in Providers : Accounted(q))

(* A credential is none, or one that was made *)
LEMMA CredentialForm ==
    ASSUME NEW k \in Credentials
    PROVE  (k = None /\ k.id = 0) \/ k.id \in Ids
BY DEF Credentials, Credential, None

(* A step that leaves the file alone and sends nothing: a request that     *)
(* ends without writing has its token counted.                             *)
LEMMA FreshStays ==
    ASSUME IInv, FreshInv, UNCHANGED <<file, spent>>, made' \in Ids, made <= made',
           taken => taken', torn => torn', orphaned \subseteq orphaned',
           \A c \in Refreshing :
               \/ /\ c \in Refreshing'
                  /\ call'[c].of = call[c].of /\ call'[c].read = call[c].read
               \/ taken' \/ call[c].read[call[c].of].id \in orphaned'
    PROVE  FreshInv'
<1> SUFFICES ASSUME ~taken', ~torn'
             PROVE  FileMade' /\ SpentMade' /\ \A q \in Providers : Accounted(q)'
    BY DEF FreshInv
<1>1. FileMade /\ SpentMade /\ \A q \in Providers : Accounted(q)
    BY DEF FreshInv
<1>2. /\ made \in Nat /\ made' \in Nat
      /\ \A q \in Providers : file[q] \in Credentials
      /\ spent \subseteq Nat
    BY DEF IInv, StoreType, Ids, Contents
<1>3. \A q \in Providers : file[q].id \in Nat
    BY <1>2, CredentialForm DEF Ids
<1>4. \A n \in Nat : n <= made => n <= made'
    BY <1>2
<1>5. FileMade' /\ SpentMade'
    BY <1>1, <1>2, <1>3, <1>4 DEF FileMade, SpentMade
<1>6. ASSUME NEW q \in Providers PROVE Accounted(q)'
    BY <1>1 DEF Accounted
<1> QED
    BY <1>5, <1>6

(* A step that writes a made credential while nothing is on its way, or a  *)
(* refresh for its own provider only                                       *)
LEMMA FreshWritten ==
    ASSUME IInv, FreshInv, NEW q \in Providers, NEW k \in Credentials,
           UNCHANGED <<spent, orphaned>>, taken => taken', torn => torn',
           \/ k = None /\ made' = made
           \/ k.id = made + 1 /\ made' = made + 1,
           ~taken' /\ ~torn' => /\ file' = [file EXCEPT ![q] = k]
                                /\ \A c \in Refreshing : call[c].of = q
    PROVE  FreshInv'
<1> SUFFICES ASSUME ~taken', ~torn'
             PROVE  FileMade' /\ SpentMade' /\ \A r \in Providers : Accounted(r)'
    BY DEF FreshInv
<1>1. FileMade /\ SpentMade /\ \A r \in Providers : Accounted(r)
    BY DEF FreshInv
<1>2. /\ made \in Nat \ {0} /\ file \in Contents /\ spent \subseteq Ids
      /\ \A r \in Providers : file[r] \in Credentials
    BY DEF IInv, StoreType, Ids, Contents
<1>3. \A r \in Providers : file[r].id \in Nat
    BY <1>2, CredentialForm DEF Ids
<1>4. file'[q] = k /\ \A r \in Providers \ {q} : file'[r] = file[r]
    BY <1>2 DEF Contents
<1>5. None.id = 0
    BY DEF None, Credential
<1>6. FileMade'
  <2> SUFFICES ASSUME NEW r \in Providers
               PROVE  /\ file'[r].id <= made'
                      /\ \A s \in Providers :
                             file'[r].id = file'[s].id => r = s \/ file'[r] = None
      BY DEF FileMade
  <2>1. file'[r].id <= made'
      BY <1>1, <1>2, <1>3, <1>4, <1>5 DEF FileMade
  <2>2. ASSUME NEW s \in Providers, file'[r].id = file'[s].id, r # s
        PROVE  file'[r] = None
    <3>1. CASE r # q /\ s # q
        BY <1>1, <1>4, <2>2, <3>1 DEF FileMade
    <3>2. CASE r = q
        BY <1>1, <1>2, <1>3, <1>4, <1>5, <2>2, <3>2 DEF FileMade
    <3>3. CASE s = q
      <4>1. r # q /\ file'[r] = file[r] /\ file[r].id <= made /\ file[r].id \in Nat
          BY <1>1, <1>3, <1>4, <2>2, <3>3 DEF FileMade
      <4>2. file[r].id = k.id
          BY <1>4, <2>2, <3>3, <4>1
      <4>3. file[r].id = 0
          BY <1>2, <1>5, <4>1, <4>2
      <4>4. file[r] = None
          BY <1>2, <4>3, CredentialForm DEF Ids
      <4> QED
          BY <4>1, <4>4
    <3> QED
        BY <3>1, <3>2, <3>3
  <2> QED
      BY <2>1, <2>2
<1>7. SpentMade'
    BY <1>1, <1>2 DEF SpentMade, Ids
<1>8. ASSUME NEW r \in Providers PROVE Accounted(r)'
  <2>1. CASE r = q
    <3>1. k.id \notin spent
        BY <1>1, <1>2, <1>5 DEF SpentMade, Ids
    <3> QED
        BY <1>4, <2>1, <3>1 DEF Accounted
  <2>2. CASE r # q
      BY <1>1, <1>4, <2>2 DEF Accounted
  <2> QED
      BY <2>1, <2>2
<1> QED
    BY <1>6, <1>7, <1>8

LEMMA FreshNext ==
    ASSUME IInv, FreshInv, [Next]_vars
    PROVE  FreshInv'
<1> USE DEF Refreshing
<1>1. IInv'
    BY NextIInv
<1>2. made' \in Ids /\ made \in Nat /\ StoreType
    BY <1>1 DEF IInv, StoreType, Ids
<1>3. ASSUME NEW p \in Processes, Launch(p) \/ Reload(p)
      PROVE  FreshInv'
  <2>1. /\ UNCHANGED <<file, call, made, spent, orphaned, torn>>
        /\ WithLock \/ Locked
      BY <1>3 DEF Launch, Reload, ReloadFrom
  <2>2. taken => taken'
      BY <2>1, SyncLock
  <2> QED
      BY <1>2, <2>1, <2>2, FreshStays
<1>4. ASSUME NEW p \in Processes, NEW q \in Providers, NEW k \in Credentials,
             Change(p, q, k),
             \/ k = None /\ made' = made
             \/ k.id = made + 1 /\ made' = made + 1
      PROVE  FreshInv'
  <2>1. /\ UNCHANGED <<call, spent, orphaned, torn>>
        /\ WithLock \/ Locked \/ UNCHANGED <<lock, taken>>
        /\ \/ UNCHANGED file
           \/ WithLock /\ file' = [file EXCEPT ![q] = k]
      BY <1>4 DEF Change, PersistProviderChange, Merged, Locked
  <2>2. taken => taken'
      BY <2>1, SyncLock
  <2>3. CASE UNCHANGED file
      BY <1>2, <1>4, <2>1, <2>2, <2>3, FreshStays
  <2>4. CASE WithLock /\ file' = [file EXCEPT ![q] = k]
    <3>1. taken' \/ Refreshing = {}
        BY <2>2, <2>4, NobodyRefreshes DEF WithLock
    <3> QED
        BY <1>4, <2>1, <2>2, <2>4, <3>1, FreshWritten
  <2> QED
      BY <2>1, <2>3, <2>4
<1>5. ASSUME NEW p \in Processes, NEW q \in Providers, Remove(p, q)
      PROVE  FreshInv'
    BY <1>4, <1>5, EmptyType DEF Remove
<1>6. ASSUME NEW p \in Processes, NEW q \in Providers, NEW kind \in {"key", "oauth"},
             Set(p, q, kind)
      PROVE  FreshInv'
  <2>1. made' = made + 1 /\ Change(p, q, Credential(kind, made + 1))
      BY <1>6 DEF Set
  <2>2. /\ Credential(kind, made + 1) \in Credentials
        /\ Credential(kind, made + 1).id = made + 1
      BY <1>2, <2>1, CredentialType
  <2> QED
      BY <1>4, <2>1, <2>2
<1>7. ASSUME NEW p \in Processes, Kill(p)
      PROVE  FreshInv'
  <2>1. /\ UNCHANGED <<file, taken, torn, made, spent>>
        /\ call' = [c \in Calls |-> IF By[c] = p THEN NoCall ELSE call[c]]
        /\ orphaned' = orphaned \cup {call[c].read[call[c].of].id : c \in Unanswered(p)}
      BY <1>7 DEF Kill, Dies
  <2>2. \A c \in Refreshing :
            \/ call'[c] = call[c]
            \/ call[c].read[call[c].of].id \in orphaned'
      BY <2>1 DEF Unanswered
  <2> QED
      BY <1>2, <2>1, <2>2, FreshStays
<1>8. ASSUME NEW p \in Processes, KillWriting(p)
      PROVE  FreshInv'
    BY <1>8 DEF KillWriting, FreshInv
<1>9. ASSUME NEW c \in Calls, NEW to, call' = [call EXCEPT ![c] = to],
             call[c].at # "refreshing", WithLock \/ Locked \/ taken' = taken,
             UNCHANGED <<file, made, spent, orphaned, torn>>
      PROVE  FreshInv'
  <2>1. \A d \in Refreshing : d \in Refreshing' /\ call'[d] = call[d]
      BY <1>9 DEF IInv
  <2>2. taken => taken'
      BY <1>9 DEF WithLock, Locked
  <2> QED
      BY <1>2, <1>9, <2>1, <2>2, FreshStays
<1>10. ASSUME NEW c \in Calls, NEW q \in Providers, GetApiKey(c, q)
       PROVE  FreshInv'
  <2> DEFINE to == [NoCall EXCEPT !.at = "waiting", !.of = q]
  <2>1. /\ call' = [call EXCEPT ![c] = to] /\ call[c].at = "idle"
        /\ UNCHANGED <<file, made, spent, orphaned, torn, taken>>
      BY <1>10 DEF GetApiKey, history
  <2> HIDE DEF to
  <2> QED
      BY <1>9, <2>1
<1>11. ASSUME NEW c \in Calls, Begin(c)
       PROVE  FreshInv'
  <2> DEFINE q == call[c].of
             k == file[q]
             done == [call[c] EXCEPT !.at = "done"]
             failed == [call[c] EXCEPT !.at = "failed"]
             sent == [call[c] EXCEPT !.at = "refreshing", !.read = file]
  <2>1. /\ call[c].at = "waiting" /\ FreeForAsync
        /\ UNCHANGED <<file, made, orphaned, taken, torn>>
        /\ \/ spent' = spent /\ call' = [call EXCEPT ![c] = failed]
           \/ spent' = spent /\ call' = [call EXCEPT ![c] = done]
           \/ spent' = spent \cup {k.id} /\ Expired(k) /\ call' = [call EXCEPT ![c] = sent]
      BY <1>11 DEF Begin, Current
  <2>2. call[c] \in CallType /\ q \in Providers
      BY <2>1 DEF IInv, CallKnown
  <2>3. sent.at = "refreshing" /\ sent.of = q /\ sent.read = file
      BY <2>2 DEF CallType
  <2> HIDE DEF q, k, done, failed, sent
  <2>4. CASE \/ spent' = spent /\ call' = [call EXCEPT ![c] = failed]
             \/ spent' = spent /\ call' = [call EXCEPT ![c] = done]
      BY <1>9, <2>1, <2>4
  <2>5. CASE spent' = spent \cup {k.id} /\ Expired(k) /\ call' = [call EXCEPT ![c] = sent]
    <3> SUFFICES ASSUME ~taken, ~torn
                 PROVE  FileMade' /\ SpentMade' /\ \A r \in Providers : Accounted(r)'
        BY <2>1 DEF FreshInv
    <3>1. FileMade /\ SpentMade /\ \A r \in Providers : Accounted(r)
        BY DEF FreshInv
    <3>2. lock.holder # "call"
        BY <2>1 DEF FreeForAsync, IInv, LiveRenewed
    <3>3. Refreshing = {}
        BY <3>2, NobodyRefreshes
    <3>4. FileMade'
        BY <2>1, <3>1 DEF FileMade
    <3>5. SpentMade'
        BY <2>1, <2>2, <2>5, <3>1 DEF FileMade, SpentMade, k
    <3>6. k # None
        BY <2>5 DEF Expired, None, Credential
    <3>7. call'[c] = sent /\ c \in Refreshing'
        BY <2>3, <2>5 DEF IInv
    <3>8. ASSUME NEW r \in Providers PROVE Accounted(r)'
      <4>1. CASE r = q
          BY <2>1, <2>3, <3>7, <4>1 DEF Accounted
      <4>2. CASE r # q
        <5>1. file[r].id # k.id
            BY <2>2, <3>1, <3>6, <4>2 DEF FileMade, k
        <5> QED
            BY <2>1, <2>5, <3>1, <3>3, <5>1 DEF Accounted
      <4> QED
          BY <4>1, <4>2
    <3> QED
        BY <3>4, <3>5, <3>8
  <2> QED
      BY <2>1, <2>4, <2>5
<1>12. ASSUME NEW c \in Calls, Answer(c)
       PROVE  FreshInv'
  <2> DEFINE q == call[c].of
             k == Credential("oauth", made + 1)
             merged == [call[c].read EXCEPT ![q] = k]
  <2>1. /\ call[c].at = "refreshing" /\ made' = made + 1
        /\ UNCHANGED <<lock, spent, taken, torn>>
        /\ \/ call[c].compromised
           \/ file' = merged /\ UNCHANGED orphaned
      BY <1>12 DEF Answer
  <2>2. q \in Providers /\ k \in Credentials /\ k.id = made + 1
      BY <1>2, <2>1, CredentialType DEF IInv, CallKnown
  <2> HIDE DEF k
  <2>3. CASE taken \/ torn
      BY <2>1, <2>3 DEF FreshInv
  <2>4. CASE ~taken /\ ~torn
    <3>1. /\ ~call[c].compromised /\ call[c].read = file
          /\ \A d \in Refreshing : d = c
        BY <2>1, <2>4 DEF IInv, LockKnown, Active, SnapshotCurrent
    <3>2. file' = [file EXCEPT ![q] = k] /\ UNCHANGED orphaned
        BY <2>1, <3>1
    <3> HIDE DEF q, merged
    <3>3. \A d \in Refreshing : call[d].of = q
        BY <3>1 DEF q
    <3> QED
        BY <2>1, <2>2, <3>2, <3>3, FreshWritten
  <2> QED
      BY <2>3, <2>4
<1>13. ASSUME NEW c \in Calls, Refuse(c)
       PROVE  FreshInv'
  <2> DEFINE to == [call[c] EXCEPT !.at = "failed", !.read = Empty]
  <2>1. /\ call' = [call EXCEPT ![c] = to]
        /\ orphaned' = orphaned \cup {call[c].read[call[c].of].id}
        /\ UNCHANGED <<file, made, spent, taken, torn>>
      BY <1>13 DEF Refuse, Ended
  <2> HIDE DEF to
  <2>2. \A d \in Refreshing :
            \/ call'[d] = call[d]
            \/ call[d].read[call[d].of].id \in orphaned'
      BY <2>1 DEF IInv
  <2> QED
      BY <1>2, <2>1, <2>2, FreshStays
<1>14. ASSUME NEW c \in Calls, Release(c)
       PROVE  FreshInv'
  <2> DEFINE moved == [call[c] EXCEPT !.at = "reload"]
             to == IF call[c].at = "done" THEN NoCall ELSE moved
  <2>1. /\ call' = [call EXCEPT ![c] = to] /\ call[c].at # "refreshing"
        /\ UNCHANGED <<file, made, spent, orphaned, torn, taken>>
      BY <1>14 DEF Release, history
  <2> HIDE DEF to
  <2> QED
      BY <1>9, <2>1
<1>15. ASSUME NEW c \in Calls, Fallback(c)
       PROVE  FreshInv'
    BY <1>9, <1>15 DEF Fallback, ReloadFrom
<1>16. ASSUME NEW c \in Calls, Renew(c)
       PROVE  FreshInv'
  <2>1. UNCHANGED <<file, made, spent, orphaned, torn, taken>>
      BY <1>16 DEF Renew, history
  <2>2. CASE lock.holder = "call" /\ lock.by = c
      BY <1>2, <1>16, <2>1, <2>2, FreshStays DEF Renew
  <2>3. CASE ~(lock.holder = "call" /\ lock.by = c)
    <3>1. taken
        BY <1>16, <2>3 DEF Renew, IInv, LockKnown, Active
    <3> QED
        BY <2>1, <3>1 DEF FreshInv
  <2> QED
      BY <2>2, <2>3
<1>17. CASE Age \/ \E n \in Ids : Expire(n)
    BY <1>2, <1>17, FreshStays DEF Age, Expire, history
<1>18. CASE UNCHANGED vars
    BY <1>2, <1>18, FreshStays DEF vars, history
<1> QED
    BY <1>3, <1>5, <1>6, <1>7, <1>8, <1>10, <1>11, <1>12, <1>13, <1>14, <1>15, <1>16, <1>17,
       <1>18 DEF Next

(* A refresh token is used once: what a provider was sent is not left in   *)
(* the file to be sent again, unless its answer, or the process that       *)
(* waited for it, was lost, the lock taken or a write torn.                *)
THEOREM TokensUsedOnce == Spec => []TokensFresh
<1>1. Init => FreshInv
  <2> SUFFICES ASSUME Init PROVE FreshInv
      OBVIOUS
  <2>1. PICK q \in OAuth : file = [Empty EXCEPT ![q] = Credential("oauth", 1)]
      BY DEF Init
  <2>2. \A r \in Providers : file[r] = None \/ (r = q /\ file[r].id = 1)
      BY <2>1, AuthAssumption DEF Empty, Credential
  <2>3. None.id = 0
      BY DEF None, Credential
  <2>4. FileMade
      BY <2>2, <2>3 DEF Init, FileMade
  <2> QED
      BY <2>4 DEF Init, FreshInv, SpentMade, Accounted
<1>2. IInv /\ FreshInv /\ [Next]_vars => FreshInv'
    BY FreshNext
<1>3. FreshInv => TokensFresh
    BY DEF FreshInv, TokensFresh, Accounted
<1> QED
    BY InitIInv, NextIInv, <1>1, <1>2, <1>3, PTL DEF Spec
=============================================================================

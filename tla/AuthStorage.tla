---------------------------- MODULE AuthStorage ----------------------------
(***************************************************************************)
(* The credentials of several processes in one auth.json (coding-agent,    *)
(* core/auth-storage.ts): changes by read, merge and write under a lock,   *)
(* and the refresh of an expired OAuth token, which holds the lock across  *)
(* a request to the provider.                                              *)
(*                                                                         *)
(* An action is the code between two awaits; the retries of the            *)
(* synchronous lock block their process, and only the last one counts.     *)
(* Left out: overrides, environment and fallback (none is set), the list   *)
(* of errors, and getApiKey where its credential is good or missing.       *)
(*                                                                         *)
(* External: proper-lockfile (a directory whose time the holder renews at  *)
(* half its stale time, and whose holder learns only then that it was      *)
(* taken), and the providers, which answer a refresh or fail.  A live      *)
(* process's timer is not later than the stale time of its own lock.       *)
(***************************************************************************)
EXTENDS Naturals, FiniteSets

CONSTANTS
    Processes,
    Calls,         \* calls of getApiKey that may be under way together
    By,            \* the process of a call
    Providers,
    OAuth,         \* providers one can log in to; every provider takes an API key
    MaxIds         \* bound of the model: credentials made

ASSUME AuthAssumption ==
    By \in [Calls -> Processes] /\ OAuth \subseteq Providers /\ MaxIds \in Nat \ {0}

Ids == 1 .. MaxIds

Credential(kind, n) == [kind |-> kind, id |-> n]
None        == Credential("none", 0)
Credentials == {None} \cup {Credential(kind, n) : kind \in {"key", "oauth"}, n \in Ids}
Empty       == [q \in Providers |-> None]

VARIABLES
    file,      \* auth.json
    broken,    \* whether it does not parse
    lock,      \* the lock's directory: who made it, and how long ago it was touched
    up,        \* the processes
    data,      \* of each process
    loadError, \* of each process
    call,      \* getApiKey of an expired token: where it is, for whom, what it read
    made,      \* credentials made
    expired    \* tokens whose time is over

(* History: what the file should hold; tokens sent to be refreshed; those  *)
(* whose successor was never written; whether the lock was taken from a    *)
(* live process; whether a process died writing.                           *)
VARIABLES should, spent, orphaned, taken, torn

history == <<should, spent, orphaned, taken, torn>>
vars == <<file, broken, lock, up, data, loadError, call, made, expired, history>>

Free   == [holder |-> "nobody", by |-> "nobody", age |-> "young"]
Held(c) == [holder |-> "call", by |-> c, age |-> "young"]
Left   == [holder |-> "dead", by |-> "nobody", age |-> "young"]

NoCall == [at |-> "idle", of |-> "nothing", read |-> Empty, compromised |-> FALSE]

Init ==
    /\ \E q \in OAuth : file = [Empty EXCEPT ![q] = Credential("oauth", 1)]
    /\ broken = FALSE
    /\ lock = Free
    /\ up = [p \in Processes |-> FALSE]
    /\ data = [p \in Processes |-> Empty]
    /\ loadError = [p \in Processes |-> FALSE]
    /\ call = [c \in Calls |-> NoCall]
    /\ made = 1 /\ expired = {}
    /\ should = file /\ spent = {} /\ orphaned = {}
    /\ taken = FALSE /\ torn = FALSE

-----------------------------------------------------------------------------
(* The lock *)

(* lockSync has the library's stale time, ten seconds; lock is told thirty *)
(* seconds.  A lock is young for ten seconds, and a live holder renews it  *)
(* after fifteen.                                                          *)
FreeForSync  == lock.holder = "nobody" \/ lock.age \in {"aging", "old"}

(* Mutant of FreeForAsync: the two have one stale time *)
BugFreeForAsync == FreeForSync

FreeForAsync == lock.holder = "nobody" \/ lock.age = "old"

(* withLock takes the lock and gives it back.  A lock that is stale is     *)
(* taken also from a live call.                                            *)
WithLock ==
    /\ FreeForSync
    /\ lock' = Free
    /\ taken' = (taken \/ lock.holder = "call")

(* The last attempt finds the lock held. *)
Locked == ~FreeForSync /\ UNCHANGED <<lock, taken>>

Age ==
    /\ \/ lock.holder # "nobody" /\ lock.age = "young" /\ lock' = [lock EXCEPT !.age = "aging"]
       \/ lock.holder = "dead" /\ lock.age = "aging" /\ lock' = [lock EXCEPT !.age = "old"]
    /\ UNCHANGED <<file, broken, up, data, loadError, call, made, expired, history>>

(* The timer of the library, for a call that holds the lock or thinks so *)
Renew(c) ==
    /\ call[c].at \in {"refreshing", "done", "failed"} /\ ~call[c].compromised
    /\ IF lock.holder = "call" /\ lock.by = c
       THEN /\ lock.age = "aging"
            /\ lock' = [lock EXCEPT !.age = "young"]
            /\ UNCHANGED call
       ELSE /\ call' = [call EXCEPT ![c].compromised = TRUE]
            /\ UNCHANGED lock
    /\ UNCHANGED <<file, broken, up, data, loadError, made, expired, history>>

-----------------------------------------------------------------------------
(* reload, set and remove *)

(* What a process knows after reload, with its memory as it is now *)
ReloadFrom(p, known) ==
    LET loaded == FreeForSync /\ ~broken
    IN  /\ WithLock \/ Locked
        /\ data' = [data EXCEPT ![p] = IF loaded THEN file ELSE known]
        /\ loadError' = [loadError EXCEPT ![p] = ~loaded]

(* The constructor begins with nothing. *)
Launch(p) ==
    /\ ~up[p]
    /\ up' = [up EXCEPT ![p] = TRUE]
    /\ ReloadFrom(p, Empty)
    /\ UNCHANGED <<file, broken, call, made, expired, should, spent, orphaned, torn>>

Reload(p) ==
    /\ up[p]
    /\ ReloadFrom(p, data[p])
    /\ UNCHANGED <<file, broken, up, call, made, expired, should, spent, orphaned, torn>>

(* Mutant of Merged: what the process remembers is written *)
BugMerged(p, q, k) == [data[p] EXCEPT ![q] = k]

(* The file as it is, with the one change *)
Merged(p, q, k) == [file EXCEPT ![q] = k]

(* After a failed load nothing is written.  A file that does not parse is  *)
(* left as it is.                                                          *)
PersistProviderChange(p, q, k) ==
    /\ IF loadError[p] THEN UNCHANGED <<lock, taken>> ELSE WithLock \/ Locked
    /\ IF ~loadError[p] /\ FreeForSync /\ ~broken
       THEN file' = Merged(p, q, k) /\ should' = [should EXCEPT ![q] = k]
       ELSE UNCHANGED <<file, should>>

Change(p, q, k) ==
    /\ up[p]
    /\ data' = [data EXCEPT ![p][q] = k]
    /\ PersistProviderChange(p, q, k)
    /\ UNCHANGED <<broken, up, loadError, call, expired, spent, orphaned, torn>>

(* A key that was typed in, or the token of a login *)
Set(p, q, kind) ==
    /\ made < MaxIds /\ made' = made + 1
    /\ kind = "oauth" => q \in OAuth
    /\ Change(p, q, Credential(kind, made + 1))

(* A logout, offered for what list() returns *)
Remove(p, q) == data[p][q] # None /\ Change(p, q, None) /\ UNCHANGED made

-----------------------------------------------------------------------------
(* getApiKey and the refresh of a token *)

Expired(k) == k.kind = "oauth" /\ k.id \in expired

GetApiKey(c, q) ==
    /\ up[By[c]] /\ call[c].at = "idle"
    /\ Expired(data[By[c]][q])
    /\ call' = [call EXCEPT ![c] = [NoCall EXCEPT !.at = "waiting", !.of = q]]
    /\ UNCHANGED <<file, broken, lock, up, data, loadError, made, expired, history>>

(* Mutant of Current: the token is the one getApiKey found expired *)
BugCurrent(c) == data[By[c]]

(* The file is read again under the lock. *)
Current(c) == file

(* withLockAsync has the lock, and its callback runs up to the request.    *)
Begin(c) ==
    LET q == call[c].of
        k == Current(c)[q]
    IN  /\ call[c].at = "waiting" /\ FreeForAsync
        /\ lock' = Held(c)
        /\ IF broken
           THEN /\ call' = [call EXCEPT ![c].at = "failed"]
                /\ UNCHANGED <<data, loadError, spent>>
           ELSE /\ data' = [data EXCEPT ![By[c]] = Current(c)]
                /\ loadError' = [loadError EXCEPT ![By[c]] = FALSE]
                /\ IF Expired(k)
                   THEN /\ call' = [call EXCEPT ![c].at = "refreshing", ![c].read = Current(c)]
                        /\ spent' = spent \cup {k.id}
                   ELSE /\ call' = [call EXCEPT ![c].at = "done"]
                        /\ UNCHANGED spent
        /\ UNCHANGED <<file, broken, up, made, expired, should, orphaned, taken, torn>>

(* The request is over, and what was read before it is forgotten. *)
Ended(c, at) == [call EXCEPT ![c].at = at, ![c].read = Empty]

(* The provider's answer: the process remembers it, and writes it with     *)
(* what it read before the request, if nothing told it that its lock was   *)
(* taken.                                                                  *)
Answer(c) ==
    LET q == call[c].of
        old == call[c].read[q]
        k == Credential("oauth", made + 1)
        merged == [call[c].read EXCEPT ![q] = k]
    IN  /\ call[c].at = "refreshing" /\ made < MaxIds
        /\ made' = made + 1
        /\ data' = [data EXCEPT ![By[c]] = merged]
        /\ loadError' = [loadError EXCEPT ![By[c]] = FALSE]
        /\ IF call[c].compromised
           THEN /\ call' = Ended(c, "failed")
                /\ orphaned' = orphaned \cup {old.id}
                /\ UNCHANGED <<file, broken, should>>
           ELSE /\ call' = Ended(c, "done")
                /\ file' = merged /\ broken' = FALSE
                /\ should' = [should EXCEPT ![q] = k]
                /\ UNCHANGED orphaned
        /\ UNCHANGED <<lock, up, expired, spent, taken, torn>>

(* The provider refuses, or its answer is lost. *)
Refuse(c) ==
    /\ call[c].at = "refreshing"
    /\ call' = Ended(c, "failed")
    /\ orphaned' = orphaned \cup {call[c].read[call[c].of].id}
    /\ UNCHANGED <<file, broken, lock, up, data, loadError, made, expired, should, spent, taken,
                   torn>>

(* Mutant of Released: the lock is given back after a success only *)
BugReleased(c) == IF call[c].at = "failed" THEN lock ELSE Free

(* The lock's directory goes, whoever made it, unless it is known lost. *)
Released(c) == IF call[c].compromised THEN lock ELSE Free

Release(c) ==
    /\ call[c].at \in {"done", "failed"}
    /\ lock' = Released(c)
    /\ call' = [call EXCEPT ![c] = IF @.at = "done" THEN NoCall ELSE [@ EXCEPT !.at = "reload"]]
    /\ UNCHANGED <<file, broken, up, data, loadError, made, expired, history>>

(* After a failure, or when the last retry finds the lock held: another    *)
(* process may have refreshed the token.                                   *)
Fallback(c) ==
    /\ call[c].at = "reload" \/ (call[c].at = "waiting" /\ ~FreeForAsync)
    /\ ReloadFrom(By[c], data[By[c]])
    /\ call' = [call EXCEPT ![c] = NoCall]
    /\ UNCHANGED <<file, broken, up, made, expired, should, spent, orphaned, torn>>

-----------------------------------------------------------------------------
(* Time and failures *)

Expire(n) ==
    /\ n \notin expired
    /\ \E q \in Providers : \E known \in {file} \cup {data[p] : p \in Processes} :
          known[q] = Credential("oauth", n)
    /\ expired' = expired \cup {n}
    /\ UNCHANGED <<file, broken, lock, up, data, loadError, call, made, history>>

(* Requests of the process that were not answered, and the tokens in them *)
Unanswered(p) == {c \in Calls : By[c] = p /\ call[c].at = "refreshing"}

Dies(p) ==
    /\ up[p]
    /\ up' = [up EXCEPT ![p] = FALSE]
    /\ data' = [data EXCEPT ![p] = Empty]
    /\ loadError' = [loadError EXCEPT ![p] = FALSE]
    /\ call' = [c \in Calls |-> IF By[c] = p THEN NoCall ELSE call[c]]
    /\ orphaned' = orphaned \cup {call[c].read[call[c].of].id : c \in Unanswered(p)}
    /\ UNCHANGED <<made, expired, spent>>

(* A lock that it holds stays. *)
LockLeft(p) ==
    lock' = IF lock.holder = "call" /\ By[lock.by] = p THEN [Left EXCEPT !.age = lock.age] ELSE lock

Kill(p) ==
    /\ Dies(p)
    /\ LockLeft(p)
    /\ UNCHANGED <<file, broken, should, taken, torn>>

(* Killed between the truncation and the end of a write: what is left is   *)
(* empty, which counts as no credentials, or does not parse.               *)
KillWriting(p) ==
    /\ Dies(p)
    /\ \/ /\ FreeForSync /\ ~loadError[p] /\ ~broken
          /\ lock' = Left
          /\ taken' = (taken \/ lock.holder = "call")
       \/ /\ \E c \in Unanswered(p) : ~call[c].compromised
          /\ LockLeft(p)
          /\ UNCHANGED taken
    /\ torn' = TRUE
    /\ \/ file' = Empty /\ broken' = FALSE
       \/ broken' = TRUE /\ UNCHANGED file
    /\ UNCHANGED should

-----------------------------------------------------------------------------
Next ==
    \/ \E p \in Processes :
          \/ Launch(p) \/ Reload(p) \/ Kill(p) \/ KillWriting(p)
          \/ \E q \in Providers : Remove(p, q) \/ \E kind \in {"key", "oauth"} : Set(p, q, kind)
    \/ \E c \in Calls :
          \/ \E q \in Providers : GetApiKey(c, q)
          \/ Begin(c) \/ Answer(c) \/ Refuse(c) \/ Release(c) \/ Fallback(c) \/ Renew(c)
    \/ Age
    \/ \E n \in Ids : Expire(n)

Spec == Init /\ [][Next]_vars

-----------------------------------------------------------------------------
(* Properties *)

TypeOK ==
    /\ file \in [Providers -> Credentials] /\ should \in [Providers -> Credentials]
    /\ broken \in BOOLEAN
    /\ lock \in [holder : {"nobody", "call", "dead"}, by : Calls \cup {"nobody"},
                 age : {"young", "aging", "old"}]
    /\ up \in [Processes -> BOOLEAN]
    /\ data \in [Processes -> [Providers -> Credentials]]
    /\ loadError \in [Processes -> BOOLEAN]
    /\ call \in [Calls -> [at : {"idle", "waiting", "refreshing", "done", "failed", "reload"},
                           of : Providers \cup {"nothing"},
                           read : [Providers -> Credentials], compromised : BOOLEAN]]
    /\ made \in Ids /\ expired \subseteq Ids /\ spent \subseteq Ids /\ orphaned \subseteq Ids
    /\ taken \in BOOLEAN /\ torn \in BOOLEAN

Refreshing == {c \in Calls : call[c].at = "refreshing"}

(* The file says the lock is there "to prevent race conditions when        *)
(* multiple pi instances try to refresh tokens simultaneously".            *)
OneRefresher == Cardinality(Refreshing) <= 1

(* It does, unless a synchronous lock was taken over a slow request.       *)
OneRefresherOr == taken \/ OneRefresher

(* What a refresh read before the request, and will write back with the    *)
(* new token, is still what the file holds.                                *)
SnapshotCurrent == taken \/ torn \/ \A c \in Refreshing : call[c].read = file

(* The file holds for each provider what was last stored for it, whatever  *)
(* any process remembers, unless a lock was taken or a process died in a   *)
(* write.                                                                  *)
NoChangeLost == taken \/ torn \/ file = should

(* A refresh token that was sent to the provider is not in the file any    *)
(* more: it is being refreshed, or it has been replaced, or its successor  *)
(* was lost with an answer or a process.                                   *)
TokensFresh ==
    taken \/ torn \/
    \A q \in Providers :
        file[q].kind = "oauth" /\ file[q].id \in spent =>
            \/ file[q].id \in orphaned
            \/ \E c \in Refreshing : call[c].of = q /\ call[c].read[q] = file[q]

(* A lock is somebody's: the call that made it has not returned, and has   *)
(* not been told that it lost it, so that it will give it back, whatever   *)
(* becomes of the refresh and whoever took a lock from whom.               *)
LockOwned ==
    lock.holder = "call" =>
        /\ lock.by \in Calls
        /\ call[lock.by].at \in {"refreshing", "done", "failed"} /\ ~call[lock.by].compromised
=============================================================================

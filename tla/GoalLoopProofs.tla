--------------------------- MODULE GoalLoopProofs ---------------------------
(***************************************************************************)
(* Proofs about GoalLoop, for any number of drivers, crashes, caps and     *)
(* costs.                                                                  *)
(*                                                                         *)
(* OneDriver becomes inductive with one more fact: while the lock is       *)
(* intact, nobody works when some driver is between the read and the write *)
(* of acquireLock, because it read a lock that was free or stale.          *)
(***************************************************************************)
EXTENDS GoalLoop, SequenceTheorems, TLAPS

LockInv ==
    Intact =>
        /\ \A p \in Drivers :
              Working(p) => lockJson = [pid |-> p, fresh |-> TRUE]
        /\ \A p, q \in Drivers : pc[q] = "lock" => ~Working(p)

(* What one driver's memory has to do with the files: it is not ahead of   *)
(* the transcript, and between reading the ledger and counting the         *)
(* iteration each record it writes keeps the next one behind.              *)
Behind(p) ==
    /\ state[p].iteration <= Len(transcript)
    /\ pc[p] \in {"heartbeat", "iterating", "ledger"}
          => Len(transcript) <= ledger[p].iterations
    /\ pc[p] = "transcript" => Len(transcript) < ledgerJson.iterations
    /\ pc[p] = "state" => state[p].iteration < Len(transcript)

RecordsInv ==
    Intact =>
        /\ stateJson.iteration <= Len(transcript)
        /\ cancelled <= Len(transcript)
        /\ Len(transcript) <= ledgerJson.iterations
        /\ \A p \in Drivers : Behind(p)

----------------------------------------------------------------------------
(* Type correctness. *)

(* The empty memory has the type of memory. *)
LEMMA EmptyMemory ==
    /\ NoState \in GoalState
    /\ NoLedger \in [usd: Nat, iterations: Nat]
    /\ NoOutcome \in [usd: 0..MaxCost, sentinel: BOOLEAN, changed: BOOLEAN]
<1>1. 0 \in Nat /\ 0 \in 0..MaxCost
    BY GoalAssumption
<1>2. QED
    BY <1>1 DEF NoState, NoLedger, NoOutcome, GoalState, Statuses

LEMMA InitType == Init => TypeOK
<1> SUFFICES ASSUME Init PROVE TypeOK
    OBVIOUS
<1>1. <<>> \in Seq([iter: Nat, sentinel: BOOLEAN])
    BY EmptySeq
<1>2. /\ pc \in [Drivers -> Phases]
      /\ state \in [Drivers -> GoalState]
      /\ ledger \in [Drivers -> [usd: Nat, iterations: Nat]]
      /\ outcome \in [Drivers -> [usd: 0..MaxCost, sentinel: BOOLEAN,
                                   changed: BOOLEAN]]
    BY EmptyMemory DEF Init, Phases
<1>3. /\ goalMd \in [maxIterations: IterCaps, maxUsd: UsdCaps,
                     status: Statuses]
      /\ lockJson \in [pid: Drivers \cup {NoPid}, fresh: BOOLEAN]
      /\ stateJson \in GoalState
      /\ ledgerJson \in [usd: Nat, iterations: Nat]
    BY EmptyMemory DEF Init, NoLock, Statuses
<1>4. crashes \in 0..MaxCrashes
    BY GoalAssumption DEF Init
<1>5. QED
    BY <1>1, <1>2, <1>3, <1>4 DEF Init, TypeOK

(* Forgetting a process leaves memory of the right type. *)
LEMMA ForgetType ==
    ASSUME TypeOK, NEW p \in Drivers, Forget(p)
    PROVE  /\ state' \in [Drivers -> GoalState]
           /\ ledger' \in [Drivers -> [usd: Nat, iterations: Nat]]
           /\ outcome' \in [Drivers -> [usd: 0..MaxCost, sentinel: BOOLEAN,
                                        changed: BOOLEAN]]
           /\ idle' \in [Drivers -> Nat]
           /\ aborted' \in [Drivers -> BOOLEAN]
BY EmptyMemory DEF TypeOK, Forget

LEMMA PhaseType ==
    ASSUME TypeOK, NEW p \in Drivers, NEW from, NEW to \in Phases,
           Goto(p, from, to)
    PROVE  pc' \in [Drivers -> Phases]
BY DEF TypeOK, Goto

LEMMA DriverType ==
    ASSUME TypeOK, NEW p \in Drivers, DriverStep(p)
    PROVE  TypeOK'
<1> USE DEF files, memory, cancel, history
<1>p. /\ {"resume", "unpause", "acquire", "lock", "exited"} \subseteq Phases
      /\ InLoop \subseteq Phases
    BY DEF Phases
<1>q. InLoop = {"load", "store", "top", "heartbeat", "ledger", "transcript",
                "state", "finish", "frontmatter", "release", "iterating",
                "sleeping"}
    BY DEF InLoop, AwaitPoints
<1>s. "running" \in Statuses /\ "done" \in Statuses
    BY DEF Statuses
<1>1. CASE ResumeWrite(p)
  <2>1. pc' \in [Drivers -> Phases]
      BY <1>1, <1>p, PhaseType DEF ResumeWrite
  <2>2. QED
      BY <1>1, <2>1 DEF TypeOK, ResumeWrite
<1>2. CASE ResumeFrontmatter(p)
  <2>1. pc' \in [Drivers -> Phases]
      BY <1>2, <1>p, PhaseType DEF ResumeFrontmatter
  <2>2. QED
      BY <1>2, <2>1, <1>s DEF TypeOK, ResumeFrontmatter
<1>3. CASE LockRefused(p)
  <2>1. pc' \in [Drivers -> Phases]
      BY <1>3, <1>p, PhaseType DEF LockRefused
  <2>2. QED
      BY <1>3, <2>1, ForgetType DEF TypeOK, LockRefused
<1>4. CASE LockFound(p)
  <2>1. pc' \in [Drivers -> Phases]
      BY <1>4, <1>p, PhaseType DEF LockFound
  <2>2. QED
      BY <1>4, <2>1 DEF TypeOK, LockFound
<1>5. CASE LockWrite(p)
  <2>1. pc' \in [Drivers -> Phases]
      BY <1>5, <1>p, <1>q, PhaseType DEF LockWrite
  <2>2. QED
      BY <1>5, <2>1 DEF TypeOK, LockWrite
<1>6. CASE LoadState(p)
  <2>1. pc' \in [Drivers -> Phases]
      BY <1>6, <1>p, <1>q, PhaseType DEF LoadState
  <2>2. [stateJson EXCEPT !.status = "running"] \in GoalState
      BY <1>s DEF TypeOK, GoalState
  <2>3. QED
      BY <1>6, <2>1, <2>2 DEF TypeOK, LoadState
<1>7. CASE StoreState(p)
  <2>1. pc' \in [Drivers -> Phases]
      BY <1>7, <1>p, <1>q, PhaseType DEF StoreState
  <2>2. QED
      BY <1>7, <2>1 DEF TypeOK, StoreState
<1>8. CASE LoopHead(p)
  <2>1. pc' \in [Drivers -> Phases]
      BY <1>8, <1>p, <1>q DEF LoopHead, TypeOK
  <2>2. Verdict(p) \in Statuses
      BY DEF Verdict, Statuses
  <2>3. state' \in [Drivers -> GoalState]
      BY <1>8, <2>2 DEF TypeOK, LoopHead, GoalState
  <2>4. QED
      BY <1>8, <2>1, <2>3 DEF TypeOK, LoopHead
<1>9. CASE Heartbeat(p)
  <2>1. pc' \in [Drivers -> Phases]
      BY <1>9, <1>p, <1>q, PhaseType DEF Heartbeat
  <2>2. QED
      BY <1>9, <2>1 DEF TypeOK, Heartbeat
<1>10. CASE ChildCloses(p)
  <2>1. pc' \in [Drivers -> Phases]
      BY <1>10, <1>p, <1>q, PhaseType DEF ChildCloses
  <2>2. PICK o \in Outcomes : /\ outcome' = [outcome EXCEPT ![p] = o]
                              /\ paid' = paid + o.usd
      BY <1>10 DEF ChildCloses
  <2>3. o \in [usd: 0..MaxCost, sentinel: BOOLEAN, changed: BOOLEAN]
      BY GoalAssumption DEF Outcomes
  <2>4. paid' \in Nat
      BY <2>2, <2>3, GoalAssumption DEF TypeOK
  <2>5. QED
      BY <1>10, <2>1, <2>2, <2>3, <2>4 DEF TypeOK, ChildCloses
<1>11. CASE WriteLedger(p)
  <2>1. pc' \in [Drivers -> Phases]
      BY <1>11, <1>p, <1>q, PhaseType DEF WriteLedger
  <2>2. /\ ledger[p].usd \in Nat /\ ledger[p].iterations \in Nat
        /\ outcome[p].usd \in Nat
      BY GoalAssumption DEF TypeOK
  <2>3. /\ ledger[p].usd + outcome[p].usd \in Nat
        /\ ledger[p].iterations + 1 \in Nat
      BY <2>2
  <2>4. ledgerJson' \in [usd: Nat, iterations: Nat]
      BY <1>11, <2>3 DEF WriteLedger
  <2>5. idle' \in [Drivers -> Nat]
      BY <1>11 DEF TypeOK, WriteLedger
  <2>6. QED
      BY <1>11, <2>1, <2>4, <2>5 DEF TypeOK, WriteLedger
<1>12. CASE AppendTranscript(p)
  <2>1. pc' \in [Drivers -> Phases]
      BY <1>12, <1>p, <1>q, PhaseType DEF AppendTranscript
  <2>2. [iter |-> state[p].iteration + 1, sentinel |-> outcome[p].sentinel]
            \in [iter: Nat, sentinel: BOOLEAN]
      BY DEF TypeOK, GoalState
  <2>3. transcript' \in Seq([iter: Nat, sentinel: BOOLEAN])
      BY <1>12, <2>2, AppendProperties DEF TypeOK, AppendTranscript
  <2>4. QED
      BY <1>12, <2>1, <2>3 DEF TypeOK, AppendTranscript
<1>13. CASE WriteState(p)
  <2>1. pc' \in [Drivers -> Phases]
      BY <1>13, <1>p, <1>q, PhaseType DEF WriteState
  <2>2. state[p] \in GoalState /\ state[p].iteration + 1 \in Nat
      BY DEF TypeOK, GoalState
  <2>3. stateJson' \in GoalState
      BY <1>13, <2>2 DEF WriteState, GoalState
  <2>4. [iteration |-> state[p].iteration + 1,
         status |-> IF outcome[p].sentinel THEN "done" ELSE "running"]
            \in GoalState
      BY <1>s, <2>2 DEF GoalState
  <2>5. state' \in [Drivers -> GoalState]
      BY <1>13, <2>4 DEF TypeOK, WriteState
  <2>6. QED
      BY <1>13, <2>1, <2>3, <2>5, EmptyMemory DEF TypeOK, WriteState
<1>14. CASE FinishState(p)
  <2>1. pc' \in [Drivers -> Phases]
      BY <1>14, <1>p, <1>q, PhaseType DEF FinishState
  <2>2. QED
      BY <1>14, <2>1 DEF TypeOK, FinishState
<1>15. CASE FinishFrontmatter(p)
  <2>1. pc' \in [Drivers -> Phases]
      BY <1>15, <1>p, <1>q, PhaseType DEF FinishFrontmatter
  <2>2. QED
      BY <1>15, <2>1 DEF TypeOK, FinishFrontmatter, GoalState
<1>16. CASE FinishRelease(p)
  <2>1. pc' \in [Drivers -> Phases]
      BY <1>16, <1>p, <1>q, PhaseType DEF FinishRelease
  <2>2. QED
      BY <1>16, <2>1, ForgetType DEF TypeOK, FinishRelease, NoLock
<1>17. QED
    BY <1>1, <1>2, <1>3, <1>4, <1>5, <1>6, <1>7, <1>8, <1>9, <1>10, <1>11,
       <1>12, <1>13, <1>14, <1>15, <1>16 DEF DriverStep

LEMMA WorldType ==
    ASSUME TypeOK,
           \/ UserStep
           \/ \E p \in Drivers : Crash(p)
           \/ LockGoesStale
           \/ WallClockExpires
    PROVE  TypeOK'
<1> USE DEF files, memory, cancel, history
<1>s. "running" \in Statuses /\ "cancelled" \in Statuses
    BY DEF Statuses
<1>p. {"resume", "crashed"} \subseteq Phases
    BY DEF Phases
<1>1. ASSUME NEW p \in Drivers, NEW force \in BOOLEAN, ResumeRead(p, force)
      PROVE  TypeOK'
  <2>1. pc' \in [Drivers -> Phases]
      BY <1>1, <1>p, PhaseType DEF ResumeRead
  <2>2. [stateJson EXCEPT !.status = "running"] \in GoalState
      BY <1>s DEF TypeOK, GoalState
  <2>3. QED
      BY <1>1, <2>1, <2>2 DEF TypeOK, ResumeRead
<1>2. ASSUME NEW p \in Drivers, Signal(p)
      PROVE  TypeOK'
    BY <1>2 DEF TypeOK, Signal
<1>3. ASSUME EditGoal
      PROVE  TypeOK'
    BY <1>3 DEF TypeOK, EditGoal
<1>4. ASSUME CancelRead
      PROVE  TypeOK'
    BY <1>4 DEF TypeOK, CancelRead, GoalState
<1>5. ASSUME CancelWrite
      PROVE  TypeOK'
    BY <1>5, <1>s DEF TypeOK, CancelWrite, GoalState
<1>6. ASSUME CancelFrontmatter
      PROVE  TypeOK'
    BY <1>6, <1>s DEF TypeOK, CancelFrontmatter
<1>7. ASSUME NEW p \in Drivers, Crash(p)
      PROVE  TypeOK'
  <2>1. pc' \in [Drivers -> Phases]
      BY <1>7, <1>p DEF Crash, TypeOK
  <2>2. crashes' \in 0..MaxCrashes
      BY <1>7, GoalAssumption DEF Crash, TypeOK
  <2>3. QED
      BY <1>7, <2>1, <2>2, ForgetType DEF TypeOK, Crash
<1>8. ASSUME LockGoesStale
      PROVE  TypeOK'
  <2>1. stalled' \in BOOLEAN
      BY <1>8, Zenon DEF LockGoesStale, TypeOK, Working
  <2>2. QED
      BY <1>8, <2>1 DEF TypeOK, LockGoesStale
<1>9. ASSUME WallClockExpires
      PROVE  TypeOK'
    BY <1>9 DEF TypeOK, WallClockExpires
<1>10. QED
    BY <1>1, <1>2, <1>3, <1>4, <1>5, <1>6, <1>7, <1>8, <1>9 DEF UserStep

(* Every file and every driver's memory keeps its type (goal-state.ts:38,  *)
(* the interfaces of the sidecar files).                                   *)
THEOREM TypeCorrect == Spec => []TypeOK
<1>1. TypeOK /\ [Next]_vars => TypeOK'
  <2> SUFFICES ASSUME TypeOK, [Next]_vars PROVE TypeOK'
      OBVIOUS
  <2>1. CASE Next
      BY <2>1, DriverType, WorldType DEF Next
  <2>2. CASE UNCHANGED vars
      BY <2>2 DEF TypeOK, vars, files, memory, cancel, history
  <2>3. QED
      BY <2>1, <2>2
<1>2. QED
    BY InitType, <1>1, PTL DEF Spec

----------------------------------------------------------------------------
(* The lock. *)

(* A step that leaves the lock alone and lets nobody into the loop, nor    *)
(* between the read and the write of the lock, keeps the invariant.        *)
LEMMA QuietStep ==
    ASSUME LockInv,
           UNCHANGED <<lockJson, stalled, raced>>,
           \A p \in Drivers : Working(p)' => Working(p),
           \A p \in Drivers : pc'[p] = "lock" => pc[p] = "lock"
    PROVE  LockInv'
BY DEF LockInv, Intact

(* Moving one driver inside the loop, or out of it, is such a step. *)
LEMMA QuietMove ==
    ASSUME TypeOK, LockInv, NEW p \in Drivers, NEW to, to # "lock",
           to \in InLoop => Working(p),
           pc' = [pc EXCEPT ![p] = to],
           UNCHANGED <<lockJson, stalled, raced>>
    PROVE  LockInv'
<1>1. \A q \in Drivers : Working(q)' => Working(q)
    BY DEF Working, TypeOK
<1>2. \A q \in Drivers : pc'[q] = "lock" => pc[q] = "lock"
    BY DEF TypeOK
<1>3. QED
    BY <1>1, <1>2, QuietStep

LEMMA DriverLock ==
    ASSUME TypeOK, LockInv, NEW p \in Drivers, DriverStep(p)
    PROVE  LockInv'
<1> USE DEF files, memory, cancel, history
<1>q. InLoop = {"load", "store", "top", "heartbeat", "ledger", "transcript",
                "state", "finish", "frontmatter", "release", "iterating",
                "sleeping"}
    BY DEF InLoop, AwaitPoints
<1>1. CASE ResumeWrite(p) \/ ResumeFrontmatter(p) \/ LockRefused(p)
    BY <1>1, <1>q, QuietMove
    DEF ResumeWrite, ResumeFrontmatter, LockRefused, Goto
<1>2. CASE LockFound(p)
  <2>1. /\ pc[p] = "acquire"
        /\ pc' = [pc EXCEPT ![p] = "lock"]
        /\ UNCHANGED <<lockJson, stalled, raced>>
      BY <1>2 DEF LockFound, Goto
  <2>2. ~Working(p)
      BY <2>1, <1>q DEF Working
  <2>3. Intact => \A q \in Drivers : ~Working(q)
    <3> SUFFICES ASSUME Intact, NEW q \in Drivers, Working(q)
                 PROVE  FALSE
        OBVIOUS
    <3>1. lockJson = [pid |-> q, fresh |-> TRUE]
        BY DEF LockInv
    <3>2. lockJson.pid = p
        BY <1>2, <3>1 DEF LockFound, LockIsHeld
    <3>3. QED
        BY <3>1, <3>2, <2>2
  <2>4. \A q \in Drivers : Working(q)' => Working(q)
      BY <2>1, <1>q DEF Working, TypeOK
  <2>5. QED
      BY <2>1, <2>3, <2>4 DEF LockInv, Intact
<1>3. CASE LockWrite(p)
  <2>1. /\ pc[p] = "lock"
        /\ pc' = [pc EXCEPT ![p] = "load"]
        /\ lockJson' = [pid |-> p, fresh |-> TRUE]
        /\ stalled' = stalled
        /\ raced' = (raced \/ \E q \in Drivers \ {p} : pc[q] = "lock")
      BY <1>3 DEF LockWrite, Goto
  <2> SUFFICES ASSUME Intact'
               PROVE  /\ \A q \in Drivers :
                            Working(q)' => lockJson' = [pid |-> q, fresh |-> TRUE]
                      /\ \A q, r \in Drivers : pc'[r] = "lock" => ~Working(q)'
      BY DEF LockInv
  <2>2. Intact /\ \A q \in Drivers \ {p} : pc[q] # "lock"
      BY <2>1 DEF Intact
  <2>3. \A q \in Drivers : ~Working(q)
      BY <2>1, <2>2 DEF LockInv
  <2>4. \A q \in Drivers : Working(q)' => q = p
      BY <2>1, <2>3 DEF Working, TypeOK
  <2>5. \A q \in Drivers : pc'[q] # "lock"
      BY <2>1, <2>2 DEF TypeOK
  <2>6. QED
      BY <2>1, <2>4, <2>5
<1>4. CASE Heartbeat(p)
  <2>1. /\ Working(p)
        /\ pc' = [pc EXCEPT ![p] = "iterating"]
        /\ lockJson' = [pid |-> p, fresh |-> TRUE]
        /\ UNCHANGED <<stalled, raced>>
      BY <1>4, <1>q DEF Heartbeat, Goto, Working
  <2>2. \A q \in Drivers : Working(q)' => Working(q)
      BY <2>1 DEF Working, TypeOK
  <2>3. \A q \in Drivers : pc'[q] = "lock" => pc[q] = "lock"
      BY <2>1 DEF TypeOK
  <2>4. Intact' => lockJson' = lockJson
      BY <2>1 DEF LockInv, Intact
  <2>5. QED
      BY <2>1, <2>2, <2>3, <2>4 DEF LockInv, Intact
<1>5. CASE FinishRelease(p)
  <2>1. /\ Working(p)
        /\ pc' = [pc EXCEPT ![p] = "exited"]
        /\ UNCHANGED <<stalled, raced>>
      BY <1>5, <1>q DEF FinishRelease, Goto, Working
  <2>2. Intact => \A q \in Drivers : Working(q) => q = p
    <3> SUFFICES ASSUME Intact, NEW q \in Drivers, Working(q)
                 PROVE  q = p
        OBVIOUS
    <3>1. lockJson.pid = q /\ lockJson.pid = p
        BY <2>1 DEF LockInv
    <3>2. QED
        BY <3>1
  <2>3. \A q \in Drivers : Working(q)' => Working(q) /\ q # p
      BY <2>1, <1>q DEF Working, TypeOK
  <2>4. QED
      BY <2>1, <2>2, <2>3 DEF LockInv, Intact
<1>6. CASE LoopHead(p)
  <2>1. Working(p)
      BY <1>6, <1>q DEF LoopHead, Working
  <2>2. \E to \in {"heartbeat", "finish"} : pc' = [pc EXCEPT ![p] = to]
      BY <1>6 DEF LoopHead
  <2>3. QED
      BY <1>6, <2>1, <2>2, QuietMove DEF LoopHead
<1>7. CASE WriteState(p)
  <2>1. Working(p)
      BY <1>7, <1>q DEF WriteState, Goto, Working
  <2>2. \E to \in {"finish", "sleeping"} : pc' = [pc EXCEPT ![p] = to]
      BY <1>7 DEF WriteState, Goto
  <2>3. QED
      BY <1>7, <2>1, <2>2, QuietMove DEF WriteState
<1>8. CASE LoadState(p) \/ StoreState(p) \/ ChildCloses(p) \/ WriteLedger(p)
  <2>1. Working(p)
      BY <1>8, <1>q
      DEF LoadState, StoreState, ChildCloses, WriteLedger, Goto, Working
  <2>2. QED
      BY <1>8, <2>1, QuietMove
      DEF LoadState, StoreState, ChildCloses, WriteLedger, Goto
<1>9. CASE AppendTranscript(p) \/ FinishState(p) \/ FinishFrontmatter(p)
  <2>1. Working(p)
      BY <1>9, <1>q
      DEF AppendTranscript, FinishState, FinishFrontmatter, Goto, Working
  <2>2. QED
      BY <1>9, <2>1, QuietMove
      DEF AppendTranscript, FinishState, FinishFrontmatter, Goto
<1>10. QED
    BY <1>1, <1>2, <1>3, <1>4, <1>5, <1>6, <1>7, <1>8, <1>9 DEF DriverStep

LEMMA WorldLock ==
    ASSUME TypeOK, LockInv,
           \/ UserStep
           \/ \E p \in Drivers : Crash(p)
           \/ LockGoesStale
           \/ WallClockExpires
    PROVE  LockInv'
<1> USE DEF files, memory, cancel, history
<1>q. "resume" \notin InLoop /\ "crashed" \notin InLoop
    BY DEF InLoop, AwaitPoints
<1>1. ASSUME NEW p \in Drivers, NEW force \in BOOLEAN, ResumeRead(p, force)
      PROVE  LockInv'
    BY <1>1, <1>q, QuietMove DEF ResumeRead, Goto
<1>2. ASSUME NEW p \in Drivers, Crash(p)
      PROVE  LockInv'
    BY <1>2, <1>q, QuietMove DEF Crash
<1>3. ASSUME \/ \E p \in Drivers : Signal(p)
             \/ EditGoal \/ CancelRead \/ CancelWrite \/ CancelFrontmatter
             \/ WallClockExpires
      PROVE  LockInv'
  <2>1. UNCHANGED <<lockJson, stalled, raced, pc>>
      BY <1>3 DEF Signal, EditGoal, CancelRead, CancelWrite,
                  CancelFrontmatter, WallClockExpires
  <2>2. QED
      BY <2>1, QuietStep DEF Working
<1>4. ASSUME LockGoesStale
      PROVE  LockInv'
  <2>1. /\ stalled' = (stalled \/ Working(lockJson.pid))
        /\ UNCHANGED <<pc, raced>>
      BY <1>4 DEF LockGoesStale
  <2> SUFFICES ASSUME Intact'
               PROVE  \A p \in Drivers : ~Working(p)
      BY <2>1 DEF LockInv, Working
  <2>2. Intact /\ ~Working(lockJson.pid)
      BY <2>1 DEF Intact
  <2>3. QED
      BY <2>2 DEF LockInv
<1>5. QED
    BY <1>1, <1>2, <1>3, <1>4 DEF UserStep

LEMMA LockInvariant == Spec => []LockInv
<1>1. Init => LockInv
  <2> SUFFICES ASSUME Init PROVE LockInv
      OBVIOUS
  <2>1. \A p \in Drivers : pc[p] \in {"idle", "acquire"}
      BY DEF Init
  <2>2. QED
      BY <2>1 DEF LockInv, Working, InLoop, AwaitPoints
<1>2. TypeOK /\ LockInv /\ [Next]_vars => LockInv'
  <2> SUFFICES ASSUME TypeOK, LockInv, [Next]_vars PROVE LockInv'
      OBVIOUS
  <2>1. CASE Next
      BY <2>1, DriverLock, WorldLock DEF Next
  <2>2. CASE UNCHANGED vars
      BY <2>2 DEF LockInv, Intact, Working, vars, files, history
  <2>3. QED
      BY <2>1, <2>2
<1>3. QED
    BY TypeCorrect, <1>1, <1>2, PTL DEF Spec

(* acquireLock, heartbeatLock and releaseLock (goal-state.ts:206-241) keep *)
(* the goal to one driver, for any number of processes resuming, crashing  *)
(* and finishing, as long as no living driver lets its lock go stale and   *)
(* no two are inside acquireLock at once.                                  *)
THEOREM LockKeepsOneDriver == Spec => []OneDriver
<1>1. LockInv => OneDriver
  <2> SUFFICES ASSUME LockInv, Intact, NEW p \in Drivers, Working(p)
               PROVE  /\ lockJson = [pid |-> p, fresh |-> TRUE]
                      /\ \A q \in Drivers : Working(q) => q = p
      BY DEF OneDriver
  <2>1. \A q \in Drivers : Working(q) => lockJson.pid = q
      BY DEF LockInv
  <2>2. QED
      BY <2>1 DEF LockInv
<1>2. QED
    BY LockInvariant, <1>1, PTL

----------------------------------------------------------------------------
(* The records. *)

(* The counts are numbers. *)
LEMMA Counts ==
    ASSUME TypeOK
    PROVE  /\ Len(transcript) \in Nat
           /\ stateJson.iteration \in Nat
           /\ ledgerJson.iterations \in Nat
           /\ cancelled \in Nat
           /\ \A p \in Drivers : /\ state[p].iteration \in Nat
                                 /\ ledger[p].iterations \in Nat
<1>1. Len(transcript) \in Nat
    BY LenProperties DEF TypeOK
<1>2. QED
    BY <1>1 DEF TypeOK, GoalState

(* A step of driver p that writes neither ledger.json nor the transcript   *)
(* has to be looked at for p and state.json only.                          *)
LEMMA LocalStep ==
    ASSUME RecordsInv, NEW p \in Drivers,
           UNCHANGED <<ledgerJson, transcript, cancelled>>,
           Intact' => Intact,
           \A q \in Drivers \ {p} : /\ pc'[q] = pc[q]
                                    /\ state'[q] = state[q]
                                    /\ ledger'[q] = ledger[q],
           Intact => /\ stateJson'.iteration <= Len(transcript)
                     /\ Behind(p)'
    PROVE  RecordsInv'
<1> SUFFICES ASSUME Intact' PROVE RecordsInv'
    BY DEF RecordsInv
<1>1. \A q \in Drivers \ {p} : Behind(q)'
    BY DEF RecordsInv, Behind
<1>2. \A q \in Drivers : Behind(q)'
    BY <1>1
<1>3. QED
    BY <1>2 DEF RecordsInv

(* No step repairs the lock. *)
LEMMA IntactBefore == [Next]_vars => (Intact' => Intact)
<1> USE DEF files, memory, cancel, history, Intact
<1>1. ASSUME NEW p \in Drivers, DriverStep(p)
      PROVE  Intact' => Intact
  <2>1. CASE LockWrite(p)
      BY <2>1 DEF LockWrite
  <2>2. CASE ChildCloses(p)
      BY <2>2 DEF ChildCloses
  <2>3. CASE \/ ResumeWrite(p) \/ ResumeFrontmatter(p) \/ LockRefused(p)
             \/ LockFound(p) \/ LoadState(p) \/ StoreState(p) \/ LoopHead(p)
             \/ Heartbeat(p)
      BY <2>3 DEF ResumeWrite, ResumeFrontmatter, LockRefused, LockFound,
                  LoadState, StoreState, LoopHead, Heartbeat
  <2>4. CASE \/ WriteLedger(p) \/ AppendTranscript(p) \/ WriteState(p)
             \/ FinishState(p) \/ FinishFrontmatter(p) \/ FinishRelease(p)
      BY <2>4 DEF WriteLedger, AppendTranscript, WriteState, FinishState,
                  FinishFrontmatter, FinishRelease
  <2>5. QED
      BY <1>1, <2>1, <2>2, <2>3, <2>4 DEF DriverStep
<1>2. ASSUME \/ UserStep \/ (\E p \in Drivers : Crash(p))
             \/ LockGoesStale \/ WallClockExpires
      PROVE  Intact' => Intact
    BY <1>2 DEF UserStep, ResumeRead, Signal, EditGoal, CancelRead,
                CancelWrite, CancelFrontmatter, Crash, LockGoesStale,
                WallClockExpires
<1>3. UNCHANGED vars => (Intact' => Intact)
    BY DEF vars
<1>4. QED
    BY <1>1, <1>2, <1>3 DEF Next

(* A driver moves itself only. *)
LEMMA OthersStay ==
    ASSUME TypeOK, NEW p \in Drivers, DriverStep(p)
    PROVE  /\ cancelled' = cancelled
           /\ \A q \in Drivers \ {p} : /\ pc'[q] = pc[q]
                                       /\ state'[q] = state[q]
                                       /\ ledger'[q] = ledger[q]
                                       /\ outcome'[q] = outcome[q]
<1> USE DEF files, memory, cancel, TypeOK, Goto, Forget
<1>1. CASE \/ ResumeWrite(p) \/ ResumeFrontmatter(p) \/ LockRefused(p)
           \/ LockFound(p) \/ LockWrite(p) \/ LoadState(p)
    BY <1>1 DEF ResumeWrite, ResumeFrontmatter, LockRefused, LockFound,
                LockWrite, LoadState
<1>2. CASE \/ StoreState(p) \/ LoopHead(p) \/ Heartbeat(p) \/ ChildCloses(p)
           \/ WriteLedger(p)
    BY <1>2 DEF StoreState, LoopHead, Heartbeat, ChildCloses, WriteLedger
<1>3. CASE \/ AppendTranscript(p) \/ WriteState(p) \/ FinishState(p)
           \/ FinishFrontmatter(p) \/ FinishRelease(p)
    BY <1>3 DEF AppendTranscript, WriteState, FinishState, FinishFrontmatter,
                FinishRelease
<1>4. QED
    BY <1>1, <1>2, <1>3 DEF DriverStep

LEMMA DriverRecords ==
    ASSUME TypeOK, LockInv, RecordsInv, NEW p \in Drivers, DriverStep(p)
    PROVE  RecordsInv'
<1> USE DEF files, memory, cancel
<1>i. Intact' => Intact
    BY IntactBefore DEF Next
<1>o. /\ cancelled' = cancelled
      /\ \A q \in Drivers \ {p} : /\ pc'[q] = pc[q]
                                  /\ state'[q] = state[q]
                                  /\ ledger'[q] = ledger[q]
    BY OthersStay
<1>c. /\ Len(transcript) \in Nat
      /\ stateJson.iteration \in Nat
      /\ ledgerJson.iterations \in Nat
      /\ state[p].iteration \in Nat
      /\ ledger[p].iterations \in Nat
    BY Counts
<1>b. Intact => /\ stateJson.iteration <= Len(transcript)
                /\ Len(transcript) <= ledgerJson.iterations
                /\ Behind(p)
    BY DEF RecordsInv
<1>1. CASE ResumeWrite(p) \/ StoreState(p) \/ FinishState(p)
  <2>1. Intact => stateJson'.iteration <= Len(transcript) /\ Behind(p)'
      BY <1>1, <1>b
      DEF ResumeWrite, StoreState, FinishState, Behind, Goto, TypeOK
  <2>2. UNCHANGED <<ledgerJson, transcript>>
      BY <1>1 DEF ResumeWrite, StoreState, FinishState
  <2>3. QED
      BY <1>i, <1>o, <2>1, <2>2, LocalStep
<1>2. CASE \/ ResumeFrontmatter(p) \/ LockFound(p) \/ LockWrite(p)
           \/ FinishFrontmatter(p)
  <2>1. Intact => stateJson'.iteration <= Len(transcript) /\ Behind(p)'
      BY <1>2, <1>b
      DEF ResumeFrontmatter, LockFound, LockWrite, FinishFrontmatter, Behind,
          Goto, TypeOK
  <2>2. UNCHANGED <<ledgerJson, transcript>>
      BY <1>2 DEF ResumeFrontmatter, LockFound, LockWrite, FinishFrontmatter
  <2>3. QED
      BY <1>i, <1>o, <2>1, <2>2, LocalStep
<1>3. CASE LockRefused(p) \/ FinishRelease(p)
  <2>1. Intact => stateJson'.iteration <= Len(transcript) /\ Behind(p)'
      BY <1>3, <1>b, <1>c
      DEF LockRefused, FinishRelease, Behind, Goto, Forget, NoState, TypeOK
  <2>2. UNCHANGED <<ledgerJson, transcript>>
      BY <1>3 DEF LockRefused, FinishRelease
  <2>3. QED
      BY <1>i, <1>o, <2>1, <2>2, LocalStep
<1>4. CASE LoadState(p) \/ Heartbeat(p) \/ ChildCloses(p)
  <2>1. UNCHANGED <<stateJson, ledgerJson, transcript, ledger>>
      BY <1>4 DEF LoadState, Heartbeat, ChildCloses
  <2>2. \/ /\ pc'[p] = "store"
           /\ state'[p].iteration = stateJson.iteration
        \/ /\ pc[p] \in {"heartbeat", "iterating"}
           /\ pc'[p] \in {"iterating", "ledger"}
           /\ state' = state
    <3>1. CASE LoadState(p)
        BY <3>1 DEF LoadState, Goto, TypeOK, GoalState
    <3>2. CASE Heartbeat(p)
        BY <3>2 DEF Heartbeat, Goto, TypeOK
    <3>3. CASE ChildCloses(p)
        BY <3>3 DEF ChildCloses, Goto, TypeOK
    <3>4. QED
        BY <1>4, <3>1, <3>2, <3>3
  <2>3. Intact => stateJson'.iteration <= Len(transcript) /\ Behind(p)'
      BY <1>b, <2>1, <2>2 DEF Behind
  <2>4. QED
      BY <1>i, <1>o, <2>3, <2>1, LocalStep
<1>5. CASE LoopHead(p)
  <2>1. /\ ledger'[p] = ledgerJson
        /\ state'[p].iteration = state[p].iteration
        /\ pc'[p] \in {"heartbeat", "finish"}
        /\ UNCHANGED <<stateJson, ledgerJson, transcript>>
      BY <1>5 DEF LoopHead, TypeOK, GoalState
  <2>2. Intact => stateJson'.iteration <= Len(transcript) /\ Behind(p)'
      BY <1>b, <2>1 DEF Behind
  <2>3. QED
      BY <1>i, <1>o, <2>1, <2>2, LocalStep
<1>6. CASE WriteState(p)
  <2>1. /\ pc[p] = "state"
        /\ pc'[p] \in {"finish", "sleeping"}
        /\ stateJson'.iteration = state[p].iteration + 1
        /\ state'[p].iteration = state[p].iteration + 1
        /\ UNCHANGED <<ledgerJson, transcript>>
      BY <1>6 DEF WriteState, Goto, TypeOK, GoalState
  <2>2. Intact => state[p].iteration + 1 <= Len(transcript)
      BY <1>b, <1>c, <2>1 DEF Behind
  <2>3. Intact => stateJson'.iteration <= Len(transcript) /\ Behind(p)'
      BY <2>1, <2>2 DEF Behind
  <2>4. QED
      BY <1>i, <1>o, <2>1, <2>3, LocalStep
<1>7. ASSUME \/ WriteLedger(p) \/ AppendTranscript(p), Intact
      PROVE  \A q \in Drivers \ {p} : ~Working(q)
  <2>1. Working(p)
      BY <1>7 DEF WriteLedger, AppendTranscript, Goto, Working, InLoop
  <2>2. \A q \in Drivers : Working(q) => lockJson.pid = q
      BY <1>7 DEF LockInv
  <2>3. QED
      BY <2>1, <2>2
<1>8. CASE WriteLedger(p)
  <2> SUFFICES ASSUME Intact' PROVE RecordsInv'
      BY DEF RecordsInv
  <2>1. /\ pc[p] = "ledger" /\ pc'[p] = "transcript"
        /\ ledgerJson'.iterations = ledger[p].iterations + 1
        /\ UNCHANGED <<stateJson, transcript, state>>
      BY <1>8 DEF WriteLedger, Goto, TypeOK
  <2>2. Len(transcript) < ledgerJson'.iterations
      BY <1>b, <1>c, <1>i, <2>1 DEF Behind
  <2>3. ASSUME NEW q \in Drivers PROVE Behind(q)'
    <3>1. CASE q = p
        BY <1>b, <1>i, <2>1, <2>2, <3>1 DEF Behind
    <3>2. CASE q # p
      <4>1. ~Working(q) /\ Behind(q)
          BY <1>7, <1>8, <1>i, <3>2 DEF RecordsInv
      <4>2. QED
          BY <1>o, <2>1, <3>2, <4>1 DEF Behind, Working, InLoop
    <3>3. QED
        BY <3>1, <3>2
  <2>4. cancelled <= Len(transcript)
      BY <1>i DEF RecordsInv
  <2>5. ledgerJson'.iterations \in Nat
      BY <1>c, <2>1
  <2>6. QED
      BY <1>b, <1>c, <1>i, <1>o, <2>1, <2>2, <2>3, <2>4, <2>5 DEF RecordsInv
<1>9. CASE AppendTranscript(p)
  <2> SUFFICES ASSUME Intact' PROVE RecordsInv'
      BY DEF RecordsInv
  <2>1. /\ pc[p] = "transcript" /\ pc'[p] = "state"
        /\ UNCHANGED <<stateJson, ledgerJson, state, ledger>>
      BY <1>9 DEF AppendTranscript, Goto, TypeOK
  <2>2. [iter |-> state[p].iteration + 1, sentinel |-> outcome[p].sentinel]
            \in [iter: Nat, sentinel: BOOLEAN]
      BY <1>c DEF TypeOK
  <2>3. Len(transcript') = Len(transcript) + 1
      BY <1>9, <2>2, AppendProperties DEF AppendTranscript, TypeOK
  <2>4. Len(transcript) < ledgerJson.iterations
      BY <1>b, <1>i, <2>1 DEF Behind
  <2>5. ASSUME NEW q \in Drivers PROVE Behind(q)'
    <3>1. state[q].iteration <= Len(transcript) /\ state[q].iteration \in Nat
        BY <1>i, Counts DEF RecordsInv, Behind
    <3>2. /\ state'[q].iteration <= Len(transcript')
          /\ state'[q].iteration < Len(transcript')
        BY <1>c, <2>1, <2>3, <3>1
    <3>3. CASE q = p
        BY <2>1, <3>2, <3>3 DEF Behind
    <3>4. CASE q # p
      <4>1. ~Working(q)
          BY <1>7, <1>9, <1>i, <3>4
      <4>2. pc'[q] \notin {"heartbeat", "iterating", "ledger", "transcript",
                           "state"}
          BY <1>o, <3>4, <4>1 DEF Working, InLoop, AwaitPoints
      <4>3. QED
          BY <3>2, <4>2 DEF Behind
    <3>5. QED
        BY <3>3, <3>4
  <2>6. stateJson.iteration <= Len(transcript) + 1
      BY <1>b, <1>c, <1>i
  <2>7. cancelled <= Len(transcript) + 1
      BY <1>c, <1>i, Counts DEF RecordsInv
  <2>8. Len(transcript) + 1 <= ledgerJson.iterations
      BY <1>c, <2>4
  <2>9. QED
      BY <1>o, <2>1, <2>3, <2>5, <2>6, <2>7, <2>8 DEF RecordsInv
<1>10. QED
    BY <1>1, <1>2, <1>3, <1>4, <1>5, <1>6, <1>8, <1>9 DEF DriverStep

LEMMA WorldRecords ==
    ASSUME TypeOK, RecordsInv,
           \/ UserStep
           \/ \E p \in Drivers : Crash(p)
           \/ LockGoesStale
           \/ WallClockExpires
    PROVE  RecordsInv'
<1> USE DEF files, memory, cancel
<1>i. Intact' => Intact
    BY IntactBefore DEF Next
<1>1. ASSUME NEW p \in Drivers, NEW force \in BOOLEAN, ResumeRead(p, force)
      PROVE  RecordsInv'
  <2>1. Intact => stateJson'.iteration <= Len(transcript) /\ Behind(p)'
      BY <1>1 DEF ResumeRead, RecordsInv, Behind, Goto, TypeOK, GoalState
  <2>2. /\ UNCHANGED <<ledgerJson, transcript, cancelled>>
        /\ \A q \in Drivers \ {p} : /\ pc'[q] = pc[q]
                                    /\ state'[q] = state[q]
                                    /\ ledger'[q] = ledger[q]
      BY <1>1 DEF ResumeRead, Goto, TypeOK
  <2>3. QED
      BY <1>i, <2>1, <2>2, LocalStep
<1>2. ASSUME NEW p \in Drivers, Crash(p)
      PROVE  RecordsInv'
  <2>1. Intact => stateJson'.iteration <= Len(transcript) /\ Behind(p)'
      BY <1>2, Counts DEF Crash, RecordsInv, Behind, Forget, NoState, TypeOK
  <2>2. /\ UNCHANGED <<ledgerJson, transcript, cancelled>>
        /\ \A q \in Drivers \ {p} : /\ pc'[q] = pc[q]
                                    /\ state'[q] = state[q]
                                    /\ ledger'[q] = ledger[q]
      BY <1>2 DEF Crash, Forget, TypeOK
  <2>3. QED
      BY <1>i, <2>1, <2>2, LocalStep
<1>3. ASSUME \/ \E p \in Drivers : Signal(p)
             \/ EditGoal \/ CancelRead \/ CancelWrite \/ CancelFrontmatter
             \/ LockGoesStale \/ WallClockExpires
      PROVE  RecordsInv'
  <2>1. UNCHANGED <<ledgerJson, transcript, pc, state, ledger>>
      BY <1>3 DEF Signal, EditGoal, CancelRead, CancelWrite,
                  CancelFrontmatter, LockGoesStale, WallClockExpires
  <2>2. \/ stateJson' = stateJson /\ cancelled' = cancelled
        \/ stateJson' = stateJson /\ cancelled' = stateJson.iteration
        \/ stateJson'.iteration = cancelled /\ cancelled' = cancelled
    <3>1. CASE \/ (\E p \in Drivers : Signal(p)) \/ EditGoal
               \/ CancelFrontmatter \/ LockGoesStale \/ WallClockExpires
        BY <3>1 DEF Signal, EditGoal, CancelFrontmatter, LockGoesStale,
                    WallClockExpires
    <3>2. CASE CancelRead
        BY <3>2 DEF CancelRead
    <3>3. CASE CancelWrite
        BY <3>3 DEF CancelWrite
    <3>4. QED
        BY <1>3, <3>1, <3>2, <3>3
  <2>3. QED
      BY <1>i, <2>1, <2>2 DEF RecordsInv, Behind
<1>4. QED
    BY <1>1, <1>2, <1>3 DEF UserStep

(* runGoal writes ledger.json, transcript.jsonl and state.json in an order *)
(* (goal-runner.ts:308-345) under which no kill, cancel or resume can      *)
(* leave an iteration counted but not logged, or logged but not charged.   *)
THEOREM RecordsStayOrdered == Spec => []RecordsOrdered
<1>1. Init => RecordsInv
  <2> SUFFICES ASSUME Init PROVE RecordsInv
      OBVIOUS
  <2>1. Len(transcript) = 0
      BY DEF Init
  <2>2. /\ stateJson.iteration = 0 /\ cancelled = 0
        /\ ledgerJson.iterations = 0
        /\ \A p \in Drivers : /\ state[p].iteration = 0
                             /\ pc[p] \in {"idle", "acquire"}
      BY DEF Init, NoState, NoLedger
  <2>3. QED
      BY <2>1, <2>2 DEF RecordsInv, Behind
<1>2. TypeOK /\ LockInv /\ RecordsInv /\ [Next]_vars => RecordsInv'
  <2> SUFFICES ASSUME TypeOK, LockInv, RecordsInv, [Next]_vars
               PROVE  RecordsInv'
      OBVIOUS
  <2>1. CASE Next
      BY <2>1, DriverRecords, WorldRecords DEF Next
  <2>2. CASE UNCHANGED vars
      BY <2>2 DEF RecordsInv, Behind, Intact, vars, files, memory, cancel,
                  history
  <2>3. QED
      BY <2>1, <2>2
<1>3. RecordsInv => RecordsOrdered
    BY DEF RecordsInv, RecordsOrdered
<1>4. QED
    BY TypeCorrect, LockInvariant, <1>1, <1>2, <1>3, PTL DEF Spec

----------------------------------------------------------------------------
(* The budget.                                                             *)
(*                                                                         *)
(* While the lock is intact one driver at most is in an iteration, so the  *)
(* ledger it read at the loop's head is still the one on disk, and was     *)
(* below a cap.  What has been paid is what the ledger says, plus the      *)
(* outcome that is still in a driver's memory, plus one cost per crash.    *)

Lost == MaxCost * crashes

Charging == {"heartbeat", "iterating", "ledger"}

SpendInv ==
    Intact =>
        /\ \E cap \in UsdCaps : ledgerJson.usd < cap + MaxCost
        /\ \A p \in Drivers : pc[p] \in Charging =>
              /\ ledger[p].usd = ledgerJson.usd
              /\ \E cap \in UsdCaps : ledgerJson.usd < cap
        /\ \A p \in Drivers : pc[p] = "ledger" =>
              paid <= ledgerJson.usd + outcome[p].usd + Lost
        /\ (\A p \in Drivers : pc[p] # "ledger") =>
              paid <= ledgerJson.usd + Lost

(* Amounts are numbers, and a crash adds one cost to what may be lost. *)
LEMMA Amounts ==
    ASSUME TypeOK
    PROVE  /\ paid \in Nat
           /\ ledgerJson.usd \in Nat
           /\ Lost \in Nat
           /\ MaxCost \in Nat
           /\ UsdCaps \subseteq Nat \ {0}
           /\ \A p \in Drivers : /\ ledger[p].usd \in Nat
                                 /\ outcome[p].usd \in 0..MaxCost
<1>1. crashes \in Nat /\ MaxCost \in Nat
    BY GoalAssumption DEF TypeOK
<1>2. Lost \in Nat
    BY <1>1 DEF Lost
<1>3. QED
    BY <1>1, <1>2, GoalAssumption DEF TypeOK

LEMMA OneMoreLost ==
    ASSUME NEW n \in Nat, NEW m \in Nat
    PROVE  m * (n + 1) = m * n + m
OBVIOUS

(* A step that charges nothing, pays nothing and takes no driver into an   *)
(* iteration, nor into or out of the wait for its ledger, keeps SpendInv.  *)
LEMMA FreeStep ==
    ASSUME SpendInv, Intact' => Intact,
           UNCHANGED <<ledgerJson, paid, crashes>>,
           \A q \in Drivers :
              /\ pc'[q] \in Charging => /\ pc[q] \in Charging
                                        /\ ledger'[q] = ledger[q]
              /\ pc'[q] = "ledger" <=> pc[q] = "ledger"
              /\ pc'[q] = "ledger" => outcome'[q] = outcome[q]
    PROVE  SpendInv'
<1> SUFFICES ASSUME Intact' PROVE SpendInv'
    BY DEF SpendInv
<1>1. Lost' = Lost
    BY DEF Lost
<1>2. QED
    BY <1>1 DEF SpendInv

(* A driver in an iteration is alone in the loop. *)
LEMMA AloneInIteration ==
    ASSUME LockInv, Intact, NEW p \in Drivers, pc[p] \in Charging
    PROVE  \A q \in Drivers \ {p} : pc[q] \notin Charging
<1>1. \A q \in Drivers : pc[q] \in Charging => Working(q)
    BY DEF Charging, Working, InLoop, AwaitPoints
<1>2. \A q \in Drivers : Working(q) => lockJson.pid = q
    BY DEF LockInv
<1>3. QED
    BY <1>1, <1>2

LEMMA DriverSpend ==
    ASSUME TypeOK, LockInv, SpendInv, NEW p \in Drivers, DriverStep(p)
    PROVE  SpendInv'
<1> USE DEF files, memory, cancel, history
<1>i. Intact' => Intact
    BY IntactBefore DEF Next
<1>o. \A q \in Drivers \ {p} : /\ pc'[q] = pc[q]
                               /\ ledger'[q] = ledger[q]
                               /\ outcome'[q] = outcome[q]
    BY OthersStay
<1>a. /\ paid \in Nat /\ ledgerJson.usd \in Nat /\ Lost \in Nat
      /\ MaxCost \in Nat /\ UsdCaps \subseteq Nat \ {0}
      /\ ledger[p].usd \in Nat /\ outcome[p].usd \in 0..MaxCost
    BY Amounts
<1>1. CASE \/ ResumeWrite(p) \/ ResumeFrontmatter(p) \/ LockRefused(p)
           \/ LockFound(p) \/ LockWrite(p) \/ LoadState(p) \/ StoreState(p)
           \/ AppendTranscript(p) \/ WriteState(p) \/ FinishState(p)
           \/ FinishFrontmatter(p) \/ FinishRelease(p)
  <2>1. /\ UNCHANGED <<ledgerJson, paid, crashes>>
        /\ pc[p] \notin Charging
        /\ pc'[p] \notin Charging
    <3>1. CASE \/ ResumeWrite(p) \/ ResumeFrontmatter(p) \/ LockRefused(p)
               \/ LockFound(p) \/ LockWrite(p) \/ LoadState(p)
        BY <3>1 DEF ResumeWrite, ResumeFrontmatter, LockRefused, LockFound,
                    LockWrite, LoadState, Goto, Charging, TypeOK
    <3>2. CASE \/ StoreState(p) \/ AppendTranscript(p) \/ WriteState(p)
        BY <3>2 DEF StoreState, AppendTranscript, WriteState, Goto, Charging,
                    TypeOK
    <3>3. CASE \/ FinishState(p) \/ FinishFrontmatter(p) \/ FinishRelease(p)
        BY <3>3 DEF FinishState, FinishFrontmatter, FinishRelease, Goto,
                    Charging, TypeOK
    <3>4. QED
        BY <1>1, <3>1, <3>2, <3>3
  <2>2. pc[p] # "ledger" /\ pc'[p] # "ledger"
      BY <2>1 DEF Charging
  <2>3. QED
      BY <1>i, <1>o, <2>1, <2>2, FreeStep
<1>2. CASE Heartbeat(p)
  <2>1. /\ UNCHANGED <<ledgerJson, paid, crashes, ledger, outcome>>
        /\ pc[p] = "heartbeat" /\ pc'[p] = "iterating"
      BY <1>2 DEF Heartbeat, Goto, TypeOK
  <2>2. pc[p] \in Charging
      BY <2>1 DEF Charging
  <2>3. QED
      BY <1>i, <1>o, <2>1, <2>2, FreeStep
<1>3. CASE LoopHead(p)
  <2> SUFFICES ASSUME Intact' PROVE SpendInv'
      BY DEF SpendInv
  <2>1. /\ UNCHANGED <<ledgerJson, paid, crashes, outcome>>
        /\ pc[p] \in {"top", "sleeping"}
        /\ ledger'[p] = ledgerJson
        /\ pc'[p] \in {"heartbeat", "finish"}
        /\ pc'[p] = "heartbeat" => Verdict(p) = "running"
      BY <1>3 DEF LoopHead, TypeOK
  <2>2. Verdict(p) = "running" => ~(ledgerJson.usd >= goalMd.maxUsd)
      BY DEF Verdict
  <2>3. goalMd.maxUsd \in UsdCaps /\ goalMd.maxUsd \in Nat
    <3>1. goalMd.maxUsd \in UsdCaps
        BY DEF TypeOK
    <3>2. QED
        BY <1>a, <3>1
  <2>4. pc'[p] = "heartbeat" => \E cap \in UsdCaps : ledgerJson.usd < cap
    <3>1. pc'[p] = "heartbeat" => ledgerJson.usd < goalMd.maxUsd
        BY <1>a, <2>1, <2>2, <2>3
    <3>2. QED
        BY <2>3, <3>1
  <2>5. Lost' = Lost
      BY <2>1 DEF Lost
  <2>6. \A q \in Drivers : pc'[q] = "ledger" <=> pc[q] = "ledger"
      BY <1>o, <2>1
  <2>7. ASSUME NEW q \in Drivers, pc'[q] \in Charging
        PROVE  /\ ledger'[q].usd = ledgerJson'.usd
               /\ \E cap \in UsdCaps : ledgerJson'.usd < cap
    <3>1. CASE q = p
        BY <2>1, <2>4, <2>7, <3>1 DEF Charging
    <3>2. CASE q # p
        BY <1>i, <1>o, <2>1, <2>7, <3>2 DEF SpendInv
    <3>3. QED
        BY <3>1, <3>2
  <2>8. QED
      BY <1>i, <2>1, <2>5, <2>6, <2>7 DEF SpendInv
<1>4. CASE ChildCloses(p)
  <2> SUFFICES ASSUME Intact' PROVE SpendInv'
      BY DEF SpendInv
  <2>1. /\ UNCHANGED <<ledgerJson, crashes, ledger>>
        /\ pc[p] = "iterating" /\ pc'[p] = "ledger"
      BY <1>4 DEF ChildCloses, Goto, TypeOK
  <2>2. PICK o \in Outcomes : /\ outcome'[p] = o
                              /\ paid' = paid + o.usd
      BY <1>4 DEF ChildCloses, TypeOK
  <2>3. o.usd \in Nat
    <3>1. o.usd \in Costs
        BY DEF Outcomes
    <3>2. o.usd \in 0..MaxCost
        BY <3>1, GoalAssumption
    <3>3. QED
        BY <1>a, <3>2
  <2>4. /\ pc[p] \in Charging
        /\ \A q \in Drivers \ {p} : pc[q] \notin Charging
      BY <1>i, <2>1, AloneInIteration DEF Charging
  <2>5. \A q \in Drivers : pc[q] # "ledger"
      BY <2>1, <2>4 DEF Charging
  <2>6. paid <= ledgerJson.usd + Lost
      BY <1>i, <2>5 DEF SpendInv
  <2>7. Lost' = Lost
      BY <2>1 DEF Lost
  <2>8. paid' <= ledgerJson'.usd + outcome'[p].usd + Lost'
      BY <1>a, <2>1, <2>2, <2>3, <2>6, <2>7
  <2>9. \A q \in Drivers \ {p} : pc'[q] \notin Charging
      BY <1>o, <2>4
  <2>10. \A q \in Drivers : pc'[q] = "ledger" => q = p
      BY <2>9 DEF Charging
  <2>11. QED
      BY <1>i, <2>1, <2>4, <2>8, <2>9, <2>10 DEF SpendInv
<1>5. CASE WriteLedger(p)
  <2> SUFFICES ASSUME Intact' PROVE SpendInv'
      BY DEF SpendInv
  <2>1. /\ UNCHANGED <<crashes, paid>>
        /\ ledgerJson'.usd = ledger[p].usd + outcome[p].usd
        /\ pc[p] = "ledger" /\ pc'[p] = "transcript"
      BY <1>5 DEF WriteLedger, Goto, TypeOK
  <2>2. /\ pc[p] \in Charging
        /\ \A q \in Drivers \ {p} : pc[q] \notin Charging
      BY <1>i, <2>1, AloneInIteration DEF Charging
  <2>3. \A q \in Drivers : pc'[q] \notin Charging
      BY <1>o, <2>1, <2>2 DEF Charging
  <2>4. \A q \in Drivers : pc'[q] # "ledger"
      BY <2>3 DEF Charging
  <2>5. /\ ledger[p].usd = ledgerJson.usd
        /\ paid <= ledgerJson.usd + outcome[p].usd + Lost
      BY <1>i, <2>1, <2>2 DEF SpendInv
  <2>6. PICK cap \in UsdCaps : ledgerJson.usd < cap
      BY <1>i, <2>2 DEF SpendInv
  <2>7. ledgerJson'.usd < cap + MaxCost
      BY <1>a, <2>1, <2>5, <2>6
  <2>8. paid' <= ledgerJson'.usd + Lost'
      BY <2>1, <2>5 DEF Lost
  <2>9. QED
      BY <2>3, <2>4, <2>7, <2>8 DEF SpendInv
<1>6. QED
    BY <1>1, <1>2, <1>3, <1>4, <1>5 DEF DriverStep

(* A crash loses at most the one outcome nobody has written down. *)
LEMMA CrashSpend ==
    ASSUME TypeOK, LockInv, SpendInv, NEW p \in Drivers, Crash(p)
    PROVE  SpendInv'
<1> USE DEF files, cancel, history
<1> SUFFICES ASSUME Intact' PROVE SpendInv'
    BY DEF SpendInv
<1>1. /\ Intact
      /\ UNCHANGED <<ledgerJson, paid>>
      /\ crashes' = crashes + 1
      /\ pc'[p] = "crashed"
      /\ \A q \in Drivers \ {p} : /\ pc'[q] = pc[q]
                                  /\ ledger'[q] = ledger[q]
                                  /\ outcome'[q] = outcome[q]
    BY DEF Crash, Forget, TypeOK, Intact
<1>2. /\ paid \in Nat /\ ledgerJson.usd \in Nat /\ Lost \in Nat
      /\ MaxCost \in Nat
      /\ \A q \in Drivers : outcome[q].usd \in 0..MaxCost
    BY Amounts
<1>3. Lost' = Lost + MaxCost
  <2>1. crashes \in Nat
      BY GoalAssumption DEF TypeOK
  <2>2. QED
      BY <1>1, <1>2, <2>1, OneMoreLost DEF Lost
<1>4. ASSUME NEW q \in Drivers, pc'[q] \in Charging
      PROVE  /\ ledger'[q].usd = ledgerJson'.usd
             /\ \E cap \in UsdCaps : ledgerJson'.usd < cap
    BY <1>1, <1>4 DEF SpendInv, Charging
<1>5. ASSUME NEW q \in Drivers, pc'[q] = "ledger"
      PROVE  paid' <= ledgerJson'.usd + outcome'[q].usd + Lost'
  <2>1. q # p
      BY <1>1, <1>5
  <2>2. paid <= ledgerJson.usd + outcome[q].usd + Lost
      BY <1>1, <1>5, <2>1 DEF SpendInv
  <2>3. QED
      BY <1>1, <1>2, <1>3, <2>1, <2>2
<1>6. ASSUME \A q \in Drivers : pc'[q] # "ledger"
      PROVE  paid' <= ledgerJson'.usd + Lost'
  <2>1. CASE pc[p] = "ledger"
    <3>1. paid <= ledgerJson.usd + outcome[p].usd + Lost
        BY <1>1, <2>1 DEF SpendInv
    <3>2. QED
        BY <1>1, <1>2, <1>3, <3>1
  <2>2. CASE pc[p] # "ledger"
    <3>1. \A q \in Drivers : pc[q] # "ledger"
        BY <1>1, <1>6, <2>2
    <3>2. paid <= ledgerJson.usd + Lost
        BY <1>1, <3>1 DEF SpendInv
    <3>3. QED
        BY <1>1, <1>2, <1>3, <3>2
  <2>3. QED
      BY <2>1, <2>2
<1>7. \E cap \in UsdCaps : ledgerJson'.usd < cap + MaxCost
    BY <1>1 DEF SpendInv
<1>8. QED
    BY <1>4, <1>5, <1>6, <1>7 DEF SpendInv

LEMMA WorldSpend ==
    ASSUME TypeOK, SpendInv, UserStep \/ LockGoesStale \/ WallClockExpires
    PROVE  SpendInv'
<1> USE DEF files, memory, cancel, history
<1>i. Intact' => Intact
    BY IntactBefore DEF Next
<1>1. ASSUME NEW p \in Drivers, NEW force \in BOOLEAN, ResumeRead(p, force)
      PROVE  SpendInv'
  <2>1. /\ UNCHANGED <<ledgerJson, paid, crashes, ledger, outcome>>
        /\ pc[p] = "idle" /\ pc'[p] = "resume"
        /\ \A q \in Drivers \ {p} : pc'[q] = pc[q]
      BY <1>1 DEF ResumeRead, Goto, TypeOK
  <2>2. pc'[p] \notin Charging
      BY <2>1 DEF Charging
  <2>3. QED
      BY <1>i, <2>1, <2>2, FreeStep
<1>2. ASSUME \/ \E p \in Drivers : Signal(p)
             \/ EditGoal \/ CancelRead \/ CancelWrite \/ CancelFrontmatter
             \/ LockGoesStale \/ WallClockExpires
      PROVE  SpendInv'
  <2>1. UNCHANGED <<ledgerJson, paid, crashes, ledger, outcome, pc>>
      BY <1>2 DEF Signal, EditGoal, CancelRead, CancelWrite,
                  CancelFrontmatter, LockGoesStale, WallClockExpires
  <2>2. QED
      BY <1>i, <2>1, FreeStep
<1>3. QED
    BY <1>1, <1>2 DEF UserStep

(* The budget test at the loop's head (goal-runner.ts:257) bounds what is  *)
(* really paid, over any number of drivers, resumes, cancels and edits of  *)
(* GOAL.md: one iteration too many, and one for each crash.                *)
THEOREM SpendStaysCapped == Spec => []SpendCapped
<1>1. Init => SpendInv
  <2> SUFFICES ASSUME Init PROVE SpendInv
      OBVIOUS
  <2>1. /\ ledgerJson.usd = 0 /\ paid = 0 /\ crashes = 0
        /\ goalMd.maxUsd \in UsdCaps
        /\ \A p \in Drivers : pc[p] \in {"idle", "acquire"}
      BY DEF Init, NoLedger
  <2>2. Lost = 0
      BY <2>1, GoalAssumption DEF Lost
  <2>3. 0 < goalMd.maxUsd + MaxCost
    <3>1. goalMd.maxUsd \in Nat \ {0} /\ MaxCost \in Nat
        BY <2>1, GoalAssumption
    <3>2. QED
        BY <3>1
  <2>4. \E cap \in UsdCaps : ledgerJson.usd < cap + MaxCost
      BY <2>1, <2>3
  <2>5. QED
      BY <2>1, <2>2, <2>4 DEF SpendInv, Charging
<1>2. TypeOK /\ LockInv /\ SpendInv /\ [Next]_vars => SpendInv'
  <2> SUFFICES ASSUME TypeOK, LockInv, SpendInv, [Next]_vars
               PROVE  SpendInv'
      OBVIOUS
  <2>1. CASE Next
      BY <2>1, DriverSpend, CrashSpend, WorldSpend DEF Next
  <2>2. CASE UNCHANGED vars
      BY <2>2 DEF SpendInv, Intact, Lost, vars, files, memory, cancel,
                  history
  <2>3. QED
      BY <2>1, <2>2
<1>3. TypeOK /\ SpendInv => SpendCapped
  <2> SUFFICES ASSUME TypeOK, SpendInv, Intact
               PROVE  \E cap \in UsdCaps :
                         paid < cap + MaxCost * (crashes + 1)
      BY DEF SpendCapped
  <2>1. /\ paid \in Nat /\ ledgerJson.usd \in Nat /\ Lost \in Nat
        /\ MaxCost \in Nat /\ UsdCaps \subseteq Nat \ {0}
        /\ \A q \in Drivers : outcome[q].usd \in 0..MaxCost
      BY Amounts
  <2>2. MaxCost * (crashes + 1) = Lost + MaxCost
    <3>1. crashes \in Nat
        BY GoalAssumption DEF TypeOK
    <3>2. QED
        BY <2>1, <3>1, OneMoreLost DEF Lost
  <2>3. CASE \E p \in Drivers : pc[p] = "ledger"
    <3>1. PICK p \in Drivers : pc[p] = "ledger"
        BY <2>3
    <3>2. paid <= ledgerJson.usd + outcome[p].usd + Lost
        BY <3>1 DEF SpendInv
    <3>3. PICK cap \in UsdCaps : ledgerJson.usd < cap
        BY <3>1 DEF SpendInv, Charging
    <3>4. paid < cap + (Lost + MaxCost)
        BY <2>1, <3>2, <3>3
    <3>5. QED
        BY <2>2, <3>4
  <2>4. CASE \A p \in Drivers : pc[p] # "ledger"
    <3>1. paid <= ledgerJson.usd + Lost
        BY <2>4 DEF SpendInv
    <3>2. PICK cap \in UsdCaps : ledgerJson.usd < cap + MaxCost
        BY DEF SpendInv
    <3>3. paid < cap + (Lost + MaxCost)
        BY <2>1, <3>1, <3>2
    <3>4. QED
        BY <2>2, <3>3
  <2>5. QED
      BY <2>3, <2>4
<1>4. QED
    BY TypeCorrect, LockInvariant, <1>1, <1>2, <1>3, PTL DEF Spec
=============================================================================

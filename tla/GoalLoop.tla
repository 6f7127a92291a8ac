------------------------------ MODULE GoalLoop ------------------------------
(***************************************************************************)
(* The autonomous goal loop (`caveman goal'): goal-runner.ts, the driver,  *)
(* goal-state.ts, its files under .cave/goal/<id>/, and the commands of    *)
(* goal-cli.ts that read and write the same files from other processes.    *)
(*                                                                         *)
(* One action is one access to one file: processes share nothing else, and *)
(* a process may be killed between any two.  A driver is one process, from *)
(* `goal start' or `goal resume' to its exit; its pid is not used again.   *)
(* `pc' is what it is about to do:                                         *)
(*   idle        not started                                               *)
(*   resume      handleResume has read state.json and will write it        *)
(*   unpause     ... and will set the status in GOAL.md                    *)
(*   acquire     about to read lock.json                                   *)
(*   lock        found it free, stale, or its own: about to write it       *)
(*   load, store about to read state.json, to write it back as running     *)
(*   top         head of the loop, entered without an await                *)
(*   heartbeat   caps tested, about to refresh the lock and spawn          *)
(*   iterating   waiting for the child process of an iteration             *)
(*   ledger, transcript, state   about to write that file after it         *)
(*   sleeping    the gap between two iterations                            *)
(*   finish, frontmatter, release   the three steps of finish()            *)
(*   exited, crashed                                                       *)
(* GOAL.md is read and rewritten whole by updateGoalFrontmatter: here one  *)
(* step.  Outputs, summaries and tokens are left out, money is an integer. *)
(***************************************************************************)
EXTENDS Naturals, Sequences, FiniteSets

CONSTANTS
    Drivers,     \* pids
    Starter,     \* the driver `goal start' runs in
    NoPid,       \* pid of a lock.json that does not exist
    IterCaps,    \* values of max_iterations in GOAL.md
    UsdCaps,     \* values of max_usd in GOAL.md
    MaxIdle,     \* max_no_progress in GOAL.md
    Costs,       \* what an iteration may cost
    MaxCost,     \* the greatest of them
    MaxCrashes   \* bound: drivers killed

ASSUME GoalAssumption ==
    /\ Starter \in Drivers
    /\ NoPid \notin Drivers
    /\ IterCaps \subseteq Nat
    /\ UsdCaps \subseteq Nat \ {0}
    /\ MaxIdle \in Nat
    /\ MaxCost \in Nat
    /\ Costs \subseteq 0..MaxCost
    /\ MaxCrashes \in Nat

VARIABLES
    stateJson,   \* state.json
    goalMd,      \* the frontmatter of GOAL.md
    lockJson,    \* lock.json; fresh: its heartbeat is less than 5 minutes old
    ledgerJson,  \* ledger.json
    transcript,  \* transcript.jsonl
    late,        \* max_wall_clock_h have passed since started_at
    pc,
    state,       \* each driver's copy of state.json
    ledger,      \* each driver's copy of ledger.json, read at the loop's head
    outcome,     \* what its last child process reported
    idle,        \* consecutiveNoProgress
    aborted,     \* it was sent SIGINT or SIGTERM
    canceller,   \* the process of `goal cancel': what it is about to do
    cancelled,   \* the iteration it has read from state.json
    crashes,
    paid,        \* history: cost of all the child processes that have closed
    stalled,     \* history: a lock went stale while its driver was alive
    raced        \* history: two drivers were between read and write of lock

files    == <<stateJson, goalMd, lockJson, ledgerJson, transcript>>
memory   == <<state, ledger, outcome, idle, aborted>>
cancel   == <<canceller, cancelled>>
history  == <<paid, stalled, raced>>
vars     == <<files, memory, cancel, history, late, pc, crashes>>

-----------------------------------------------------------------------------
(* Types *)

Statuses  == {"running", "paused", "done", "failed", "cancelled"}
GoalState == [iteration: Nat, status: Statuses]
Outcomes  == [usd: Costs, sentinel: BOOLEAN, changed: BOOLEAN]
NoLock    == [pid |-> NoPid, fresh |-> FALSE]

AwaitPoints == {"iterating", "sleeping"}
InLoop ==
    {"load", "store", "top", "heartbeat", "ledger", "transcript", "state",
     "finish", "frontmatter", "release"} \cup AwaitPoints
Phases ==
    {"idle", "resume", "unpause", "acquire", "lock", "exited", "crashed"}
        \cup InLoop

(* Driver p is past acquireLock and has not yet released the lock. *)
Working(p) == pc[p] \in InLoop

NoState   == [iteration |-> 0, status |-> "running"]
NoLedger  == [usd |-> 0, iterations |-> 0]
NoOutcome == [usd |-> 0, sentinel |-> FALSE, changed |-> FALSE]

(* The files and memory `goal start' leaves before it runs the driver. *)
Init ==
    /\ stateJson = NoState
    /\ goalMd \in [maxIterations: IterCaps, maxUsd: UsdCaps,
                   status: {"running"}]
    /\ lockJson = NoLock
    /\ ledgerJson = NoLedger
    /\ transcript = <<>>
    /\ late = FALSE
    /\ pc = [p \in Drivers |-> IF p = Starter THEN "acquire" ELSE "idle"]
    /\ state = [p \in Drivers |-> NoState]
    /\ ledger = [p \in Drivers |-> NoLedger]
    /\ outcome = [p \in Drivers |-> NoOutcome]
    /\ idle = [p \in Drivers |-> 0]
    /\ aborted = [p \in Drivers |-> FALSE]
    /\ canceller = "idle"
    /\ cancelled = 0
    /\ crashes = 0
    /\ paid = 0
    /\ stalled = FALSE
    /\ raced = FALSE

Goto(p, from, to) ==
    /\ pc[p] = from
    /\ pc' = [pc EXCEPT ![p] = to]

(* The memory of a process goes with it. *)
Forget(p) ==
    /\ state' = [state EXCEPT ![p] = NoState]
    /\ ledger' = [ledger EXCEPT ![p] = NoLedger]
    /\ outcome' = [outcome EXCEPT ![p] = NoOutcome]
    /\ idle' = [idle EXCEPT ![p] = 0]
    /\ aborted' = [aborted EXCEPT ![p] = FALSE]

-----------------------------------------------------------------------------
(* goal resume, up to runDriver *)

(* A done goal is refused, a paused one unless --force is given: the       *)
(* command then ends having changed nothing.                               *)
ResumeRead(p, force) ==
    /\ stateJson.status # "done"
    /\ stateJson.status = "paused" => force
    /\ Goto(p, "idle", "resume")
    /\ state' = [state EXCEPT ![p] = [stateJson EXCEPT !.status = "running"]]
    /\ UNCHANGED <<files, ledger, outcome, idle, aborted, cancel, history,
                   late, crashes>>

ResumeWrite(p) ==
    /\ Goto(p, "resume", "unpause")
    /\ stateJson' = state[p]
    /\ UNCHANGED <<goalMd, lockJson, ledgerJson, transcript, memory, cancel,
                   history, late, crashes>>

ResumeFrontmatter(p) ==
    /\ Goto(p, "unpause", "acquire")
    /\ goalMd' = [goalMd EXCEPT !.status = "running"]
    /\ UNCHANGED <<stateJson, lockJson, ledgerJson, transcript, memory, cancel,
                   history, late, crashes>>

-----------------------------------------------------------------------------
(* acquireLock reads the lock and then writes it: another may come between *)

LockIsHeld(p) == lockJson.fresh /\ lockJson.pid # p

(* Mutant: a driver that is refused cleans up the lock on its way out. *)
BugLockRefused(p) ==
    /\ LockIsHeld(p)
    /\ Goto(p, "acquire", "exited")
    /\ lockJson' = NoLock
    /\ Forget(p)
    /\ UNCHANGED <<stateJson, goalMd, ledgerJson, transcript, cancel, history,
                   late, crashes>>

LockRefused(p) ==
    /\ LockIsHeld(p)
    /\ Goto(p, "acquire", "exited")
    /\ Forget(p)
    /\ UNCHANGED <<files, cancel, history, late, crashes>>

LockFound(p) ==
    /\ ~LockIsHeld(p)
    /\ Goto(p, "acquire", "lock")
    /\ UNCHANGED <<files, memory, cancel, history, late, crashes>>

LockWrite(p) ==
    /\ Goto(p, "lock", "load")
    /\ lockJson' = [pid |-> p, fresh |-> TRUE]
    /\ raced' = (raced \/ \E q \in Drivers \ {p} : pc[q] = "lock")
    /\ UNCHANGED <<stateJson, goalMd, ledgerJson, transcript, memory, cancel,
                   late, crashes, paid, stalled>>

-----------------------------------------------------------------------------
(* runGoal *)

LoadState(p) ==
    /\ Goto(p, "load", "store")
    /\ state' = [state EXCEPT ![p] = [stateJson EXCEPT !.status = "running"]]
    /\ UNCHANGED <<files, ledger, outcome, idle, aborted, cancel, history,
                   late, crashes>>

StoreState(p) ==
    /\ Goto(p, "store", "top")
    /\ stateJson' = state[p]
    /\ UNCHANGED <<goalMd, lockJson, ledgerJson, transcript, memory, cancel,
                   history, late, crashes>>

(* Mutant: the budget may be met exactly. *)
BugVerdictBudget(p) ==
    CASE aborted[p]                                      -> "cancelled"
      [] ~aborted[p] /\ \/ state[p].iteration >= goalMd.maxIterations
                        \/ late
                        \/ ledgerJson.usd > goalMd.maxUsd -> "failed"
      [] OTHER -> IF idle[p] >= MaxIdle THEN "paused" ELSE "running"

(* The caps that end the run, in the order the loop tests them, against    *)
(* GOAL.md and the ledger as they are now.  "running" when none is met.    *)
Verdict(p) ==
    CASE aborted[p]                                      -> "cancelled"
      [] ~aborted[p] /\ \/ state[p].iteration >= goalMd.maxIterations
                        \/ late
                        \/ ledgerJson.usd >= goalMd.maxUsd -> "failed"
      [] OTHER -> IF idle[p] >= MaxIdle THEN "paused" ELSE "running"

(* Mutant: a driver without progress waits for --force instead of ending. *)
BugLoopHead(p) ==
    /\ pc[p] \in {"top", "sleeping"}
    /\ Verdict(p) # "paused"
    /\ pc' = [pc EXCEPT ![p] =
                  IF Verdict(p) = "running" THEN "heartbeat" ELSE "finish"]
    /\ state' = [state EXCEPT ![p].status = Verdict(p)]
    /\ ledger' = [ledger EXCEPT ![p] = ledgerJson]
    /\ UNCHANGED <<files, outcome, idle, aborted, cancel, history, late,
                   crashes>>

LoopHead(p) ==
    /\ pc[p] \in {"top", "sleeping"}
    /\ pc' = [pc EXCEPT ![p] =
                  IF Verdict(p) = "running" THEN "heartbeat" ELSE "finish"]
    /\ state' = [state EXCEPT ![p].status = Verdict(p)]
    /\ ledger' = [ledger EXCEPT ![p] = ledgerJson]
    /\ UNCHANGED <<files, outcome, idle, aborted, cancel, history, late,
                   crashes>>

(* The lock is refreshed here and never while the child process runs. *)
Heartbeat(p) ==
    /\ Goto(p, "heartbeat", "iterating")
    /\ lockJson' = [pid |-> p, fresh |-> TRUE]
    /\ UNCHANGED <<stateJson, goalMd, ledgerJson, transcript, memory, cancel,
                   history, late, crashes>>

ChildCloses(p) ==
    /\ Goto(p, "iterating", "ledger")
    /\ \E o \in Outcomes :
          /\ outcome' = [outcome EXCEPT ![p] = o]
          /\ paid' = paid + o.usd
    /\ UNCHANGED <<files, state, ledger, idle, aborted, cancel, late, crashes,
                   stalled, raced>>

(* Mutant: each iteration starts a new ledger. *)
BugWriteLedger(p) ==
    /\ Goto(p, "ledger", "transcript")
    /\ ledgerJson' = [usd |-> ledger[p].usd + outcome[p].usd,
                      iterations |-> 1]
    /\ idle' = [idle EXCEPT ![p] =
                    IF outcome[p].changed \/ outcome[p].sentinel
                    THEN 0 ELSE @ + 1]
    /\ UNCHANGED <<stateJson, goalMd, lockJson, transcript, state, ledger,
                   outcome, aborted, cancel, history, late, crashes>>

(* The totals are those read at the loop's head plus this iteration. *)
WriteLedger(p) ==
    /\ Goto(p, "ledger", "transcript")
    /\ ledgerJson' = [usd |-> ledger[p].usd + outcome[p].usd,
                      iterations |-> ledger[p].iterations + 1]
    /\ idle' = [idle EXCEPT ![p] =
                    IF outcome[p].changed \/ outcome[p].sentinel
                    THEN 0 ELSE @ + 1]
    /\ UNCHANGED <<stateJson, goalMd, lockJson, transcript, state, ledger,
                   outcome, aborted, cancel, history, late, crashes>>

AppendTranscript(p) ==
    /\ Goto(p, "transcript", "state")
    /\ transcript' = Append(transcript, [iter |-> state[p].iteration + 1,
                                         sentinel |-> outcome[p].sentinel])
    /\ UNCHANGED <<stateJson, goalMd, lockJson, ledgerJson, memory, cancel,
                   history, late, crashes>>

(* The sentinel ends the run before any cap is tested again. *)
WriteState(p) ==
    /\ Goto(p, "state", IF outcome[p].sentinel THEN "finish" ELSE "sleeping")
    /\ stateJson' = [state[p] EXCEPT !.iteration = @ + 1]
    /\ state' = [state EXCEPT ![p] =
                     [iteration |-> @.iteration + 1,
                      status |-> IF outcome[p].sentinel THEN "done"
                                 ELSE "running"]]
    /\ ledger' = [ledger EXCEPT ![p] = NoLedger]
    /\ outcome' = [outcome EXCEPT ![p] = NoOutcome]
    /\ UNCHANGED <<goalMd, lockJson, ledgerJson, transcript, idle, aborted,
                   cancel, history, late, crashes>>

FinishState(p) ==
    /\ Goto(p, "finish", "frontmatter")
    /\ stateJson' = state[p]
    /\ UNCHANGED <<goalMd, lockJson, ledgerJson, transcript, memory, cancel,
                   history, late, crashes>>

FinishFrontmatter(p) ==
    /\ Goto(p, "frontmatter", "release")
    /\ goalMd' = [goalMd EXCEPT !.status = state[p].status]
    /\ UNCHANGED <<stateJson, lockJson, ledgerJson, transcript, memory, cancel,
                   history, late, crashes>>

(* releaseLock unlinks lock.json, whoever wrote it. *)
FinishRelease(p) ==
    /\ Goto(p, "release", "exited")
    /\ lockJson' = NoLock
    /\ Forget(p)
    /\ UNCHANGED <<stateJson, goalMd, ledgerJson, transcript, cancel, history,
                   late, crashes>>

-----------------------------------------------------------------------------
(* The user, the other commands and the world *)

(* The handler runs when the driver is at an await, and only then. *)
Signal(p) ==
    /\ pc[p] \in AwaitPoints
    /\ ~aborted[p]
    /\ aborted' = [aborted EXCEPT ![p] = TRUE]
    /\ UNCHANGED <<files, state, ledger, outcome, idle, cancel, history, late,
                   pc, crashes>>

(* kill -9, or an exception runGoal does not catch: the lock stays. *)
Crash(p) ==
    /\ pc[p] \notin {"idle", "exited", "crashed"}
    /\ crashes < MaxCrashes
    /\ crashes' = crashes + 1
    /\ pc' = [pc EXCEPT ![p] = "crashed"]
    /\ Forget(p)
    /\ UNCHANGED <<files, cancel, history, late>>

(* Five minutes without a heartbeat: its driver is gone, or waits for its  *)
(* child process or for the next iteration.                                *)
LockGoesStale ==
    /\ lockJson.fresh
    /\ Working(lockJson.pid) => pc[lockJson.pid] \in AwaitPoints
    /\ lockJson' = [lockJson EXCEPT !.fresh = FALSE]
    /\ stalled' = (stalled \/ Working(lockJson.pid))
    /\ UNCHANGED <<stateJson, goalMd, ledgerJson, transcript, memory, cancel,
                   late, pc, crashes, paid, raced>>

WallClockExpires ==
    /\ ~late
    /\ late' = TRUE
    /\ UNCHANGED <<files, memory, cancel, history, pc, crashes>>

(* GOAL.md may be edited while the loop runs. *)
EditGoal ==
    /\ \E i \in IterCaps, u \in UsdCaps :
          goalMd' = [goalMd EXCEPT !.maxIterations = i, !.maxUsd = u]
    /\ UNCHANGED <<stateJson, lockJson, ledgerJson, transcript, memory, cancel,
                   history, late, pc, crashes>>

(* goal cancel takes no lock: it rewrites the files of a running driver. *)
CancelRead ==
    /\ canceller = "idle"
    /\ canceller' = "write"
    /\ cancelled' = stateJson.iteration
    /\ UNCHANGED <<files, memory, history, late, pc, crashes>>

CancelWrite ==
    /\ canceller = "write"
    /\ canceller' = "frontmatter"
    /\ stateJson' = [iteration |-> cancelled, status |-> "cancelled"]
    /\ UNCHANGED <<goalMd, lockJson, ledgerJson, transcript, memory, cancelled,
                   history, late, pc, crashes>>

CancelFrontmatter ==
    /\ canceller = "frontmatter"
    /\ canceller' = "exited"
    /\ goalMd' = [goalMd EXCEPT !.status = "cancelled"]
    /\ UNCHANGED <<stateJson, lockJson, ledgerJson, transcript, memory,
                   cancelled, history, late, pc, crashes>>

-----------------------------------------------------------------------------
(* The whole *)

(* What driver p does of itself, once it has been started. *)
DriverStep(p) ==
    \/ ResumeWrite(p) \/ ResumeFrontmatter(p)
    \/ LockRefused(p) \/ LockFound(p) \/ LockWrite(p)
    \/ LoadState(p) \/ StoreState(p) \/ LoopHead(p) \/ Heartbeat(p)
    \/ ChildCloses(p) \/ WriteLedger(p) \/ AppendTranscript(p) \/ WriteState(p)
    \/ FinishState(p) \/ FinishFrontmatter(p) \/ FinishRelease(p)

UserStep ==
    \/ \E p \in Drivers, force \in BOOLEAN : ResumeRead(p, force)
    \/ \E p \in Drivers : Signal(p)
    \/ EditGoal
    \/ CancelRead \/ CancelWrite \/ CancelFrontmatter

Next ==
    \/ \E p \in Drivers : DriverStep(p)
    \/ UserStep
    \/ \E p \in Drivers : Crash(p)
    \/ LockGoesStale
    \/ WallClockExpires

Spec == Init /\ [][Next]_vars

(* A driver that is not killed goes on, and its child processes close.     *)
FairSpec == Spec /\ \A p \in Drivers : WF_vars(DriverStep(p))

-----------------------------------------------------------------------------
(* Properties *)

(* Every file and every driver's memory holds values of its type. *)
TypeOK ==
    /\ stateJson \in GoalState
    /\ goalMd \in [maxIterations: IterCaps, maxUsd: UsdCaps, status: Statuses]
    /\ lockJson \in [pid: Drivers \cup {NoPid}, fresh: BOOLEAN]
    /\ ledgerJson \in [usd: Nat, iterations: Nat]
    /\ transcript \in Seq([iter: Nat, sentinel: BOOLEAN])
    /\ late \in BOOLEAN
    /\ pc \in [Drivers -> Phases]
    /\ state \in [Drivers -> GoalState]
    /\ ledger \in [Drivers -> [usd: Nat, iterations: Nat]]
    /\ outcome \in [Drivers -> [usd: 0..MaxCost, sentinel: BOOLEAN,
                                changed: BOOLEAN]]
    /\ idle \in [Drivers -> Nat]
    /\ aborted \in [Drivers -> BOOLEAN]
    /\ canceller \in {"idle", "write", "frontmatter", "exited"}
    /\ cancelled \in Nat
    /\ crashes \in 0..MaxCrashes
    /\ paid \in Nat
    /\ stalled \in BOOLEAN
    /\ raced \in BOOLEAN

(* No driver has been alive with a stale lock, and no two have been inside *)
(* acquireLock at once: what the lock needs to do its work.                *)
Intact == ~stalled /\ ~raced

(* lock.json is a lock (acquireLock, goal-state.ts:206): as long as it has *)
(* stayed intact, at most one driver works on the goal, whoever resumed,   *)
(* crashed, cancelled or finished, and lock.json carries its pid.          *)
OneDriver ==
    Intact => \A p \in Drivers : Working(p) =>
                  /\ lockJson = [pid |-> p, fresh |-> TRUE]
                  /\ \A q \in Drivers : Working(q) => q = p

(* The order of the writes after an iteration (ledger, transcript, state): *)
(* while the lock is intact, a crash, a cancel or a resume at any point    *)
(* may cost a record, but state.json never counts an iteration whose       *)
(* transcript line is missing and the transcript has none the ledger has   *)
(* not charged.                                                            *)
RecordsOrdered ==
    Intact => /\ stateJson.iteration <= Len(transcript)
              /\ Len(transcript) <= ledgerJson.iterations

(* The $ cap (goal-runner.ts:257) holds across restarts: the real cost is  *)
(* below the largest cap GOAL.md ever had, plus one iteration for the one  *)
(* that crosses it, plus one for each crash that lost an iteration's cost. *)
SpendCapped ==
    Intact => \E cap \in UsdCaps : paid < cap + MaxCost * (crashes + 1)

(* The caps end every run: a driver that got the lock leaves the loop. *)
DriverEnds ==
    \A p \in Drivers : Working(p) ~> (pc[p] \in {"exited", "crashed"})
=============================================================================

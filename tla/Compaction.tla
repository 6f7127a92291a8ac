----------------------------- MODULE Compaction -----------------------------
(***************************************************************************)
(* What the model is shown of a long session: compaction (compaction.ts),  *)
(* the summary of a branch one leaves (branch-summarization.ts), and       *)
(* buildSessionContext (session-manager.ts), over the tree of entries.     *)
(*                                                                         *)
(* An entry's id is its place in entries; parent 0 is none.  Kind "setting" *)
(* is every entry that is no message (model and thinking level changes,    *)
(* labels, extension entries), "custom" is custom_message.  size is        *)
(* estimateTokens of a message.  A summary is the set of messages that     *)
(* were in its prompt, or in a summary that was: covers.  call is the      *)
(* assistant message that a tool result answers.                           *)
(*                                                                         *)
(* A compaction prepares (prepareCompaction, on the path to the leaf),     *)
(* awaits the summarizing model, and appends its entry at whatever is then *)
(* the leaf; in between the session goes on.  Two can be in flight: the    *)
(* automatic one and the one the user asks for.  So it is with a branch    *)
(* summary: what it covers is collected first, the leaf moves later.       *)
(*                                                                         *)
(* Left out: compactions an extension writes, the token budget of a branch *)
(* summary's prompt, and leaving a branch while calls of it still run.     *)
(***************************************************************************)
EXTENDS Naturals, FiniteSets, SequencesExt

CONSTANTS
    KeepRecent,   \* settings.keepRecentTokens
    ResultSizes,  \* sizes of tool results; other messages have size 1
    Kinds,        \* bound: what is said, of user, assistant, bash, custom
                  \* and setting
    Compactors,   \* the callers that may be compacting at the same time
    MaxEntries,   \* bound: entries of the session
    MaxMoves      \* bound: calls of navigateTree

ASSUME CompactionAssumption ==
    /\ KeepRecent \in Nat
    /\ ResultSizes \subseteq Nat
    /\ Kinds \subseteq {"user", "assistant", "bash", "custom", "setting"}
    /\ MaxEntries \in Nat
    /\ MaxMoves \in Nat

VARIABLES
    entries,
    leaf,
    awaiting,    \* the assistant message whose calls, if it has any, may
                 \* still be answered, or 0
    preparing,   \* of each compactor: its CompactionPreparation, or nothing
    leaving,     \* navigateTree awaiting its summary, or nothing
    moves,       \* calls of navigateTree
    strayed      \* history: compactions that came to a path they were not
                 \* prepared on, the leaf having been moved meanwhile

compactionVars == <<entries, leaf, awaiting, preparing, leaving, moves, strayed>>

MessageKinds == {"user", "assistant", "result", "bash"}
CustomKinds  == {"custom", "branchSummary"}
SpokenKinds  == MessageKinds \cup CustomKinds

EntryFor(kind, parent, size) ==
    [kind |-> kind, parent |-> parent, size |-> size, call |-> 0,
     firstKept |-> 0, covers |-> {}]

-----------------------------------------------------------------------------
(* Paths.  A path is a sequence of ids, root first. *)

Path(id) ==
    LET path[i \in 0 .. Len(entries)] ==
            IF i = 0 THEN <<>> ELSE Append(path[entries[i].parent], i)
    IN  path[id]

Kind(p, i)         == entries[p[i]].kind
Places(p, kinds)   == {i \in DOMAIN p : Kind(p, i) \in kinds}
From(p, i)         == {j \in DOMAIN p : j >= i}
LastCompaction(p)  == Max({0} \cup Places(p, {"compaction"}))
Index(p, id)       == Max({0} \cup {i \in DOMAIN p : p[i] = id})

(* buildSessionContext: the places of the path whose messages are shown,   *)
(* after the last compaction's summary if there is one.                    *)
Context(p) ==
    LET c    == LastCompaction(p)
        kept == IF c = 0 THEN 1
                ELSE LET k == Index(p, entries[p[c]].firstKept)
                     IN  IF k \in 1 .. c THEN k ELSE c
    IN  {i \in From(p, kept) : Kind(p, i) \in SpokenKinds}

Shown(p) == {p[i] : i \in Context(p)}

(* A summary of these messages also says what a summary among them says. *)
Said(ids) == ids \cup UNION {entries[i].covers : i \in ids}

-----------------------------------------------------------------------------
(* findCutPoint *)

(* estimated tokens from place i on: entries of type "message" only *)
TokensFrom(p, i) ==
    LET tokens[j \in 1 .. Len(p) + 1] ==
            IF j > Len(p) THEN 0
            ELSE IF Kind(p, j) \notin MessageKinds THEN tokens[j + 1]
            ELSE tokens[j + 1] + entries[p[j]].size
    IN  tokens[i]

(* Mutant of CutPoints: a tool result may be the first message kept. *)
BugCutPoints(p, start) == From(p, start) \cap Places(p, SpokenKinds)

(* findValidCutPoints *)
CutPoints(p, start) == From(p, start) \cap Places(p, SpokenKinds \ {"result"})

(* Mutant of ClosestCut: stops once the budget is exceeded, not reached. *)
BugClosestCut(p, start) ==
    LET cuts  == CutPoints(p, start)
        full  == {i \in From(p, start) \cap Places(p, MessageKinds) :
                    TokensFrom(p, i) > KeepRecent}
        later == {c \in cuts : full # {} /\ c >= Max(full)}
    IN  IF later = {} THEN Min(cuts) ELSE Min(later)

(* Walk back until the budget is reached; cut at the closest cut point at  *)
(* or after that message, and at the first one when there is none.         *)
ClosestCut(p, start) ==
    LET cuts  == CutPoints(p, start)
        full  == {i \in From(p, start) \cap Places(p, MessageKinds) :
                    TokensFrom(p, i) >= KeepRecent}
        later == {c \in cuts : full # {} /\ c >= Max(full)}
    IN  IF later = {} THEN Min(cuts) ELSE Min(later)

(* ... and take in the entries before it that are no messages. *)
ScanBack(p, start, cut) ==
    Min({c \in start .. cut : \A j \in c .. cut - 1 :
            Kind(p, j) \notin MessageKinds \cup {"compaction"}})

FirstKept(p, start) ==
    IF CutPoints(p, start) = {} THEN start
    ELSE ScanBack(p, start, ClosestCut(p, start))

(* findTurnStartIndex, 0 for -1: only asked when the cut is no user message *)
TurnStart(p, start, cut) ==
    IF CutPoints(p, start) = {} \/ Kind(p, cut) = "user" THEN 0
    ELSE Max({0} \cup ((start .. cut) \cap
                       Places(p, {"user", "bash"} \cup CustomKinds)))

-----------------------------------------------------------------------------
(* prepareCompaction and compact *)

(* Mutant of BoundaryStart: what the last compaction kept is passed over. *)
BugBoundaryStart(p) == LastCompaction(p) + 1

(* the place of what the last compaction kept first *)
BoundaryStart(p) ==
    LET c == LastCompaction(p)
        k == IF c = 0 THEN 0 ELSE Index(p, entries[p[c]].firstKept)
    IN  IF k > 0 THEN k ELSE c + 1

CanPrepare(p) == p # <<>> /\ Kind(p, Len(p)) # "compaction"

Spoken(p, i, j) == {p[k] : k \in (i .. j) \cap Places(p, SpokenKinds)}

Preparation(p) ==
    LET start == BoundaryStart(p)
        cut   == FirstKept(p, start)
        turn  == TurnStart(p, start, cut)
        c     == LastCompaction(p)
    IN  [on         |-> Last(p),    \* history
         firstKept  |-> p[cut],
         summarize  |-> Spoken(p, start, (IF turn = 0 THEN cut ELSE turn) - 1),
         turnPrefix |-> IF turn = 0 THEN {} ELSE Spoken(p, turn, cut - 1),
         previous   |-> IF c = 0 THEN {} ELSE entries[p[c]].covers]

(* compact: the history's summary takes in the previous one; with a split  *)
(* turn and no history before it, it is the text "No prior history."       *)
Summary(prep) ==
    LET history == IF prep.turnPrefix # {} /\ prep.summarize = {} THEN {}
                   ELSE Said(prep.summarize) \cup prep.previous
    IN  history \cup Said(prep.turnPrefix)

-----------------------------------------------------------------------------
Nothing == [on |-> 0, firstKept |-> 0, summarize |-> {}, turnPrefix |-> {},
            previous |-> {}]
Staying == [target |-> 0, collected |-> {}, shown |-> {}]

CompactionInit ==
    /\ entries = <<>>
    /\ leaf = 0
    /\ awaiting = 0
    /\ preparing = [c \in Compactors |-> Nothing]
    /\ leaving = Staying
    /\ moves = 0
    /\ strayed = {}

(* _appendEntry: a child of the leaf, and the new leaf. *)
Put(e) ==
    /\ Len(entries) < MaxEntries
    /\ entries' = Append(entries, e)
    /\ leaf' = Len(entries) + 1

(* The session goes on: a prompt, a command's output, a message of an      *)
(* extension, a change of settings, an answer with or without calls.       *)
Say(kind) ==
    /\ Put(EntryFor(kind, leaf, IF kind \in MessageKinds THEN 1 ELSE 0))
    /\ IF kind = "assistant" THEN awaiting' = Len(entries) + 1
       ELSE IF kind = "setting" THEN UNCHANGED awaiting
       ELSE awaiting' = 0
    /\ UNCHANGED <<preparing, leaving, moves, strayed>>

AnswerCall(size) ==
    /\ awaiting # 0
    /\ Put([EntryFor("result", leaf, size) EXCEPT !.call = awaiting])
    /\ UNCHANGED <<awaiting, preparing, leaving, moves, strayed>>

Prepare(c) ==
    /\ preparing[c] = Nothing
    /\ CanPrepare(Path(leaf))
    /\ preparing' = [preparing EXCEPT ![c] = Preparation(Path(leaf))]
    /\ UNCHANGED <<entries, leaf, awaiting, leaving, moves, strayed>>

(* appendCompaction, with the summary of what was prepared *)
Compact(c) ==
    /\ preparing[c] # Nothing
    /\ Put([EntryFor("compaction", leaf, 0) EXCEPT
              !.firstKept = preparing[c].firstKept,
              !.covers    = Summary(preparing[c])])
    /\ preparing' = [preparing EXCEPT ![c] = Nothing]
    /\ strayed' = IF Index(Path(leaf), preparing[c].on) > 0 THEN strayed
                  ELSE strayed \cup {Len(entries) + 1}
    /\ UNCHANGED <<awaiting, leaving, moves>>

(* cancelled, aborted, or the summarizing model failed *)
GiveUp(c) ==
    /\ preparing[c] # Nothing
    /\ preparing' = [preparing EXCEPT ![c] = Nothing]
    /\ UNCHANGED <<entries, leaf, awaiting, leaving, moves, strayed>>

-----------------------------------------------------------------------------
(* navigateTree *)

(* A prompt's text goes back to the editor, and the leaf before it. *)
NewLeaf(target) ==
    IF entries[target].kind \in {"user", "custom"} THEN entries[target].parent
    ELSE target

(* Mutant of Collected: stops at the old branch's last compaction. *)
BugCollected(target) ==
    {i \in ToSet(Path(leaf)) \ ToSet(Path(target)) :
        /\ entries[i].kind \notin {"result", "setting"}
        /\ i > Max({0} \cup {j \in ToSet(Path(leaf)) :
                                entries[j].kind = "compaction"})}

(* collectEntriesForBranchSummary, prepareBranchEntries: from the old leaf *)
(* to the last entry both paths have; a call speaks for its results.       *)
Collected(target) ==
    {i \in ToSet(Path(leaf)) \ ToSet(Path(target)) :
        entries[i].kind \notin {"result", "setting"}}

Navigable(target) ==
    /\ target \in DOMAIN entries \ {leaf}
    /\ leaving = Staying
    /\ moves < MaxMoves
    /\ moves' = moves + 1

Navigate(target) ==
    /\ Navigable(target)
    /\ leaf' = NewLeaf(target)
    /\ awaiting' = 0
    /\ UNCHANGED <<entries, preparing, leaving, strayed>>

StartLeaving(target) ==
    /\ Navigable(target)
    /\ ~ ToSet(Path(leaf)) \subseteq ToSet(Path(target))
    /\ leaving' = [target |-> target, collected |-> Collected(target),
                   shown |-> Shown(Path(leaf))]    \* history
    /\ UNCHANGED <<entries, leaf, awaiting, preparing, strayed>>

(* branchWithSummary *)
Leave ==
    /\ leaving # Staying
    /\ Put([EntryFor("branchSummary", NewLeaf(leaving.target), 0) EXCEPT
              !.covers = Said(leaving.collected)])
    /\ leaving' = Staying
    /\ awaiting' = 0
    /\ UNCHANGED <<preparing, moves, strayed>>

GiveUpLeaving ==
    /\ leaving # Staying
    /\ leaving' = Staying
    /\ UNCHANGED <<entries, leaf, awaiting, preparing, moves, strayed>>

CompactionNext ==
    \/ \E kind \in Kinds : Say(kind)
    \/ \E size \in ResultSizes : AnswerCall(size)
    \/ \E c \in Compactors : Prepare(c) \/ Compact(c) \/ GiveUp(c)
    \/ \E t \in DOMAIN entries : Navigate(t) \/ StartLeaving(t)
    \/ Leave
    \/ GiveUpLeaving

CompactionSpec == CompactionInit /\ [][CompactionNext]_compactionVars

-----------------------------------------------------------------------------
(* Properties *)

EntryIds == 0 .. MaxEntries

SessionEntry ==
    [kind : SpokenKinds \cup {"setting", "compaction"}, parent : EntryIds,
     size : Nat, call : EntryIds, firstKept : EntryIds, covers : SUBSET EntryIds]

CompactionPreparation ==
    [on : EntryIds, firstKept : EntryIds, summarize : SUBSET EntryIds,
     turnPrefix : SUBSET EntryIds, previous : SUBSET EntryIds]

(* Types, and that an entry comes after its parent: paths are finite. *)
CompactionTypeOK ==
    /\ entries \in Seq(SessionEntry)
    /\ Len(entries) <= MaxEntries
    /\ \A i \in DOMAIN entries : entries[i].parent < i
    /\ leaf \in 0 .. Len(entries)
    /\ awaiting \in 0 .. Len(entries)
    /\ preparing \in [Compactors -> CompactionPreparation]
    /\ leaving \in [target : EntryIds, collected : SUBSET EntryIds,
                    shown : SUBSET EntryIds]
    /\ moves \in 0 .. MaxMoves
    /\ strayed \subseteq DOMAIN entries

Here     == Path(leaf)
OnCourse == ToSet(Here) \cap strayed = {}

(* Wherever the cut falls, a tool result is never shown to the model       *)
(* without the assistant message whose call it answers before it (what     *)
(* findValidCutPoints and the scan back over settings are for; providers   *)
(* refuse such a conversation).                                            *)
CallsKept ==
    OnCourse => \A i \in Context(Here) :
        Kind(Here, i) = "result" =>
            \E j \in Context(Here) : j < i /\ Here[j] = entries[Here[i]].call

(* No message leaves the context without having been in the prompt of a    *)
(* summary: across repeated and overlapping compactions, whatever was said *)
(* while the summary was written, and with what the last one kept.         *)
NoneUnsummarized ==
    OnCourse => \A i \in Places(Here, SpokenKinds) :
        \/ i \in Context(Here)
        \/ \E c \in Places(Here, {"compaction"}) : Here[i] \in entries[Here[c]].covers

(* The walk of findCutPoint finds the first cut point that has less than   *)
(* keepRecentTokens after it, so the most is kept that the budget allows;  *)
(* only when no cut point has (a last result that is larger than all of    *)
(* it) is the first cut point taken, and nothing is cut.  (With a budget   *)
(* of 0 nothing is less: the walk ends at the last message.)               *)
CutIsEarliest ==
    LET start == BoundaryStart(Here)
        cuts  == CutPoints(Here, start)
        near  == {c \in cuts : TokensFrom(Here, c + 1) < KeepRecent}
    IN  KeepRecent > 0 /\ CanPrepare(Here) /\ cuts # {} =>
            ClosestCut(Here, start) = Min(IF near = {} THEN cuts ELSE near)

(* Leaving a branch with a summary: every message the model was shown when *)
(* that was asked for is on the path it goes on from, or in the summary;   *)
(* but results, which go with their calls, and the prompt that goes back   *)
(* to the editor.                                                          *)
BranchAccounted ==
    [][ Leave => \A m \in leaving.shown :
            \/ m = leaving.target
            \/ entries[m].kind = "result"
            \/ m \in ToSet(Here')
            \/ m \in entries'[leaf'].covers ]_compactionVars

=============================================================================

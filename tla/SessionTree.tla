---------------------------- MODULE SessionTree ----------------------------
(***************************************************************************)
(* SessionManager (coding-agent, session-manager.ts): a conversation is a  *)
(* tree of entries, kept in memory and in a JSONL file of one entry a line *)
(* behind a header.  A new entry is a child of the leaf and becomes the    *)
(* leaf; branching only moves the leaf.  Nothing reaches the disk before   *)
(* the first assistant message, which writes every entry so far; from then *)
(* on each entry is appended.                                              *)
(*                                                                         *)
(* An entry is its kind, its id, its parent (0: a root) and, for a label,  *)
(* the entry it marks.  Kind "plain" is every entry that is neither an     *)
(* assistant message nor a label: user messages, tool results, settings,   *)
(* compactions, branch summaries and extension entries are stored alike.   *)
(* The byId map is not a variable: it is what the entries say.             *)
(*                                                                         *)
(* One action is one call.  Calls are synchronous, and a process may be    *)
(* killed in the middle of one that writes, after any number of lines, the *)
(* last of them perhaps cut short ("torn").  What is appended next joins   *)
(* that line, and neither can be parsed ("garbage").                       *)
(*                                                                         *)
(* Left out: a cut exactly between a line and its newline, the migration   *)
(* of files of older versions, two processes on one file, and managers     *)
(* that only keep the session in memory.                                   *)
(***************************************************************************)
EXTENDS Naturals, Sequences, FiniteSets, SequencesExt

CONSTANTS
    Files,     \* names of session files
    NoFile,    \* sessionFile when no process has a session open
    MaxId      \* bound: entries ever made

ASSUME SessionAssumption ==
    /\ NoFile \notin Files
    /\ MaxId \in Nat

VARIABLES
    up,           \* a process has a session open
    sessionFile,
    fileEntries,  \* header first
    leafId,       \* 0: null
    labelsById,   \* the labelled entries
    flushed,
    onDisk,       \* the files that exist
    disk,         \* the lines of each file
    nextId,
    extracted     \* history: what createBranchedSession was just asked for

memory == <<up, sessionFile, fileEntries, leafId, labelsById, flushed>>
vars   == <<memory, onDisk, disk, nextId, extracted>>

-----------------------------------------------------------------------------
(* Entries and lines *)

Ids       == 0 .. MaxId
LabelKinds == {"label", "unlabel"}
EntryKinds == {"plain", "assistant"} \cup LabelKinds
Damage     == {"torn", "garbage"}
FileEntry == [kind: {"session"} \cup EntryKinds, id: Ids, parent: Ids,
              target: Ids]

Mark(kind) == [kind |-> kind, id |-> 0, parent |-> 0, target |-> 0]
Header     == Mark("session")
Torn       == Mark("torn")
Garbage    == Mark("garbage")
Line       == FileEntry \cup {Torn, Garbage}

EntriesOf(s)    == {e \in ToSet(s) : e.kind \in EntryKinds}
IdsOf(s)        == {e.id : e \in EntriesOf(s)}
HasAssistant(s) == \E e \in EntriesOf(s) : e.kind = "assistant"
Damaged(s)      == {i \in DOMAIN s : s[i].kind \in Damage}

(* The elements of s that are of other kinds, in their order *)
Without(s, kinds) ==
    LET kept[i \in 0 .. Len(s)] ==
            IF i = 0 THEN <<>>
            ELSE IF s[i].kind \in kinds THEN kept[i - 1] ELSE Append(kept[i - 1], s[i])
    IN  kept[Len(s)]

(* What _buildIndex makes of the entries: the leaf is the last of them and *)
(* the last word on a target decides whether it has a label.               *)
LastId(s) ==
    LET entries == Without(s, {"session"})
    IN  IF entries = <<>> THEN 0 ELSE Last(entries).id
LabelsOf(s) ==
    {t \in Ids : \E i \in DOMAIN s :
        /\ s[i].kind = "label" /\ s[i].target = t
        /\ \A j \in DOMAIN s : j > i => s[j].target # t}

(* getBranch: from the root to the leaf, or from where a parent is missing *)
Branch(s, leaf) ==
    LET entry(i) == CHOOSE e \in EntriesOf(s) : e.id = i
        path[i \in Ids] == IF i \notin IdsOf(s) THEN <<>>
                           ELSE Append(path[entry(i).parent], entry(i))
    IN  path[leaf]
Unlabelled(s) == Without(s, LabelKinds)

(* Mutant of Load: lines that do not parse become entries. *)
BugLoad(lines) ==
    IF lines # <<>> /\ Head(lines).kind = "session" THEN lines ELSE <<>>

(* loadEntriesFromFile: lines that do not parse are skipped, and a file    *)
(* whose first entry is not a header has none.                             *)
Load(lines) ==
    LET parsed == Without(lines, Damage)
    IN  IF parsed # <<>> /\ Head(parsed).kind = "session" THEN parsed ELSE <<>>

(* appendFileSync, line after line: the first joins a torn line. *)
PutLines(lines, new) ==
    IF new = <<>> \/ lines = <<>> \/ Last(lines) # Torn THEN lines \o new
    ELSE Front(lines) \o <<IF Head(new) = Torn THEN Torn ELSE Garbage>>
                      \o Tail(new)

-----------------------------------------------------------------------------
(* No process has a session open. *)
Down ==
    /\ up' = FALSE
    /\ sessionFile' = NoFile
    /\ fileEntries' = <<>>
    /\ leafId' = 0
    /\ labelsById' = {}
    /\ flushed' = FALSE

(* The process is killed while it writes the lines new to f. *)
KilledWriting(f, new) ==
    /\ \E k \in 0 .. Len(new) - 1, torn \in BOOLEAN :
         LET lines == SubSeq(new, 1, k) \o (IF torn THEN <<Torn>> ELSE <<>>)
         IN  /\ lines # <<>>
             /\ disk' = [disk EXCEPT ![f] = PutLines(@, lines)]
    /\ onDisk' = onDisk \cup {f}
    /\ Down

(* A session file may exist and be empty (touch, --session). *)
Init ==
    /\ up = FALSE
    /\ sessionFile = NoFile
    /\ fileEntries = <<>>
    /\ leafId = 0
    /\ labelsById = {}
    /\ flushed = FALSE
    /\ onDisk \in {{}} \cup {{f} : f \in Files}
    /\ disk = [f \in Files |-> <<>>]
    /\ nextId = 1
    /\ extracted = <<>>

(* The manager holds s, file f; the index is rebuilt. *)
Hold(f, s) ==
    /\ up' = TRUE
    /\ sessionFile' = f
    /\ fileEntries' = s
    /\ leafId' = LastId(s)
    /\ labelsById' = LabelsOf(s)

(* Mutant of NewSession: the labels of the session before it stay. *)
BugNewSession(f) ==
    /\ f \in Files \ (onDisk \cup {sessionFile})
    /\ up' = TRUE
    /\ sessionFile' = f
    /\ fileEntries' = <<Header>>
    /\ leafId' = 0
    /\ labelsById' = labelsById
    /\ flushed' = FALSE
    /\ extracted' = <<>>
    /\ UNCHANGED <<onDisk, disk, nextId>>

(* newSession, and setSessionFile on a path that does not exist. *)
NewSession(f) ==
    /\ f \in Files \ (onDisk \cup {sessionFile})
    /\ Hold(f, <<Header>>)
    /\ flushed' = FALSE
    /\ extracted' = <<>>
    /\ UNCHANGED <<onDisk, disk, nextId>>

(* Mutant of Open: a file with a damaged line counts as corrupted. *)
BugOpen(f) ==
    /\ f \in onDisk
    /\ LET s == Load(disk[f])
       IN  IF s = <<>> \/ Damaged(disk[f]) # {}
           THEN /\ Hold(f, <<Header>>)
                /\ disk' = [disk EXCEPT ![f] = <<Header>>]
           ELSE /\ Hold(f, s)
                /\ disk' = disk
    /\ flushed' = TRUE
    /\ extracted' = <<>>
    /\ UNCHANGED <<onDisk, nextId>>

(* setSessionFile: a file without a header is truncated to a new one.  In  *)
(* any other file the lines that did not parse are left where they are.    *)
Open(f) ==
    /\ f \in onDisk
    /\ LET s == Load(disk[f])
       IN  IF s = <<>>
           THEN /\ Hold(f, <<Header>>)
                /\ disk' = [disk EXCEPT ![f] = <<Header>>]
           ELSE /\ Hold(f, s)
                /\ disk' = disk
    /\ flushed' = TRUE
    /\ extracted' = <<>>
    /\ UNCHANGED <<onDisk, nextId>>

(* forkFrom: a new file g with the entries of f, written line by line and  *)
(* then opened.                                                            *)
ForkLines(f) == <<Header>> \o Without(Load(disk[f]), {"session"})

CanFork(f, g) ==
    /\ f \in onDisk
    /\ Load(disk[f]) # <<>>
    /\ g \in Files \ (onDisk \cup {sessionFile})
    /\ extracted' = <<>>
    /\ UNCHANGED nextId

Fork(f, g) ==
    /\ CanFork(f, g)
    /\ disk' = [disk EXCEPT ![g] = ForkLines(f)]
    /\ onDisk' = onDisk \cup {g}
    /\ Hold(g, ForkLines(f))
    /\ flushed' = TRUE

ForkInterrupted(f, g) == CanFork(f, g) /\ KilledWriting(g, ForkLines(f))

-----------------------------------------------------------------------------
(* Appending *)

(* Mutant of ToWrite: what came before the first answer is never written. *)
BugToWrite(s, e) == IF ~HasAssistant(s) THEN <<>> ELSE <<e>>

(* What _persist writes once s holds the new entry, and the flag it leaves *)
ToWrite(s, e) ==
    IF ~HasAssistant(s) THEN <<>> ELSE IF flushed THEN <<e>> ELSE s

(* The lines reach the file, and _appendEntry returns. *)
Store(e) ==
    LET s == Append(fileEntries, e)
        new == ToWrite(s, e)
    IN  /\ fileEntries' = s
        /\ leafId' = e.id
        /\ disk' = [disk EXCEPT ![sessionFile] = PutLines(@, new)]
        /\ onDisk' = IF new = <<>> THEN onDisk ELSE onDisk \cup {sessionFile}
        /\ flushed' = HasAssistant(s)
        /\ UNCHANGED <<up, sessionFile>>

NewEntry(kind, parent, target) ==
    [kind |-> kind, id |-> nextId, parent |-> parent, target |-> target]

CanAppend ==
    /\ up
    /\ nextId <= MaxId
    /\ nextId' = nextId + 1
    /\ extracted' = <<>>

(* appendMessage and the other appendX: a child of the leaf. *)
AppendEntry(kind) ==
    /\ CanAppend
    /\ Store(NewEntry(kind, leafId, 0))
    /\ UNCHANGED labelsById

(* branchWithSummary: the summary is a child of the entry branched from. *)
BranchWithSummary(from) ==
    /\ CanAppend
    /\ from \in IdsOf(fileEntries) \cup {0}
    /\ Store(NewEntry("plain", from, 0))
    /\ UNCHANGED labelsById

AppendLabelChange(target, kind) ==
    /\ CanAppend
    /\ target \in IdsOf(fileEntries)
    /\ Store(NewEntry(kind, leafId, target))
    /\ labelsById' = IF kind = "label" THEN labelsById \cup {target}
                     ELSE labelsById \ {target}

AppendInterrupted(kind) ==
    /\ CanAppend
    /\ LET e == NewEntry(kind, leafId, 0)
       IN  KilledWriting(sessionFile, ToWrite(Append(fileEntries, e), e))

-----------------------------------------------------------------------------
(* Branching *)

MoveLeaf(to) ==
    /\ up
    /\ to # leafId
    /\ leafId' = to
    /\ extracted' = <<>>
    /\ UNCHANGED <<up, sessionFile, fileEntries, labelsById, flushed, onDisk,
                   disk, nextId>>

BranchFrom(id) == id \in IdsOf(fileEntries) /\ MoveLeaf(id)

ResetLeaf == MoveLeaf(0)

PathTo(leaf) == Unlabelled(Branch(fileEntries, leaf))
Marked(leaf) == labelsById \cap IdsOf(PathTo(leaf))

(* The path to the leaf without its label entries, then new label entries  *)
(* for the entries on it that have a label now, one below the other (in    *)
(* the code in the order of the label map, here in any).                   *)
BranchedEntries(leaf) ==
    LET marked == SetToSeq(Marked(leaf))
        labels == [i \in DOMAIN marked |->
                      [kind |-> "label", id |-> nextId + i - 1,
                       parent |-> IF i = 1 THEN LastId(PathTo(leaf))
                                  ELSE nextId + i - 2,
                       target |-> marked[i]]]
    IN  <<Header>> \o PathTo(leaf) \o labels

(* The new session is written at once only if it has an assistant message. *)
CanExtract(leaf, g) ==
    /\ up
    /\ leaf \in IdsOf(fileEntries)
    /\ g \in Files \ (onDisk \cup {sessionFile})
    /\ nextId + Cardinality(Marked(leaf)) <= MaxId + 1
    /\ nextId' = nextId + Cardinality(Marked(leaf))

CreateBranchedSession(leaf, g) ==
    LET s == BranchedEntries(leaf)
        path == PathTo(leaf)
    IN  /\ CanExtract(leaf, g)
        /\ Hold(g, s)
        /\ flushed' = HasAssistant(s)
        /\ disk' = IF HasAssistant(s) THEN [disk EXCEPT ![g] = s] ELSE disk
        /\ onDisk' = IF HasAssistant(s) THEN onDisk \cup {g} ELSE onDisk
        /\ extracted' = [i \in DOMAIN path |-> path[i].id]

ExtractInterrupted(leaf, g) ==
    /\ CanExtract(leaf, g)
    /\ HasAssistant(BranchedEntries(leaf))
    /\ KilledWriting(g, BranchedEntries(leaf))
    /\ extracted' = <<>>

(* The process ends; what it has not written is gone. *)
Quit ==
    /\ up
    /\ Down
    /\ extracted' = <<>>
    /\ UNCHANGED <<onDisk, disk, nextId>>

-----------------------------------------------------------------------------
Next ==
    \/ \E f \in Files : NewSession(f) \/ Open(f)
    \/ \E f, g \in Files : Fork(f, g) \/ ForkInterrupted(f, g)
    \/ \E kind \in {"plain", "assistant"} :
          AppendEntry(kind) \/ AppendInterrupted(kind)
    \/ \E t \in Ids, kind \in LabelKinds : AppendLabelChange(t, kind)
    \/ \E id \in Ids : BranchWithSummary(id) \/ BranchFrom(id)
    \/ ResetLeaf
    \/ \E id \in Ids, g \in Files :
          CreateBranchedSession(id, g) \/ ExtractInterrupted(id, g)
    \/ Quit

Spec == Init /\ [][Next]_vars

-----------------------------------------------------------------------------
(* Properties *)

(* The manager, the files and the ids have the shapes the code gives them. *)
TypeOK ==
    /\ up \in BOOLEAN
    /\ sessionFile \in Files \cup {NoFile}
    /\ fileEntries \in Seq(FileEntry)
    /\ leafId \in Ids
    /\ labelsById \subseteq Ids
    /\ flushed \in BOOLEAN
    /\ onDisk \subseteq Files
    /\ disk \in [Files -> Seq(Line)]
    /\ nextId \in 1 .. MaxId + 1
    /\ extracted \in Seq(Ids)

(* From the first assistant message on (_persist, session-manager.ts:796)  *)
(* the file is the session: a process that opens it finds the entries and  *)
(* labels the manager holds and nothing else, whatever was opened, forked, *)
(* extracted, branched and killed before.  Each damaged line of the file   *)
(* may cost one entry.                                                     *)
SavedOnceAnswered ==
    up /\ HasAssistant(fileEntries) =>
        LET lines  == disk[sessionFile]
            reread == Load(lines)
        IN  /\ EntriesOf(reread) \subseteq EntriesOf(fileEntries)
            /\ Cardinality(EntriesOf(fileEntries) \ EntriesOf(reread))
                  <= Cardinality(Damaged(lines))
            /\ Damaged(lines) = {} => LabelsOf(reread) = labelsById

(* Sessions are append-only (session-manager.ts:1058): a line is never     *)
(* changed or removed, but for a torn line and a file without a header,    *)
(* and no call touches a file other than the one it works on, in           *)
(* particular the session a fork was taken from.                           *)
AppendOnly ==
    [][\A f \in onDisk :
          /\ f # sessionFile /\ f # sessionFile' => disk'[f] = disk[f]
          /\ \/ IsPrefix(disk[f], disk'[f])
             \/ Last(disk[f]) = Torn /\ IsPrefix(Front(disk[f]), disk'[f])
             \/ Load(disk[f]) = <<>>]_vars

(* The label map kept up to date entry by entry is the one a rebuild of    *)
(* the index gives (appendLabelChange against _buildIndex).                *)
LabelsExact == up => labelsById = LabelsOf(fileEntries)

(* createBranchedSession extracts "the path from root to the specified     *)
(* leaf" (session-manager.ts:1161): the new session's branch has the       *)
(* entries of the old one, labels apart.                                   *)
BranchKeepsPath ==
    extracted # <<>> =>
        LET kept == PathTo(leafId)
        IN  [i \in DOMAIN kept |-> kept[i].id] = extracted

=============================================================================

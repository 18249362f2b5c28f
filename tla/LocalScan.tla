------------------------------ MODULE LocalScan ------------------------------
(***************************************************************************)
(* The list of what is in SOURCE (localFileList.cc, filePattern.cc): a     *)
(* walk through the directories with one open handle per level, while the  *)
(* user goes on creating, removing and renaming.  A path is the sequence   *)
(* of its names below SOURCE, and <<>> is SOURCE.  readdir returns every   *)
(* entry that stays in its directory; one that was removed or put there    *)
(* after opendir it may return or not.                                     *)
(***************************************************************************)
EXTENDS Naturals, Sequences, FiniteSets, SequencesExt

CONSTANTS
    Dirs,       \* directories, SOURCE among them
    Files,      \* regular files and symbolic links
    Opaque,     \* entries whose d_type does not tell what they are
    Locked,     \* directories that cannot be opened
    DatabaseNames,  \* the names that each pattern made of the database's name matches
    MaxOpen,    \* directories a process can have open
    Grow,       \* elements by which an array grows, 100
    MaxEdits    \* bound: changes of the tree during the walk

Entries == Dirs \cup Files

ASSUME TreeAssumption ==
    /\ <<>> \in Dirs /\ Dirs \cap Files = {}
    /\ \A e \in Entries : e \in Seq(Range(e)) /\ \A n \in 0 .. Len(e) - 1 : SubSeq(e, 1, n) \in Dirs
    /\ Opaque \subseteq Entries \ {<<>>} /\ Locked \subseteq Dirs
    /\ DatabaseNames \in Seq(Range(DatabaseNames))

ASSUME SizesAssumption == MaxOpen \in Nat /\ Grow \in Nat \ {0} /\ MaxEdits \in Nat

VARIABLES
    there,      \* entries that exist
    scan,       \* "off", "on", "done", "crashed"
    stack,      \* the open directories, the innermost last
    list,       \* LocalFileList::paths, and
    allocCount, \* the elements its arrays have room for
    patterns,   \* FilePattern::patterns, each the set of paths that it matches, and
    size,       \* the elements that array has room for
    steady,     \* history: entries that were there all the time since the walk began,
    seen,       \* at some time,
    made,       \* and those put there meanwhile
    edits       \* number of changes of the tree

walk == <<scan, stack, list, allocCount>>
filter == <<patterns, size>>
tree == <<there, steady, seen, made, edits>>

Frame == [dir: Dirs, unread: SUBSET Entries, unsure: SUBSET Entries]

\* The arrays have room for their elements; that of the paths for one more, which
\* add writes before it looks at the size.
ScanTypeOK ==
    /\ there \subseteq Entries /\ seen \subseteq Entries /\ made \subseteq seen
    /\ scan \in {"off", "on", "done", "crashed"}
    /\ stack \in Seq(Frame) /\ Len(stack) <= MaxOpen
    /\ list \in Seq(Files) /\ Len(list) < allocCount
    /\ patterns \in Seq(SUBSET Files) /\ Len(patterns) <= size
    /\ steady \subseteq there \cap seen
    /\ edits \in 0 .. MaxEdits

\* Every entry is in a directory that is there.
Closed(t) == \A e \in t : \A n \in 0 .. Len(e) : SubSeq(e, 1, n) \in t

In(d) == {e \in there : e # <<>> /\ Front(e) = d}
Under(d) == {e \in there : IsPrefix(d, e)}

ScanInit ==
    /\ there \in {t \in SUBSET Entries : <<>> \in t /\ Closed(t)}
    /\ scan = "off" /\ stack = <<>> /\ list = <<>> /\ allocCount = Grow
    /\ patterns = <<>> /\ size = Grow
    /\ steady = {} /\ seen = {} /\ made = {} /\ edits = 0

(***************************************************************************)
(* The patterns.                                                           *)
(***************************************************************************)
\* Mutant: the array grows when it is overfull.
WithPattern_Late(p, s, m) ==
    [patterns |-> Append(p, m), size |-> IF Len(p) > s THEN s + Grow ELSE s]

WithPattern(p, s, m) ==
    [patterns |-> Append(p, m), size |-> IF Len(p) = s THEN s + Grow ELSE s]

WithPatterns(p, s, ms) ==
    FoldLeft(LAMBDA r, m : WithPattern(r.patterns, r.size, m), [patterns |-> p, size |-> s], ms)

AddPatterns(ms) ==
    LET r == WithPatterns(patterns, size, ms) IN patterns' = r.patterns /\ size' = r.size

\* Of the database and its journal only files directly in SOURCE are matched,
\* wherever --dbPath put them.
DatabasePatterns ==
    [i \in DOMAIN DatabaseNames |-> {f \in Files : Len(f) = 1 /\ f[1] \in DatabaseNames[i]}]

Matches(f) == \E i \in DOMAIN patterns : f \in patterns[i]

(***************************************************************************)
(* The walk.                                                               *)
(***************************************************************************)
CanOpen(d) == d \in there \ Locked /\ Len(stack) < MaxOpen

\* opendir; readdir of the null pointer it returns on failure ends the process.
Descend(d, open) ==
    IF CanOpen(d)
    THEN stack' = Append(open, [dir |-> d, unread |-> In(d), unsure |-> {}]) /\ scan' = "on"
    ELSE stack' = <<>> /\ scan' = "crashed"

StartScan ==
    /\ scan = "off"
    /\ Descend(<<>>, <<>>)
    /\ steady' = there /\ seen' = there
    /\ UNCHANGED <<list, allocCount, filter, there, made, edits>>

Add(f) ==
    IF Matches(f)
    THEN UNCHANGED <<list, allocCount>>
    ELSE /\ list' = Append(list, f)
         /\ allocCount' = IF Len(list') >= allocCount THEN allocCount + Grow ELSE allocCount

\* The innermost directory without e among its unread entries.
Past(d, e) == [d EXCEPT !.unread = @ \ {e}, !.unsure = @ \ {e}]
Without(e) == [stack EXCEPT ![Len(stack)] = Past(@, e)]

Reads(e) == scan = "on" /\ e \in Last(stack).unread

\* Mutant: the entry is read again.
ReadFile_Again(f) ==
    /\ Reads(f) /\ f \notin Opaque
    /\ IF f \in there THEN Add(f) ELSE UNCHANGED <<list, allocCount>>
    /\ UNCHANGED <<scan, stack, filter, tree>>

\* A file that lstat does not find any more is passed over.
ReadFile(f) ==
    /\ Reads(f) /\ f \notin Opaque
    /\ IF f \in there THEN Add(f) ELSE UNCHANGED <<list, allocCount>>
    /\ stack' = Without(f)
    /\ UNCHANGED <<scan, filter, tree>>

ReadDir(d) ==
    /\ Reads(d) /\ d \notin Opaque
    /\ Descend(d, Without(d))
    /\ UNCHANGED <<list, allocCount, filter, tree>>

\* Mutant: the loop does not get past such an entry.
ReadOther_Stuck(e) ==
    /\ Reads(e) /\ e \in Opaque
    /\ UNCHANGED <<walk, filter, tree>>

\* Neither DT_REG nor DT_LNK nor DT_DIR.
ReadOther(e) ==
    /\ Reads(e) /\ e \in Opaque
    /\ stack' = Without(e)
    /\ UNCHANGED <<scan, list, allocCount, filter, tree>>

\* Mutant: the directory is left with entries unread.
Ascend_Early ==
    /\ scan = "on"
    /\ stack' = Front(stack)
    /\ scan' = IF Len(stack) = 1 THEN "done" ELSE scan
    /\ UNCHANGED <<list, allocCount, filter, tree>>

\* The end of a directory; what is unsure need not have been returned.
Ascend ==
    /\ scan = "on" /\ Last(stack).unread \subseteq Last(stack).unsure
    /\ stack' = Front(stack)
    /\ scan' = IF Len(stack) = 1 THEN "done" ELSE scan
    /\ UNCHANGED <<list, allocCount, filter, tree>>

Walk ==
    \/ \E f \in Files : ReadFile(f)
    \/ \E d \in Dirs : ReadDir(d)
    \/ \E e \in Opaque : ReadOther(e)
    \/ Ascend

(***************************************************************************)
(* The user, during the walk.                                              *)
(***************************************************************************)
Edits == scan = "on" /\ edits < MaxEdits /\ edits' = edits + 1

Create(e) ==
    /\ Edits /\ e # <<>> /\ e \notin there /\ Front(e) \in there
    /\ there' = there \cup {e} /\ seen' = seen \cup {e} /\ made' = made \cup {e}
    /\ stack' = [i \in DOMAIN stack |->
            IF stack[i].dir = Front(e)
            THEN [stack[i] EXCEPT !.unread = @ \cup {e}, !.unsure = @ \cup {e}]
            ELSE stack[i]]
    /\ UNCHANGED <<scan, list, allocCount, filter, steady>>

\* Unlinks a file, or moves a directory away with all it contains.
Unlink(e) ==
    /\ Edits /\ e \in there
    /\ there' = there \ Under(e) /\ steady' = steady \ Under(e)
    /\ stack' = [i \in DOMAIN stack |->
            [stack[i] EXCEPT !.unsure = @ \cup (stack[i].unread \cap Under(e))]]
    /\ UNCHANGED <<scan, list, allocCount, filter, seen, made>>

User == \E e \in Entries : Create(e) \/ Unlink(e)

(***************************************************************************)
(* Properties.                                                             *)
(***************************************************************************)
Visible(f) == ~Matches(f) /\ \A e \in Opaque : ~IsPrefix(e, f)

\* recurseIn and add: the list that --delete takes for the contents of SOURCE has
\* every file that was there all the time, unless it is excluded or of unknown
\* type, and nothing else than files that were there at some time.
ScanIsExact ==
    scan = "done" =>
        /\ {f \in steady \cap Files : Visible(f)} \subseteq Range(list)
        /\ \A f \in Range(list) : f \in seen /\ ~Matches(f)

\* A path is twice in the list only if it, or a directory above it, was put there
\* during the walk: two entries of one path break the primary key of the table
\* that calculateListOfFilesToDelete copies the list into.
TwiceOnlyIfMade ==
    \A i, j \in DOMAIN list :
        i # j /\ list[i] = list[j] => \E e \in made : IsPrefix(e, list[i])
=============================================================================

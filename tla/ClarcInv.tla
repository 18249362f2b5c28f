------------------------------ MODULE ClarcInv ------------------------------
(***************************************************************************)
(* The inductive invariants behind the properties of Clarc.  SyncInv, for  *)
(* SkipIsSound, KnownIsSynced and DeletesOnlyLocallyDeleted, and RunInv,   *)
(* for CleanRunSyncs, need a careful user: every edit gives the file a new *)
(* mtime and, if it changes the content, a content it never had; and       *)
(* --delete is used only without a destination folder and without          *)
(* --exclude.  Nothing is asked of the network, the database or the        *)
(* process, which may fail at any step.  The hypotheses of the others are  *)
(* with them.                                                              *)
(***************************************************************************)
EXTENDS Clarc

Careful ==
    /\ Edits \subseteq {"fresh", "touch", "remove"}
    /\ \A o \in Invocations : o.delete => Folder = "" /\ o.exclude = {}

\* Content c and mtime m are the file's now, or older.
Past(f, c, m) == c <= local[f].content /\ m <= local[f].mtime

\* What lstat returned in one call: an mtime has one content.
Pair(f, c, m) ==
    /\ Past(f, c, m)
    /\ local[f].exists /\ m = local[f].mtime => c = local[f].content

\* If c is the md5 of the file then the bucket has the file.
Known(f, c) == local[f].exists /\ c = local[f].content => Accounted(f)

\* If m is the mtime of the file then the bucket has the file.
Current(f, m) == local[f].exists /\ m = local[f].mtime => Accounted(f)

\* Workers exist only between the loop and the drain, a listing only during a
\* rebuild.
PhaseInv ==
    /\ pc \notin {"loop", "dispatch", "drain"} => slot = AllFree
    /\ TailAfterCleanDrain
    /\ pc \notin {"resolve", "truncate", "restore"} => listing = NoRows

\* The clock is ahead of everything.
ClockInv ==
    \A f \in Files :
        1 <= local[f].content /\ local[f].content <= clock /\ local[f].mtime <= clock

\* An object that carries the mtime of the file carries its content, or would if
\* no request given up had come.
ObjectInv ==
    \A f \in Files :
        LET o == remote[RemotePath(f)]
        IN  o # None => Past(f, o.content, o.mtime) /\ Current(f, o.mtime)

\* So does a row, and a row that has the file's md5 is matched by the bucket too.
\* Its md5 and its mtime need not belong together: a rebuild reads them in two
\* requests, and the object may change in between.
RowOk(f, row) ==
    row # None =>
        Past(f, row.md5, row.mtime) /\ Known(f, row.md5) /\ Current(f, row.mtime)

RowInv == \A f \in Files : RowOk(f, db[RemotePath(f)])

\* The same of a row that is to be stored; before the HEADs it has no mtime.
ListingInv ==
    \A f \in Files :
        LET row == listing[RemotePath(f)]
        IN  /\ pc # "resolve" => RowOk(f, row)
            /\ row # None => row.md5 <= local[f].content /\ Known(f, row.md5)

\* Requests given up.
LateInv ==
    \A r \in givenUp : \A f \in Files :
        r.key = RemotePath(f) =>
            /\ Past(f, r.content, r.mtime)
            /\ r.op = "meta" => Current(f, r.mtime)

\* A job knows what lstat and lookup returned when main examined its file; the
\* row, and every request given up, is older than what lstat returned.
JobOk(j) ==
    /\ Pair(j.path, j.size, j.mtime)
    /\ LET row == db[RemotePath(j.path)]
       IN  row # None => row.md5 <= j.size /\ row.mtime <= j.mtime
    /\ \A r \in givenUp : r.key = RemotePath(j.path) => r.mtime <= j.mtime
    /\ j.step = "start" /\ j.check => j.md5 <= local[j.path].content /\ Known(j.path, j.md5)
    /\ j.step \in {"meta", "store"} =>
          /\ j.md5 <= local[j.path].content /\ Known(j.path, j.md5)
          /\ Current(j.path, j.mtime)

JobInv ==
    /\ cur # None => JobOk(cur)
    /\ \A t \in Slots : slot[t] # None => JobOk(slot[t])

\* No two jobs are about the same file, and none about a file still to come.
ApartInv ==
    /\ pc # "dispatch" => cur = None
    /\ cur # None => cur.path \in scanned \ todo
    /\ \A t \in Slots : slot[t] # None =>
          /\ slot[t].path \in scanned \ todo
          /\ cur # None => cur.path # slot[t].path
          /\ \A u \in Slots \ {t} : slot[u] # None => slot[u].path # slot[t].path

\* A file that a run with --delete did not see appeared after the scan, and
\* nothing of its past has its content or its mtime.
DeleteInv ==
    /\ pc \in {"compare", "delete", "forget"} => opts.delete
    /\ pc \in {"loop", "dispatch", "drain", "compare", "delete", "forget"} /\ opts.delete =>
          \A f \in Files \ scanned : local[f].exists =>
              /\ f \in touched
              /\ LET row == db[RemotePath(f)]
                 IN  row # None => row.md5 # local[f].content /\ row.mtime # local[f].mtime
              /\ \A r \in givenUp :
                    r.key = RemotePath(f) /\ r.op = "meta" => r.mtime # local[f].mtime
    /\ pc \in {"delete", "forget"} => \A f \in scanned : LocalName(f) \notin toDelete

\* A job's file is still what lstat saw, or the user touched it.
Watched(j) ==
    \/ /\ local[j.path].exists
       /\ local[j.path].content = j.size /\ local[j.path].mtime = j.mtime
    \/ j.path \in touched

TouchInv ==
    /\ pc = "idle" => touched = {}
    /\ cur # None => Watched(cur)
    /\ \A t \in Slots : slot[t] # None => Watched(slot[t])

SyncInv ==
    ClockInv /\ ObjectInv /\ RowInv /\ LateInv /\ JobInv /\ ApartInv /\ DeleteInv

(***************************************************************************)
(* What a run has done so far.                                             *)
(***************************************************************************)
\* The steps of a process that has scanned the folder.
AfterScan == {"loop", "dispatch", "drain", "compare", "delete", "forget", "uploadDb"}

\* Main or a worker has the file in hand.
UnderWay(f) ==
    \/ cur # None /\ cur.path = f
    \/ \E t \in Slots : slot[t] # None /\ slot[t].path = f

\* Unless something failed, each file that the loop has passed and the user left
\* alone is in the bucket or on its way.
RunInv ==
    /\ pc \in AfterScan => \A f \in scanned \ touched : local[f].exists
    /\ pc \in AfterScan \ {"loop", "dispatch"} /\ ~failed => todo = {}
    /\ pc = "uploadDb" => ~opts.dryRun
    /\ pc \in AfterScan /\ ~failed /\ ~opts.dryRun =>
          \A f \in scanned \ (touched \cup Huge \cup todo) : Accounted(f) \/ UnderWay(f)

\* Of a careful user, every reachable state satisfies this.
CarefulInv == SyncInv /\ ListingInv /\ TouchInv /\ RunInv

\* A dry run is at no step that writes, and its workers end with their first.
DryInv ==
    /\ cur # None => cur.step = "start"
    /\ pc # "idle" /\ opts.dryRun =>
          /\ pc \notin {"truncate", "restore", "forget", "uploadDb"}
          /\ \A t \in Slots : slot[t] # None => slot[t].step = "start"

(***************************************************************************)
(* What is uploaded, whoever the user is, while 32 bits hold the time.     *)
(***************************************************************************)
TimesFit == 1 < MtimeModulus /\ MaxClock < MtimeModulus

\* No mtime is ahead of the clock.
TimeInv ==
    /\ clock < MtimeModulus
    /\ \A f \in Files : local[f].mtime <= clock

\* The row of a file does not have the mtime that lstat returned.
Changed(j) ==
    LET row == db[RemotePath(j.path)]
    IN  row = None \/ row.mtime = 0 \/ row.mtime # Uint32(j.mtime)

\* Main found so, and since then nobody but the worker itself writes the row.
ChangedInv ==
    /\ cur # None => Changed(cur)
    /\ \A t \in Slots :
          slot[t] # None /\ slot[t].step \in {"start", "put"} => Changed(slot[t])

(***************************************************************************)
(* What the database says of the bucket if nothing goes wrong and no file  *)
(* vanishes, which would end the process with the other workers half done. *)
(***************************************************************************)
Calm == Faults = {} /\ "remove" \notin Edits

\* The job knows the md5 of the row, if it has looked for it.
Looked(j) ==
    /\ local[j.path].exists
    /\ j.step = "meta" \/ (j.step = "start" /\ j.check) =>
          /\ db[RemotePath(j.path)] # None
          /\ db[RemotePath(j.path)].md5 = j.md5

\* A worker that has still to store has the object's content and mtime.
Sends(j) ==
    j.step = "store" =>
        /\ remote[RemotePath(j.path)] # None
        /\ remote[RemotePath(j.path)].content = j.md5
        /\ remote[RemotePath(j.path)].mtime = j.mtime

\* Some step of the process has still to write the row.
RowIsDue(k) ==
    \/ pc = "restore" /\ listing[k] # None
    \/ pc = "forget" /\ k \in batch
    \/ \E t \in Slots :
          slot[t] # None /\ slot[t].step = "store" /\ RemotePath(slot[t].path) = k

NoOpInv ==
    /\ \A k \in Keys \ {DbKey} : db[k] = RowOf(k) \/ RowIsDue(k)
    /\ givenUp = {}
    /\ \A k \in Keys : listing[k] # None =>
          remote[k] # None /\ listing[k].md5 = remote[k].content
    /\ pc = "resolve" => Listed = {k \in Keys : remote[k] # None}
    /\ pc = "truncate" => \A k \in Keys : listing[k] = RowOf(k)
    /\ pc = "restore" => \A k \in Listed : listing[k] = RowOf(k)
    /\ pc = "forget" => \A k \in batch : remote[k] = None
    /\ cur # None => cur.step = "start" /\ Looked(cur)
    /\ \A t \in Slots : slot[t] # None => Looked(slot[t]) /\ Sends(slot[t])
=============================================================================

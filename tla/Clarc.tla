-------------------------------- MODULE Clarc --------------------------------
(***************************************************************************)
(* One local folder, one bucket, one database file and the sequence of     *)
(* clarc invocations that keep them in step (main.cc, upload.cc,           *)
(* fileListStorage.cc, deleter.cc).  An invocation is a main process that  *)
(* scans the folder, skips what its database calls unchanged and hands the *)
(* rest to worker threads; it may die between any two steps, and the next  *)
(* invocation starts from the database and the bucket it left behind.      *)
(*                                                                         *)
(* Contents and times are numbers: a file's content is the clock value at  *)
(* which it was first written, its md5 is that number (md5 is taken to be  *)
(* collision free), and an mtime is a clock value.  Content 0 stands for   *)
(* bytes that no file ever held.  A request that got no answer may still   *)
(* be performed, at once, after its retry or in a later invocation.        *)
(* Redirects and the paging of the listing are outside this module.        *)
(***************************************************************************)
EXTENDS Naturals, FiniteSets

CONSTANTS
    Files,          \* paths below SOURCE
    Symlinks,       \* those that are symbolic links: their md5 is never compared
    Huge,           \* those of MAX_S3_FILE_SIZE bytes or more
    Slots,          \* the worker slots of Threads, --uploadThreads of them
    Folder,         \* the folder part of DEST, "" for none
    Database,       \* the name of the database file
    Invocations,    \* the command lines that may be run
    Edits,          \* what else the user does to the folder, see Edit
    Faults,         \* what may go wrong, see Fault
    StartMtimes,    \* mtimes of the files that exist initially, 0 is the epoch
    MaxClock,       \* bound: the user edits until this time
    MaxFaults,      \* bound: number of faults in a behaviour
    RetryFailAfter, \* RETRY_FAIL_AFTER
    MtimeModulus,   \* 2^32: store() and the listing keep uint32_t mtimes
    BatchSize,      \* BATCH_SIZE, objects per multi-object delete
    ChunkSize,      \* rows per transaction of a rebuild
    None            \* no object, no row, a free slot

Options == [dryRun: BOOLEAN, rebuild: BOOLEAN, upload: BOOLEAN,
            delete: BOOLEAN, exclude: SUBSET Files]

\* parseCommandline refuses --delete together with --rebuildOnly.
ASSUME InvocationsAssumption ==
    Invocations \subseteq {o \in Options : o.delete => o.upload}

ASSUME SetsAssumption == Symlinks \subseteq Files /\ Huge \subseteq Files

\* Its scan leaves the database out.
ASSUME DatabaseAssumption == Database \notin Files

ASSUME NumbersAssumption ==
    /\ StartMtimes \subseteq {0, 1} /\ MaxClock \in Nat /\ MaxFaults \in Nat
    /\ {RetryFailAfter, MtimeModulus, BatchSize, ChunkSize} \subseteq Nat \ {0}

RemotePath(f) == <<Folder, f>>

\* uploadDatabase puts a slash before the name even if there is no folder.
DbKey == <<IF Folder = "" THEN "/" ELSE Folder, Database>>

Keys == ({"", Folder} \X Files) \cup {DbKey}

\* Mutant: forgets to drop the leading slash of LocalFileList's paths.
LocalName_Slash(f) == <<"/", f>>

\* The name a scanned path has in calculateListOfFilesToDelete.
LocalName(f) == <<"", f>>

LocalFile == [exists: BOOLEAN, content: Nat, mtime: Nat]
Object == [content: Nat, mtime: Nat]
Row == [md5: Nat, mtime: Nat]
Job == [step: {"start", "meta", "put", "store"}, path: Files, mtime: Nat,
        size: Nat, md5: Nat, check: BOOLEAN, cUploads: Nat]

\* nth tells requests apart that are otherwise alike.  A multi-object delete is
\* a request for each key: it is not atomic.
Request == [op: {"put", "meta", "delete"}, key: Keys, content: Nat, mtime: Nat,
            nth: Nat]

ASSUME NoneAssumption ==
    None \notin Nat /\ None \notin Object \cup Row \cup Job \cup Options

VARIABLES
    local,      \* the folder; an absent file keeps the data it last had
    clock,      \* time of the last edit
    remote,     \* the bucket
    givenUp,    \* requests without an answer that the bucket may still perform
    overtaken,  \* history: keys that such a request changed after all, last
    db,         \* the table files of the local database
    pc,         \* where the main process is, "idle" when none runs
    opts,       \* its command line
    listing,    \* rebuild: the rows listed and not yet stored
    scanned,    \* LocalFileList
    todo,       \* the paths the loop of uploadFiles has not reached
    cur,        \* the job being dispatched
    slot,       \* busyThreads and the ThreadCommand of each busy one
    failed,     \* Uploader::failed
    toDelete,   \* the list performDeletion has still to go through
    batch,      \* deleted in the bucket, not yet in the database
    faults,     \* number of faults so far
    touched     \* history: files the user touched since the process started

folder == <<local, clock>>
bucket == <<remote, givenUp, overtaken>>
stores == <<bucket, db>>
process == <<pc, opts, listing, scanned, todo, cur, slot, failed, toDelete, batch>>
vars == <<folder, stores, process, faults, touched>>

(***************************************************************************)
(* Type and initial state.                                                 *)
(***************************************************************************)
Steps == {"idle", "list", "resolve", "truncate", "restore", "scan", "loop",
          "dispatch", "drain", "compare", "delete", "forget", "uploadDb"}

\* Every variable holds a value of the kind the code gives it.
TypeOK ==
    /\ local \in [Files -> LocalFile]
    /\ clock \in Nat
    /\ remote \in [Keys -> Object \cup {None}]
    /\ givenUp \subseteq Request
    /\ overtaken \subseteq Keys
    /\ db \in [Keys -> Row \cup {None}]
    /\ pc \in Steps
    /\ opts \in Invocations \cup {None}
    /\ pc # "idle" => opts # None
    /\ listing \in [Keys -> Row \cup {None}]
    /\ scanned \subseteq Files
    /\ todo \subseteq scanned
    /\ cur \in Job \cup {None}
    /\ pc = "dispatch" => cur # None
    /\ slot \in [Slots -> Job \cup {None}]
    /\ failed \in BOOLEAN
    /\ toDelete \subseteq Keys
    /\ batch \subseteq Keys
    /\ faults \in Nat
    /\ touched \subseteq Files

AllFree == [t \in Slots |-> None]
NoRows == [k \in Keys |-> None]

NoProcess ==
    /\ pc = "idle" /\ opts = None /\ listing = NoRows /\ scanned = {} /\ todo = {}
    /\ cur = None /\ slot = AllFree /\ failed = FALSE /\ toDelete = {}
    /\ batch = {} /\ touched = {}

Init ==
    /\ \E e \in [Files -> BOOLEAN], m \in [Files -> StartMtimes] :
          local = [f \in Files |-> [exists |-> e[f], content |-> 1, mtime |-> m[f]]]
    /\ clock = 1
    /\ remote = [k \in Keys |-> None]
    /\ givenUp = {} /\ overtaken = {}
    /\ db = NoRows
    /\ NoProcess
    /\ faults = 0

(***************************************************************************)
(* The user.  "fresh" writes new content at a new time (and creates),      *)
(* "touch" changes the mtime alone, "remove" deletes, "racy" writes new    *)
(* content within the second of the previous write, "revert" puts earlier  *)
(* content back at a new time, "restore" moves a removed file back with    *)
(* its mtime.                                                              *)
(***************************************************************************)
Tick == clock < MaxClock /\ clock' = clock + 1

Edited(f, file) ==
    /\ local' = [local EXCEPT ![f] = file]
    /\ touched' = IF pc = "idle" THEN {} ELSE touched \cup {f}
    /\ UNCHANGED <<stores, process, faults>>

Fresh(f) ==
    /\ "fresh" \in Edits
    /\ Tick
    /\ Edited(f, [exists |-> TRUE, content |-> clock', mtime |-> clock'])

Touch(f) ==
    /\ "touch" \in Edits /\ local[f].exists
    /\ Tick
    /\ Edited(f, [local[f] EXCEPT !.mtime = clock'])

Remove(f) ==
    /\ "remove" \in Edits /\ local[f].exists
    /\ Edited(f, [local[f] EXCEPT !.exists = FALSE])
    /\ UNCHANGED clock

Racy(f) ==
    /\ "racy" \in Edits /\ local[f].exists
    /\ Tick
    /\ Edited(f, [local[f] EXCEPT !.content = clock'])

Revert(f) ==
    /\ "revert" \in Edits /\ local[f].exists
    /\ Tick
    /\ \E c \in 1..clock :
          /\ c < local[f].content
          /\ Edited(f, [exists |-> TRUE, content |-> c, mtime |-> clock'])

Restore(f) ==
    /\ "restore" \in Edits /\ ~local[f].exists
    /\ Edited(f, [local[f] EXCEPT !.exists = TRUE])
    /\ UNCHANGED clock

Edit(f) == Fresh(f) \/ Touch(f) \/ Remove(f) \/ Racy(f) \/ Revert(f) \/ Restore(f)

\* One more thing of kind x goes wrong.
Fault(x) == x \in Faults /\ faults < MaxFaults /\ faults' = faults + 1

(***************************************************************************)
(* The bucket.  A request is answered, or it fails before the bucket has   *)
(* it ("netError"), or no answer comes ("lostReply"): then it may be       *)
(* performed at any later time, or never.  That it was performed before    *)
(* clarc gave up waiting is the case in which it is performed next; that   *)
(* the process died while waiting is the case in which Crash comes next.   *)
(***************************************************************************)
\* The state of ks is what clarc has just been told.
Answered(ks) == overtaken' = overtaken \ ks /\ UNCHANGED givenUp

NoAnswer(o, ks, c, m) ==
    /\ Fault("lostReply")
    /\ givenUp' = givenUp \cup
          {[op |-> o, key |-> k, content |-> c, mtime |-> m, nth |-> faults'] : k \in ks}
    /\ UNCHANGED <<remote, overtaken>>

PutObject(k, c, m) == remote' = [remote EXCEPT ![k] = [content |-> c, mtime |-> m]]

\* Mutant: a copy without x-amz-metadata-directive keeps the old metadata.
CopyMeta_KeepsOld(k, m) == remote' = remote

\* A copy of the object onto itself; none if there is no object.
CopyMeta(k, m) ==
    remote' = IF remote[k] = None THEN remote
              ELSE [remote EXCEPT ![k] = [@ EXCEPT !.mtime = m]]

Erase(ks) == remote' = [k \in Keys |-> IF k \in ks THEN None ELSE remote[k]]

\* A request given up is performed.
Arrive(r) ==
    /\ r \in givenUp
    /\ givenUp' = givenUp \ {r}
    /\ \/ r.op = "put" /\ PutObject(r.key, r.content, r.mtime)
       \/ r.op = "meta" /\ CopyMeta(r.key, r.mtime)
       \/ r.op = "delete" /\ Erase({r.key})
    /\ overtaken' = IF r.op = "meta" THEN overtaken ELSE overtaken \cup {r.key}
    /\ UNCHANGED <<folder, db, process, faults, touched>>

(***************************************************************************)
(* Start and end of a process.                                             *)
(***************************************************************************)
Exit ==
    /\ pc' = "idle" /\ opts' = None /\ listing' = NoRows /\ scanned' = {}
    /\ todo' = {} /\ cur' = None /\ slot' = AllFree /\ failed' = FALSE
    /\ toDelete' = {} /\ batch' = {} /\ touched' = {}

\* What follows opening the database, and then the rebuild.
AfterRebuild(o) == IF o.upload THEN "scan" ELSE "idle"

\* checkAuth failing ends the process before it has changed anything.
Start(o) ==
    /\ pc = "idle"
    /\ opts' = o
    /\ pc' = IF o.rebuild THEN "list" ELSE AfterRebuild(o)
    /\ pc' # "idle"
    /\ UNCHANGED <<folder, stores, listing, scanned, todo, cur, slot, failed,
                   toDelete, batch, faults, touched>>

\* A signal, a failed pthread_create, an unchecked NULL: all threads end at once.
Crash ==
    /\ pc # "idle"
    /\ Fault("crash")
    /\ Exit
    /\ UNCHANGED <<folder, stores>>

(***************************************************************************)
(* --rebuild.                                                              *)
(***************************************************************************)
Uint32(t) == t % MtimeModulus

\* downloadList: what the pages say of each object, which is not its mtime.
List ==
    /\ pc = "list"
    /\ \/ /\ listing' = [k \in Keys |-> IF remote[k] = None THEN None
                               ELSE [md5 |-> remote[k].content, mtime |-> 0]]
          /\ pc' = "resolve"
          /\ UNCHANGED <<opts, scanned, todo, cur, slot, failed, toDelete, batch,
                         faults, touched>>
       \/ Fault("netError") /\ Exit
    /\ UNCHANGED <<folder, stores>>

Listed == {k \in Keys : listing[k] # None}

\* resolveMtimes, a HEAD for each listed object.  An object that has gone since is
\* a failure, which is exit(1); a dry run ends here with the list thrown away.
Resolve ==
    /\ pc = "resolve"
    /\ \/ /\ \A k \in Listed : remote[k] # None
          /\ IF opts.dryRun /\ ~opts.upload THEN Exit
             ELSE /\ IF opts.dryRun THEN listing' = NoRows /\ pc' = "scan"
                     ELSE /\ listing' = [k \in Keys |-> IF k \in Listed
                                THEN [md5 |-> listing[k].md5, mtime |-> Uint32(remote[k].mtime)]
                                ELSE None]
                          /\ pc' = "truncate"
                  /\ UNCHANGED <<opts, scanned, todo, cur, slot, failed, toDelete,
                                 batch, touched>>
          /\ UNCHANGED faults
       \/ (\E k \in Listed : remote[k] = None) /\ Exit /\ UNCHANGED faults
       \/ Fault("netError") /\ Exit
    /\ UNCHANGED <<folder, stores>>

Truncate ==
    /\ pc = "truncate"
    /\ \/ /\ db' = NoRows
          /\ pc' = "restore"
          /\ UNCHANGED <<opts, listing, scanned, todo, cur, slot, failed, toDelete,
                         batch, faults, touched>>
       \/ Fault("dbError") /\ Exit /\ UNCHANGED db
    /\ UNCHANGED <<folder, bucket>>

\* A chunk of at most n members of S; only the last one is smaller.
Chunks(S, n) ==
    {c \in SUBSET S : c # {} /\ (Cardinality(c) = n \/ (c = S /\ Cardinality(S) < n))}

\* storeRemoteListOfFilesChunk: one transaction, so all of a chunk or nothing.
StoreChunk(c) ==
    /\ pc = "restore"
    /\ c \in Chunks(Listed, ChunkSize)
    /\ \/ /\ db' = [k \in Keys |-> IF k \in c THEN listing[k] ELSE db[k]]
          /\ listing' = [k \in Keys |-> IF k \in c THEN None ELSE listing[k]]
          /\ UNCHANGED <<pc, opts, scanned, todo, cur, slot, failed, toDelete, batch,
                         faults, touched>>
       \/ Fault("dbError") /\ Exit /\ UNCHANGED db
    /\ UNCHANGED <<folder, bucket>>

Rebuilt ==
    /\ pc = "restore"
    /\ listing = NoRows
    /\ IF opts.upload
       THEN /\ pc' = "scan"
            /\ UNCHANGED <<opts, listing, scanned, todo, cur, slot, failed, toDelete,
                           batch, touched>>
       ELSE Exit
    /\ UNCHANGED <<folder, stores, faults>>

(***************************************************************************)
(* The upload loop of the main thread.                                     *)
(***************************************************************************)
\* recurseIn, once per process, then the start of uploadFiles.
Scan ==
    /\ pc = "scan"
    /\ scanned' = {f \in Files \ opts.exclude : local[f].exists}
    /\ todo' = scanned'
    /\ failed' = FALSE
    /\ pc' = "loop"
    /\ UNCHANGED <<folder, stores, opts, listing, cur, slot, toDelete, batch,
                   faults, touched>>

\* lookup: md5 "" and mtime 0 when there is no row.
Lookup(k) == IF db[k] = None THEN [md5 |-> 0, mtime |-> 0] ELSE db[k]

\* Mutant: skips a file only when its row is newer, so never one that is as old.
NotChanged_Newer(f, row) == row.mtime > local[f].mtime

NotChanged(f, row) == row.mtime > 0 /\ row.mtime = local[f].mtime

\* One round of the loop, up to the wait for a free thread: lstat, lookup, and
\* the decision taken from the two.  The size lstat returns is that of the
\* content the file has now.
Examine(f) ==
    /\ pc = "loop"
    /\ ~failed
    /\ f \in todo
    /\ todo' = todo \ {f}
    /\ \/ /\ \/ ~local[f].exists
             \/ f \in Huge
             \/ NotChanged(f, Lookup(RemotePath(f)))
          /\ UNCHANGED <<pc, cur, failed, faults>>
       \/ /\ local[f].exists /\ f \notin Huge
          /\ ~NotChanged(f, Lookup(RemotePath(f)))
          /\ LET row == Lookup(RemotePath(f))
             IN cur' = [step |-> "start", path |-> f, mtime |-> local[f].mtime,
                        size |-> local[f].content, md5 |-> row.md5, check |-> row.mtime > 0, cUploads |-> 0]
          /\ pc' = "dispatch"
          /\ UNCHANGED <<failed, faults>>
       \/ /\ local[f].exists /\ f \notin Huge
          /\ Fault("dbError")
          /\ failed' = TRUE
          /\ UNCHANGED <<pc, cur>>
    /\ UNCHANGED <<folder, stores, opts, listing, scanned, slot, toDelete, batch,
                   touched>>

\* Mutant: does not return to the loop.
Dispatch_Stays(t) ==
    /\ pc = "dispatch"
    /\ slot[t] = None
    /\ slot' = [slot EXCEPT ![t] = cur]
    /\ cur' = None
    /\ UNCHANGED <<folder, stores, pc, opts, listing, scanned, todo, failed,
                   toDelete, batch, faults, touched>>

\* sleepTillThreadFree, markBusy, pthread_create.
Dispatch(t) ==
    /\ pc = "dispatch"
    /\ slot[t] = None
    /\ slot' = [slot EXCEPT ![t] = cur]
    /\ cur' = None
    /\ pc' = "loop"
    /\ UNCHANGED <<folder, stores, opts, listing, scanned, todo, failed, toDelete,
                   batch, faults, touched>>

LoopEnds ==
    /\ pc = "loop"
    /\ failed \/ todo = {}
    /\ pc' = "drain"
    /\ UNCHANGED <<folder, stores, opts, listing, scanned, todo, cur, slot, failed,
                   toDelete, batch, faults, touched>>

\* Mutant: goes on although a worker failed.
Drain_IgnoresFailed ==
    /\ pc = "drain"
    /\ slot = AllFree
    /\ pc' = IF opts.delete THEN "compare" ELSE "uploadDb"
    /\ UNCHANGED <<folder, stores, faults, opts, listing, scanned, todo, cur, slot,
                   failed, toDelete, batch, touched>>

\* sleepTillAllThreadsFree; only a successful uploadFiles has a sequel.
Drain ==
    /\ pc = "drain"
    /\ slot = AllFree
    /\ IF failed \/ (opts.dryRun /\ ~opts.delete)
       THEN Exit
       ELSE /\ pc' = IF opts.delete THEN "compare" ELSE "uploadDb"
            /\ UNCHANGED <<opts, listing, scanned, todo, cur, slot, failed, toDelete,
                           batch, touched>>
    /\ UNCHANGED <<folder, stores, faults>>

(***************************************************************************)
(* A worker thread: runOverThread and what it calls, then markFree.        *)
(***************************************************************************)
Free(t) == slot' = [slot EXCEPT ![t] = None]
Goto(t, job) == slot' = [slot EXCEPT ![t] = job]

\* Mutant: a worker that fails does not say so.
WorkerFails_Silently(t) == Free(t) /\ UNCHANGED failed

WorkerFails(t) == Free(t) /\ failed' = TRUE

\* The worker's part of the state is slot[t] and failed.
WorkerOnly == UNCHANGED <<folder, pc, opts, listing, scanned, todo, cur, toDelete,
                          batch, touched>>

Checks(job) == job.check /\ job.path \notin Symlinks

\* Mutant: a dry run goes through with the metadata update.
Begin_DryMeta(t) ==
    /\ slot[t] # None /\ slot[t].step = "start"
    /\ LET job == slot[t]
           file == local[job.path]
           same == Checks(job) /\ file.content = job.md5
       IN /\ Checks(job) => file.exists
          /\ IF opts.dryRun /\ ~same THEN Free(t)
             ELSE Goto(t, [job EXCEPT !.step = IF same THEN "meta" ELSE "put"])
    /\ WorkerOnly
    /\ UNCHANGED <<stores, failed, faults>>

\* The md5 comparison, and the ways out of a dry run.
Begin(t) ==
    /\ slot[t] # None /\ slot[t].step = "start"
    /\ LET job == slot[t]
           file == local[job.path]
           same == Checks(job) /\ file.content = job.md5
       IN /\ Checks(job) => file.exists
          /\ IF opts.dryRun THEN Free(t)
             ELSE Goto(t, [job EXCEPT !.step = IF same THEN "meta" ELSE "put"])
    /\ WorkerOnly
    /\ UNCHANGED <<stores, failed, faults>>

\* calculateFileMd5 returns NULL for a file it cannot open, and strcmp reads it.
BeginOnMissing(t) ==
    /\ slot[t] # None /\ slot[t].step = "start"
    /\ Checks(slot[t]) /\ ~local[slot[t].path].exists
    /\ Exit
    /\ UNCHANGED <<folder, stores, faults>>

\* updateMeta.  Any HTTP answer is a success, the 404 for a missing object and a
\* refusal too.
UpdateMeta(t) ==
    /\ slot[t] # None /\ slot[t].step = "meta"
    /\ LET job == slot[t]
           k == RemotePath(job.path)
           store == Goto(t, [job EXCEPT !.step = "store"]) /\ UNCHANGED failed
       IN \/ /\ CopyMeta(k, job.mtime) /\ store
             /\ UNCHANGED <<givenUp, overtaken, faults>>
          \/ Fault("metaRejected") /\ store /\ UNCHANGED bucket
          \/ Fault("netError") /\ WorkerFails(t) /\ UNCHANGED bucket
          \/ NoAnswer("meta", {k}, 0, job.mtime) /\ WorkerFails(t)
    /\ WorkerOnly
    /\ UNCHANGED db

\* Mutant: after the last attempt the count starts anew.
RetryOrFail_Anew(t, job) ==
    \/ /\ Goto(t, [job EXCEPT !.cUploads = (@ + 1) % RetryFailAfter])
       /\ UNCHANGED failed
    \/ WorkerFails(t)

\* Mutant: an attempt that failed counts as a success.
RetryOrFail_Stores(t, job) == Goto(t, [job EXCEPT !.step = "store"]) /\ UNCHANGED failed

\* After a failed attempt: again while the error is one to retry on and tries
\* are left, else give up.
RetryOrFail(t, job) ==
    \/ /\ job.cUploads + 1 < RetryFailAfter
       /\ Goto(t, [job EXCEPT !.cUploads = @ + 1])
       /\ UNCHANGED failed
    \/ WorkerFails(t)

\* Mutant: sends what the file held when main looked at it.
Sent_Scanned(job) == {job.size}

\* What a PUT that sends the st_size bytes announced may carry: the file as it
\* is now, or a piece of it when it was written to since the lstat; for a
\* symlink that is gone, the buffer readlink left uninitialised.
Sent(job) ==
    LET file == local[job.path]
    IN  IF file.exists
        THEN {file.content} \cup (IF file.content # job.size THEN {0} ELSE {})
        ELSE IF job.path \in Symlinks THEN {0} ELSE {}

\* One attempt of uploadFileWithRetry: the file is read anew, the mtime is the
\* one main read.  "httpError" is a status other than 200, or a 200 without an
\* ETag: neither is retried.  A file that shrank stalls until the timeout, and
\* without its last bytes the request is not performed.
Put(t) ==
    /\ slot[t] # None /\ slot[t].step = "put"
    /\ LET job == slot[t]
           k == RemotePath(job.path)
           Applied(c) == PutObject(k, c, job.mtime) /\ Answered({k})
       IN \/ \E c \in Sent(job) :
                \/ /\ Applied(c)
                   /\ Goto(t, [job EXCEPT !.step = "store", !.md5 = c])
                   /\ UNCHANGED <<failed, faults>>
                \/ NoAnswer("put", {k}, c, job.mtime) /\ RetryOrFail(t, job)
                \/ Fault("netError") /\ UNCHANGED bucket /\ RetryOrFail(t, job)
                \/ /\ Fault("httpError") /\ WorkerFails(t)
                   /\ Applied(c) \/ UNCHANGED bucket
          \/ /\ 0 \in Sent(job) /\ RetryOrFail(t, job)
             /\ UNCHANGED <<bucket, faults>>
          \/ Sent(job) = {} /\ WorkerFails(t) /\ UNCHANGED <<bucket, faults>>
    /\ WorkerOnly
    /\ UNCHANGED db

\* Mutants: the worker stores the mtime, or the md5, that the file has by now.
Store_Again(t, row) ==
    /\ slot[t] # None /\ slot[t].step = "store"
    /\ db' = [db EXCEPT ![RemotePath(slot[t].path)] = row]
    /\ Free(t)
    /\ WorkerOnly
    /\ UNCHANGED <<bucket, failed, faults>>

Store_StatsAgain(t) ==
    Store_Again(t, [md5 |-> slot[t].md5, mtime |-> Uint32(local[slot[t].path].mtime)])

Store_HashesAgain(t) ==
    Store_Again(t, [md5 |-> local[slot[t].path].content, mtime |-> Uint32(slot[t].mtime)])

\* FileListStorage::store after the bucket accepted the object or its metadata.
Store(t) ==
    /\ slot[t] # None /\ slot[t].step = "store"
    /\ LET job == slot[t]
       IN \/ /\ db' = [db EXCEPT ![RemotePath(job.path)] =
                          [md5 |-> job.md5, mtime |-> Uint32(job.mtime)]]
             /\ Free(t)
             /\ UNCHANGED <<failed, faults>>
          \/ Fault("dbError") /\ WorkerFails(t) /\ UNCHANGED db
    /\ WorkerOnly
    /\ UNCHANGED bucket

Worker(t) == Begin(t) \/ BeginOnMissing(t) \/ UpdateMeta(t) \/ Put(t) \/ Store(t)

(***************************************************************************)
(* --delete.                                                               *)
(***************************************************************************)
\* calculateListOfFilesToDelete: rows whose path is not that of a scanned file.
\* performDeletion spares the path that the database has in the folder, and so
\* not its copy in the bucket, which has a row after a rebuild.  A database error
\* returns NULL, which performDeletion reads, or, while the rows are read, only
\* those read so far.
Compare ==
    /\ pc = "compare"
    /\ LET gone == {k \in Keys : db[k] # None}
                       \ {LocalName(f) : f \in scanned \cup {Database}}
       IN \/ /\ \/ toDelete' = gone /\ UNCHANGED faults
                \/ Fault("dbError") /\ toDelete' \in SUBSET gone
             /\ pc' = "delete"
             /\ UNCHANGED <<opts, listing, scanned, todo, cur, slot, failed, batch,
                            touched>>
          \/ Fault("dbError") /\ Exit
    /\ UNCHANGED <<folder, stores>>

\* deleteBatch on the next batch b.  An answer other than 200, or none, ends
\* performDeletion; a 200 may report keys it did not delete, and is not read.
DeleteBatch(b) ==
    /\ pc = "delete"
    /\ b \in Chunks(toDelete, BatchSize)
    /\ \/ /\ opts.dryRun
          /\ toDelete' = toDelete \ b
          /\ UNCHANGED <<bucket, pc, batch, faults>>
       \/ /\ ~opts.dryRun
          /\ toDelete' = toDelete \ b /\ batch' = b /\ pc' = "forget"
          /\ \/ Erase(b) /\ Answered(b) /\ UNCHANGED faults
             \/ \E done \in SUBSET b :
                   Fault("postPartial") /\ Erase(done) /\ Answered(done)
       \/ /\ ~opts.dryRun
          /\ toDelete' = {} /\ pc' = "uploadDb" /\ UNCHANGED batch
          /\ \/ NoAnswer("delete", b, 0, 0)
             \/ Fault("netError") /\ UNCHANGED bucket
    /\ UNCHANGED <<folder, db, opts, listing, scanned, todo, cur, slot,
                   failed, touched>>

\* storeDeletedBatch: one transaction, and its result is ignored.  A failure
\* leaves the transaction open, so that the next ones fail too: a fault for each.
Forget ==
    /\ pc = "forget"
    /\ \/ /\ db' = [k \in Keys |-> IF k \in batch THEN None ELSE db[k]]
          /\ UNCHANGED faults
       \/ Fault("dbError") /\ UNCHANGED db
    /\ batch' = {}
    /\ pc' = "delete"
    /\ UNCHANGED <<folder, bucket, opts, listing, scanned, todo, cur, slot,
                   failed, toDelete, touched>>

Deleted ==
    /\ pc = "delete"
    /\ toDelete = {}
    /\ IF opts.dryRun
       THEN Exit
       ELSE /\ pc' = "uploadDb"
            /\ UNCHANGED <<opts, listing, scanned, todo, cur, slot, failed, toDelete,
                           batch, touched>>
    /\ UNCHANGED <<folder, stores, faults>>

\* Mutant: a process that deleted does not upload the database again.
UploadDatabase_NotAfterDelete ==
    /\ pc = "uploadDb"
    /\ IF opts.delete THEN UNCHANGED bucket ELSE PutObject(DbKey, 0, 0) /\ Answered({DbKey})
    /\ Exit
    /\ UNCHANGED <<folder, db, faults>>

\* uploadDatabase; whatever comes of it main exits with 0.  What the copy holds
\* is never compared with anything, so a retry is no different from the attempt.
UploadDatabase ==
    /\ pc = "uploadDb"
    /\ \/ PutObject(DbKey, 0, 0) /\ Answered({DbKey}) /\ UNCHANGED faults
       \/ NoAnswer("put", {DbKey}, 0, 0)
       \/ Fault("netError") /\ UNCHANGED bucket
    /\ Exit
    /\ UNCHANGED <<folder, db>>

(***************************************************************************)
(* The specification.                                                      *)
(***************************************************************************)
Rebuild ==
    List \/ Resolve \/ Truncate \/ (\E c \in SUBSET Keys : StoreChunk(c)) \/ Rebuilt

UploadFiles ==
    Scan \/ (\E f \in Files : Examine(f)) \/ (\E t \in Slots : Dispatch(t))
         \/ LoopEnds \/ Drain

DeleteFiles == Compare \/ (\E b \in SUBSET Keys : DeleteBatch(b)) \/ Forget \/ Deleted

Main == Rebuild \/ UploadFiles \/ DeleteFiles \/ UploadDatabase

Next ==
    \/ \E f \in Files : Edit(f)
    \/ \E r \in givenUp : Arrive(r)
    \/ \E o \in Invocations : Start(o)
    \/ Crash
    \/ Main
    \/ \E t \in Slots : Worker(t)

Spec == Init /\ [][Next]_vars

\* The scheduler runs every thread of the process.
Fairness == WF_vars(Main) /\ \A t \in Slots : WF_vars(Worker(t))

FairSpec == Spec /\ Fairness

(***************************************************************************)
(* Properties.                                                             *)
(***************************************************************************)
\* The bucket holds what the file holds.
Synced(f) ==
    /\ remote[RemotePath(f)] # None
    /\ remote[RemotePath(f)].content = local[f].content

\* It does, or a request that clarc had given up came later and had the last word:
\* of that clarc can know nothing.
Accounted(f) == Synced(f) \/ RemotePath(f) \in overtaken

\* A file that uploadFiles would skip as "not changed" is in the bucket with the
\* content it has now, whatever crashed, failed or was edited before: the
\* comparison of mtimes in the loop never hides a difference but one that a
\* request given up made afterwards.
SkipIsSound ==
    \A f \in Files :
        local[f].exists /\ NotChanged(f, Lookup(RemotePath(f))) => Accounted(f)

\* A file whose md5 is the stored one is in the bucket with that content: the
\* shortcut of runOverThread, to update the metadata instead of uploading, is
\* taken only when there is nothing to upload, as far as answers can tell.
KnownIsSynced ==
    \A f \in Files :
        LET row == db[RemotePath(f)]
        IN  local[f].exists /\ row # None /\ row.md5 = local[f].content => Accounted(f)

\* What clarc is for: when uploadFiles and the deletion are over and the run has
\* not failed, every file it scanned and the user left alone is in the bucket,
\* unless a request given up, in this run or before, overtook what followed it.
CleanRunSyncs ==
    pc = "uploadDb" => \A f \in scanned \ (touched \cup Huge) : Accounted(f)

\* Deletion and the upload of the database come after the last worker is done
\* and only if none failed: the drain, and not a test of the flag made while
\* workers still run, decides.
TailAfterCleanDrain ==
    pc \in {"compare", "delete", "forget", "uploadDb"} => slot = AllFree /\ ~failed

\* A request of some earlier time is performed.
Late == \E r \in givenUp : Arrive(r)

\* A run given --dryRun leaves database and bucket as they are, in all threads
\* and on every path.
DryRunChangesNothing ==
    [][pc # "idle" /\ opts.dryRun => Late \/ UNCHANGED stores]_vars

\* --delete erases an object only if its file was missing from the folder when
\* the process scanned it ("Delete files from S3 which have been deleted locally");
\* only a batch given up may still be erased when its files have come back.
DeletesOnlyLocallyDeleted ==
    [][\A f \in Files : local[f].exists /\ f \notin touched /\ remote[RemotePath(f)] # None
          => Late \/ remote'[RemotePath(f)] # None]_vars

\* Folder and bucket as Mirror sees them: contents alone.
ContentOf(r) == IF r.op = "put" THEN r.content ELSE None
MirrorSpec == INSTANCE Mirror WITH
    Contents <- Nat \ {0}, Torn <- 0, busy <- touched, active <- pc # "idle",
    file <- [f \in Files |-> IF local[f].exists THEN local[f].content ELSE None],
    object <- [f \in Files |-> IF remote[RemotePath(f)] = None THEN None
                                   ELSE remote[RemotePath(f)].content],
    late <- {<<p[1], ContentOf(p[2])>> :
                p \in {q \in Files \X givenUp :
                         q[2].key = RemotePath(q[1]) /\ q[2].op # "meta"}}

\* Whatever is scanned, skipped, retried, answered twice or given up in between,
\* an object changes only into what its file holds at that moment, or held when a
\* request was given up, and goes only when the file is gone, or was; a file
\* edited under clarc's hands is the exception.
ImplementsMirror == MirrorSpec!Spec

\* A rebuild as TableRebuild has it; "after" it the process goes on with the same
\* command line.  What the bucket is said to hold while mtimes are resolved is
\* what the pages and the HEADs together make of it.
RowOf(k) ==
    IF remote[k] = None THEN None
    ELSE [md5 |-> remote[k].content, mtime |-> Uint32(remote[k].mtime)]
Resolved(k) ==
    IF listing[k] = None \/ remote[k] = None THEN None
    ELSE [md5 |-> listing[k].md5, mtime |-> Uint32(remote[k].mtime)]
TaskPc ==
    CASE pc \in {"list", "resolve"} -> "list"
      [] pc \in {"truncate", "restore"} -> pc
      [] pc \notin {"idle", "list", "resolve", "truncate", "restore"} /\ opts.rebuild -> "after"
      [] OTHER -> "idle"
Task == INSTANCE TableRebuild WITH
    NoRow <- None, table <- db, pc <- TaskPc,
    dryRun <- IF TaskPc = "idle" THEN FALSE ELSE opts.dryRun,
    bucket <- [k \in Keys |-> IF pc = "resolve" THEN Resolved(k) ELSE RowOf(k)],
    listing <- IF pc = "resolve" THEN NoRows ELSE listing

\* List, Resolve, Truncate, StoreChunk and Rebuilt, and no others, are the rebuild
\* that the pages, threads and tries of Rebuild come to.
ImplementsTask == Task!Spec

\* "Only files that were changed/added since last clarc invocation will be
\* uploaded": no worker uploads a file whose row has the mtime lstat returned,
\* but for the mtime 0 that is taken for no row.
UploadsOnlyChanged ==
    \A t \in Slots :
        slot[t] # None /\ slot[t].step = "put"
            => LET row == db[RemotePath(slot[t].path)]
               IN  row = None \/ row.mtime = 0 \/ row.mtime # Uint32(slot[t].mtime)

\* "It possible to rebuild the database from Amazon S3": between runs, the rows
\* are those a rebuild would write, but for the one of the database itself.
RebuildIsNoOp ==
    pc = "idle" => \A k \in Keys \ {DbKey} : db[k] = RowOf(k)

\* Every process ends: no wait for a free slot, no drain, no retry and no batch
\* loop runs for ever.
RunTerminates == pc # "idle" ~> pc = "idle"

(***************************************************************************)
(* If the user keeps running clarc without options and the edits and the   *)
(* faults cease, the bucket catches up with the folder and stays so, until *)
(* a request given up before is performed.                                 *)
(***************************************************************************)
PlainRun == [dryRun |-> FALSE, rebuild |-> FALSE, upload |-> TRUE,
             delete |-> FALSE, exclude |-> {}]

RepeatedSpec == FairSpec /\ WF_vars(Start(PlainRun))

Converges == <>[](\A f \in Files \ Huge : local[f].exists => Accounted(f))

\* Though --delete erases the copy of the database whenever a rebuild has given
\* it a row, it is there again when the process ends, once nothing goes wrong.
DatabaseReturns == <>[](pc = "idle" => remote[DbKey] # None)
=============================================================================

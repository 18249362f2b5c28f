# A TLA+ model of clarc

clarc keeps a local folder and an Amazon S3 bucket in step. It remembers in a
small SQLite database which files it uploaded, with which md5 and mtime, and
uses that memory to decide what to upload, what to touch up and what to delete.
This directory models those decisions, the threads that carry them out and the
failures they meet; TLC checks the models on small instances, and TLAPS proves
the most important properties for every value of the constants.

## The system

| Component | State it keeps | Operations | Talks to |
|---|---|---|---|
| `main.cc` | options | command line, check of SOURCE and of the bucket, opening of the database, then rebuild, then upload, then delete, then upload of the database; exits on the first failure | all |
| `upload.cc` `Uploader` | `failed`, `uploadedSize`, the pool | `uploadFiles` (loop, lookup, dispatch, drain), `runOverThread` (md5 check, `updateMeta`, `uploadFileWithRetryAndStore`), `uploadDatabase` | database, S3, pool |
| `threads.cc` `Threads` | `busyThreads[]`, no lock | `sleepTillThreadFree`, `markBusy`, `markFree`, `sleepTillAllThreadsFree` | main thread and workers share the array |
| `fileListStorage.cc` | table `files(filePath PRIMARY KEY, md5, mtime)` | `lookup`, `store`, `truncate`, `storeRemoteListOfFiles`, `calculateListOfFilesToDelete`, `storeDeletedBatch` | SQLite; called from the main thread and from workers |
| `remoteListOfFiles.cc` | `paths`, `md5s`, `mtimes`, `failed`, a pool of 60 | `downloadList`, `resolveMtimes`, `checkAuth`, `createBucket` | S3 |
| `deleter.cc` | the current batch | `performDeletion`, `deleteBatch` | S3, database |
| `localFileList.cc`, `filePattern.cc` | the scanned list, the patterns, both in arrays that grow | `recurseIn`, `add`, `addDatabase`, `matches` | the file system, while the user changes it |
| `destination.cc` | bucket, endpoint, folder | `parse`, `isValid`, `absoluteString` | |
| `microCurl.cc`, `utils.c`, `amazonCredentials.cc`, `logger.c`, `sslThreadLocks.h` | static buffers of the C library | one HTTP request with its date and signature, logging | libcurl, OpenSSL |
| md5, sha1, hmac, base64, memxor, stdalign | none | third-party code | |

A run of clarc is one process. Its main thread scans the folder, looks each
file up, skips it when the mtime is the stored one and otherwise hands it to a
detached worker thread with a copy of the `struct stat`. The worker compares
the md5 with the stored one (if so, only the object's metadata is updated), or
uploads the file, and stores the new row. When all workers are done, and only
if none failed, main deletes the objects of files that are gone and uploads the
database itself. With `--rebuild` the table is first replaced by what a listing
of the bucket and one HEAD for each object say.

### What is hard here

* Three stores (folder, bucket, database) change one after another, by
  different threads, and the process may die between any two changes. The next
  run trusts what it finds.
* A request may be performed though its answer is lost; it may be performed
  late, after its retry or in a later run, and undo what came in between; it may
  be redirected; it is retried three times.
* The user edits files while clarc runs. The stat is taken by the main thread,
  the md5 and the upload by a worker later.
* `busyThreads` and the flags `failed` have no lock. The scans of the array are
  not atomic. The array is read between calls of `usleep`, which the compiler
  cannot look into, so each pass reads memory; each element is an aligned int.
  The models therefore read and write one element per step.
* All threads share the buffers in which `getpwuid`, `getgrgid` and `gmtime` leave
  their results, and the counter of uploaded bytes, to which the main thread adds the
  files it skips. A lock guards the first two.
* Directories are created, removed and renamed under the walk whose result
  `--delete` takes for the contents of SOURCE.
* What precedes the first upload - options, the bucket, the tables, the list - can
  fail or be redirected at every step, and the user's bucket may be somebody
  else's a moment later.

### What makes each component correct

* The decisions: what is skipped is in the bucket; what is taken for known is in
  the bucket; a run that succeeds has synchronised everything it scanned; an
  object is deleted only if its file was gone; unchanged files are not uploaded.
  The first three hold unless a request that clarc had given up is performed
  after the last one it got an answer to. Then the object differs from the row
  and the file, and no later run notices: clarc has no means to, so the
  properties say exactly when that is (`overtaken`), and `Mirror` what such a
  request can bring.
* The order: nothing after the drain happens while a worker runs or after a
  failure; a dry run changes nothing.
* The pool: no slot twice, no missed worker, no lost entry, no wait for ever.
* One upload: the stored md5 is that of the object; tries are bounded.
* The start: a bucket is made only if asked for, nothing is uploaded unless bucket,
  tables and list are ready, DEST means what the manual says, and the list has
  what is there.
* The requests: each file is sent with the names of its own owner; no content
  whose upload was refused goes unnoticed (a refused update of metadata does, the
  code takes any answer to it for success); the progress does not run ahead.
* The rebuild: complete on success, nothing but the truth at any time, nothing
  changed before everything is known, no object listed twice, an end.

The hazards of the code, with their lines and the properties that cover them,
are listed in `PROJECT.json`.

## The modules

| Module | Models | State |
|---|---|---|
| `Mirror` | what clarc promises of a folder and its objects, without database, threads or requests | `file`, `object`, `active`, `busy`, and `late`, what was given up |
| `Clarc` | invocations of clarc on one folder and one bucket; implements `Mirror` | `local` the folder, `remote` the bucket with the copy of the database at `DbKey`, `givenUp` the requests without an answer that it may still perform, `db` the table, and of the process `pc`, `opts`, `scanned`, `todo`, `slot`, `failed`, ... |
| `ClarcInv` | extends `Clarc` with the invariants of the proofs, and with what they assume of the user and of the faults | |
| `ClarcProofs`, `ClarcRunProofs` | its theorems: the decisions and the refinement; what whole runs do | |
| `ThreadPool` | the pool as its users see it, atomic | `todo`, `at`, `outcome`, `failed`, `mode` |
| `Threads` | `threads.cc` and the loops of `uploadFiles` and `resolveMtimes` around it, one array element per step; implements `ThreadPool` | `busy` is `busyThreads`, `i` and `foundBusy` the locals, `pc` the place in the main thread |
| `ThreadsProofs` | its theorems | |
| `UploadRetry` | one call of `uploadFileWithRetryAndStore` | `status`, `url`, `md5`, `cUploads` are the code's; `remote`, `late` the bucket and the requests under way |
| `UploadRetryProofs` | its theorems | |
| `Rebuild` | `rebuildDatabase` with `downloadList`, `resolveMtimes`, `truncate` and the chunks | `paths`, `mtimes`, `lastKey`, `isTruncated`, `failed` are the code's; `thread`, `tries` the pool's |
| `RebuildProofs` | its theorems | |
| `TableRebuild` | a rebuild as the rest of clarc sees it: one listing, one emptying, whole chunks; implemented by `Rebuild` and by `Clarc` | `bucket` the right rows, `table`, `listing`, `pc` |
| `LocalScan` | `localFileList.cc` and `filePattern.cc`: the walk entry by entry, with the user at work | `list`, `allocCount`, `patterns`, `size` are the code's; `stack` the open directories, `there` the tree |
| `Destination` | `destination.cc`, as operators on texts | |
| `Startup` | main from the command line to the list of files; extends `LocalScan` and `Destination` | `pc`, `line` and `optind` of getopt, `opts` the static variables, `bucket`, `tables` |
| `StartupProofs`, `ScanProofs` | its theorems: the options, the bucket and DEST; the walk and its arrays | |
| `Requests` | what uploading threads share while they prepare and send requests | `mutex`, `passwd`, `group`, `tm`, `uploadedSize` are the shared objects; `half`, `copy` and `mainCopy` what a thread has read of them |
| `RequestsProofs` | its theorems | |
| `MCClarc`, `MCThreads`, `MCStartup`, `MCRequests` | constants of the instances | |

How they fit together: `Clarc` dispatches a job to a free slot in one step and
drains in one step. That this is allowed is what `Threads` shows, by
implementing `ThreadPool`: every interleaving of the unlocked reads and writes
looks to the rest of the program like an atomic dispatch, an atomic end of a
task and an atomic drain. `Clarc` takes a whole listing as two steps, the pages
and the HEADs, and each attempt of a PUT as one: it is performed and answered, it
fails, or no answer comes and the request goes to `givenUp`, from where `Arrive`
performs it at any later time or never. `Rebuild` and `UploadRetry` open these
up, with redirects, pages and the state that the loops carry from one attempt to
the next; `UploadRetry`'s `late` is `Clarc`'s `givenUp` for one key. That the listing of
`Clarc`, and its chunks, are what `Rebuild` comes to is shown by a module in between:
`Rebuild` and `Clarc` both implement `TableRebuild`.
`Requests` opens up what happens between the dispatch of a file and its answer.
`Startup` is what precedes `Clarc`'s first step (its `Rebuild` is one step) and
goes into the scan, which `Clarc` takes as one step; both end where
`uploadFiles` begins. `Mirror` is the view from outside: `Clarc` with its
database, its retries and its crashes changes the bucket only as `Mirror` may.

### Clarc: correspondence with the code

`Start` is main up to the first operation; `List` (`downloadList`), `Resolve`
(`resolveMtimes`), `Truncate`, `StoreChunk` and `Rebuilt` are `rebuildDatabase`; `Scan` is `recurseIn`; `Examine` one round of the
loop in `uploadFiles` (lstat, size, lookup, comparison of mtimes); `Dispatch`
the rest of that round; `LoopEnds` and `Drain` the end of `uploadFiles`. A worker
goes through `Begin` (`runOverThread` up to the md5 comparison), `UpdateMeta`
or `Put`, and `Store`. `Compare`, `DeleteBatch`, `Forget`, `Deleted` are
`calculateListOfFilesToDelete` and the `Deleter`, `UploadDatabase` the end of
main. `Crash` ends the process between any two steps, and stands also for a
failed `pthread_create` and for the `strcmp` with NULL when a file vanishes before
its md5 is taken (`BeginOnMissing`). `Edit` is the user. A rebuild gives the copy
of the database a row, since the listing has it, and `--delete` erases the copy
then, because the name that `performDeletion` spares lacks the slash (or the
folder) that `uploadDatabase` puts in front; `DatabaseReturns` says that the end
of the run puts it back.

A request is performed and answered in one step of its sender (`Answered`), or
given up in one (`NoAnswer`: a timeout, a lost answer). That it had been performed
before clarc stopped waiting is the case in which `Arrive` comes next; that the
process died while it waited is the case in which `Crash` does. A PUT, a metadata
update, each key of a multi-object delete and the copy of the database can all
arrive late, also in the middle of another run. `overtaken` is history: the keys
whose last change was such a request; an answered PUT or delete takes the key out
again. The rebuild reads md5s from the pages and mtimes from the HEADs, and
requests given up may arrive between the two.

Contents are numbers and the md5 of a content is that number, so md5 is taken to
be free of collisions; content 0 stands for what was sent when a file changed
under the reading. Times are numbers too, one per edit unless the user sets
them otherwise; rows and objects keep them modulo `MtimeModulus`, 2^32 in the
code.

### Startup, LocalScan, Destination and Requests

One `ReadOption` is one round of the getopt loop, `Check` the rest of
`parseCommandline`, `VerifySource`, `CheckAuth`, `CreateBucket`, `OpenStorage` (one
step per statement) the calls of main in their order, `AddDatabase` and `Scan` the
start of the upload. Initially the database may have been left by a process
that died between its two tables, and the bucket may be nobody's, ours or
somebody else's. `LocalScan` keeps one frame per open directory: `unread` is what
`readdir` has not returned yet, `unsure` what was removed or put there since
`opendir`, which it may return or not. A directory that cannot be opened ends the
process, as `readdir(NULL)` does. Texts of DEST are sequences of tokens: the
prefix, the name of an endpoint, or one character. Patterns are the sets of
paths they match.

In `Requests` a thread goes through `Lock`, `GetUser`, `GetGroup`, `CopyNames`
(`addUidAndGidHeaders`), `Gmtime`, `StartFormat`, `FinishFormat` (`getIsoDate`: strftime
reads the shared struct in at least two steps), `Send` with `ReadSize` and `WriteSize`
(one call of the progress callback), and an answer or a retry; the main thread
formats mtimes in the same struct (`Take`, `Log`) and adds the sizes of files it skips
to the same counter (`Skip`, `SkipReads`, `SkipWrites`). A file with a stored row may
turn out to have the stored md5 (`Same`): then its thread sends the same headers
and the same date with a metadata update, whose answer is not looked at (`Updated`).

## Runs

| Run | Shows | Bounds |
|---|---|---|
| `clarc_careful` | the decisions are right, the inductive invariant holds, and `Mirror` is implemented, for a careful user | 2 files, 2 slots, 1 fault, a first time and one for edits |
| `clarc_hostile` | what holds whatever the user does: the tail, dry runs | all edits, a modulus that wraps, one huge file, 3 clock values, 1 fault; deleting and dry runs |
| `clarc_rebuild` | without faults a rebuild changes nothing | destination folder, rebuilds between runs |
| `clarc_liveness` | every process ends; repeated runs converge; the copy of the database returns | fairness below |
| `threads_pool` | the pool, the refinement, every wait ends | 4 tasks, 2 slots |
| `upload_retry` | one upload | 3 versions of the file, 2 redirects, 3 tries |
| `rebuild_faults` | the rebuild | 4 objects, pages of 2, chunks of 3, 2 threads, 2 redirects, 1 more start |
| `startup` | bucket, tables, destination and list at the start | 3 directories, 4 files, 2 changes of the tree, 2 open directories, arrays that grow by 2, 72 command lines, 2 redirects |
| `requests` | owners, dates and the counter of concurrent uploads | 2 files with rows, 2 pieces each, 2 tries |

Three runs show disagreements with what the manual or the code's own messages and
comments say; they are the `findings` in `PROJECT.json`:

| Run | Property violated | What happens |
|---|---|---|
| `clarc_delete_folder` | `DeletesOnlyLocallyDeleted` | with `s3://BUCKET/FOLDER`, `--delete` erases what was just uploaded |
| `upload_vanish` | `TriesAreBounded` | a file that vanishes after a redirect is tried for ever |
| `rebuild_redirect` | `DoneIsComplete` | a redirect of the first page empties the database |

Others, which the passing runs' constants avoid and which show when a constant is
changed: after a PUT whose row could not be stored, because of a crash or a database
error, and a return to the old content, the bucket keeps the other content, and
`KnownIsSynced` and then `SkipIsSound` fail (`Edits` with "revert"); a key that ends
a page and is part of the url makes the listing start again (`InUrl`); a file
with mtime 0 is uploaded by every run (`StartMtimes`); `--exclude` makes `--delete`
erase the objects of excluded files (`Careful`); a refused metadata update is
recorded as done, so `RebuildIsNoOp` is checked without faults. Small ones that no
property states: `clarc.1` documents `--create US` and `EU`, which main refuses;
100 is refused for `--uploadThreads`, whose message says 1..100; an unknown option is
passed over; a socket passes `verifySource`; and main exits with 0 after a failed
upload.

The bounds are enough for the cases that matter: two workers are the least that
interleave and two files the least that differ; one fault is a crash, an error, or
a request given up that arrives after its retry or in a later run, and the clock
allows an edit before, during or after a run, so that what arrives late is older
than what the retry sent; a retry limit of three, which the torn copies of a file
edited under clarc's hands use up without a fault, distinguishes the last try
from the others; two tasks more than slots make the main thread wait for a slot
and reuse it; four objects in pages of two and chunks of three give a full and a
partial page and chunk, and an empty bucket is among the initial states. Two
changes of the tree move a directory away and put a file or directory of the same
name back; a directory one deeper than can be opened, and arrays that grow at
two, bring both limits within reach of three levels and four files; the
initial tree is any subset. Two pieces and two tries, and files that may be skipped,
give a counter that loses an addition and one that counts a piece twice. Larger instances are what the
theorems are for.

### Who the user is

Some properties hold only if the user lets the mtime do its work. `Careful`
says: every edit sets a new mtime (edits `fresh`, `touch`, `remove`, so no two
edits within a second that clarc could tell apart and no return to an earlier
content), and `--delete` is used without destination folder and without
`--exclude`. `clarc_hostile` drops the first of
these, and lets times wrap; `clarc_delete_folder` drops the destination folder's
part of the second and shows why it is needed.

### Fairness

Weak fairness of the main thread and of each worker: the operating system's
scheduler runs every thread, and curl's connect and low-speed timeouts end every
request, so no step of theirs waits for ever. Nothing is assumed of the network
(all its failures are bounded in number, as `MaxFaults` and `MaxRedirects`,
because an Amazon that redirects for ever does keep clarc for ever), nor of the
user, except in `Converges`, where he keeps running clarc. `Startup` assumes
weak fairness of main alone: it is single-threaded, its requests end by the same
timeouts and its system calls return; the user's changes and the redirects are
bounded (`MaxEdits`, `MaxRedirects`). Runs set CHECK_DEADLOCK FALSE where the
system may really stop: the last run is over, and all edits and faults have
been spent.

## Proofs

All proofs are checked by TLAPS and rest on nothing but the named assumptions on
the constants, which TLC evaluates for the instances. Every invariant and every
action property that a passing run checks is also a theorem, for every value of
the constants; `PROJECT.json` lists them one by one.

### Clarc

`ClarcProofs` and `ClarcRunProofs`, for any files, slots, command lines and faults.

Whoever the user is:

* `TypeCorrect`, `TailIsSafe`: `TypeOK` and `TailAfterCleanDrain`. The inductive invariant
  of the second adds only that workers exist between the loop and the drain.
* `DryRunsChangeNothing`: `DryRunChangesNothing`, by `DryInv`: a dry run is at none of the
  steps that write, and its workers end with their first step, so whatever they find
  there they write nothing. Only what earlier runs gave up may still arrive.
* `ClarcIsTask`: `Clarc` implements `TableRebuild`. `AskedInv` says that only a process with
  `--rebuild` is at the steps of one, and `PhaseInv` that no worker is there before its
  end. The bucket of `TableRebuild` is, during the HEADs, what pages and HEADs together
  make of it: whatever arrives in between, the list is taken in one step.
* `OnlyChangedUploaded`: `UploadsOnlyChanged`, as long as 32 bits hold the time (`TimesFit`;
  without it the clock could come back to an mtime that a row has). The row may be
  written between the comparison and the upload, and main compares while workers
  store. `ChangedInv` says that the row of a job still has another mtime, which needs
  `ApartInv`: no two jobs are about one file, so nobody else writes the row; and the
  steps that write many rows are those of a process without workers.

Of a careful user (`Careful`, see above):

* `SkipsAreSound`, `ShortcutIsSound`, `DeletionsAreRight`: `SkipIsSound`, `KnownIsSynced` and
  `DeletesOnlyLocallyDeleted`. The property alone is not inductive: whether a row is
  right depends on where it comes from. `SyncInv` (in `ClarcInv`) therefore says of
  every place that holds a content or an mtime - rows, objects, jobs of workers,
  requests given up - how it relates to the file: none is newer than the file's, and
  what has the file's mtime, or its content, and is in a row or on its way into one, is
  in the bucket, or the key was overtaken. What a row's md5 and mtime say of each other is
  deliberately not in it: a metadata update that arrives late, or between the page
  and the HEAD of a rebuild, parts them. `JobOk` says that a request given up has an
  mtime no newer than that of the job at work, `DeleteInv` that a file which appeared after the
  scan of a run with `--delete` has nothing in common with what is left of its past.
  `ListingInv` says the same of a listing not yet stored.
* `BucketIsMirror`: `Spec => MirrorSpec`. `Mirror` lets an object become only what its file
  is at that moment, unless the file is edited while the process runs; such a change
  may be given up and come later, and only so can an older content come back. What
  the proof adds to `SyncInv` is therefore `Watched`: a file whose content or mtime differs
  from what a worker's job says was touched since the process started (`TouchInv`).
* `CleanRunsSync`: `CleanRunSyncs`. `RunInv` follows each scanned file through the run: the
  loop has not reached it, or main or a worker has it in hand (`UnderWay`), or it is in
  the bucket or was overtaken, unless the user touched it or something failed. A worker that ends
  without failing leaves its file in the last of these; the drain leaves nothing in
  the others.
* `CarefulHolds`: `CarefulInv`, these invariants together, which is what TLC checks in
  `clarc_careful`.

Without faults and removals (`Calm`):

* `RebuildsAreNoOps`: `RebuildIsNoOp`. In the middle of a run rows and objects do differ.
  `NoOpInv` says that each key is either as a rebuild would have it or some step of the
  process that is running has still to write its row (`RowIsDue`): a worker about to
  store, the chunk of a rebuild, the batch of a deletion. It says of workers that they
  will store the mtime and the content which the object has. A removal has to be
  excluded because a file that vanishes before its md5 is taken ends the process
  (`BeginOnMissing`) while other workers have sent and not yet stored.

### Threads

`ThreadsProofs`, for any number of slots and tasks:

* `FlagsAreTrue`: `FlagsInv`, the inductive invariant: a flag is up exactly
  while its slot is taken (or about to be), a slot that was found free stays free
  until it is marked, because only the main thread takes slots, and a pass of the
  drain that has found nothing so far is right about what it has read, because
  during the drain slots only become free.
* `PoolTyped`, `SlotsExclusive`, `DrainsComplete`: its consequences.
* `PoolIsImplemented`: `Spec => Pool!Spec`, step by step.

### UploadRetry

`UploadRetryProofs`, for any number of versions, redirects and tries:

* `RetryTyped`: `TypeOK`.
* `RowHolds`: `RowIsObject`, by `RowInv`: no attempt, given up or not, sent a version that
  the file did not have yet, and once an answer with an ETag has come nothing later
  than that version is under way.
* `LimitKept`: `LimitHolds`, by `TriesInv`: the tries are counted by `cUploads`, which a 307
  sets back together with them, unless the file vanished right after one, which is
  the state that `upload_vanish` shows to last for ever.
* `TriesBounded`: `TriesAreBounded`, the property that `upload_vanish` violates, holds if nobody
  removes the file: there is no second way to violate it.
* `AttemptsRunOut`: `Left`, a natural number made of the redirects and the tries that are
  left, never grows and every attempt makes it smaller, except one at a file that is
  gone after a 307. This is the half of `CallReturns` that does not need fairness.

### Rebuild

`RebuildProofs`, for any number of objects, pages, chunks, threads and runs, any
failures and any redirects but one:

* `RebuildTyped`: `TypeOK`, without any hypothesis.
* `ListHolds`, `RebuildComplete`, `TableOldOrTrue`, `ChangesInformed`: `ListIsPrefix`,
  `DoneIsComplete`, `OldOrTrue` and `ChangesAreInformed`, under `Undisturbed`: the first page is
  not redirected, and no key that ends a page is part of the url. These are the two
  errors of the code reported above, and each makes `DoneIsComplete` false.
* The invariant has a part for each phase. `ListInv`: what is listed is a prefix of the
  bucket, of whole pages as long as more are to come, and the marker is its last key.
  `PoolInv`: without failure every thread created so far is at work or has brought the
  mtime of its own object, and after the drain all have. `TableInv`: the table is the old
  one until it is emptied and then that of exactly the rows stored so far.
* `RebuildIsTask`: `Rebuild` implements `TableRebuild`, under `Undisturbed`. All requests and
  threads leave alone what `TableRebuild` sees; the step after the drain is its `List`, and
  then each transaction is one of its steps. `LeftIsRest`, that what is left of the
  listing is the rest of the bucket in order, makes a range of indices a chunk of
  keys; the one transaction that an empty bucket gets changes nothing.

`ImplementsTask`, of both modules, is not among the properties of the runs; with it as a
PROPERTY TLC finds no error in the instances of `rebuild_faults`, `clarc_rebuild` and
`clarc_careful`, and a violation in that of `rebuild_redirect`.

### Startup and LocalScan

`StartupProofs`, for any command lines, folders and answers of Amazon:

* `ReadyPrepared`, `CreatesAsAsked`: `ReadyIsPrepared` and `CreatedOnlyIfAsked`. `ReadInv`
  says that the static variables are what the options read so far made of them,
  `OrderInv` what each step of main relies on from those before it.
* `DestinationRead`: `DestinationIsRead`, for texts of any length. Its lemmas say what
  `FirstAt` finds, how a text that was put together splits at its first slash
  (`Split`) and before its endpoint (`HostRead`), and that the parts of a text that
  was accepted have no slash (`Parts`). `NamesAssumption` says what is meant by the name
  of a bucket and by a folder.

`ScanProofs`, for any tree, any patterns and any number of changes to it:

* `ScanExact`: `ScanIsExact`, by `ScanInv`: a visible file that was there all the time is
  in the list or below an entry that some open directory is still sure to return
  (`Found`). A directory that is opened has such an entry for everything below it
  (`EntryOnTheWay`); what the user removes takes from sight only what is below it,
  because a tree is closed upwards (`Closed`). The first part of the module is about
  paths and their prefixes.
* `TwiceIfMade`: `TwiceOnlyIfMade`. `ChainInv`: the open directories are one below the other
  and each has unread what is directly in it. `UnreadInv`: of an unread entry that was
  not put there during the walk nothing is listed or open yet, so that reading it
  lists nothing a second time.
* `StartupTyped`: `TypeOK`, in which the arrays have room for what is put into them, by
  `ArrayInv`. An option adds any number of patterns at once (`WithPatterns`, a fold);
  lemma `Room` proves by induction what comes out.

`Induction` (in `StartupProofs`) is induction over the natural numbers for a set, derived
from the well-foundedness of `<`; the library's form, for a predicate, cannot be
used by the provers installed here.

### Requests

`RequestsProofs`, for any number of files, owners, pieces and tries:

* `OwnersSafe`: `OwnersAreRight`, by `NamesInv`: who holds the mutex is exactly who is
  between the lock and the copy, and what it has got so far is still in the
  buffers.
* `RefusalsNoticed`: `RefusalIsNoticed`, by `NoticeInv`: every file the loop has passed
  was skipped or has a thread, and a thread that failed has set the flag, so that after
  the drain the flag tells of all of them. The files of which only metadata was sent
  are left out: whether they were refused nobody looks.
* `RequestsTyped`: `TypeOK`, in which the racy counter never exceeds what was sent and
  skipped. That is not inductive: a thread, or main, that has read the counter may write
  it long after others moved it. `PiecesInv` says that the counter, and every copy about to
  be written, stays below that sum by one piece for each thread that has still to add
  one and by the size of the file that main has still to add.

### Only model-checked

The liveness properties (`RunTerminates`, `Converges`, `DatabaseReturns`, `PoolEnds`,
`CallReturns`, `RebuildEnds`, `StartupEnds`), which are out of the prover's reach, and the
three violations. That `Clarc`'s one step for a scan stands for what `LocalScan` does, and
its attempts, arrivals and stores for what `UploadRetry` does but for redirects, is
argued above and not proved.

## Not modelled

* The texts of options, XML and headers; urls, signatures and hashes: formatting
  without state. md5 is taken to be free of collisions.
* Regular expressions: a pattern is what it matches. The pattern made of the
  database's name is not escaped, so it may match other names in SOURCE
  (`DatabaseNames`).
* Two clarc processes at once on one database: SQLite's lock makes the second one
  fail at its first write; nothing in the code expects it.
* Changes to the bucket by others. In `Rebuild` the bucket is at rest; that requests
  given up earlier may arrive meanwhile is in `Clarc`, whose `List` and `Resolve` read it
  at two moments.
* In `Requests`: which files are skipped and why (`Clarc`), redirects (`UploadRetry`),
  dry runs, and rows that cannot be stored.

## Plan

1. Done: `Clarc` with `ClarcInv`, `ClarcProofs` and `ClarcRunProofs`; `Mirror`; `ThreadPool`,
   `Threads`, `ThreadsProofs`; `UploadRetry`, `UploadRetryProofs`; `Rebuild`, `RebuildProofs`, `TableRebuild`;
   `LocalScan`, `Destination`, `Startup` with `StartupProofs` and `ScanProofs`; `Requests`,
   `RequestsProofs`.
2. The scan of `LocalScan` shown to implement `Scan`, and an upload of `UploadRetry` the steps
   `Put` and `Store`, by theorems, as `Rebuild` and `Clarc` are joined by `TableRebuild`.
3. `Deleter`: the order of the batches and the statements of
   `calculateListOfFilesToDelete`.

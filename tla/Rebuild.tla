------------------------------- MODULE Rebuild -------------------------------
(***************************************************************************)
(* clarc --rebuild: the bucket is listed page by page (downloadList), the  *)
(* mtime of every object is asked for by a pool of threads                 *)
(* (resolveMtimes), and then the table is emptied and filled again, some   *)
(* rows per transaction (storeRemoteListOfFiles).  Amazon may redirect any *)
(* request, requests and statements may fail, and the process may crash    *)
(* and be started again.                                                   *)
(*                                                                         *)
(* The bucket holds the keys 1 to size; the mtime of object k is k.        *)
(***************************************************************************)
EXTENDS Integers, Sequences, FiniteSets

CONSTANTS
    NumKeys,        \* bound: objects in the bucket
    PageSize,       \* objects per page, 1000
    ChunkSize,      \* rows per transaction, 100
    N,              \* threads of resolveMtimes, 60
    RetryFailAfter, \* RETRY_FAIL_AFTER
    InUrl,          \* keys whose text occurs in the url of the bucket
    Redirected,     \* requests Amazon redirects: "first", "next", "head"
    Fallible,       \* what may fail: "get", "head", "database"
    MaxRedirects,   \* bound: redirects
    MaxStarts,      \* bound: runs after the first one
    MaxListed       \* bound: entries of the list

ASSUME SizesAssumption ==
    /\ NumKeys \in Nat /\ MaxListed \in Nat
    /\ PageSize \in Nat \ {0} /\ ChunkSize \in Nat \ {0}
    /\ N \in Nat \ {0} /\ RetryFailAfter \in Nat \ {0}
    /\ MaxRedirects \in Nat /\ MaxStarts \in Nat

VARIABLES
    size,           \* the bucket holds the keys 1 .. size
    db,             \* the mtime in the row of each key
    before,         \* history: db when the process started
    pc,             \* "list", "head", "truncate", "store", "done", "failed"
    dryRun,         \* --dryRun
    lastKey,        \* marker of the next page, 0 for ""
    isTruncated,    \* more pages follow
    paths,          \* RemoteListOfFiles::paths
    mtimes,         \* RemoteListOfFiles::mtimes
    next,           \* index of the loop in resolveMtimes
    thread,         \* what the thread of each entry does: "none", "new", "run", "done"
    tries,          \* cUploads of the threads
    failed,         \* RemoteListOfFiles::failed
    from,           \* first row of the next chunk, less one
    redirects,      \* redirects so far
    starts          \* runs after the first one

listing == <<lastKey, isTruncated, paths>>
heads == <<mtimes, next, thread, tries, failed>>
world == <<size, dryRun, before, starts>>
vars == <<world, db, pc, listing, heads, from, redirects>>

Keys == 1 .. NumKeys
NoRow == -1
Unresolved == 0
Stale == NumKeys + 1
Empty == [k \in Keys |-> NoRow]

\* Every variable holds a value of the kind the code gives it.
TypeOK ==
    /\ size \in 0 .. NumKeys /\ dryRun \in BOOLEAN
    /\ db \in [Keys -> -1 .. Stale] /\ before \in [Keys -> -1 .. Stale]
    /\ pc \in {"list", "head", "truncate", "store", "done", "failed"}
    /\ lastKey \in 0 .. NumKeys /\ isTruncated \in BOOLEAN
    /\ paths \in Seq(Keys)
    /\ mtimes \in Seq(0 .. NumKeys)
    /\ pc \notin {"list", "failed"} => Len(mtimes) = Len(paths)
    /\ next \in 1 .. Len(mtimes) + 1
    /\ thread \in [DOMAIN mtimes -> {"none", "new", "run", "done"}]
    /\ tries \in [DOMAIN mtimes -> 0 .. RetryFailAfter - 1]
    /\ failed \in BOOLEAN
    /\ from \in 0 .. Len(paths)
    /\ redirects \in 0 .. MaxRedirects /\ starts \in 0 .. MaxStarts

\* The constructor of RemoteListOfFiles.
Reset ==
    /\ pc' = "list" /\ dryRun' \in BOOLEAN /\ before' = db
    /\ lastKey' = 0 /\ isTruncated' = FALSE /\ paths' = <<>>
    /\ mtimes' = <<>> /\ next' = 1 /\ thread' = <<>> /\ tries' = <<>> /\ failed' = FALSE
    /\ from' = 0

Init ==
    /\ size \in 0 .. NumKeys
    /\ db \in {Empty, [k \in Keys |-> Stale]}
    /\ before = db
    /\ pc = "list" /\ dryRun \in BOOLEAN
    /\ lastKey = 0 /\ isTruncated = FALSE /\ paths = <<>>
    /\ mtimes = <<>> /\ next = 1 /\ thread = <<>> /\ tries = <<>> /\ failed = FALSE
    /\ from = 0 /\ redirects = 0 /\ starts = 0

(***************************************************************************)
(* downloadList.                                                           *)
(***************************************************************************)
\* performGetOnBucket adds the marker unless its text is in the url already.
Marker == IF lastKey \in InUrl THEN 0 ELSE lastKey

\* Keys of the page that follows key m.
PageEnd(m) == IF m + PageSize < size THEN m + PageSize ELSE size
Page(m) == [i \in 1 .. PageEnd(m) - m |-> m + i]

\* The listing has ended; resolveMtimes starts with every mtime 0.
Listed(list) ==
    /\ pc' = "head"
    /\ mtimes' = [i \in 1 .. Len(list) |-> Unresolved]
    /\ thread' = [i \in 1 .. Len(list) |-> "none"]
    /\ tries' = [i \in 1 .. Len(list) |-> 0]
    /\ UNCHANGED <<next, failed>>

Continues == pc' = pc /\ UNCHANGED heads

\* Mutant: the marker of the next page is one key too far.
ListPage_Skips ==
    /\ pc = "list" /\ Len(paths) < MaxListed
    /\ paths' = paths \o Page(Marker)
    /\ lastKey' = IF PageEnd(Marker) < size THEN PageEnd(Marker) + 1 ELSE PageEnd(Marker)
    /\ isTruncated' = (PageEnd(Marker) + 1 < size)
    /\ IF isTruncated' THEN Continues ELSE Listed(paths')
    /\ UNCHANGED <<world, db, from, redirects>>

ListPage ==
    /\ pc = "list" /\ Len(paths) < MaxListed
    /\ paths' = paths \o Page(Marker)
    /\ lastKey' = PageEnd(Marker)
    /\ isTruncated' = (PageEnd(Marker) < size)
    /\ IF isTruncated' THEN Continues ELSE Listed(paths')
    /\ UNCHANGED <<world, db, from, redirects>>

\* 307: "continue" goes on to the condition of the loop, which is isTruncated.
ListRedirect ==
    /\ pc = "list" /\ redirects < MaxRedirects
    /\ (IF isTruncated THEN "next" ELSE "first") \in Redirected
    /\ redirects' = redirects + 1
    /\ IF isTruncated THEN Continues ELSE Listed(paths)
    /\ UNCHANGED <<world, db, listing, from>>

\* An error, another status, or a body that is not a list.
ListFails ==
    /\ pc = "list" /\ "get" \in Fallible
    /\ pc' = "failed"
    /\ UNCHANGED <<world, db, listing, heads, from, redirects>>

(***************************************************************************)
(* resolveMtimes.                                                          *)
(***************************************************************************)
Running == {i \in DOMAIN thread : thread[i] \in {"new", "run"}}

\* The flag is looked at after the thread is created.
Dispatch ==
    /\ pc = "head" /\ next <= Len(paths)
    /\ Cardinality(Running) < N
    /\ thread' = [thread EXCEPT ![next] = "new"]
    /\ next' = IF failed THEN Len(paths) + 1 ELSE next + 1
    /\ UNCHANGED <<world, db, pc, listing, mtimes, tries, failed, from, redirects>>

\* A thread failed just after the last one was created.
Break ==
    /\ pc = "head" /\ failed /\ next > 1 /\ next <= Len(paths)
    /\ next' = Len(paths) + 1
    /\ UNCHANGED <<world, db, pc, listing, mtimes, thread, tries, failed, from, redirects>>

\* runOverThread leaves at once when another thread has failed.
Begin(i) ==
    /\ pc = "head" /\ thread[i] = "new"
    /\ thread' = [thread EXCEPT ![i] = IF failed THEN "done" ELSE "run"]
    /\ UNCHANGED <<world, db, pc, listing, mtimes, next, tries, failed, from, redirects>>

Fails(i) ==
    /\ thread' = [thread EXCEPT ![i] = "done"]
    /\ failed' = TRUE
    /\ UNCHANGED <<mtimes, tries>>

HeadOk(i) ==
    /\ mtimes' = [mtimes EXCEPT ![i] = paths[i]]
    /\ thread' = [thread EXCEPT ![i] = "done"]
    /\ UNCHANGED <<tries, failed, redirects>>

\* 307: performHeadOnFileWithRetry is called again.
HeadRedirect(i) ==
    /\ "head" \in Redirected /\ redirects < MaxRedirects
    /\ redirects' = redirects + 1
    /\ tries' = [tries EXCEPT ![i] = 0]
    /\ UNCHANGED <<mtimes, thread, failed>>

\* Mutant: when the tries are used up the thread just ends.
HeadBroken_Silent(i) ==
    /\ "head" \in Fallible /\ UNCHANGED redirects
    /\ \/ /\ tries[i] + 1 < RetryFailAfter
          /\ tries' = [tries EXCEPT ![i] = @ + 1]
          /\ UNCHANGED <<mtimes, thread, failed>>
       \/ /\ tries[i] + 1 = RetryFailAfter
          /\ thread' = [thread EXCEPT ![i] = "done"]
          /\ UNCHANGED <<mtimes, tries, failed>>

\* Mutant: one try more.
HeadBroken_OneMore(i) ==
    /\ "head" \in Fallible /\ UNCHANGED redirects
    /\ \/ /\ tries[i] < RetryFailAfter
          /\ tries' = [tries EXCEPT ![i] = @ + 1]
          /\ UNCHANGED <<mtimes, thread, failed>>
       \/ tries[i] = RetryFailAfter /\ Fails(i)

\* Mutant: after the last try the count starts anew.
HeadBroken_Forever(i) ==
    /\ "head" \in Fallible
    /\ tries' = [tries EXCEPT ![i] = (@ + 1) % RetryFailAfter]
    /\ UNCHANGED <<mtimes, thread, failed, redirects>>

\* An error that is retried.
HeadBroken(i) ==
    /\ "head" \in Fallible /\ UNCHANGED redirects
    /\ \/ /\ tries[i] + 1 < RetryFailAfter
          /\ tries' = [tries EXCEPT ![i] = @ + 1]
          /\ UNCHANGED <<mtimes, thread, failed>>
       \/ tries[i] + 1 = RetryFailAfter /\ Fails(i)

\* An error that is not, or another status.
HeadRefused(i) ==
    /\ "head" \in Fallible /\ Fails(i)
    /\ UNCHANGED redirects

Request(i) ==
    /\ pc = "head" /\ thread[i] = "run"
    /\ HeadOk(i) \/ HeadRedirect(i) \/ HeadBroken(i) \/ HeadRefused(i)
    /\ UNCHANGED <<world, db, pc, listing, next, from>>

\* Mutants: the failure of a thread is not looked at; the threads at work are
\* not waited for.
Resolved_Ignores ==
    /\ pc = "head" /\ next > Len(paths) /\ Running = {}
    /\ pc' = IF dryRun THEN "done" ELSE "truncate"
    /\ UNCHANGED <<world, db, listing, heads, from, redirects>>

Resolved_NoDrain ==
    /\ pc = "head" /\ next > Len(paths)
    /\ pc' = IF failed THEN "failed" ELSE IF dryRun THEN "done" ELSE "truncate"
    /\ UNCHANGED <<world, db, listing, heads, from, redirects>>

\* The drain, and what rebuildDatabase makes of the result.
Resolved ==
    /\ pc = "head" /\ next > Len(paths) /\ Running = {}
    /\ pc' = IF failed THEN "failed" ELSE IF dryRun THEN "done" ELSE "truncate"
    /\ UNCHANGED <<world, db, listing, heads, from, redirects>>

(***************************************************************************)
(* The table.                                                              *)
(***************************************************************************)
Truncate ==
    /\ pc = "truncate"
    /\ db' = Empty /\ pc' = "store"
    /\ UNCHANGED <<world, listing, heads, from, redirects>>

ChunkEnd == IF from + ChunkSize < Len(paths) THEN from + ChunkSize ELSE Len(paths)
Chunk == from + 1 .. ChunkEnd

\* filePath is the primary key: a second INSERT of it fails.
Insertable ==
    \A i \in Chunk : db[paths[i]] = NoRow /\ \A j \in Chunk : paths[i] = paths[j] => i = j

\* Mutant: a last chunk that is not full is forgotten.
StoreChunk_Full ==
    /\ pc = "store" /\ Insertable
    /\ IF from + ChunkSize > Len(paths) /\ from > 0
       THEN pc' = "done" /\ UNCHANGED <<db, from>>
       ELSE /\ db' = [k \in Keys |->
                      IF \E i \in Chunk : paths[i] = k
                      THEN mtimes[CHOOSE i \in Chunk : paths[i] = k] ELSE db[k]]
            /\ from' = ChunkEnd
            /\ pc' = IF ChunkEnd = Len(paths) THEN "done" ELSE pc
    /\ UNCHANGED <<world, listing, heads, redirects>>

StoreChunk ==
    /\ pc = "store" /\ Insertable
    /\ db' = [k \in Keys |->
              IF \E i \in Chunk : paths[i] = k
              THEN mtimes[CHOOSE i \in Chunk : paths[i] = k] ELSE db[k]]
    /\ from' = ChunkEnd
    /\ pc' = IF ChunkEnd = Len(paths) THEN "done" ELSE pc
    /\ UNCHANGED <<world, listing, heads, redirects>>

\* A statement fails; the transaction is rolled back when the process exits.
StatementFails ==
    /\ pc \in {"truncate", "store"}
    /\ "database" \in Fallible \/ (pc = "store" /\ ~Insertable)
    /\ pc' = "failed"
    /\ UNCHANGED <<world, db, listing, heads, from, redirects>>

(***************************************************************************)
(* The specification.                                                      *)
(***************************************************************************)
\* The process ended, or died at any point, and is started again.
Restart ==
    /\ starts < MaxStarts
    /\ starts' = starts + 1
    /\ Reset
    /\ UNCHANGED <<size, db, redirects>>

Step ==
    \/ ListPage \/ ListRedirect \/ ListFails
    \/ Dispatch \/ Break \/ (\E i \in DOMAIN thread : Begin(i) \/ Request(i)) \/ Resolved
    \/ Truncate \/ StoreChunk \/ StatementFails

Next == Step \/ Restart

Spec == Init /\ [][Next]_vars

\* The threads run, and curl's timeouts end every request.
FairSpec == Spec /\ WF_vars(Step)

(***************************************************************************)
(* Properties.                                                             *)
(***************************************************************************)
\* The table is that of the bucket.
True(k) == IF k <= size THEN k ELSE NoRow

\* "rebuild local database from scratch": a rebuild that reports success has
\* left one row for each object, with its mtime, whatever was in the table and
\* however many earlier runs were interrupted.
DoneIsComplete == pc = "done" /\ ~dryRun => db = [k \in Keys |-> True(k)]

\* The table is as the run found it or holds nothing but what the bucket has:
\* no stale row survives next to new ones, and no mtime that was not resolved,
\* from a thread that failed or gave up, gets into a row.
OldOrTrue == db = before \/ \A k \in Keys : db[k] \in {NoRow, True(k)}

\* The table is touched only once the whole bucket is listed and every thread
\* has brought its mtime: no error in the long first part costs a row.
ChangesAreInformed ==
    [][db' # db =>
        /\ ~dryRun /\ Running = {}
        /\ paths = [i \in 1 .. size |-> i] /\ mtimes = paths]_vars

\* "[List] Getting 1000 files after %s": a page begins where the last one ended,
\* so no object is listed twice.
ListIsPrefix == paths = [i \in 1 .. Len(paths) |-> i]

\* All of it, pages, pool and tries, is a rebuild as TableRebuild has it: a success
\* is a table from whose listing nothing is left to be stored.
ToStore == IF pc \in {"truncate", "store"} THEN {paths[i] : i \in from + 1 .. Len(paths)} ELSE {}
Task == INSTANCE TableRebuild WITH
    bucket <- [k \in Keys |-> True(k)],
    table <- db,
    dryRun <- dryRun /\ pc # "failed",
    listing <- [k \in Keys |-> IF k \in ToStore
                              THEN mtimes[CHOOSE i \in DOMAIN paths : paths[i] = k] ELSE NoRow],
    pc <- CASE pc \in {"list", "head"} -> "list"
            [] pc = "truncate" -> "truncate"
            [] pc = "store" \/ (pc = "done" /\ ~dryRun) -> "restore"
            [] pc = "done" /\ dryRun -> "after"
            [] OTHER -> "idle"

ImplementsTask == Task!Spec

\* A rebuild comes to an end.
RebuildEnds == <>[](pc \in {"done", "failed"})
=============================================================================

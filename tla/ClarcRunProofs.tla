--------------------------- MODULE ClarcRunProofs ---------------------------
(***************************************************************************)
(* What a run of Clarc does between its start and its end: a dry run       *)
(* nothing, a clean run all it is asked, no run more than that.            *)
(***************************************************************************)
EXTENDS ClarcProofs

USE NoneAssumption, InvocationsAssumption

(***************************************************************************)
(* Every job has a file of its own, whoever the user is.                   *)
(***************************************************************************)
\* A process that ends has no job.
LEMMA ExitApart == ASSUME Exit PROVE ApartInv'
  BY DEF Exit, ApartInv, AllFree

\* A worker's job keeps its file, and main takes files that are still to come.
LEMMA ApartStep ==
    ASSUME TypeOK, PhaseInv, ApartInv, [Next]_vars
    PROVE  ApartInv'
  <1> USE DEF folder, stores, bucket
  <1>1. CASE Exit
    BY <1>1, ExitApart
  <1>2. CASE UNCHANGED <<pc, scanned, todo, cur, slot>>
    BY <1>2 DEF ApartInv
  <1>3. CASE pc \notin {"loop", "dispatch", "drain"} /\ UNCHANGED <<cur, slot>>
    BY <1>3 DEF ApartInv, PhaseInv, AllFree
  <1>4. ASSUME NEW f \in Files, Examine(f) PROVE ApartInv'
    <2>1. /\ UNCHANGED <<scanned, slot>> /\ pc = "loop" /\ cur = None
          /\ f \in todo /\ todo' = todo \ {f} /\ f \in scanned
          /\ \/ cur' = None
             \/ cur'.path = f /\ pc' = "dispatch"
      BY <1>4 DEF Examine, TypeOK, ApartInv
    <2>2. \A t \in Slots : slot[t] # None => slot[t].path # f
      BY <2>1 DEF ApartInv
    <2>3. QED
      BY <2>1, <2>2 DEF ApartInv
  <1>5. ASSUME NEW t \in Slots, Dispatch(t) PROVE ApartInv'
    <2>1. /\ UNCHANGED <<scanned, todo>> /\ cur' = None /\ cur # None /\ slot'[t] = cur
          /\ \A u \in Slots \ {t} : slot'[u] = slot[u]
      BY <1>5 DEF Dispatch, TypeOK
    <2>2. QED
      BY <2>1 DEF ApartInv
  <1>6. CASE LoopEnds
    BY <1>6 DEF LoopEnds, ApartInv
  <1>7. CASE Drain
    BY <1>1, <1>7 DEF Drain, ApartInv, AllFree
  <1>8. ASSUME NEW t \in Slots, Worker(t) PROVE ApartInv'
    <2>1. CASE BeginOnMissing(t)
      BY <1>1, <2>1 DEF BeginOnMissing
    <2>2. CASE Begin(t) \/ UpdateMeta(t) \/ Put(t) \/ Store(t)
      <3>1. /\ slot[t] # None /\ UNCHANGED <<pc, scanned, todo, cur>>
            /\ \A u \in Slots \ {t} : slot'[u] = slot[u]
            /\ slot'[t] # None => slot'[t].path = slot[t].path
        BY <2>2, WorkerMoves DEF WorkerOnly
      <3>2. QED
        BY <3>1 DEF ApartInv
    <2>3. QED
      BY <1>8, <2>1, <2>2 DEF Worker
  <1>9. ASSUME NEW o \in Invocations, Start(o) PROVE ApartInv'
    BY <1>3, <1>9 DEF Start
  <1>10. ASSUME NEW f \in Files, Edit(f) PROVE ApartInv'
    BY <1>2, <1>10 DEF Edit, Fresh, Touch, Remove, Racy, Revert, Restore, Edited, process
  <1>11. CASE Rebuild \/ Scan \/ DeleteFiles \/ UploadDatabase
    BY <1>1, <1>3, <1>11
    DEF Rebuild, List, Resolve, Truncate, StoreChunk, Rebuilt, Scan, DeleteFiles, Compare, DeleteBatch,
        Forget, Deleted, UploadDatabase
  <1>12. ASSUME NEW r \in givenUp, Arrive(r) PROVE ApartInv'
    BY <1>2, <1>12 DEF Arrive, process
  <1>13. QED
    BY <1>1, <1>2, <1>4, <1>5, <1>6, <1>7, <1>8, <1>9, <1>10, <1>11, <1>12
    DEF Next, Main, UploadFiles, Crash, vars, process

LEMMA ApartInit == Init => ApartInv
  BY DEF Init, NoProcess, ApartInv, AllFree

(***************************************************************************)
(* A dry run changes nothing.                                              *)
(***************************************************************************)
\* Every step keeps what is said of dry runs.
LEMMA DryStep ==
    ASSUME TypeOK, PhaseInv, DryInv, [Next]_vars
    PROVE  DryInv'
  <1> USE DEF folder, stores, bucket
  <1>1. CASE Exit
    BY <1>1 DEF Exit, DryInv
  <1>2. CASE UNCHANGED <<pc, opts, cur, slot>>
    BY <1>2 DEF DryInv
  <1>3. CASE /\ UNCHANGED <<cur, slot>> /\ pc # "idle" /\ UNCHANGED opts
             /\ pc' \notin {"truncate", "restore", "forget", "uploadDb"} \/ ~opts.dryRun
    BY <1>3 DEF DryInv
  <1>4. ASSUME NEW o \in Invocations, Start(o) PROVE DryInv'
    BY <1>4 DEF Start, AfterRebuild, PhaseInv, DryInv, AllFree
  <1>5. ASSUME NEW f \in Files, Edit(f) PROVE DryInv'
    BY <1>2, <1>5 DEF Edit, Fresh, Touch, Remove, Racy, Revert, Restore, Edited, process
  <1>6. CASE Rebuild
    <2>1. CASE List \/ Resolve
      BY <1>1, <1>3, <2>1 DEF List, Resolve
    <2>2. CASE Truncate
      BY <1>1, <2>2 DEF Truncate, DryInv
    <2>3. ASSUME NEW c \in SUBSET Keys, StoreChunk(c) PROVE DryInv'
      BY <1>1, <1>2, <2>3 DEF StoreChunk
    <2>4. CASE Rebuilt
      BY <1>1, <1>3, <2>4 DEF Rebuilt
    <2>5. QED
      BY <1>6, <2>1, <2>2, <2>3, <2>4 DEF Rebuild
  <1>7. ASSUME NEW f \in Files, Examine(f) PROVE DryInv'
    <2>1. UNCHANGED <<opts, slot>> /\ pc = "loop" /\ pc' \in {"loop", "dispatch"}
      BY <1>7 DEF Examine
    <2>2. UNCHANGED cur \/ cur'.step = "start"
      BY <1>7 DEF Examine
    <2>3. QED
      BY <2>1, <2>2 DEF DryInv
  <1>8. ASSUME NEW t \in Slots, Dispatch(t) PROVE DryInv'
    <2>1. /\ UNCHANGED opts /\ pc = "dispatch" /\ pc' = "loop" /\ cur' = None /\ cur # None
          /\ slot'[t] = cur /\ \A u \in Slots \ {t} : slot'[u] = slot[u]
      BY <1>8 DEF Dispatch, TypeOK
    <2>2. QED
      BY <2>1 DEF DryInv
  <1>9. CASE Scan \/ LoopEnds \/ Drain
    BY <1>1, <1>3, <1>9 DEF Scan, LoopEnds, Drain
  <1>10. CASE DeleteFiles \/ UploadDatabase
    BY <1>1, <1>3, <1>10
    DEF DeleteFiles, Compare, DeleteBatch, Forget, Deleted, UploadDatabase
  <1>11. ASSUME NEW t \in Slots, Worker(t) PROVE DryInv'
    <2>1. CASE BeginOnMissing(t)
      BY <1>1, <2>1 DEF BeginOnMissing
    <2>2. CASE Begin(t) \/ UpdateMeta(t) \/ Put(t) \/ Store(t)
      <3>1. /\ slot[t] # None /\ UNCHANGED <<pc, opts, cur>>
            /\ \A u \in Slots \ {t} : slot'[u] = slot[u]
        BY <2>2, WorkerMoves DEF WorkerOnly
      <3>2. CASE opts.dryRun
        <4>1. pc # "idle" /\ slot[t].step = "start"
          BY <3>1, <3>2 DEF PhaseInv, AllFree, DryInv
        <4>2. slot'[t] = None
          BY <2>2, <3>2, <4>1 DEF Begin, UpdateMeta, Put, Store, Free, TypeOK
        <4>3. QED
          BY <3>1, <4>2 DEF DryInv
      <3>3. CASE ~opts.dryRun
        BY <3>1, <3>3 DEF DryInv
      <3>4. QED
        BY <3>2, <3>3
    <2>3. QED
      BY <1>11, <2>1, <2>2 DEF Worker
  <1>12. ASSUME NEW r \in givenUp, Arrive(r) PROVE DryInv'
    BY <1>2, <1>12 DEF Arrive, process
  <1>13. QED
    BY <1>1, <1>2, <1>4, <1>5, <1>6, <1>7, <1>8, <1>9, <1>10, <1>11, <1>12
    DEF Next, Main, UploadFiles, Crash, vars, process

\* A run given --dryRun writes neither to the bucket nor to the database, whatever
\* else it is given, whatever fails and whatever the user does meanwhile; only
\* what earlier runs asked for may still happen.
THEOREM DryRunsChangeNothing == Spec => DryRunChangesNothing
  <1>1. Init => TypeOK /\ PhaseInv /\ DryInv
    BY TypedInit DEF Init, NoProcess, DryInv
  <1>2. TypeOK /\ PhaseInv /\ DryInv /\ [Next]_vars => (TypeOK /\ PhaseInv /\ DryInv)'
    BY TypedStep, DryStep
  <1>3. TypeOK /\ PhaseInv /\ DryInv /\ [Next]_vars
           => [pc # "idle" /\ opts.dryRun => Late \/ UNCHANGED stores]_vars
    <2> SUFFICES ASSUME TypeOK, PhaseInv, DryInv, Next, ~Late, pc # "idle", opts.dryRun
                 PROVE  UNCHANGED stores
      OBVIOUS
    <2>1. ASSUME NEW t \in Slots, Worker(t) PROVE UNCHANGED stores
      BY <2>1 DEF DryInv, Worker, Begin, BeginOnMissing, UpdateMeta, Put, Store, stores
    <2>2. CASE Main
      BY <2>2
      DEF DryInv, Main, Rebuild, List, Resolve, Truncate, StoreChunk, Rebuilt, UploadFiles, Scan, Examine,
          Dispatch, LoopEnds, Drain, DeleteFiles, Compare, DeleteBatch, Forget, Deleted,
          UploadDatabase, stores
    <2>3. QED
      BY <2>1, <2>2
      DEF Next, Late, Edit, Fresh, Touch, Remove, Racy, Revert, Restore, Edited, Start, Crash,
          stores
  <1>4. QED
    BY <1>1, <1>2, <1>3, PTL DEF Spec, DryRunChangesNothing

(***************************************************************************)
(* A clean run has synchronised what it scanned.                           *)
(***************************************************************************)
\* A process that ends has nothing to account for.
LEMMA ExitRun == ASSUME Exit PROVE RunInv'
  BY DEF Exit, RunInv, AfterScan

\* A step that leaves the files and the jobs alone and loses no object.
LEMMA SameRun ==
    ASSUME RunInv, UNCHANGED <<local, opts, scanned, todo, cur, slot, failed, touched>>,
           \A f \in Files : Accounted(f) => Accounted(f)',
           scanned \subseteq Files, pc \in AfterScan, pc' \in AfterScan,
           pc' \in AfterScan \ {"loop", "dispatch"} /\ ~failed => todo = {},
           pc' = "uploadDb" => ~opts.dryRun
    PROVE  RunInv'
  BY DEF RunInv, UnderWay

\* The user answers for the files he touches.
LEMMA EditRun ==
    ASSUME TypeOK, RunInv, NEW f \in Files, Edit(f)
    PROVE  RunInv'
  <1>1. UNCHANGED <<remote, overtaken, pc, opts, scanned, todo, cur, slot, failed>>
    BY DEF Edit, Fresh, Touch, Remove, Racy, Revert, Restore, Edited, process, stores, bucket
  <1>2. pc # "idle" => touched' = touched \cup {f}
    BY DEF Edit, Fresh, Touch, Remove, Racy, Revert, Restore, Edited
  <1>3. \A g \in Files \ {f} : local'[g] = local[g]
    BY DEF Edit, Fresh, Touch, Remove, Racy, Revert, Restore, Edited, TypeOK
  <1>4. scanned \subseteq Files /\ (pc \in AfterScan => pc # "idle")
    BY DEF TypeOK, AfterScan
  <1>5. QED
    BY <1>1, <1>2, <1>3, <1>4 DEF RunInv, Accounted, Synced, UnderWay

\* The loop passes a file only if it is gone, too large, in the bucket or in hand,
\* or if it fails.
LEMMA LoopRun ==
    ASSUME TypeOK, PhaseInv, SyncInv, TouchInv, RunInv, UploadFiles
    PROVE  RunInv'
  <1> USE DEF folder, stores, bucket
  <1>1. CASE Scan
    <2>1. /\ UNCHANGED <<local, touched>> /\ pc' = "loop" /\ todo' = scanned'
          /\ \A f \in scanned' : local[f].exists
      BY <1>1 DEF Scan
    <2>2. QED
      BY <2>1 DEF RunInv
  <1>2. ASSUME NEW f \in Files, Examine(f) PROVE RunInv'
    <2>1. /\ UNCHANGED <<local, remote, overtaken, opts, scanned, slot, touched>>
          /\ pc = "loop" /\ pc' \in {"loop", "dispatch"} /\ ~failed
          /\ todo' = todo \ {f} /\ cur = None /\ scanned \subseteq Files /\ f \in scanned
      BY <1>2 DEF Examine, SyncInv, ApartInv, TypeOK
    <2>2. failed' \/ Accounted(f) \/ f \in touched \cup Huge \/ (cur' # None /\ cur'.path = f)
      <3>1. CASE ~local[f].exists
        BY <2>1, <3>1 DEF RunInv, AfterScan
      <3>2. CASE local[f].exists /\ NotChanged(f, Lookup(RemotePath(f)))
        <4>1. db[RemotePath(f)] # None /\ db[RemotePath(f)].mtime = local[f].mtime
          BY <3>2 DEF NotChanged, Lookup
        <4>2. QED
          BY <3>2, <4>1 DEF SyncInv, RowInv, RowOk, Current
      <3>3. ASSUME cur' = [step |-> "start", path |-> f, mtime |-> local[f].mtime,
                           size |-> local[f].content, md5 |-> Lookup(RemotePath(f)).md5,
                           check |-> Lookup(RemotePath(f)).mtime > 0, cUploads |-> 0],
                   pc' = "dispatch"
            PROVE  cur' # None /\ cur'.path = f
        <4>1. cur' # None
          BY <1>2, <3>3, TypedStep DEF TypeOK, Next, Main, UploadFiles
        <4>2. QED
          BY <3>3, <4>1
      <3>4. QED
        BY <1>2, <3>1, <3>2, <3>3 DEF Examine
    <2>3. \A g \in scanned : (Accounted(g) <=> Accounted(g)') /\ (UnderWay(g) => UnderWay(g)')
      BY <2>1 DEF Accounted, Synced, UnderWay
    <2>4. QED
      BY <2>1, <2>2, <2>3 DEF RunInv, AfterScan, UnderWay
  <1>3. ASSUME NEW t \in Slots, Dispatch(t) PROVE RunInv'
    <2>1. /\ UNCHANGED <<local, remote, overtaken, opts, scanned, todo, failed, touched>>
          /\ pc = "dispatch" /\ pc' = "loop" /\ cur # None /\ slot[t] = None /\ slot'[t] = cur
          /\ \A u \in Slots \ {t} : slot'[u] = slot[u]
      BY <1>3 DEF Dispatch, TypeOK
    <2>2. \A g \in scanned : (Accounted(g) => Accounted(g)') /\ (UnderWay(g) => UnderWay(g)')
      BY <2>1 DEF Accounted, Synced, UnderWay
    <2>3. QED
      BY <2>1, <2>2 DEF RunInv, AfterScan
  <1>4. CASE LoopEnds
    <2>1. UNCHANGED <<local, remote, overtaken>>
      BY <1>4 DEF LoopEnds
    <2>2. QED
      BY <1>4, <2>1, SameRun DEF LoopEnds, AfterScan, TypeOK, Accounted, Synced
  <1>5. CASE Drain
    <2>1. CASE Exit
      BY <2>1, ExitRun
    <2>2. CASE /\ ~failed /\ ~(opts.dryRun /\ ~opts.delete)
               /\ pc' = IF opts.delete THEN "compare" ELSE "uploadDb"
               /\ UNCHANGED <<opts, scanned, todo, cur, slot, failed, touched>>
      <3>1. UNCHANGED <<local, remote, overtaken>> /\ pc = "drain" /\ todo = {}
        BY <1>5, <2>2 DEF Drain, RunInv, AfterScan
      <3>2. QED
        BY <2>2, <3>1, SameRun DEF AfterScan, TypeOK, Accounted, Synced
    <2>3. QED
      BY <1>5, <2>1, <2>2 DEF Drain
  <1>6. QED
    BY <1>1, <1>2, <1>3, <1>4, <1>5 DEF UploadFiles

\* Outside a dry run a worker ends by storing or by failing.
LEMMA StillBusy ==
    ASSUME TypeOK, NEW t \in Slots, Begin(t) \/ UpdateMeta(t) \/ Put(t), ~opts.dryRun, ~failed'
    PROVE  slot'[t] # None
  <1>0. PICK job : job = slot[t]
    OBVIOUS
  <1>1. job \in Job
    BY <1>0 DEF TypeOK, Begin, UpdateMeta, Put
  <1>2. ASSUME NEW s \in {"meta", "put", "store"}, Goto(t, [job EXCEPT !.step = s])
        PROVE  slot'[t] # None
    <2>1. [job EXCEPT !.step = s] \in Job
      BY <1>1 DEF Job
    <2>2. QED
      BY <1>2, <2>1 DEF Goto, TypeOK
  <1>3. ASSUME NEW c \in Sent(job), Goto(t, [job EXCEPT !.step = "store", !.md5 = c])
        PROVE  slot'[t] # None
    <2>1. c \in Nat
      BY <1>1, Parts, JobParts DEF Sent
    <2>2. [job EXCEPT !.step = "store", !.md5 = c] \in Job
      BY <1>1, <2>1 DEF Job
    <2>3. QED
      BY <1>3, <2>2 DEF Goto, TypeOK
  <1>4. ASSUME Goto(t, [job EXCEPT !.cUploads = @ + 1]) PROVE slot'[t] # None
    <2>1. [job EXCEPT !.cUploads = @ + 1] \in Job
      BY <1>1 DEF Job
    <2>2. QED
      BY <1>4, <2>1 DEF Goto, TypeOK
  <1>5. CASE Begin(t)
    BY <1>0, <1>2, <1>5 DEF Begin
  <1>6. CASE UpdateMeta(t)
    BY <1>0, <1>2, <1>6 DEF UpdateMeta, WorkerFails
  <1>7. CASE Put(t)
    BY <1>0, <1>3, <1>4, <1>7 DEF Put, RetryOrFail, WorkerFails
  <1>8. QED
    BY <1>5, <1>6, <1>7

\* A worker that ends without failing has brought its file into the bucket, or
\* the user touched it.
LEMMA WorkerRun ==
    ASSUME TypeOK, PhaseInv, SyncInv, TouchInv, RunInv, NEW t \in Slots, Worker(t)
    PROVE  RunInv'
  <1>1. CASE BeginOnMissing(t)
    BY <1>1, ExitRun DEF BeginOnMissing
  <1>2. CASE Begin(t) \/ UpdateMeta(t) \/ Put(t) \/ Store(t)
    <2>0. PICK f : f = slot[t].path
      OBVIOUS
    <2>1. /\ slot[t] \in Job /\ slot[t] # None /\ f = slot[t].path /\ f \in Files
          /\ UNCHANGED <<local, pc, opts, scanned, todo, cur, touched>>
          /\ \A u \in Slots \ {t} : slot'[u] = slot[u]
          /\ slot'[t] # None => slot'[t].path = f
      BY <1>2, <2>0, WorkerMoves, JobParts DEF WorkerOnly, folder
    <2>2. pc \in {"loop", "dispatch", "drain"} /\ scanned \subseteq Files
      BY <2>1 DEF PhaseInv, AllFree, TypeOK
    <2>3. CASE failed'
      BY <2>1, <2>2, <2>3 DEF RunInv, AfterScan
    <2>4. CASE ~failed' /\ ~opts.dryRun
      <3>1. ~failed
        BY <1>2, <2>4 DEF Begin, UpdateMeta, Put, Store, WorkerFails, RetryOrFail
      <3>2. \A g \in Files \ {f} : /\ remote'[RemotePath(g)] = remote[RemotePath(g)]
                                   /\ RemotePath(g) \in overtaken' <=> RemotePath(g) \in overtaken
        <4>1. \A k \in Keys \ {RemotePath(f)} :
                 remote'[k] = remote[k] /\ (k \in overtaken' <=> k \in overtaken)
          <5>1. CASE UNCHANGED bucket
            BY <5>1 DEF bucket
          <5>2. CASE UpdateMeta(t) \/ Put(t)
            <6>1. JobOk(slot[t])
              BY <2>1 DEF SyncInv, JobInv
            <6>2. QED
              BY <2>1, <5>2, <6>1, WorkerBucket
          <5>3. QED
            BY <1>2, <5>1, <5>2 DEF Begin, Store, stores
        <4>2. QED
          BY <2>1, <4>1, KeysApart, Parts
      <3>3. \A g \in Files \ {f} :
               (Accounted(g) => Accounted(g)') /\ (UnderWay(g) => UnderWay(g)')
        BY <2>1, <3>2 DEF Accounted, Synced, UnderWay
      <3>4. CASE slot'[t] # None
        <4>1. UnderWay(f)'
          BY <2>1, <3>4 DEF UnderWay
        <4>2. QED
          BY <2>1, <2>2, <3>1, <3>3, <4>1 DEF RunInv, AfterScan
      <3>5. CASE slot'[t] = None
        <4>1. Store(t) /\ UNCHANGED <<remote, overtaken>> /\ slot[t].step = "store"
          BY <1>2, <2>1, <2>4, <3>5, StillBusy DEF Store, bucket
        <4>2. f \notin touched => local[f].exists /\ local[f].mtime = slot[t].mtime
          BY <2>1 DEF TouchInv, Watched
        <4>3. Current(f, slot[t].mtime)
          BY <2>1, <4>1 DEF SyncInv, JobInv, JobOk
        <4>4. f \notin touched => Accounted(f)
          BY <4>2, <4>3 DEF Current
        <4>5. f \notin touched => Accounted(f)'
          BY <2>1, <4>1, <4>4 DEF Accounted, Synced
        <4>6. QED
          BY <2>1, <2>2, <3>1, <3>3, <4>5 DEF RunInv, AfterScan
      <3>6. QED
        BY <3>4, <3>5
    <2>5. CASE opts.dryRun /\ ~failed'
      <3>1. ~failed
        BY <1>2, <2>5 DEF Begin, UpdateMeta, Put, Store, WorkerFails, RetryOrFail
      <3>2. QED
        BY <2>1, <2>2, <2>5, <3>1 DEF RunInv, AfterScan
    <2>6. QED
      BY <2>3, <2>4, <2>5
  <1>3. QED
    BY <1>1, <1>2 DEF Worker

\* Deletion spares what was scanned.
LEMMA TailRun ==
    ASSUME Careful, TypeOK, PhaseInv, SyncInv, RunInv, DeleteFiles \/ UploadDatabase
    PROVE  RunInv'
  <1> USE DEF folder, stores, bucket
  <1>1. CASE Exit
    BY <1>1, ExitRun
  <1>2. CASE Compare \/ Forget \/ Deleted
    <2>1. UNCHANGED <<local, remote, overtaken>>
      BY <1>2 DEF Compare, Forget, Deleted
    <2>2. QED
      BY <1>1, <1>2, <2>1, SameRun
      DEF Compare, Forget, Deleted, RunInv, AfterScan, TypeOK, Accounted, Synced
  <1>3. ASSUME NEW b \in SUBSET Keys, DeleteBatch(b) PROVE RunInv'
    <2>1. /\ UNCHANGED <<local, opts, scanned, todo, cur, slot, failed, touched>>
          /\ pc = "delete" /\ pc' \in {"delete", "forget", "uploadDb"} /\ b \subseteq toDelete
          /\ pc' = "uploadDb" => ~opts.dryRun
      BY <1>3 DEF DeleteBatch, Chunks
    <2>2. Folder = "" /\ slot = AllFree /\ cur = None
      BY <2>1 DEF SyncInv, DeleteInv, ApartInv, PhaseInv, TypeOK, Careful
    <2>3. ASSUME NEW f \in scanned, Accounted(f) PROVE Accounted(f)'
      <3>1. RemotePath(f) \notin b /\ f \in Files
        BY <2>1, <2>2 DEF SyncInv, DeleteInv, RemotePath, LocalName, TypeOK
      <3>2. /\ remote'[RemotePath(f)] = remote[RemotePath(f)]
            /\ RemotePath(f) \in overtaken' <=> RemotePath(f) \in overtaken
        BY <1>3, <3>1, Parts DEF DeleteBatch, Erase, Answered, NoAnswer
      <3>3. QED
        BY <2>1, <2>3, <3>2 DEF Accounted, Synced
    <2>4. QED
      BY <2>1, <2>2, <2>3 DEF RunInv, AfterScan, UnderWay
  <1>4. QED
    BY <1>1, <1>2, <1>3 DEF DeleteFiles, UploadDatabase

\* Every step of a careful user's world keeps the account of the run.
LEMMA RunStep ==
    ASSUME Careful, TypeOK, PhaseInv, SyncInv, TouchInv, RunInv, [Next]_vars
    PROVE  RunInv'
  <1> USE DEF folder, stores, bucket
  <1>1. CASE Rebuild
    BY <1>1, ExitRun
    DEF Rebuild, List, Resolve, Truncate, StoreChunk, Rebuilt, RunInv, AfterScan
  <1>2. ASSUME NEW o \in Invocations, Start(o) PROVE RunInv'
    BY <1>2 DEF Start, AfterRebuild, RunInv, AfterScan
  <1>3. CASE Crash
    BY <1>3, ExitRun DEF Crash
  <1>4. CASE UNCHANGED vars
    BY <1>4 DEF vars, process, RunInv, AfterScan, Accounted, Synced, UnderWay
  <1>5. ASSUME NEW r \in givenUp, Arrive(r) PROVE RunInv'
    <2>1. /\ UNCHANGED <<local, pc, opts, scanned, todo, cur, slot, failed, touched>>
          /\ \A f \in Files : Accounted(f) => Accounted(f)'
      BY <1>5, ArriveEffect DEF process
    <2>2. QED
      BY <2>1 DEF RunInv, UnderWay, TypeOK
  <1>6. QED
    BY <1>1, <1>2, <1>3, <1>4, <1>5, EditRun, LoopRun, WorkerRun, TailRun DEF Next, Main

\* The invariants of careful users, those of ClarcProofs and of this module.
LEMMA CarefulInvariant == Careful => (Spec => [](TypeOK /\ PhaseInv /\ CarefulInv))
  <1> SUFFICES ASSUME Careful PROVE Spec => [](TypeOK /\ PhaseInv /\ CarefulInv)
    OBVIOUS
  <1> USE DEF CarefulInv
  <1>1. Init => TypeOK /\ PhaseInv /\ CarefulInv
    BY TypedInit, SyncInit DEF Init, NoProcess, TouchInv, AllFree, RunInv, AfterScan
  <1>2. TypeOK /\ PhaseInv /\ CarefulInv /\ [Next]_vars => (TypeOK /\ PhaseInv /\ CarefulInv)'
    BY TypedStep, SyncStep, ListingStep, TouchStep, RunStep
  <1>3. QED
    BY <1>1, <1>2, PTL DEF Spec

\* Of careful users: how every content and mtime in a row, an object, a job, a
\* listing or a request given up is related to the file, and what has become of
\* every file scanned.
THEOREM CarefulHolds == Careful => (Spec => []CarefulInv)
  BY CarefulInvariant, PTL

\* Of careful users: a run that comes to the upload of the database, which it does
\* only if nothing failed, leaves every file that it scanned and the user did not
\* touch in the bucket, whatever workers, retries and earlier runs did, but for
\* the files whose last change in the bucket was a request given up before.
THEOREM CleanRunsSync == Careful => (Spec => []CleanRunSyncs)
  <1>1. TypeOK /\ PhaseInv /\ CarefulInv => CleanRunSyncs
    <2> SUFFICES ASSUME TypeOK, PhaseInv, SyncInv, RunInv, pc = "uploadDb",
                        NEW f \in scanned \ (touched \cup Huge)
                 PROVE  Accounted(f)
      BY DEF CleanRunSyncs, CarefulInv
    <2>1. slot = AllFree /\ cur = None /\ ~failed /\ todo = {} /\ ~opts.dryRun
      BY DEF PhaseInv, TailAfterCleanDrain, SyncInv, ApartInv, RunInv, AfterScan
    <2>2. QED
      BY <2>1 DEF RunInv, AfterScan, UnderWay, AllFree
  <1>2. QED
    BY <1>1, CarefulInvariant, PTL

(***************************************************************************)
(* Nothing is uploaded twice, whoever the user is.                         *)
(***************************************************************************)
\* While 32 bits hold the time nothing is lost of an mtime.
LEMMA MtimeFits ==
    ASSUME TimesFit, TypeOK, TimeInv, NEW f \in Files
    PROVE  Uint32(local[f].mtime) = local[f].mtime
  <1>1. local[f].mtime \in Nat /\ clock \in Nat /\ MtimeModulus \in Nat \ {0}
    BY Parts, NumbersAssumption DEF TypeOK
  <1>2. local[f].mtime < MtimeModulus
    BY <1>1 DEF TimeInv
  <1>3. QED
    BY <1>1, <1>2, SMT DEF Uint32

\* The user's edits are at the clock's time, or keep an mtime.
LEMMA TimeStep ==
    ASSUME TimesFit, TypeOK, TimeInv, [Next]_vars
    PROVE  TimeInv'
  <1>0. clock \in Nat /\ MtimeModulus \in Nat /\ MaxClock \in Nat
    BY NumbersAssumption DEF TypeOK
  <1>1. CASE UNCHANGED folder
    BY <1>1 DEF folder, TimeInv
  <1>2. ASSUME NEW f \in Files, Edit(f) PROVE TimeInv'
    <2>1. \A g \in Files \ {f} : local'[g] = local[g]
      BY <1>2 DEF Edit, Fresh, Touch, Remove, Racy, Revert, Restore, Edited, TypeOK
    <2>2. clock' = clock \/ (clock' = clock + 1 /\ clock < MaxClock)
      BY <1>2 DEF Edit, Fresh, Touch, Remove, Racy, Revert, Restore, Tick
    <2>3. local'[f].mtime = clock' \/ local'[f].mtime = local[f].mtime
      <3>1. PICK file : /\ local' = [local EXCEPT ![f] = file]
                        /\ file.mtime = clock' \/ file.mtime = local[f].mtime
        <4>1. PICK newer : newer = [local[f] EXCEPT !.mtime = clock']
          OBVIOUS
        <4>2. PICK gone : gone = [local[f] EXCEPT !.exists = FALSE]
          OBVIOUS
        <4>3. PICK racy : racy = [local[f] EXCEPT !.content = clock']
          OBVIOUS
        <4>4. PICK back : back = [local[f] EXCEPT !.exists = TRUE]
          OBVIOUS
        <4>5. /\ newer.mtime = clock'
              /\ gone.mtime = local[f].mtime /\ racy.mtime = local[f].mtime
              /\ back.mtime = local[f].mtime
          BY <4>1, <4>2, <4>3, <4>4 DEF TypeOK, LocalFile
        <4>6. QED
          BY <1>2, <4>1, <4>2, <4>3, <4>4, <4>5
          DEF Edit, Fresh, Touch, Remove, Racy, Revert, Restore, Edited
      <3>2. QED
        BY <3>1 DEF TypeOK
    <2>4. \A g \in Files : local[g].mtime \in Nat
      BY Parts
    <2>5. QED
      BY <1>0, <2>1, <2>2, <2>3, <2>4 DEF TimeInv, TimesFit
  <1>3. QED
    BY <1>1, <1>2
    DEF Next, Arrive, vars, Start, Crash, Main, Rebuild, List, Resolve, Truncate, StoreChunk, Rebuilt, UploadFiles,
        Scan, Examine, Dispatch, LoopEnds, Drain, DeleteFiles, Compare, DeleteBatch, Forget,
        Deleted, UploadDatabase, Worker, WorkerOnly, Begin, BeginOnMissing, UpdateMeta, Put,
        Store, folder

\* A row is written only before there are jobs, by the job of its file, or after
\* the last job.
LEMMA ChangedStep ==
    ASSUME TimesFit, TypeOK, PhaseInv, ApartInv, TimeInv, ChangedInv, [Next]_vars
    PROVE  ChangedInv'
  <1> USE DEF folder, stores, bucket
  <1>1. CASE slot' = AllFree /\ cur' = None
    BY <1>1 DEF ChangedInv, AllFree
  <1>2. CASE UNCHANGED <<db, cur, slot>>
    BY <1>2 DEF ChangedInv, Changed
  <1>3. CASE pc \notin {"loop", "dispatch", "drain"} /\ UNCHANGED <<cur, slot>>
    BY <1>1, <1>3 DEF ApartInv, PhaseInv
  <1>4. ASSUME NEW f \in Files, Examine(f) PROVE ChangedInv'
    <2>1. UNCHANGED <<db, slot>> /\ cur = None
      BY <1>4 DEF Examine, ApartInv
    <2>2. cur' = None \/ (/\ cur'.path = f /\ cur'.mtime = local[f].mtime
                          /\ ~NotChanged(f, Lookup(RemotePath(f))))
      BY <1>4, <2>1 DEF Examine
    <2>3. ~NotChanged(f, Lookup(RemotePath(f))) =>
             LET row == db[RemotePath(f)]
             IN  row = None \/ row.mtime = 0 \/ row.mtime # Uint32(local[f].mtime)
      <3>1. db[RemotePath(f)] # None => db[RemotePath(f)].mtime \in Nat
        BY Parts
      <3>2. QED
        BY <3>1, MtimeFits DEF NotChanged, Lookup
    <2>4. cur' # None => Changed(cur')
      BY <2>2, <2>3 DEF Changed
    <2>5. QED
      BY <2>1, <2>4 DEF ChangedInv, Changed
  <1>5. ASSUME NEW t \in Slots, Dispatch(t) PROVE ChangedInv'
    <2>1. /\ UNCHANGED db /\ cur' = None /\ cur # None /\ slot'[t] = cur
          /\ \A u \in Slots \ {t} : slot'[u] = slot[u]
      BY <1>5 DEF Dispatch, TypeOK
    <2>2. QED
      BY <2>1 DEF ChangedInv, Changed
  <1>6. ASSUME NEW t \in Slots, Worker(t) PROVE ChangedInv'
    <2>1. CASE BeginOnMissing(t)
      BY <1>1, <2>1 DEF BeginOnMissing, Exit
    <2>2. CASE Begin(t) \/ UpdateMeta(t) \/ Put(t) \/ Store(t)
      <3>0. PICK job : job = slot[t]
        OBVIOUS
      <3>1. /\ job \in Job /\ job # None /\ UNCHANGED cur
            /\ \A u \in Slots \ {t} : slot'[u] = slot[u]
            /\ slot'[t] # None =>
                  /\ slot'[t].path = job.path /\ slot'[t].mtime = job.mtime
                  /\ slot'[t].step # "start"
                  /\ slot'[t].step = "put" => job.step \in {"start", "put"}
        BY <2>2, <3>0, WorkerMoves DEF WorkerOnly
      <3>2. job.path \in Files
        BY <3>1, JobParts
      <3>3. UNCHANGED db \/ slot'[t] = None
        BY <2>2, <3>0 DEF Begin, UpdateMeta, Put, Store, Free, TypeOK
      <3>4. \A k \in Keys \ {RemotePath(job.path)} : db'[k] = db[k]
        BY <2>2, <3>0 DEF Begin, UpdateMeta, Put, Store, TypeOK
      <3>5. ASSUME NEW j \in Job, j.path # job.path, Changed(j) PROVE Changed(j)'
        <4>1. j.path \in Files /\ RemotePath(j.path) \in Keys \ {RemotePath(job.path)}
          BY <3>2, <3>5, JobParts, KeysApart, Parts
        <4>2. QED
          BY <3>4, <3>5, <4>1 DEF Changed
      <3>6. cur # None => cur \in Job /\ cur.path # job.path
        BY <3>0, <3>1 DEF ApartInv, TypeOK
      <3>7. \A u \in Slots \ {t} : slot[u] # None => slot[u] \in Job /\ slot[u].path # job.path
        BY <3>0, <3>1 DEF ApartInv, TypeOK
      <3>8. cur' # None => Changed(cur)'
        BY <3>1, <3>5, <3>6 DEF ChangedInv, Changed
      <3>9. ASSUME NEW u \in Slots \ {t}, slot[u] # None, slot[u].step \in {"start", "put"}
            PROVE  Changed(slot[u])'
        BY <3>1, <3>5, <3>7, <3>9 DEF ChangedInv, Changed
      <3>10. slot'[t] # None /\ slot'[t].step \in {"start", "put"} => Changed(slot[t])'
        <4>1. job.step \in {"start", "put"} => Changed(job)
          BY <3>0, <3>1 DEF ChangedInv
        <4>2. QED
          BY <3>1, <3>3, <4>1 DEF Changed
      <3>11. QED
        BY <3>1, <3>8, <3>9, <3>10 DEF ChangedInv
    <2>3. QED
      BY <1>6, <2>1, <2>2 DEF Worker
  <1>7. ASSUME NEW o \in Invocations, Start(o) PROVE ChangedInv'
    BY <1>3, <1>7 DEF Start
  <1>8. ASSUME NEW f \in Files, Edit(f) PROVE ChangedInv'
    BY <1>2, <1>8 DEF Edit, Fresh, Touch, Remove, Racy, Revert, Restore, Edited, process
  <1>9. CASE Exit
    BY <1>1, <1>9 DEF Exit
  <1>10. CASE Rebuild \/ Scan \/ DeleteFiles \/ UploadDatabase
    BY <1>3, <1>9, <1>10
    DEF Rebuild, List, Resolve, Truncate, StoreChunk, Rebuilt, Scan, DeleteFiles, Compare, DeleteBatch,
        Forget, Deleted, UploadDatabase
  <1>11. CASE LoopEnds \/ Drain
    BY <1>2, <1>9, <1>11 DEF LoopEnds, Drain
  <1>12. ASSUME NEW r \in givenUp, Arrive(r) PROVE ChangedInv'
    BY <1>2, <1>12 DEF Arrive, process
  <1>13. QED
    BY <1>2, <1>4, <1>5, <1>6, <1>7, <1>8, <1>9, <1>10, <1>11, <1>12
    DEF Next, Main, UploadFiles, Crash, vars, process

\* Whoever the user is and whatever fails, as long as 32 bits hold the time: at no
\* time does a worker upload a file whose row has the mtime that lstat returned,
\* not even if another run, a rebuild or another worker wrote rows meanwhile.
THEOREM OnlyChangedUploaded == TimesFit => (Spec => []UploadsOnlyChanged)
  <1> SUFFICES ASSUME TimesFit PROVE Spec => []UploadsOnlyChanged
    OBVIOUS
  <1> DEFINE Inv == TypeOK /\ PhaseInv /\ ApartInv /\ TimeInv /\ ChangedInv
  <1>1. Init => Inv
    <2> SUFFICES ASSUME Init PROVE Inv
      OBVIOUS
    <2>1. TypeOK /\ PhaseInv /\ ApartInv /\ ChangedInv
      BY TypedInit, ApartInit DEF Init, NoProcess, ChangedInv, AllFree
    <2>2. TimeInv
      BY SyncInit DEF Init, TimeInv, TimesFit, SyncInv, ClockInv
    <2>3. QED
      BY <2>1, <2>2
  <1>2. Inv /\ [Next]_vars => Inv'
    BY TypedStep, ApartStep, TimeStep, ChangedStep
  <1>3. Inv => UploadsOnlyChanged
    BY DEF ChangedInv, Changed, UploadsOnlyChanged
  <1>4. QED
    BY <1>1, <1>2, <1>3, PTL DEF Spec

(***************************************************************************)
(* Between calm runs the database is what a rebuild would make it.         *)
(***************************************************************************)
\* Nothing goes wrong.
LEMMA NoFault == ASSUME Calm, NEW x PROVE ~Fault(x)
  BY DEF Calm, Fault

\* A process ends only with all rows written.
LEMMA ExitNoOp ==
    ASSUME TypeOK, NoOpInv, Exit, UNCHANGED <<givenUp, db>>, slot = AllFree, pc # "forget",
           pc = "restore" => listing = NoRows,
           \A k \in Keys \ {DbKey} : remote'[k] = remote[k]
    PROVE  NoOpInv'
  <1>1. \A k \in Keys \ {DbKey} : db[k] = RowOf(k)
    BY DEF NoOpInv, RowIsDue, AllFree, NoRows
  <1>2. \A k \in Keys \ {DbKey} : db'[k] = RowOf(k)'
    BY <1>1 DEF RowOf
  <1>3. QED
    BY <1>2 DEF NoOpInv, Exit, AllFree, NoRows

\* A step outside the rebuild that keeps files, bucket, rows and jobs.
LEMMA SameNoOp ==
    ASSUME NoOpInv, UNCHANGED <<local, remote, givenUp, db, cur, slot>>,
           pc # "restore", pc' \notin {"resolve", "truncate", "restore"}, listing' = NoRows,
           pc' = "forget" => pc = "forget",
           pc = "forget" => pc' = "forget" /\ UNCHANGED batch
    PROVE  NoOpInv'
  <1>1. \A k \in Keys : RowOf(k)' = RowOf(k)
    BY DEF RowOf
  <1>2. \A k \in Keys : RowIsDue(k) => RowIsDue(k)'
    BY DEF RowIsDue
  <1>3. \A j : (Looked(j) => Looked(j)') /\ (Sends(j) => Sends(j)')
    BY DEF Looked, Sends
  <1>4. QED
    BY <1>1, <1>2, <1>3 DEF NoOpInv, Looked, Sends, NoRows

\* The user takes nothing away.
LEMMA EditNoOp ==
    ASSUME Calm, TypeOK, NoOpInv, NEW f \in Files, Edit(f)
    PROVE  NoOpInv'
  <1>1. UNCHANGED <<remote, givenUp, db, pc, listing, batch, cur, slot>>
    BY DEF Edit, Fresh, Touch, Remove, Racy, Revert, Restore, Edited, process, stores, bucket
  <1>2. \A g \in Files : local[g].exists => local'[g].exists
    <2>1. \A g \in Files \ {f} : local'[g] = local[g]
      BY DEF Edit, Fresh, Touch, Remove, Racy, Revert, Restore, Edited, TypeOK
    <2>2. local[f].exists => local'[f].exists
      BY DEF Calm, Edit, Fresh, Touch, Remove, Racy, Revert, Restore, Edited, TypeOK, LocalFile
    <2>3. QED
      BY <2>1, <2>2
  <1>3. \A k \in Keys : RowOf(k)' = RowOf(k) /\ (RowIsDue(k) => RowIsDue(k)')
    BY <1>1 DEF RowOf, RowIsDue
  <1>4. \A j \in Job : (Looked(j) => Looked(j)') /\ (Sends(j) => Sends(j)')
    BY <1>1, <1>2, JobParts DEF Looked, Sends
  <1>5. /\ cur # None => cur \in Job
        /\ \A t \in Slots : slot[t] # None => slot[t] \in Job
    BY DEF TypeOK
  <1>6. QED
    BY <1>1, <1>3, <1>4, <1>5 DEF NoOpInv, Looked, Sends, Listed

\* A rebuild writes the rows of what it listed, and there is a row to come for
\* every object between the emptying of the table and its end.
LEMMA RebuildNoOp ==
    ASSUME Calm, TypeOK, PhaseInv, ApartInv, NoOpInv, Rebuild
    PROVE  NoOpInv'
  <1> USE DEF folder, stores, bucket
  <1>0. slot = AllFree /\ cur = None /\ \A x : ~Fault(x)
    BY NoFault
    DEF Rebuild, List, Resolve, Truncate, StoreChunk, Rebuilt, PhaseInv, ApartInv
  <1> DEFINE Settled == \A k \in Keys \ {DbKey} : db[k] = RowOf(k)
  <1>1. CASE List
    <2>1. /\ listing' = [k \in Keys |-> IF remote[k] = None THEN None
                                        ELSE [md5 |-> remote[k].content, mtime |-> 0]]
          /\ pc = "list" /\ pc' = "resolve" /\ UNCHANGED <<remote, givenUp, db, cur, slot>>
      BY <1>0, <1>1 DEF List
    <2>2. Settled
      BY <1>0, <2>1 DEF NoOpInv, RowIsDue, AllFree
    <2>3. \A k \in Keys \ {DbKey} : db'[k] = RowOf(k)'
      BY <2>1, <2>2 DEF RowOf
    <2>4. ASSUME NEW k \in Keys
          PROVE  /\ listing'[k] = None <=> remote'[k] = None
                 /\ listing'[k] # None => listing'[k].md5 = remote'[k].content
      <3>1. PICK row : row = [md5 |-> remote[k].content, mtime |-> 0]
        OBVIOUS
      <3>2. listing'[k] = IF remote[k] = None THEN None ELSE row
        BY <2>1, <3>1
      <3>3. remote[k] # None => row \in Row /\ row.md5 = remote[k].content
        BY <3>1, Parts DEF Row
      <3>4. QED
        BY <2>1, <3>2, <3>3
    <2>5. QED
      BY <1>0, <2>1, <2>3, <2>4 DEF NoOpInv, Listed, AllFree
  <1>2. CASE Resolve
    <2>1. /\ pc = "resolve" /\ UNCHANGED <<local, remote, givenUp, db>>
          /\ Listed = {k \in Keys : remote[k] # None}
      BY <1>2 DEF Resolve, NoOpInv
    <2>2. CASE Exit
      BY <1>0, <2>1, <2>2, ExitNoOp
    <2>3. CASE listing' = NoRows /\ pc' = "scan" /\ UNCHANGED <<cur, slot>>
      BY <2>1, <2>3, SameNoOp
    <2>4. CASE /\ listing' = [k \in Keys |-> IF k \in Listed
                     THEN [md5 |-> listing[k].md5, mtime |-> Uint32(remote[k].mtime)]
                     ELSE None]
               /\ pc' = "truncate" /\ UNCHANGED <<cur, slot>>
      <3>1. Settled
        BY <1>0, <2>1 DEF NoOpInv, RowIsDue, AllFree
      <3>2. \A k \in Keys \ {DbKey} : db'[k] = RowOf(k)'
        BY <2>1, <3>1 DEF RowOf
      <3>3. \A k \in Keys : listing'[k] = RowOf(k)
        BY <2>1, <2>4 DEF NoOpInv, Listed, RowOf
      <3>4. \A k \in Keys : listing'[k] = RowOf(k)'
        BY <2>1, <3>3 DEF RowOf
      <3>5. ASSUME NEW k \in Keys, listing'[k] # None
            PROVE  remote'[k] # None /\ listing'[k].md5 = remote'[k].content
        <4>1. remote[k] # None
          BY <3>3, <3>5 DEF RowOf
        <4>2. PICK row : row = [md5 |-> remote[k].content, mtime |-> Uint32(remote[k].mtime)]
          OBVIOUS
        <4>3. listing'[k] = row
          BY <3>3, <4>1, <4>2 DEF RowOf
        <4>4. QED
          BY <2>1, <4>1, <4>2, <4>3
      <3>6. QED
        BY <1>0, <2>1, <2>4, <3>2, <3>4, <3>5 DEF NoOpInv, AllFree
    <2>5. QED
      BY <1>0, <1>2, <2>1, <2>2, <2>3, <2>4 DEF Resolve
  <1>3. CASE Truncate
    <2>1. /\ db' = NoRows /\ pc' = "restore" /\ pc = "truncate"
          /\ UNCHANGED <<remote, givenUp, listing, cur, slot>>
      BY <1>0, <1>3 DEF Truncate
    <2>2. \A k \in Keys : listing'[k] = RowOf(k)'
      BY <2>1 DEF NoOpInv, RowOf
    <2>3. \A k \in Keys \ {DbKey} : db'[k] = RowOf(k)' \/ RowIsDue(k)'
      BY <2>1, <2>2 DEF RowIsDue, NoRows
    <2>4. QED
      BY <1>0, <2>1, <2>2, <2>3 DEF NoOpInv, AllFree, Listed
  <1>4. ASSUME NEW c \in SUBSET Keys, StoreChunk(c) PROVE NoOpInv'
    <2>1. /\ db' = [k \in Keys |-> IF k \in c THEN listing[k] ELSE db[k]]
          /\ listing' = [k \in Keys |-> IF k \in c THEN None ELSE listing[k]]
          /\ c \subseteq Listed
          /\ pc = "restore" /\ UNCHANGED <<remote, givenUp, pc, cur, slot>>
      BY <1>0, <1>4 DEF StoreChunk, Chunks
    <2>2. \A k \in Listed : listing[k] = RowOf(k)'
      BY <2>1 DEF NoOpInv, RowOf
    <2>3. \A k \in c : db'[k] = RowOf(k)'
      BY <2>1, <2>2
    <2>4. \A k \in Keys \ {DbKey} : k \notin c => db'[k] = RowOf(k)' \/ RowIsDue(k)'
      BY <1>0, <2>1 DEF NoOpInv, RowOf, RowIsDue, AllFree
    <2>5. \A k \in Keys : listing'[k] # None => k \in Listed /\ listing'[k] = listing[k]
      BY <2>1 DEF Listed
    <2>6. \A k \in Keys : listing'[k] # None => listing'[k] = RowOf(k)'
      BY <2>2, <2>5
    <2>7. \A k \in Keys : listing'[k] # None =>
             remote'[k] # None /\ listing'[k].md5 = remote'[k].content
      BY <2>1, <2>5 DEF NoOpInv
    <2>8. QED
      BY <1>0, <2>1, <2>3, <2>4, <2>6, <2>7 DEF NoOpInv, AllFree, Listed
  <1>5. CASE Rebuilt
    <2>1. CASE Exit
      BY <1>0, <1>5, <2>1, ExitNoOp DEF Rebuilt
    <2>2. CASE pc' = "scan" /\ UNCHANGED <<listing, cur, slot>>
      <3>1. /\ pc = "restore" /\ listing = NoRows /\ UNCHANGED <<remote, givenUp, db>>
        BY <1>5 DEF Rebuilt
      <3>2. Settled
        BY <1>0, <3>1 DEF NoOpInv, RowIsDue, AllFree, NoRows
      <3>3. \A k \in Keys \ {DbKey} : db'[k] = RowOf(k)'
        BY <3>1, <3>2 DEF RowOf
      <3>4. QED
        BY <1>0, <2>2, <3>1, <3>3 DEF NoOpInv, AllFree, NoRows
    <2>3. QED
      BY <1>5, <2>1, <2>2 DEF Rebuilt
  <1>6. QED
    BY <1>1, <1>2, <1>3, <1>4, <1>5 DEF Rebuild

\* The loop hands a job what the row says.
LEMMA LoopNoOp ==
    ASSUME Calm, TypeOK, PhaseInv, ApartInv, NoOpInv, UploadFiles
    PROVE  NoOpInv'
  <1> USE DEF folder, stores, bucket
  <1>0. listing = NoRows
    BY DEF UploadFiles, Scan, Examine, Dispatch, LoopEnds, Drain, PhaseInv
  <1>1. CASE Scan \/ LoopEnds
    BY <1>0, <1>1, SameNoOp DEF Scan, LoopEnds
  <1>2. ASSUME NEW f \in Files, Examine(f) PROVE NoOpInv'
    <2> DEFINE row == Lookup(RemotePath(f))
               job == [step |-> "start", path |-> f, mtime |-> local[f].mtime,
                       size |-> local[f].content, md5 |-> row.md5,
                       check |-> row.mtime > 0, cUploads |-> 0]
    <2>1. /\ UNCHANGED <<local, remote, givenUp, db, listing, batch, slot>>
          /\ pc = "loop" /\ pc' \in {"loop", "dispatch"} /\ cur = None
          /\ cur' = None \/ (cur' = job /\ local[f].exists)
      BY <1>2 DEF Examine, ApartInv
    <2>2. /\ job.path = f /\ job.step = "start" /\ job.md5 = row.md5
          /\ job.check => row.mtime > 0
      OBVIOUS
    <2>3. row.mtime > 0 => db[RemotePath(f)] # None /\ db[RemotePath(f)].md5 = row.md5
      BY DEF Lookup
    <2>4. cur' # None => cur'.step = "start" /\ Looked(cur')
      <3> HIDE DEF row, job
      <3>1. QED
        BY <2>1, <2>2, <2>3 DEF Looked
    <2>5. \A k \in Keys : RowOf(k)' = RowOf(k) /\ (RowIsDue(k) => RowIsDue(k)')
      BY <2>1 DEF RowOf, RowIsDue
    <2>6. \A j : (Looked(j) => Looked(j)') /\ (Sends(j) => Sends(j)')
      BY <2>1 DEF Looked, Sends
    <2>7. QED
      BY <1>0, <2>1, <2>4, <2>5, <2>6 DEF NoOpInv, Looked, Sends, NoRows
  <1>3. ASSUME NEW t \in Slots, Dispatch(t) PROVE NoOpInv'
    <2>1. /\ UNCHANGED <<local, remote, givenUp, db, listing, batch>>
          /\ pc = "dispatch" /\ pc' = "loop"
          /\ cur' = None /\ cur # None /\ slot[t] = None /\ slot'[t] = cur
          /\ \A u \in Slots \ {t} : slot'[u] = slot[u]
      BY <1>3 DEF Dispatch, TypeOK
    <2>2. \A k \in Keys : RowOf(k)' = RowOf(k) /\ (RowIsDue(k) => RowIsDue(k)')
      BY <2>1 DEF RowOf, RowIsDue
    <2>3. \A j : (Looked(j) => Looked(j)') /\ (Sends(j) => Sends(j)')
      BY <2>1 DEF Looked, Sends
    <2>4. Looked(cur) /\ Sends(cur)
      BY <2>1 DEF NoOpInv, Sends
    <2>5. QED
      BY <1>0, <2>1, <2>2, <2>3, <2>4 DEF NoOpInv, Looked, Sends, NoRows
  <1>4. CASE Drain
    <2>1. CASE Exit
      BY <1>4, <2>1, ExitNoOp DEF Drain
    <2>2. QED
      BY <1>0, <1>4, <2>1, SameNoOp DEF Drain
  <1>5. QED
    BY <1>1, <1>2, <1>3, <1>4 DEF UploadFiles

\* A worker writes the row of what the bucket took, and of no other key.
LEMMA WorkerNoOp ==
    ASSUME Calm, TypeOK, PhaseInv, ApartInv, NoOpInv, NEW t \in Slots, Worker(t)
    PROVE  NoOpInv'
  <1> USE DEF folder
  <1>0. PICK job : job = slot[t]
    OBVIOUS
  <1> DEFINE key == RemotePath(job.path)
  <1>1. job \in Job /\ job # None /\ job = slot[t] /\ Looked(job) /\ Sends(job)
    BY <1>0 DEF TypeOK, NoOpInv, Worker, Begin, BeginOnMissing, UpdateMeta, Put, Store
  <1>2. /\ job.path \in Files /\ key \in Keys /\ key # DbKey
        /\ job.mtime \in Nat /\ job.md5 \in Nat
    BY <1>1, JobParts, Parts, DatabaseApart
  <1>3. ~BeginOnMissing(t) /\ \A x : ~Fault(x)
    BY <1>1, NoFault DEF BeginOnMissing, Looked
  <1>4. pc \in {"loop", "dispatch", "drain"} /\ listing = NoRows
    BY <1>1 DEF PhaseInv, AllFree
  <1>5. /\ WorkerOnly /\ UNCHANGED givenUp
        /\ \A u \in Slots \ {t} : slot'[u] = slot[u]
        /\ slot'[t] # None => slot'[t].path = job.path /\ slot'[t].mtime = job.mtime
                              /\ slot'[t].step # "start"
    <2>1. UNCHANGED givenUp
      BY <1>3
      DEF Worker, Begin, UpdateMeta, Put, Store, NoAnswer, Answered, stores, bucket
    <2>2. QED
      BY <1>0, <1>3, <2>1, WorkerMoves DEF Worker
  \* What remains to be shown of the key of this worker.
  <1>6. ASSUME \A k \in Keys \ {key} : remote'[k] = remote[k] /\ db'[k] = db[k],
               db'[key] = RowOf(key)' \/ (slot'[t] # None /\ slot'[t].step = "store"),
               slot'[t] # None => Looked(slot[t])' /\ Sends(slot[t])'
        PROVE  NoOpInv'
    <2>1. UNCHANGED <<local, pc, listing, batch, cur>>
      BY <1>5 DEF WorkerOnly
    <2>2. ASSUME NEW k \in Keys \ {DbKey} PROVE db'[k] = RowOf(k)' \/ RowIsDue(k)'
      <3>1. CASE k = key
        BY <1>5, <1>6, <3>1 DEF RowIsDue
      <3>2. CASE k # key
        <4>1. db[k] = RowOf(k) \/ RowIsDue(k)
          BY <2>2 DEF NoOpInv
        <4>2. db'[k] = db[k] /\ RowOf(k)' = RowOf(k)
          BY <1>6, <2>2, <3>2 DEF RowOf
        <4>3. RowIsDue(k) => RowIsDue(k)'
          BY <1>0, <1>4, <1>5, <2>1, <3>2 DEF RowIsDue
        <4>4. QED
          BY <4>1, <4>2, <4>3
      <3>3. QED
        BY <3>1, <3>2
    <2>3. ASSUME NEW j \in Job, j.path # job.path, Looked(j), Sends(j)
          PROVE  Looked(j)' /\ Sends(j)'
      <3>1. j.path \in Files /\ RemotePath(j.path) \in Keys \ {key}
        BY <1>2, <2>3, JobParts, KeysApart, Parts
      <3>2. QED
        BY <1>6, <2>1, <2>3, <3>1 DEF Looked, Sends
    <2>4. cur # None => cur \in Job /\ cur.path # job.path /\ cur.step = "start"
                        /\ Looked(cur) /\ Sends(cur)
      BY <1>1 DEF ApartInv, TypeOK, NoOpInv, Sends
    <2>5. \A u \in Slots \ {t} : slot[u] # None =>
             slot[u] \in Job /\ slot[u].path # job.path /\ Looked(slot[u]) /\ Sends(slot[u])
      BY <1>1 DEF ApartInv, TypeOK, NoOpInv
    <2>6. cur' # None => cur'.step = "start" /\ Looked(cur)'
      BY <2>1, <2>3, <2>4 DEF Looked
    <2>7. ASSUME NEW u \in Slots \ {t}, slot'[u] # None PROVE Looked(slot[u])' /\ Sends(slot[u])'
      BY <1>5, <2>3, <2>5, <2>7 DEF Looked, Sends
    <2>8. pc' \notin {"resolve", "truncate", "restore", "forget"} /\ listing' = NoRows
      BY <1>4, <2>1
    <2>9. givenUp' = {}
      BY <1>5 DEF NoOpInv
    <2>10. QED
      BY <1>6, <2>2, <2>6, <2>7, <2>8, <2>9 DEF NoOpInv, NoRows
  \* A worker that is not about to store has the row that a rebuild would write.
  <1>7. job.step # "store" => db[key] = RowOf(key)
    <2>1. SUFFICES ASSUME job.step # "store" PROVE ~RowIsDue(key)
      BY <1>2 DEF NoOpInv
    <2>2. ASSUME NEW u \in Slots, slot[u] # None, slot[u].step = "store" PROVE RemotePath(slot[u].path) # key
      <3>1. u # t /\ slot[u].path # job.path /\ slot[u].path \in Files
        BY <1>1, <2>1, <2>2, JobParts DEF ApartInv, TypeOK
      <3>2. QED
        BY <1>2, <3>1, KeysApart
    <2>3. QED
      BY <1>4, <2>2 DEF RowIsDue
  <1>8. CASE Begin(t)
    <2>1. UNCHANGED <<local, remote, db>> /\ job.step = "start"
      BY <1>1, <1>8 DEF Begin, WorkerOnly, stores, bucket
    <2>2. PICK m : m = [job EXCEPT !.step = "meta"]
      OBVIOUS
    <2>3. PICK p : p = [job EXCEPT !.step = "put"]
      OBVIOUS
    <2>4. /\ m.step = "meta" /\ m.path = job.path /\ m.md5 = job.md5
          /\ p.step = "put" /\ p.path = job.path
      BY <1>1, <2>2, <2>3 DEF Job
    <2>5. slot'[t] = None \/ slot'[t] = p \/ (slot'[t] = m /\ Checks(job))
      BY <1>1, <1>8, <2>2, <2>3 DEF Begin, Free, Goto, TypeOK
    <2>6. slot'[t] # None => Looked(slot[t])' /\ Sends(slot[t])'
      BY <1>1, <2>1, <2>4, <2>5 DEF Looked, Sends, Checks
    <2>7. db'[key] = RowOf(key)'
      BY <1>7, <2>1 DEF RowOf
    <2>8. QED
      BY <1>6, <2>1, <2>6, <2>7
  <1>9. CASE UpdateMeta(t)
    <2>1. UNCHANGED <<local, db>> /\ job.step = "meta" /\ CopyMeta(key, job.mtime)
          /\ slot' = [slot EXCEPT ![t] = [job EXCEPT !.step = "store"]]
      BY <1>1, <1>3, <1>9 DEF UpdateMeta, NoAnswer, WorkerOnly, Goto
    <2>2. db[key] # None /\ db[key].md5 = job.md5 /\ db[key] = RowOf(key)
      BY <1>1, <1>7, <2>1 DEF Looked
    <2>3. remote[key] # None /\ remote[key] \in Object /\ remote[key].content = job.md5
      <3>1. remote[key] # None
        BY <2>2 DEF RowOf
      <3>2. db[key] = [md5 |-> remote[key].content, mtime |-> Uint32(remote[key].mtime)]
        BY <2>2, <3>1 DEF RowOf
      <3>3. QED
        BY <1>2, <2>2, <3>1, <3>2, Parts
    <2>4. PICK o : o = [remote[key] EXCEPT !.mtime = job.mtime]
      OBVIOUS
    <2>5. o \in Object /\ o # None /\ o.content = job.md5 /\ o.mtime = job.mtime
      BY <1>2, <2>3, <2>4 DEF Object
    <2>6. remote'[key] = o /\ \A k \in Keys \ {key} : remote'[k] = remote[k]
      BY <1>2, <2>1, <2>3, <2>4 DEF CopyMeta, TypeOK
    <2>7. PICK s : s = [job EXCEPT !.step = "store"]
      OBVIOUS
    <2>8. s.step = "store" /\ s.path = job.path /\ s.md5 = job.md5 /\ s.mtime = job.mtime
          /\ s \in Job
      BY <1>1, <2>7 DEF Job
    <2>9. slot'[t] = s
      BY <2>1, <2>7 DEF TypeOK
    <2>10. Looked(slot[t])' /\ Sends(slot[t])'
      BY <1>1, <2>1, <2>5, <2>6, <2>8, <2>9 DEF Looked, Sends
    <2>11. QED
      BY <1>6, <2>1, <2>6, <2>8, <2>9, <2>10
  <1>10. CASE Put(t)
    <2>1. UNCHANGED <<local, db>> /\ job.step = "put"
      BY <1>1, <1>10 DEF Put, WorkerOnly
    <2>2. \A c \in Sent(job) : c \in Nat
      BY <1>2, Parts DEF Sent
    <2>3. \/ \E c \in Sent(job) :
                /\ PutObject(key, c, job.mtime)
                /\ slot' = [slot EXCEPT ![t] = [job EXCEPT !.step = "store", !.md5 = c]]
          \/ UNCHANGED remote /\ slot' = [slot EXCEPT ![t] = [job EXCEPT !.cUploads = @ + 1]]
          \/ UNCHANGED remote /\ slot' = [slot EXCEPT ![t] = None]
      BY <1>1, <1>3, <1>10 DEF Put, NoAnswer, RetryOrFail, WorkerFails, Free, Goto, bucket
    <2>4. ASSUME NEW c \in Sent(job), PutObject(key, c, job.mtime),
                 slot' = [slot EXCEPT ![t] = [job EXCEPT !.step = "store", !.md5 = c]]
          PROVE  NoOpInv'
      <3>1. /\ remote'[key] # None /\ remote'[key].content = c /\ remote'[key].mtime = job.mtime
            /\ \A k \in Keys \ {key} : remote'[k] = remote[k]
        <4>1. c \in Nat
          BY <2>2
        <4>2. QED
          BY <1>2, <2>4, <4>1, PutObjectTyped
      <3>2. PICK s : s = [job EXCEPT !.step = "store", !.md5 = c]
        OBVIOUS
      <3>3. /\ s.step = "store" /\ s.path = job.path /\ s.md5 = c /\ s.mtime = job.mtime
            /\ s \in Job
        BY <1>1, <2>2, <3>2 DEF Job
      <3>4. slot'[t] = s
        BY <2>4, <3>2 DEF TypeOK
      <3>5. Looked(slot[t])' /\ Sends(slot[t])'
        BY <1>1, <2>1, <3>1, <3>3, <3>4 DEF Looked, Sends
      <3>6. QED
        BY <1>6, <2>1, <3>1, <3>3, <3>4, <3>5
    <2>5. ASSUME UNCHANGED remote, slot' = [slot EXCEPT ![t] = [job EXCEPT !.cUploads = @ + 1]]
          PROVE  NoOpInv'
      <3>1. PICK r : r = [job EXCEPT !.cUploads = @ + 1]
        OBVIOUS
      <3>2. r.step = "put" /\ r.path = job.path
        BY <1>1, <2>1, <3>1 DEF Job
      <3>3. slot'[t] = r
        BY <2>5, <3>1 DEF TypeOK
      <3>4. Looked(slot[t])' /\ Sends(slot[t])'
        BY <1>1, <2>1, <3>2, <3>3 DEF Looked, Sends
      <3>5. db'[key] = RowOf(key)'
        BY <1>7, <2>1, <2>5 DEF RowOf
      <3>6. QED
        BY <1>6, <2>1, <2>5, <3>4, <3>5
    <2>6. ASSUME UNCHANGED remote, slot' = [slot EXCEPT ![t] = None] PROVE NoOpInv'
      <3>1. slot'[t] = None
        BY <2>6 DEF TypeOK
      <3>2. db'[key] = RowOf(key)'
        BY <1>7, <2>1, <2>6 DEF RowOf
      <3>3. QED
        BY <1>6, <2>1, <2>6, <3>1, <3>2
    <2>7. QED
      BY <2>3, <2>4, <2>5, <2>6
  <1>11. CASE Store(t)
    <2>1. /\ UNCHANGED remote /\ job.step = "store"
          /\ db' = [db EXCEPT ![key] = [md5 |-> job.md5, mtime |-> Uint32(job.mtime)]]
          /\ slot' = [slot EXCEPT ![t] = None]
      BY <1>1, <1>3, <1>11 DEF Store, Free, bucket
    <2>2. /\ slot'[t] = None
          /\ db'[key] = [md5 |-> job.md5, mtime |-> Uint32(job.mtime)]
          /\ \A k \in Keys \ {key} : db'[k] = db[k]
      BY <1>2, <2>1 DEF TypeOK
    <2>3. db'[key] = RowOf(key)'
      BY <1>1, <2>1, <2>2 DEF Sends, RowOf
    <2>4. QED
      BY <1>6, <2>1, <2>2, <2>3
  <1>12. QED
    BY <1>3, <1>8, <1>9, <1>10, <1>11 DEF Worker

\* What a batch erases is forgotten in the next step.
LEMMA TailNoOp ==
    ASSUME Calm, TypeOK, PhaseInv, ApartInv, NoOpInv, DeleteFiles \/ UploadDatabase
    PROVE  NoOpInv'
  <1> USE DEF folder, stores, bucket
  <1>0. /\ slot = AllFree /\ cur = None /\ \A x : ~Fault(x)
        /\ pc \in {"compare", "delete", "forget", "uploadDb"} /\ listing = NoRows
    BY NoFault
    DEF DeleteFiles, Compare, DeleteBatch, Forget, Deleted, UploadDatabase, PhaseInv, ApartInv
  <1>1. CASE Compare
    BY <1>0, <1>1, SameNoOp DEF Compare
  <1>2. ASSUME NEW b \in SUBSET Keys, DeleteBatch(b) PROVE NoOpInv'
    <2>1. CASE UNCHANGED <<remote, givenUp, pc>>
      BY <1>0, <1>2, <2>1, SameNoOp DEF DeleteBatch
    <2>2. CASE Erase(b) /\ UNCHANGED givenUp /\ batch' = b /\ pc' = "forget"
      <3>1. UNCHANGED <<db, listing, cur, slot>> /\ pc = "delete"
        BY <1>2 DEF DeleteBatch
      <3>2. \A k \in Keys \ {DbKey} : db[k] = RowOf(k)
        BY <1>0, <3>1 DEF NoOpInv, RowIsDue, AllFree
      <3>3. \A k \in Keys \ {DbKey} : db'[k] = RowOf(k)' \/ RowIsDue(k)'
        BY <2>2, <3>1, <3>2 DEF Erase, RowOf, RowIsDue
      <3>4. \A k \in b : remote'[k] = None
        BY <2>2 DEF Erase
      <3>5. QED
        BY <1>0, <2>2, <3>1, <3>3, <3>4 DEF NoOpInv, AllFree, NoRows
    <2>3. QED
      BY <1>0, <1>2, <2>1, <2>2 DEF DeleteBatch, Answered, NoAnswer
  <1>3. CASE Forget
    <2>1. /\ UNCHANGED <<remote, givenUp, listing, cur, slot>> /\ pc' = "delete" /\ pc = "forget"
          /\ db' = [k \in Keys |-> IF k \in batch THEN None ELSE db[k]]
      BY <1>0, <1>3 DEF Forget
    <2>2. ASSUME NEW k \in Keys \ {DbKey} PROVE db'[k] = RowOf(k)'
      <3>1. db[k] = RowOf(k) \/ k \in batch
        BY <1>0, <2>1, <2>2 DEF NoOpInv, RowIsDue, AllFree
      <3>2. k \in batch => remote[k] = None
        BY <2>1 DEF NoOpInv
      <3>3. QED
        BY <2>1, <2>2, <3>1, <3>2 DEF RowOf
    <2>3. QED
      BY <1>0, <2>1, <2>2 DEF NoOpInv, AllFree, NoRows
  <1>4. CASE Deleted
    <2>1. CASE Exit
      BY <1>0, <1>4, <2>1, ExitNoOp DEF Deleted
    <2>2. QED
      BY <1>0, <1>4, <2>1, SameNoOp DEF Deleted
  <1>5. CASE UploadDatabase
    <2>1. UNCHANGED givenUp /\ \A k \in Keys \ {DbKey} : remote'[k] = remote[k]
      BY <1>0, <1>5 DEF UploadDatabase, PutObject, Answered, NoAnswer, TypeOK
    <2>2. QED
      BY <1>0, <1>5, <2>1, ExitNoOp DEF UploadDatabase
  <1>6. QED
    BY <1>1, <1>2, <1>3, <1>4, <1>5 DEF DeleteFiles

\* Every step of a calm world keeps the rows what a rebuild would write, or due.
LEMMA NoOpStep ==
    ASSUME Calm, TypeOK, PhaseInv, ApartInv, NoOpInv, [Next]_vars
    PROVE  NoOpInv'
  <1> USE DEF folder, stores, bucket
  <1>1. ASSUME NEW o \in Invocations, Start(o) PROVE NoOpInv'
    BY <1>1, SameNoOp DEF Start, AfterRebuild, PhaseInv
  <1>2. ~Crash
    BY NoFault DEF Crash
  <1>3. CASE UNCHANGED vars
    <2>1. UNCHANGED <<local, remote, givenUp, db, pc, listing, batch, cur, slot>>
      BY <1>3 DEF vars, process
    <2>2. \A k \in Keys : RowOf(k)' = RowOf(k) /\ (RowIsDue(k) => RowIsDue(k)')
      BY <2>1 DEF RowOf, RowIsDue
    <2>3. \A j : (Looked(j) => Looked(j)') /\ (Sends(j) => Sends(j)')
      BY <2>1 DEF Looked, Sends
    <2>4. QED
      BY <2>1, <2>2, <2>3 DEF NoOpInv, Looked, Sends, Listed
  <1>4. \A r \in givenUp : ~Arrive(r)
    BY DEF NoOpInv
  <1>5. QED
    BY <1>1, <1>2, <1>3, <1>4, EditNoOp, RebuildNoOp, LoopNoOp, WorkerNoOp, TailNoOp DEF Next, Main

\* Without faults and removals, for any edits, files, threads and command lines:
\* between runs every row is the one a rebuild would write for its object, and no
\* object is without a row; so the 32-bit mtimes, the metadata updates, the
\* deletion and earlier rebuilds leave no trace in the database.
THEOREM RebuildsAreNoOps == Calm => (Spec => []RebuildIsNoOp)
  <1> SUFFICES ASSUME Calm PROVE Spec => []RebuildIsNoOp
    OBVIOUS
  <1> DEFINE Inv == TypeOK /\ PhaseInv /\ ApartInv /\ NoOpInv
  <1>1. Init => Inv
    <2> SUFFICES ASSUME Init PROVE Inv
      OBVIOUS
    <2>1. \A k \in Keys : db[k] = RowOf(k)
      BY DEF Init, RowOf, NoRows
    <2>2. QED
      BY <2>1, TypedInit, ApartInit DEF Init, NoProcess, NoOpInv, AllFree, NoRows
  <1>2. Inv /\ [Next]_vars => Inv'
    BY TypedStep, ApartStep, NoOpStep
  <1>3. Inv => RebuildIsNoOp
    <2> SUFFICES ASSUME Inv, pc = "idle", NEW k \in Keys \ {DbKey} PROVE db[k] = RowOf(k)
      BY DEF RebuildIsNoOp, RowOf
    <2>1. slot = AllFree
      BY DEF PhaseInv
    <2>2. QED
      BY <2>1 DEF NoOpInv, RowIsDue, AllFree
  <1>4. QED
    BY <1>1, <1>2, <1>3, PTL DEF Spec

(***************************************************************************)
(* The rebuild.                                                            *)
(***************************************************************************)
Rebuilding == pc \in {"list", "resolve", "truncate", "restore"}

\* Only a process that was asked to rebuilds.
AskedInv == Rebuilding => opts.rebuild

\* What TableRebuild sees of the state.
TaskListing == IF pc = "resolve" THEN NoRows ELSE listing
DryTask == IF TaskPc = "idle" THEN FALSE ELSE opts.dryRun

LEMMA AskedStep == AskedInv /\ [Next]_vars => AskedInv'
  <1> SUFFICES ASSUME AskedInv, [Next]_vars PROVE AskedInv'
    OBVIOUS
  <1> USE DEF AskedInv, Rebuilding
  <1>1. ASSUME NEW o \in Invocations, Start(o) PROVE AskedInv'
    BY <1>1 DEF Start, AfterRebuild
  <1>2. CASE Rebuild
    BY <1>2 DEF Rebuild, List, Resolve, Truncate, StoreChunk, Rebuilt, Exit
  <1>3. CASE UNCHANGED <<pc, opts>>
    BY <1>3
  <1>4. CASE ~Rebuilding'
    BY <1>4
  <1>5. ASSUME NEW f \in Files, Edit(f) PROVE UNCHANGED <<pc, opts>>
    BY <1>5 DEF Edit, Fresh, Touch, Remove, Racy, Revert, Restore, Edited, process
  <1>6. CASE UploadFiles \/ DeleteFiles \/ UploadDatabase \/ Crash
    BY <1>3, <1>4, <1>6 DEF UploadFiles, Scan, Examine, Dispatch, LoopEnds, Drain, DeleteFiles,
       Compare, DeleteBatch, Forget, Deleted, UploadDatabase, Crash, Exit
  <1>7. ASSUME NEW t \in Slots, Worker(t) PROVE AskedInv'
    BY <1>3, <1>4, <1>7 DEF Worker, Begin, BeginOnMissing, UpdateMeta, Put, Store, WorkerOnly, Exit
  <1>8. ASSUME NEW r \in givenUp, Arrive(r) PROVE UNCHANGED <<pc, opts>>
    BY <1>8 DEF Arrive, process
  <1> QED
    BY <1>1, <1>2, <1>3, <1>5, <1>6, <1>7, <1>8 DEF Next, Main, vars, process

\* What a process does that does not rebuild, or does no longer.
LEMMA TaskElsewhere ==
    ASSUME ~Rebuilding, ~Rebuilding', UNCHANGED <<listing, opts>>, pc # "idle", pc' # "idle"
    PROVE  Task!Elsewhere
  BY DEF Task!Elsewhere, TaskPc, Rebuilding

LEMMA TaskExit ==
    ASSUME PhaseInv, ~Rebuilding, Exit
    PROVE  Task!Elsewhere
  BY DEF Task!Elsewhere, TaskPc, PhaseInv, Rebuilding, Exit

\* A process that ends in the middle of a rebuild.
LEMMA TaskEnds == ASSUME Exit, UNCHANGED db PROVE Task!Next
  <1>1. TaskPc' = "idle" /\ DryTask' = FALSE /\ TaskListing' = NoRows
    BY DEF Exit, TaskPc, DryTask, TaskListing
  <1> QED
    BY <1>1 DEF Task!Next, Task!End, Task!NoRows, NoRows, DryTask, TaskListing

\* The requests of a rebuild come to one listing.
LEMMA RebuildTask ==
    ASSUME TypeOK, PhaseInv, AskedInv, Rebuild
    PROVE  Task!Next
  <1> DEFINE place == IF pc = "resolve" THEN "list" ELSE pc
  <1>1. /\ opts.rebuild /\ pc \in {"list", "resolve", "truncate", "restore"}
        /\ TaskPc = place /\ DryTask = opts.dryRun
    BY DEF Rebuild, List, Resolve, Truncate, StoreChunk, Rebuilt, Rebuilding, AskedInv,
       TaskPc, DryTask
  <1>2. ASSUME UNCHANGED opts, pc' \in {"scan", "resolve", "truncate", "restore"}
        PROVE  /\ DryTask' = DryTask
               /\ TaskPc' = IF pc' = "scan" THEN "after"
                            ELSE IF pc' = "resolve" THEN "list" ELSE pc'
    BY <1>1, <1>2 DEF TaskPc, DryTask
  <1>3. CASE Exit /\ UNCHANGED db
    BY <1>3, TaskEnds
  <1> USE DEF NoRows, Task!NoRows
  <1>4. CASE List
    <2>1. CASE UNCHANGED <<db, opts>> /\ pc = "list" /\ pc' = "resolve"
      <3>1. TaskPc' = TaskPc /\ DryTask' = DryTask /\ TaskListing' = TaskListing
        BY <1>1, <1>2, <2>1 DEF TaskListing, PhaseInv
      <3>2. Task!Others
        BY <2>1, <3>1 DEF Task!Others, DryTask, TaskListing
      <3> QED
        BY <3>2 DEF Task!Next
    <2> QED
      BY <1>3, <1>4, <2>1 DEF List, stores
  <1>5. CASE Resolve
    <2>1. pc = "resolve" /\ UNCHANGED db /\ TaskPc = "list"
      BY <1>1, <1>5 DEF Resolve, stores
    <2>2. CASE /\ ~opts.dryRun /\ UNCHANGED opts /\ pc' = "truncate"
               /\ \A k \in Listed : remote[k] # None
               /\ listing' = [k \in Keys |-> IF k \in Listed
                     THEN [md5 |-> listing[k].md5, mtime |-> Uint32(remote[k].mtime)]
                     ELSE None]
      <3>1. listing' = [k \in Keys |-> IF pc = "resolve" THEN Resolved(k) ELSE RowOf(k)]
        BY <2>1, <2>2 DEF Listed, Resolved
      <3>2. TaskPc' = "truncate" /\ DryTask' = DryTask
        BY <1>2, <2>2
      <3>3. Task!List
        BY <1>1, <2>1, <2>2, <3>1, <3>2 DEF Task!List, DryTask
      <3> QED
        BY <3>3 DEF Task!Next
    <2>3. CASE opts.dryRun /\ UNCHANGED opts /\ pc' = "scan" /\ listing' = NoRows
      <3>1. TaskPc' = "after" /\ DryTask' = DryTask
        BY <1>2, <2>3
      <3>2. Task!List
        BY <1>1, <2>1, <2>3, <3>1 DEF Task!List, DryTask
      <3> QED
        BY <3>2 DEF Task!Next
    <2> QED
      BY <1>3, <1>5, <2>1, <2>2, <2>3 DEF Resolve
  <1>6. CASE Truncate
    <2>1. CASE pc = "truncate" /\ db' = NoRows /\ pc' = "restore" /\ UNCHANGED <<opts, listing>>
      <3>1. TaskPc = "truncate" /\ TaskPc' = "restore" /\ DryTask' = DryTask
        BY <1>1, <1>2, <2>1
      <3>2. Task!Truncate
        BY <2>1, <3>1 DEF Task!Truncate, DryTask
      <3> QED
        BY <3>2 DEF Task!Next
    <2> QED
      BY <1>3, <1>6, <2>1 DEF Truncate
  <1>7. ASSUME NEW c \in SUBSET Keys, StoreChunk(c) PROVE Task!Next
    <2>1. pc = "restore" /\ c \in Chunks(Listed, ChunkSize)
      BY <1>7 DEF StoreChunk
    <2>2. CASE /\ db' = [k \in Keys |-> IF k \in c THEN listing[k] ELSE db[k]]
               /\ listing' = [k \in Keys |-> IF k \in c THEN None ELSE listing[k]]
               /\ UNCHANGED <<pc, opts>>
      <3>1. Task!Left = Listed
        BY <2>1 DEF Task!Left, Listed
      <3>2. /\ c \subseteq Listed /\ c # {}
            /\ Cardinality(c) = ChunkSize \/ (c = Listed /\ Cardinality(c) < ChunkSize)
        BY <2>1 DEF Chunks
      <3>3. Task!Cardinality(c) = Cardinality(c)
        BY Zenon DEF Cardinality, Task!Cardinality
      <3>4. Task!IsChunk(c)
        BY <3>1, <3>2, <3>3 DEF Task!IsChunk
      <3>5. TaskPc = "restore" /\ UNCHANGED <<TaskPc, DryTask>>
        BY <1>1, <1>2, <2>1, <2>2
      <3>6. Task!StoreChunk(c)
        BY <2>1, <2>2, <3>4, <3>5 DEF Task!StoreChunk, DryTask
      <3> QED
        BY <3>6 DEF Task!Next
    <2> QED
      BY <1>3, <1>7, <2>2 DEF StoreChunk
  <1>8. CASE Rebuilt
    <2>1. CASE /\ pc = "restore" /\ listing = NoRows /\ UNCHANGED <<db, listing, opts>>
               /\ pc' = "scan"
      <3>1. TaskPc = "restore" /\ TaskPc' = "after" /\ DryTask' = DryTask
        BY <1>1, <1>2, <2>1
      <3>2. Task!Rebuilt
        BY <2>1, <3>1 DEF Task!Rebuilt, DryTask
      <3> QED
        BY <3>2 DEF Task!Next
    <2> QED
      BY <1>3, <1>8, <2>1 DEF Rebuilt, stores
  <1> QED
    BY <1>4, <1>5, <1>6, <1>7, <1>8 DEF Rebuild

LEMMA TaskStart ==
    ASSUME PhaseInv, NEW o \in Invocations, Start(o)
    PROVE  Task!Next
  <1>1. /\ pc = "idle" /\ opts' = o /\ o.dryRun \in BOOLEAN /\ UNCHANGED <<db, listing>>
        /\ listing = NoRows /\ pc' = IF o.rebuild THEN "list" ELSE "scan"
    BY DEF Start, AfterRebuild, stores, PhaseInv, Options
  <1>2. CASE o.rebuild
    <2>1. TaskPc' = "list" /\ DryTask' = o.dryRun /\ TaskListing' = NoRows
      BY <1>1, <1>2 DEF TaskPc, DryTask, TaskListing
    <2>2. Task!Begin
      BY <1>1, <2>1 DEF Task!Begin, Task!NoRows, NoRows, DryTask, TaskListing
    <2> QED
      BY <2>2 DEF Task!Next
  <1>3. CASE ~o.rebuild
    <2>1. TaskPc = "idle" /\ TaskPc' = "idle"
      BY <1>1, <1>3 DEF TaskPc
    <2>2. Task!Elsewhere
      BY <1>1, <1>3, <2>1 DEF Task!Elsewhere
    <2> QED
      BY <2>2 DEF Task!Next
  <1> QED
    BY <1>2, <1>3

\* Every step of Clarc is one of TableRebuild or leaves what that sees alone.
LEMMA TaskStep ==
    ASSUME TypeOK, PhaseInv, AskedInv, [Next]_vars
    PROVE  [Task!Next]_(Task!vars)
  <1>1. CASE UNCHANGED <<db, pc, opts, listing>>
    <2>1. UNCHANGED <<TaskPc, DryTask, TaskListing>>
      BY <1>1 DEF TaskPc, DryTask, TaskListing
    <2>2. Task!Others
      BY <1>1, <2>1 DEF Task!Others, DryTask, TaskListing
    <2> QED
      BY <2>2 DEF Task!Next
  <1>2. CASE \/ UNCHANGED vars
             \/ \E f \in Files : Edit(f)
             \/ \E r \in givenUp : Arrive(r)
    BY <1>1, <1>2
    DEF vars, stores, process, Edit, Fresh, Touch, Remove, Racy, Revert, Restore, Edited, Arrive
  <1>3. CASE Crash
    BY <1>3, TaskEnds DEF Crash, stores
  <1>4. CASE Task!Elsewhere
    BY <1>4 DEF Task!Next
  <1>5. CASE UploadFiles \/ DeleteFiles \/ UploadDatabase
    <2>1. ~Rebuilding /\ pc # "idle"
      BY <1>5 DEF UploadFiles, Scan, Examine, Dispatch, LoopEnds, Drain, DeleteFiles, Compare,
         DeleteBatch, Forget, Deleted, UploadDatabase, Rebuilding
    <2>2. \/ Exit
          \/ /\ UNCHANGED <<listing, opts>>
             /\ pc' \in {pc, "loop", "dispatch", "drain", "compare", "delete", "forget", "uploadDb"}
      BY <1>5 DEF UploadFiles, Scan, Examine, Dispatch, LoopEnds, Drain, DeleteFiles, Compare,
         DeleteBatch, Forget, Deleted, UploadDatabase
    <2> QED
      BY <1>4, <2>1, <2>2, TaskExit, TaskElsewhere DEF Rebuilding
  <1>6. ASSUME NEW t \in Slots, Worker(t) PROVE [Task!Next]_(Task!vars)
    <2>1. pc \in {"loop", "dispatch", "drain"}
      BY <1>6 DEF Worker, Begin, BeginOnMissing, UpdateMeta, Put, Store, PhaseInv, AllFree
    <2>2. Exit \/ UNCHANGED <<pc, listing, opts>>
      BY <1>6 DEF Worker, Begin, BeginOnMissing, UpdateMeta, Put, Store, WorkerOnly
    <2> QED
      BY <1>4, <2>1, <2>2, TaskExit, TaskElsewhere DEF Rebuilding
  <1> QED
    BY <1>2, <1>3, <1>5, <1>6, RebuildTask, TaskStart DEF Next, Main

\* What Clarc does to its table under --rebuild is what TableRebuild does, and by
\* RebuildIsTask what the pages, threads and tries of Rebuild come to.
THEOREM ClarcIsTask == Spec => ImplementsTask
  <1>1. Init => Task!Init /\ AskedInv
    BY DEF Init, NoProcess, Task!Init, Task!NoRows, NoRows, AskedInv, TaskPc, Rebuilding
  <1>2. TypeOK /\ PhaseInv /\ AskedInv /\ [Next]_vars => [Task!Next]_(Task!vars)
    BY TaskStep
  <1>3. Spec => [](TypeOK /\ PhaseInv)
    BY TypedInit, TypedStep, PTL DEF Spec
  <1> QED
    BY <1>1, <1>2, <1>3, AskedStep, PTL DEF Spec, ImplementsTask, Task!Spec
=============================================================================

----------------------------- MODULE ClarcProofs -----------------------------
(***************************************************************************)
(* Theorems about Clarc, for any files, slots, bounds and command lines.   *)
(***************************************************************************)
EXTENDS ClarcInv, TLAPS

USE NoneAssumption, InvocationsAssumption, NumbersAssumption

\* A 32-bit mtime is a number, no larger than the mtime itself.
LEMMA Uint32Bounds == ASSUME NEW t \in Nat PROVE Uint32(t) \in Nat /\ Uint32(t) <= t
  <1>1. MtimeModulus \in Nat \ {0}
    OBVIOUS
  <1>2. QED
    BY <1>1, SMT DEF Uint32

\* A process that ends leaves a well-typed state of no process.
LEMMA ExitTyped ==
    ASSUME TypeOK, Exit, UNCHANGED <<folder, stores>>, faults' \in Nat
    PROVE  TypeOK' /\ PhaseInv'
  BY DEF TypeOK, PhaseInv, Exit, TailAfterCleanDrain, AllFree, NoRows, folder, stores, bucket,
         Steps

\* Fault(x) counts.
LEMMA FaultTyped == ASSUME TypeOK, NEW x, Fault(x) PROVE faults' \in Nat
  BY DEF TypeOK, Fault

\* What TypeOK says of the bucket.
BucketOK ==
    /\ remote \in [Keys -> Object \cup {None}]
    /\ givenUp \subseteq Request
    /\ overtaken \subseteq Keys

\* A request that gets no answer is well formed.
LEMMA NoAnswerTyped ==
    ASSUME TypeOK, NEW o \in {"put", "meta", "delete"}, NEW ks \in SUBSET Keys,
           NEW c \in Nat, NEW m \in Nat, NoAnswer(o, ks, c, m)
    PROVE  BucketOK' /\ faults' \in Nat
  <1>1. faults' \in Nat
    BY FaultTyped DEF NoAnswer
  <1>2. \A k \in ks :
           [op |-> o, key |-> k, content |-> c, mtime |-> m, nth |-> faults'] \in Request
    BY <1>1 DEF Request
  <1>3. QED
    BY <1>1, <1>2 DEF NoAnswer, TypeOK, BucketOK

\* An object that is put is well formed.
LEMMA PutObjectTyped ==
    ASSUME TypeOK, NEW k \in Keys, NEW c \in Nat, NEW m \in Nat, PutObject(k, c, m)
    PROVE  /\ remote' \in [Keys -> Object \cup {None}]
           /\ remote'[k] # None /\ remote'[k].content = c /\ remote'[k].mtime = m
           /\ \A j \in Keys \ {k} : remote'[j] = remote[j]
  <1>1. PICK o : o = [content |-> c, mtime |-> m]
    OBVIOUS
  <1>2. o \in Object /\ o # None /\ o.content = c /\ o.mtime = m
    BY <1>1 DEF Object
  <1>3. remote' = [remote EXCEPT ![k] = o]
    BY <1>1 DEF PutObject
  <1>4. QED
    BY <1>2, <1>3 DEF TypeOK

\* A copy onto itself changes the mtime of an object, and nothing else.
LEMMA CopyMetaTyped ==
    ASSUME TypeOK, NEW k \in Keys, NEW m \in Nat, CopyMeta(k, m)
    PROVE  /\ remote' \in [Keys -> Object \cup {None}]
           /\ \A j \in Keys \ {k} : remote'[j] = remote[j]
           /\ \/ remote'[k] = remote[k]
              \/ /\ remote[k] # None /\ remote'[k] # None
                 /\ remote'[k].content = remote[k].content /\ remote'[k].mtime = m
  <1>1. CASE remote[k] = None
    BY <1>1 DEF CopyMeta, TypeOK
  <1>2. CASE remote[k] # None
    <2>1. PICK o : o = [remote[k] EXCEPT !.mtime = m]
      OBVIOUS
    <2>2. remote[k] \in Object
      BY <1>2 DEF TypeOK
    <2>3. o \in Object /\ o # None /\ o.content = remote[k].content /\ o.mtime = m
      BY <2>1, <2>2 DEF Object
    <2>4. remote' = [remote EXCEPT ![k] = o]
      BY <1>2, <2>1 DEF CopyMeta
    <2>5. QED
      BY <1>2, <2>3, <2>4 DEF TypeOK
  <1>3. QED
    BY <1>1, <1>2

\* A request given up may be performed at any time.
LEMMA ArriveTyped ==
    ASSUME TypeOK, PhaseInv, NEW r \in givenUp, Arrive(r)
    PROVE  TypeOK' /\ PhaseInv'
  <1>1. r.key \in Keys /\ r.content \in Nat /\ r.mtime \in Nat
    BY DEF TypeOK, Request
  <1>2. remote' \in [Keys -> Object \cup {None}]
    BY <1>1, PutObjectTyped, CopyMetaTyped DEF Arrive, Erase, TypeOK
  <1>3. givenUp' \subseteq Request /\ overtaken' \subseteq Keys
    BY <1>1 DEF Arrive, TypeOK
  <1>4. QED
    BY <1>2, <1>3 DEF Arrive, TypeOK, PhaseInv, TailAfterCleanDrain, AllFree, NoRows, folder, process

\* Edits keep the types and leave the process alone.
LEMMA EditTyped ==
    ASSUME TypeOK, PhaseInv, NEW f \in Files, Edit(f)
    PROVE  TypeOK' /\ PhaseInv'
  <1>1. clock' \in Nat
    BY DEF TypeOK, Edit, Fresh, Touch, Remove, Racy, Revert, Restore, Tick
  <1>2. local' \in [Files -> LocalFile] /\ touched' \subseteq Files
    <2> USE DEF Edited, TypeOK, LocalFile
    <2>1. CASE Fresh(f)
      BY <2>1, <1>1 DEF Fresh
    <2>2. CASE Touch(f)
      BY <2>2, <1>1 DEF Touch
    <2>3. CASE Remove(f)
      BY <2>3 DEF Remove
    <2>4. CASE Racy(f)
      BY <2>4, <1>1 DEF Racy
    <2>5. CASE Revert(f)
      BY <2>5, <1>1 DEF Revert
    <2>6. CASE Restore(f)
      BY <2>6 DEF Restore
    <2>7. QED
      BY <2>1, <2>2, <2>3, <2>4, <2>5, <2>6 DEF Edit
  <1>3. UNCHANGED <<stores, process, faults>>
    BY DEF Edit, Fresh, Touch, Remove, Racy, Revert, Restore, Edited
  <1>4. QED
    BY <1>1, <1>2, <1>3
    DEF TypeOK, PhaseInv, TailAfterCleanDrain, AllFree, NoRows, stores, bucket, process

\* The rebuild keeps the types.
LEMMA RebuildTyped ==
    ASSUME TypeOK, PhaseInv, Rebuild
    PROVE  TypeOK' /\ PhaseInv'
  <1> USE DEF folder, stores, bucket
  <1>1. CASE List
    <2>1. \A k \in Keys : remote[k] # None => [md5 |-> remote[k].content, mtime |-> 0] \in Row
      BY DEF TypeOK, Object, Row
    <2>2. QED
      BY <1>1, <2>1, ExitTyped, FaultTyped
      DEF List, TypeOK, PhaseInv, TailAfterCleanDrain, Steps
  <1>2. CASE Resolve
    <2>1. \A k \in Listed : remote[k] # None =>
             [md5 |-> listing[k].md5, mtime |-> Uint32(remote[k].mtime)] \in Row
      <3>1. SUFFICES ASSUME NEW k \in Keys, listing[k] # None, remote[k] # None
                     PROVE  [md5 |-> listing[k].md5, mtime |-> Uint32(remote[k].mtime)] \in Row
        BY DEF Listed
      <3>2. listing[k].md5 \in Nat /\ remote[k].mtime \in Nat
        BY <3>1 DEF TypeOK, Row, Object
      <3>3. QED
        BY <3>2, Uint32Bounds DEF Row
    <2>2. CASE Exit
      BY <1>2, <2>2, ExitTyped, FaultTyped DEF Resolve, TypeOK
    <2>3. CASE /\ pc' = "scan" /\ listing' = NoRows
               /\ UNCHANGED <<opts, scanned, todo, cur, slot, failed, toDelete, batch, touched,
                              faults>>
      BY <1>2, <2>3 DEF Resolve, NoRows, TypeOK, PhaseInv, TailAfterCleanDrain, Steps
    <2>4. CASE /\ \A k \in Listed : remote[k] # None
               /\ listing' = [k \in Keys |-> IF k \in Listed
                                THEN [md5 |-> listing[k].md5, mtime |-> Uint32(remote[k].mtime)]
                                ELSE None]
               /\ pc' = "truncate"
               /\ UNCHANGED <<opts, scanned, todo, cur, slot, failed, toDelete, batch, touched,
                              faults>>
      <3>1. listing' \in [Keys -> Row \cup {None}]
        BY <2>1, <2>4
      <3>2. QED
        BY <1>2, <2>4, <3>1 DEF Resolve, TypeOK, PhaseInv, TailAfterCleanDrain, Steps
    <2>5. QED
      BY <1>2, <2>2, <2>3, <2>4 DEF Resolve
  <1>3. CASE Truncate
    BY <1>3, ExitTyped, FaultTyped
    DEF Truncate, NoRows, TypeOK, PhaseInv, TailAfterCleanDrain, Steps
  <1>4. CASE \E c \in SUBSET Keys : StoreChunk(c)
    BY <1>4, ExitTyped, FaultTyped
    DEF StoreChunk, TypeOK, PhaseInv, TailAfterCleanDrain, Steps
  <1>5. CASE Rebuilt
    BY <1>5, ExitTyped
    DEF Rebuilt, TypeOK, PhaseInv, TailAfterCleanDrain, Steps
  <1>6. QED
    BY <1>1, <1>2, <1>3, <1>4, <1>5 DEF Rebuild

\* The upload loop keeps the types; the drain leaves no worker behind.
LEMMA UploadFilesTyped ==
    ASSUME TypeOK, PhaseInv, UploadFiles
    PROVE  TypeOK' /\ PhaseInv'
  <1> USE DEF folder, stores, bucket
  <1>1. CASE Scan
    BY <1>1 DEF Scan, TypeOK, PhaseInv, TailAfterCleanDrain, Steps
  <1>2. CASE \E f \in Files : Examine(f)
    <2>1. PICK f \in Files : Examine(f)
      BY <1>2
    <2>2. RemotePath(f) \in Keys
      BY DEF RemotePath, Keys
    <2>3. Lookup(RemotePath(f)) \in Row
      BY <2>2 DEF Lookup, TypeOK, Row
    <2>4. cur' \in Job \cup {None} /\ (pc' = "dispatch" => cur' # None) /\ faults' \in Nat
      <3>1. ASSUME cur' = [step |-> "start", path |-> f, mtime |-> local[f].mtime,
                           size |-> local[f].content, md5 |-> Lookup(RemotePath(f)).md5,
                           check |-> Lookup(RemotePath(f)).mtime > 0, cUploads |-> 0]
            PROVE  cur' \in Job
        BY <2>3, <3>1 DEF Job, Row, TypeOK, LocalFile
      <3>2. QED
        BY <2>1, <3>1, FaultTyped DEF Examine, TypeOK
    <2>5. QED
      BY <2>1, <2>4 DEF Examine, TypeOK, PhaseInv, TailAfterCleanDrain, Steps
  <1>3. CASE \E t \in Slots : Dispatch(t)
    BY <1>3 DEF Dispatch, TypeOK, PhaseInv, TailAfterCleanDrain, Steps
  <1>4. CASE LoopEnds
    BY <1>4 DEF LoopEnds, TypeOK, PhaseInv, TailAfterCleanDrain, Steps
  <1>5. CASE Drain
    BY <1>5, ExitTyped DEF Drain, TypeOK, PhaseInv, TailAfterCleanDrain, Steps
  <1>6. QED
    BY <1>1, <1>2, <1>3, <1>4, <1>5 DEF UploadFiles

\* A worker's step keeps the types, and happens only while workers may exist.
LEMMA WorkerTyped ==
    ASSUME TypeOK, PhaseInv, NEW t \in Slots, Worker(t)
    PROVE  TypeOK' /\ PhaseInv'
  <1> DEFINE job == slot[t]
  <1>1. job \in Job
    BY DEF TypeOK, Worker, Begin, BeginOnMissing, UpdateMeta, Put, Store
  <1>2. pc \in {"loop", "dispatch", "drain"} /\ listing = NoRows
    BY <1>1 DEF PhaseInv, AllFree
  <1>3. /\ RemotePath(job.path) \in Keys
        /\ local[job.path] \in LocalFile
    BY <1>1 DEF RemotePath, Keys, Job, TypeOK
  <1>4. CASE BeginOnMissing(t)
    BY <1>4, ExitTyped DEF BeginOnMissing, TypeOK
  <1>5. ASSUME WorkerOnly, slot' \in [Slots -> Job \cup {None}], failed' \in BOOLEAN,
               faults' \in Nat, db' \in [Keys -> Row \cup {None}], BucketOK'
        PROVE  TypeOK' /\ PhaseInv'
    BY <1>2, <1>5
    DEF TypeOK, BucketOK, PhaseInv, TailAfterCleanDrain, WorkerOnly, NoRows, folder, Steps
  <1>6. ASSUME NEW j \in Job, Goto(t, j) PROVE slot' \in [Slots -> Job \cup {None}]
    BY <1>6 DEF Goto, TypeOK
  <1>7. ASSUME Free(t) PROVE slot' \in [Slots -> Job \cup {None}]
    BY <1>7 DEF Free, TypeOK
  <1>8. CASE Begin(t)
    <2>1. [job EXCEPT !.step = "meta"] \in Job /\ [job EXCEPT !.step = "put"] \in Job
      BY <1>1 DEF Job
    <2>2. slot' \in [Slots -> Job \cup {None}]
      BY <1>6, <1>7, <1>8, <2>1 DEF Begin
    <2>3. QED
      BY <1>5, <1>8, <2>2 DEF Begin, TypeOK, BucketOK, stores, bucket
  <1>9. CASE UpdateMeta(t)
    <2>1. [job EXCEPT !.step = "store"] \in Job
      BY <1>1 DEF Job
    <2>2. slot' \in [Slots -> Job \cup {None}] /\ failed' \in BOOLEAN
      BY <1>6, <1>7, <1>9, <2>1 DEF UpdateMeta, WorkerFails, TypeOK
    <2>3. PICK k \in Keys, m \in Nat : k = RemotePath(job.path) /\ m = job.mtime
      BY <1>1, <1>3 DEF Job
    <2>4. BucketOK' /\ faults' \in Nat
      <3>1. CASE CopyMeta(k, m) /\ UNCHANGED <<givenUp, overtaken, faults>>
        BY <3>1, CopyMetaTyped DEF TypeOK, BucketOK
      <3>2. CASE NoAnswer("meta", {k}, 0, m)
        BY <3>2, NoAnswerTyped
      <3>3. CASE UNCHANGED bucket /\ faults' \in Nat
        BY <3>3 DEF bucket, TypeOK, BucketOK
      <3>4. QED
        BY <1>9, <2>3, <3>1, <3>2, <3>3, FaultTyped DEF UpdateMeta
    <2>5. QED
      BY <1>5, <1>9, <2>2, <2>4 DEF UpdateMeta, TypeOK
  <1>10. CASE Put(t)
    <2>1. Sent(job) \subseteq Nat
      BY <1>3 DEF Sent, LocalFile
    <2>2. \A c \in Sent(job) : [job EXCEPT !.step = "store", !.md5 = c] \in Job
      BY <1>1, <2>1 DEF Job
    <2>3. ASSUME RetryOrFail(t, job)
          PROVE  slot' \in [Slots -> Job \cup {None}] /\ failed' \in BOOLEAN
      <3>1. [job EXCEPT !.cUploads = @ + 1] \in Job
        BY <1>1 DEF Job
      <3>2. QED
        BY <1>6, <1>7, <2>3, <3>1 DEF RetryOrFail, WorkerFails, TypeOK
    <2>4. slot' \in [Slots -> Job \cup {None}] /\ failed' \in BOOLEAN
      BY <1>6, <1>7, <1>10, <2>2, <2>3 DEF Put, WorkerFails, TypeOK
    <2>5. PICK k \in Keys, m \in Nat : k = RemotePath(job.path) /\ m = job.mtime
      BY <1>1, <1>3 DEF Job
    <2>6. BucketOK' /\ faults' \in Nat
      <3>1. ASSUME NEW c \in Nat, PutObject(k, c, m), Answered({k}), faults' \in Nat
            PROVE  BucketOK'
        BY <3>1, PutObjectTyped DEF Answered, TypeOK, BucketOK
      <3>2. ASSUME NEW c \in Nat, NoAnswer("put", {k}, c, m)
            PROVE  BucketOK' /\ faults' \in Nat
        BY <3>2, NoAnswerTyped
      <3>3. UNCHANGED bucket => BucketOK'
        BY DEF bucket, TypeOK, BucketOK
      <3>4. faults \in Nat
        BY DEF TypeOK
      <3>5. QED
        BY <1>10, <2>1, <2>5, <3>1, <3>2, <3>3, <3>4, FaultTyped DEF Put
    <2>7. QED
      BY <1>5, <1>10, <2>4, <2>6 DEF Put, TypeOK
  <1>11. CASE Store(t)
    <2>1. [md5 |-> job.md5, mtime |-> Uint32(job.mtime)] \in Row
      BY <1>1, Uint32Bounds DEF Row, Job
    <2>2. slot' \in [Slots -> Job \cup {None}] /\ failed' \in BOOLEAN /\ faults' \in Nat
      BY <1>7, <1>11, FaultTyped DEF Store, WorkerFails, TypeOK
    <2>3. db' \in [Keys -> Row \cup {None}]
      BY <1>3, <1>11, <2>1 DEF Store, TypeOK
    <2>4. QED
      BY <1>5, <1>11, <2>2, <2>3 DEF Store, TypeOK, BucketOK, bucket
  <1>12. QED
    BY <1>4, <1>8, <1>9, <1>10, <1>11 DEF Worker

\* The deletion and the upload of the database keep the types.
LEMMA TailTyped ==
    ASSUME TypeOK, PhaseInv, DeleteFiles \/ UploadDatabase
    PROVE  TypeOK' /\ PhaseInv'
  <1> USE DEF folder, stores, bucket
  <1>1. CASE Compare
    BY <1>1, ExitTyped, FaultTyped
    DEF Compare, TypeOK, PhaseInv, TailAfterCleanDrain, Steps
  <1>2. CASE \E b \in SUBSET Keys : DeleteBatch(b)
    <2>1. PICK b \in SUBSET Keys : DeleteBatch(b)
      BY <1>2
    <2>2. BucketOK' /\ faults' \in Nat
      <3>1. CASE NoAnswer("delete", b, 0, 0)
        BY <3>1, NoAnswerTyped
      <3>2. QED
        BY <2>1, <3>1, FaultTyped DEF DeleteBatch, Erase, Answered, TypeOK, BucketOK
    <2>3. toDelete' \subseteq Keys /\ batch' \subseteq Keys
      BY <2>1 DEF DeleteBatch, TypeOK
    <2>4. QED
      BY <2>1, <2>2, <2>3
      DEF DeleteBatch, BucketOK, TypeOK, PhaseInv, TailAfterCleanDrain, Steps
  <1>3. CASE Forget
    BY <1>3, FaultTyped DEF Forget, TypeOK, PhaseInv, TailAfterCleanDrain, Steps
  <1>4. CASE Deleted
    BY <1>4, ExitTyped DEF Deleted, TypeOK, PhaseInv, TailAfterCleanDrain, Steps
  <1>5. CASE UploadDatabase
    <2>1. DbKey \in Keys
      BY DEF Keys
    <2>2. BucketOK' /\ faults' \in Nat
      <3>1. CASE PutObject(DbKey, 0, 0) /\ Answered({DbKey}) /\ UNCHANGED faults
        BY <2>1, <3>1, PutObjectTyped DEF Answered, TypeOK, BucketOK
      <3>2. CASE NoAnswer("put", {DbKey}, 0, 0)
        BY <2>1, <3>2, NoAnswerTyped
      <3>3. CASE UNCHANGED bucket /\ faults' \in Nat
        BY <3>3 DEF TypeOK, BucketOK
      <3>4. QED
        BY <1>5, <3>1, <3>2, <3>3, FaultTyped DEF UploadDatabase
    <2>3. QED
      BY <1>5, <2>2
      DEF UploadDatabase, Exit, BucketOK, TypeOK, PhaseInv, TailAfterCleanDrain, AllFree, NoRows,
          Steps
  <1>6. QED
    BY <1>1, <1>2, <1>3, <1>4, <1>5 DEF DeleteFiles

\* Every step keeps the types and the phases.
LEMMA TypedStep ==
    ASSUME TypeOK, PhaseInv, [Next]_vars
    PROVE  TypeOK' /\ PhaseInv'
  <1>1. ASSUME NEW o \in Invocations, Start(o) PROVE TypeOK' /\ PhaseInv'
    <2>1. o # None
      OBVIOUS
    <2>2. QED
      BY <1>1, <2>1
      DEF Start, AfterRebuild, TypeOK, PhaseInv, TailAfterCleanDrain, NoRows, folder, stores,
          bucket, Steps
  <1>2. CASE Crash
    BY <1>2, ExitTyped, FaultTyped DEF Crash
  <1>3. CASE UNCHANGED vars
    BY <1>3
    DEF vars, folder, stores, bucket, process, TypeOK, PhaseInv, TailAfterCleanDrain, AllFree,
        NoRows
  <1>4. QED
    BY <1>1, <1>2, <1>3, ArriveTyped, EditTyped, RebuildTyped, UploadFilesTyped, WorkerTyped, TailTyped
    DEF Next, Main

\* The state before the first invocation is well typed.
LEMMA TypedInit == Init => TypeOK /\ PhaseInv
  <1> SUFFICES ASSUME Init PROVE TypeOK /\ PhaseInv
    OBVIOUS
  <1>1. StartMtimes \subseteq Nat
    OBVIOUS
  <1>2. local \in [Files -> LocalFile]
    <2>1. PICK e \in [Files -> BOOLEAN], m \in [Files -> StartMtimes] :
             local = [f \in Files |-> [exists |-> e[f], content |-> 1, mtime |-> m[f]]]
      BY DEF Init
    <2>2. \A x \in BOOLEAN, t \in Nat : [exists |-> x, content |-> 1, mtime |-> t] \in LocalFile
      BY DEF LocalFile
    <2>3. \A f \in Files : e[f] \in BOOLEAN /\ m[f] \in Nat
      BY <1>1, <2>1
    <2>4. QED
      BY <2>1, <2>2, <2>3
  <1>3. /\ remote \in [Keys -> Object \cup {None}] /\ db \in [Keys -> Row \cup {None}]
        /\ listing \in [Keys -> Row \cup {None}] /\ slot \in [Slots -> Job \cup {None}]
    BY DEF Init, NoProcess, AllFree, NoRows
  <1>4. TypeOK
    BY <1>2, <1>3 DEF Init, NoProcess, TypeOK, Steps
  <1>5. PhaseInv
    BY DEF Init, NoProcess, PhaseInv, TailAfterCleanDrain
  <1>6. QED
    BY <1>4, <1>5

\* Every reachable state is well typed.
THEOREM TypeCorrect == Spec => []TypeOK
  BY TypedInit, TypedStep, PTL DEF Spec

\* Deletion and the upload of the database never overlap with a worker and never
\* follow a failure, for any number of files and threads.
THEOREM TailIsSafe == Spec => []TailAfterCleanDrain
  <1>1. TypeOK /\ PhaseInv => TailAfterCleanDrain
    BY DEF PhaseInv
  <1>2. QED
    BY <1>1, TypedInit, TypedStep, PTL DEF Spec

(***************************************************************************)
(* The invariant of careful users.                                         *)
(***************************************************************************)

\* What TypeOK says of the parts the invariant compares.
LEMMA Parts ==
    ASSUME TypeOK
    PROVE  /\ \A f \in Files : /\ RemotePath(f) \in Keys
                             /\ local[f] \in LocalFile
                             /\ local[f].exists \in BOOLEAN
                             /\ local[f].content \in Nat /\ local[f].mtime \in Nat
           /\ \A k \in Keys : remote[k] # None =>
                 remote[k] \in Object /\ remote[k].content \in Nat /\ remote[k].mtime \in Nat
           /\ \A k \in Keys : db[k] # None =>
                 db[k] \in Row /\ db[k].md5 \in Nat /\ db[k].mtime \in Nat
           /\ \A k \in Keys : listing[k] # None =>
                 listing[k] \in Row /\ listing[k].md5 \in Nat /\ listing[k].mtime \in Nat
           /\ \A r \in givenUp :
                 /\ r.op \in {"put", "meta", "delete"} /\ r.key \in Keys
                 /\ r.content \in Nat /\ r.mtime \in Nat
  <1>1. \A f \in Files : RemotePath(f) \in Keys
    BY DEF RemotePath, Keys
  <1>2. QED
    BY <1>1 DEF TypeOK, LocalFile, Object, Row, Request

\* The fields of a job.
LEMMA JobParts ==
    ASSUME NEW j \in Job
    PROVE  /\ j.path \in Files /\ j.mtime \in Nat /\ j.size \in Nat /\ j.md5 \in Nat
           /\ j.check \in BOOLEAN /\ j.cUploads \in Nat
           /\ j.step \in {"start", "meta", "put", "store"}
  BY DEF Job

\* A worker keeps what main put into its job until it is free, and leaves the rest
\* of the process alone.
LEMMA WorkerMoves ==
    ASSUME TypeOK, NEW t \in Slots, Begin(t) \/ UpdateMeta(t) \/ Put(t) \/ Store(t)
    PROVE  /\ slot[t] \in Job /\ slot[t] # None /\ WorkerOnly
           /\ \A u \in Slots \ {t} : slot'[u] = slot[u]
           /\ slot'[t] # None =>
                 /\ slot'[t].path = slot[t].path
                 /\ slot'[t].size = slot[t].size /\ slot'[t].mtime = slot[t].mtime
                 /\ slot'[t].step # "start"
                 /\ slot'[t].step = "meta" => slot[t].step = "start"
                 /\ slot'[t].step = "put" => slot[t].step \in {"start", "put"}
  <1>0. PICK job : job = slot[t]
    OBVIOUS
  <1>1. job \in Job /\ job # None
    BY <1>0 DEF TypeOK, Begin, UpdateMeta, Put, Store
  <1> DEFINE Kept(j) ==
        /\ slot' = [slot EXCEPT ![t] = j]
        /\ j # None =>
              /\ j.path = job.path /\ j.size = job.size /\ j.mtime = job.mtime
              /\ j.step # "start"
              /\ j.step = "meta" => job.step = "start"
              /\ j.step = "put" => job.step \in {"start", "put"}
  <1>2. Free(t) => \E j : Kept(j)
    BY DEF Free
  <1>3. ASSUME NEW s \in {"meta", "put", "store"}, Goto(t, [job EXCEPT !.step = s]),
               s \in {"meta", "put"} => job.step = "start"
        PROVE  \E j : Kept(j)
    <2>1. PICK r : r = [job EXCEPT !.step = s]
      OBVIOUS
    <2>2. r.path = job.path /\ r.size = job.size /\ r.mtime = job.mtime /\ r.step = s
      BY <1>1, <2>1 DEF Job
    <2>3. QED
      BY <1>3, <2>1, <2>2 DEF Goto
  <1>4. ASSUME NEW c \in Sent(job), Goto(t, [job EXCEPT !.step = "store", !.md5 = c])
        PROVE  \E j : Kept(j)
    <2>1. PICK r : r = [job EXCEPT !.step = "store", !.md5 = c]
      OBVIOUS
    <2>2. r.path = job.path /\ r.size = job.size /\ r.mtime = job.mtime /\ r.step = "store"
      BY <1>1, <2>1 DEF Job
    <2>3. QED
      BY <1>4, <2>1, <2>2 DEF Goto
  <1>5. ASSUME Goto(t, [job EXCEPT !.cUploads = @ + 1]), job.step = "put"
        PROVE  \E j : Kept(j)
    <2>1. PICK r : r = [job EXCEPT !.cUploads = @ + 1]
      OBVIOUS
    <2>2. r.path = job.path /\ r.size = job.size /\ r.mtime = job.mtime /\ r.step = "put"
      BY <1>1, <1>5, <2>1 DEF Job
    <2>3. QED
      BY <1>5, <2>1, <2>2 DEF Goto
  <1>6. WorkerOnly /\ \E j : Kept(j)
    <2> HIDE DEF Kept
    <2>1. CASE Begin(t)
      BY <1>0, <1>2, <1>3, <2>1 DEF Begin
    <2>2. CASE UpdateMeta(t)
      BY <1>0, <1>2, <1>3, <2>2 DEF UpdateMeta, WorkerFails
    <2>3. CASE Put(t)
      BY <1>0, <1>2, <1>4, <1>5, <2>3 DEF Put, WorkerFails, RetryOrFail
    <2>4. CASE Store(t)
      BY <1>2, <2>4 DEF Store, WorkerFails
    <2>5. QED
      BY <2>1, <2>2, <2>3, <2>4
  <1>7. QED
    BY <1>0, <1>1, <1>6 DEF TypeOK

\* Different files have different keys.
LEMMA KeysApart ==
    ASSUME NEW f \in Files, NEW g \in Files, f # g
    PROVE  RemotePath(f) # RemotePath(g)
  BY DEF RemotePath

\* The copy of the database is not the object of a file.
LEMMA DatabaseApart == \A f \in Files : RemotePath(f) # DbKey
  BY DatabaseAssumption DEF RemotePath, DbKey

\* Object and requests of a file are left alone.
Keeps(f) ==
    /\ remote'[RemotePath(f)] = remote[RemotePath(f)]
    /\ RemotePath(f) \in overtaken' <=> RemotePath(f) \in overtaken
    /\ \A r \in givenUp' : r.key = RemotePath(f) => r \in givenUp

\* Uploading the database does so.
LEMMA DatabaseKeeps ==
    ASSUME TypeOK, UploadDatabase
    PROVE  \A f \in Files : Keeps(f)
  <1>1. \A f \in Files : RemotePath(f) \in Keys /\ RemotePath(f) # DbKey
    BY DatabaseApart DEF RemotePath, Keys
  <1>2. DbKey \in Keys
    BY DEF Keys
  <1>3. CASE PutObject(DbKey, 0, 0) /\ Answered({DbKey})
    BY <1>1, <1>2, <1>3, PutObjectTyped DEF Answered, Keeps
  <1>4. CASE NoAnswer("put", {DbKey}, 0, 0)
    BY <1>1, <1>4 DEF NoAnswer, Keeps
  <1>5. CASE UNCHANGED bucket
    BY <1>5 DEF bucket, Keeps
  <1>6. QED
    BY <1>3, <1>4, <1>5 DEF UploadDatabase

\* What is said of a file then stays true.
LEMMA KeptAccounted ==
    ASSUME NEW f \in Files, UNCHANGED local, Keeps(f)
    PROVE  Accounted(f)' <=> Accounted(f)
  BY DEF Keeps, Accounted, Synced

\* A step that changes no file and no row keeps what is said of them, if each file
\* the bucket accounts for stays so, and no new request is about a file.
LEMMA SameData ==
    ASSUME TypeOK, SyncInv, UNCHANGED <<local, clock, db>>,
           \A f \in Files : Accounted(f) => Accounted(f)',
           \A f \in Files : \A r \in givenUp' : r.key = RemotePath(f) => r \in givenUp
    PROVE  /\ ClockInv' /\ RowInv' /\ LateInv'
           /\ \A j \in Job : JobOk(j) => JobOk(j)'
           /\ (\A f \in Files : remote'[RemotePath(f)] = remote[RemotePath(f)]) => ObjectInv'
  <1>1. ClockInv'
    BY DEF SyncInv, ClockInv
  <1>2. /\ \A f \in Files, c \in Nat : Known(f, c) => Known(f, c)'
        /\ \A f \in Files, m \in Nat : Current(f, m) => Current(f, m)'
    BY DEF Known, Current
  <1>3. \A f \in Files, c \in Nat, m \in Nat : Past(f, c, m) => Past(f, c, m)'
    BY DEF Past
  <1>4. RowInv'
    BY <1>2, <1>3, Parts DEF SyncInv, RowInv, RowOk
  <1>5. LateInv'
    BY <1>2, <1>3, Parts DEF SyncInv, LateInv
  <1>6. ASSUME NEW j \in Job, JobOk(j) PROVE JobOk(j)'
    BY <1>2, <1>6, JobParts DEF JobOk, Pair, Past
  <1>7. (\A f \in Files : remote'[RemotePath(f)] = remote[RemotePath(f)]) => ObjectInv'
    BY <1>2, <1>3, Parts DEF SyncInv, ObjectInv
  <1>8. QED
    BY <1>1, <1>4, <1>5, <1>6, <1>7

\* In particular a step that leaves bucket and database alone.
LEMMA SameStores ==
    ASSUME TypeOK, SyncInv, UNCHANGED <<local, clock, stores>>
    PROVE  /\ ClockInv' /\ ObjectInv' /\ RowInv' /\ LateInv'
           /\ \A j \in Job : JobOk(j) => JobOk(j)'
  <1>1. \A f \in Files : Keeps(f)
    BY DEF Keeps, stores, bucket
  <1>2. \A f \in Files : Accounted(f) => Accounted(f)'
    BY <1>1, KeptAccounted
  <1>3. QED
    BY <1>1, <1>2, SameData DEF Keeps, stores, bucket

\* A process that ends keeps the invariant, if it leaves the files' objects alone.
LEMMA ExitSync ==
    ASSUME TypeOK, SyncInv, Exit, UNCHANGED <<local, clock, db>>, \A f \in Files : Keeps(f)
    PROVE  SyncInv'
  <1>1. \A f \in Files : Accounted(f) => Accounted(f)'
    BY KeptAccounted
  <1>2. ClockInv' /\ ObjectInv' /\ RowInv' /\ LateInv'
    BY <1>1, SameData DEF Keeps
  <1>3. JobInv' /\ ApartInv' /\ DeleteInv'
    BY DEF Exit, JobInv, ApartInv, DeleteInv, AllFree
  <1>4. QED
    BY <1>2, <1>3 DEF SyncInv

\* In particular if it leaves bucket and database alone.
LEMMA ExitQuiet ==
    ASSUME TypeOK, SyncInv, Exit, UNCHANGED <<local, clock, stores>>
    PROVE  SyncInv'
  BY ExitSync DEF Keeps, stores, bucket

\* What the arrival of a request given up does: its key is overtaken, or the object
\* there, if any, gets the mtime of the request.
LEMMA ArriveEffect ==
    ASSUME TypeOK, NEW r \in givenUp, Arrive(r)
    PROVE  /\ r.key \in Keys /\ r.content \in Nat /\ r.mtime \in Nat
           /\ UNCHANGED <<folder, db, process, faults, touched>> /\ givenUp' \subseteq givenUp
           /\ \A k \in Keys \ {r.key} : remote'[k] = remote[k]
           /\ overtaken \subseteq overtaken'
           /\ \/ /\ r.op \in {"put", "delete"} /\ r.key \in overtaken'
                 /\ r.op = "put" => /\ remote'[r.key] # None
                                    /\ remote'[r.key].content = r.content
                                    /\ remote'[r.key].mtime = r.mtime
                 /\ r.op = "delete" => remote'[r.key] = None
              \/ /\ r.op = "meta" /\ overtaken' = overtaken
                 /\ \/ remote'[r.key] = remote[r.key]
                    \/ /\ remote[r.key] # None /\ remote'[r.key] # None
                       /\ remote'[r.key].content = remote[r.key].content
                       /\ remote'[r.key].mtime = r.mtime
           /\ \A f \in Files : Accounted(f) => Accounted(f)'
  <1>1. r.op \in {"put", "meta", "delete"} /\ r.key \in Keys /\ r.content \in Nat /\ r.mtime \in Nat
    BY Parts
  <1>2. UNCHANGED <<folder, db, process, faults, touched>> /\ givenUp' \subseteq givenUp
        /\ overtaken \subseteq overtaken'
    BY DEF Arrive
  <1>3. CASE r.op = "put"
    <2>1. PutObject(r.key, r.content, r.mtime) /\ r.key \in overtaken'
      BY <1>3 DEF Arrive
    <2>2. QED
      BY <1>1, <1>2, <1>3, <2>1, PutObjectTyped, Parts DEF Accounted, Synced, folder
  <1>4. CASE r.op = "delete"
    <2>1. Erase({r.key}) /\ r.key \in overtaken'
      BY <1>4 DEF Arrive
    <2>2. QED
      BY <1>1, <1>2, <1>4, <2>1, Parts DEF Erase, Accounted, Synced, folder
  <1>5. CASE r.op = "meta"
    <2>1. CopyMeta(r.key, r.mtime) /\ overtaken' = overtaken
      BY <1>5 DEF Arrive
    <2>2. QED
      BY <1>1, <1>2, <1>5, <2>1, CopyMetaTyped, Parts DEF Accounted, Synced, folder
  <1>6. QED
    BY <1>1, <1>3, <1>4, <1>5

\* A request given up brings nothing that is newer than the file.
LEMMA ArriveSync ==
    ASSUME TypeOK, SyncInv, NEW r \in givenUp, Arrive(r)
    PROVE  SyncInv'
  <1>1. /\ UNCHANGED <<local, clock, db, process, touched>> /\ givenUp' \subseteq givenUp
        /\ \A f \in Files : Accounted(f) => Accounted(f)'
    BY ArriveEffect DEF folder
  <1>2. ClockInv' /\ RowInv' /\ LateInv' /\ \A j \in Job : JobOk(j) => JobOk(j)'
    BY <1>1, SameData
  <1>3. ObjectInv'
    <2>1. SUFFICES ASSUME NEW f \in Files, remote'[RemotePath(f)] # None
                   PROVE  /\ Past(f, remote[RemotePath(f)].content, remote[RemotePath(f)].mtime)'
                          /\ Current(f, remote[RemotePath(f)].mtime)'
      BY DEF ObjectInv, Past, Current
    <2>2. RemotePath(f) \in Keys
      BY Parts
    <2>3. CASE remote'[RemotePath(f)] = remote[RemotePath(f)]
      BY <1>1, <2>1, <2>3 DEF SyncInv, ObjectInv, Past, Current
    <2>4. CASE r.key = RemotePath(f)
      <3>1. Past(f, r.content, r.mtime) /\ (r.op = "meta" => Current(f, r.mtime))
        BY <2>4 DEF SyncInv, LateInv
      <3>2. remote[r.key] # None =>
               Past(f, remote[r.key].content, remote[r.key].mtime)
        BY <2>4 DEF SyncInv, ObjectInv
      <3>3. CASE r.op = "put" /\ r.key \in overtaken' /\ remote'[r.key].content = r.content
                 /\ remote'[r.key].mtime = r.mtime
        BY <1>1, <2>4, <3>1, <3>3 DEF Past, Current, Accounted
      <3>4. CASE r.op = "meta" /\ remote[r.key] # None
                 /\ remote'[r.key].content = remote[r.key].content /\ remote'[r.key].mtime = r.mtime
        BY <1>1, <2>4, <3>1, <3>2, <3>4 DEF Past, Current
      <3>5. QED
        BY <2>1, <2>3, <2>4, <3>3, <3>4, ArriveEffect
    <2>5. QED
      BY <2>2, <2>3, <2>4, ArriveEffect
  <1>4. JobInv'
    BY <1>1, <1>2 DEF SyncInv, JobInv, TypeOK, process
  <1>5. ApartInv' /\ DeleteInv'
    BY <1>1 DEF SyncInv, ApartInv, DeleteInv, process
  <1>6. QED
    BY <1>2, <1>3, <1>4, <1>5 DEF SyncInv

\* What a careful edit does.
LEMMA CarefulEdit ==
    ASSUME Careful, TypeOK, NEW f \in Files, Edit(f)
    PROVE  /\ clock \in Nat /\ clock' \in Nat /\ clock <= clock'
           /\ UNCHANGED <<stores, process, faults>>
           /\ pc # "idle" => touched' = touched \cup {f}
           /\ \A g \in Files \ {f} : local'[g] = local[g]
           /\ \/ local'[f] = [exists |-> TRUE, content |-> clock', mtime |-> clock'] /\ clock' = clock + 1
              \/ /\ local[f].exists /\ local'[f].content = local[f].content
                 /\ local'[f].mtime = clock' /\ clock' = clock + 1
              \/ ~local'[f].exists /\ local'[f].content = local[f].content
                 /\ local'[f].mtime = local[f].mtime
  <1>1. Fresh(f) \/ Touch(f) \/ Remove(f)
    BY DEF Careful, Edit, Racy, Revert, Restore
  <1>2. /\ clock \in Nat /\ clock' \in Nat /\ clock <= clock'
        /\ UNCHANGED <<stores, process, faults>>
        /\ pc # "idle" => touched' = touched \cup {f}
    BY <1>1 DEF Fresh, Touch, Remove, Tick, Edited, TypeOK
  <1>3. \A g \in Files \ {f} : local'[g] = local[g]
    BY <1>1 DEF Fresh, Touch, Remove, Edited, TypeOK
  <1>4. CASE Fresh(f)
    BY <1>2, <1>3, <1>4 DEF Fresh, Tick, Edited, TypeOK
  <1>5. CASE Touch(f)
    <2>1. local'[f] = [local[f] EXCEPT !.mtime = clock']
      BY <1>5 DEF Touch, Edited, TypeOK
    <2>2. QED
      BY <1>2, <1>3, <1>5, <2>1, Parts DEF Touch, Tick, LocalFile
  <1>6. CASE Remove(f)
    <2>1. local'[f] = [local[f] EXCEPT !.exists = FALSE]
      BY <1>6 DEF Remove, Edited, TypeOK
    <2>2. QED
      BY <1>2, <1>3, <2>1, Parts DEF LocalFile
  <1>7. QED
    BY <1>1, <1>4, <1>5, <1>6

\* It makes pairs older and never makes a known content or mtime current.
LEMMA EditOld ==
    ASSUME Careful, TypeOK, ClockInv, NEW f \in Files, Edit(f), NEW g \in Files,
           NEW c \in Nat, NEW m \in Nat
    PROVE  /\ c <= local[g].content =>
                 c <= local'[g].content /\ (Known(g, c) => Known(g, c)')
           /\ m <= local[g].mtime =>
                 m <= local'[g].mtime /\ (Current(g, m) => Current(g, m)')
           /\ Pair(g, c, m) => Pair(g, c, m)'
  <1>1. UNCHANGED <<remote, overtaken>>
    BY CarefulEdit DEF stores, bucket
  <1>2. CASE g # f
    BY <1>1, <1>2, CarefulEdit DEF Known, Current, Pair, Past, Accounted, Synced
  <1>3. CASE g = f
    <2>1. clock \in Nat /\ local[f].content <= clock /\ local[f].mtime <= clock
      BY DEF TypeOK, ClockInv
    <2>2. CASE /\ clock' = clock + 1
               /\ local'[f] = [exists |-> TRUE, content |-> clock', mtime |-> clock']
      <3>1. local'[f].content = clock + 1 /\ local'[f].mtime = clock + 1
        BY <2>2
      <3>2. local[f].content \in Nat /\ local[f].mtime \in Nat
        BY Parts
      <3>3. QED
        BY <1>3, <2>1, <3>1, <3>2 DEF Known, Current, Pair, Past
    <2>3. CASE /\ local[f].exists /\ local'[f].content = local[f].content
               /\ local'[f].mtime = clock' /\ clock' = clock + 1
      <3>1. local[f].content \in Nat /\ local[f].mtime \in Nat
        BY Parts
      <3>2. QED
        BY <1>1, <1>3, <2>1, <2>3, <3>1 DEF Known, Current, Pair, Past, Accounted, Synced
    <2>4. CASE ~local'[f].exists /\ local'[f].content = local[f].content
               /\ local'[f].mtime = local[f].mtime
      BY <1>3, <2>4 DEF Known, Current, Pair, Past
    <2>5. QED
      BY <2>2, <2>3, <2>4, CarefulEdit
  <1>4. QED
    BY <1>2, <1>3

\* A careful edit keeps the invariant.
LEMMA EditSync ==
    ASSUME Careful, TypeOK, SyncInv, NEW f \in Files, Edit(f)
    PROVE  SyncInv'
  <1>1. UNCHANGED <<remote, givenUp, overtaken, db, pc, opts, scanned, todo, cur, slot, toDelete>>
    BY CarefulEdit DEF stores, bucket, process
  <1>2. ClockInv
    BY DEF SyncInv
  <1>3. ClockInv'
    BY <1>2, CarefulEdit, Parts DEF ClockInv
  <1>4. ObjectInv'
    BY <1>1, <1>2, EditOld, Parts DEF SyncInv, ObjectInv, Past
  <1>5. RowInv'
    BY <1>1, <1>2, EditOld, Parts DEF SyncInv, RowInv, RowOk, Past
  <1>6. LateInv'
    BY <1>1, <1>2, EditOld, Parts DEF SyncInv, LateInv, Past
  <1>7. ASSUME NEW j \in Job, JobOk(j) PROVE JobOk(j)'
    <2>1. PICK g \in Files, c \in Nat, m \in Nat, z \in Nat :
             g = j.path /\ c = j.md5 /\ m = j.mtime /\ z = j.size
      BY JobParts
    <2>2. Pair(g, z, m)' /\ m <= local[g].mtime
      BY <1>2, <1>7, <2>1, EditOld DEF JobOk, Pair, Past
    <2>3. c <= local[g].content /\ Known(g, c) => c <= local'[g].content /\ Known(g, c)'
      BY <1>2, EditOld
    <2>4. Current(g, m) => Current(g, m)'
      BY <1>2, <2>2, EditOld
    <2>5. QED
      BY <1>1, <1>7, <2>1, <2>2, <2>3, <2>4 DEF JobOk
  <1>8. JobInv'
    BY <1>1, <1>7 DEF SyncInv, JobInv, TypeOK
  <1>9. ApartInv'
    BY <1>1 DEF SyncInv, ApartInv
  <1>10. DeleteInv'
    <2>1. pc # "idle" => touched' = touched \cup {f}
      BY CarefulEdit
    <2>2. \A g \in Files \ {f} : local'[g] = local[g]
      BY CarefulEdit
    \* An edit gives f a new mtime, or the file has gone.
    <2>3. ASSUME local'[f].exists, NEW m \in Nat, m <= local[f].mtime PROVE m # local'[f].mtime
      BY <1>2, <2>3, CarefulEdit, Parts DEF ClockInv
    \* It keeps the content of a file that is there, or gives it a new one.
    <2>4. ASSUME local'[f].exists, NEW c \in Nat, c <= local[f].content,
                 local[f].exists => c # local[f].content
          PROVE  c # local'[f].content
      BY <1>2, <2>4, CarefulEdit, Parts DEF ClockInv
    <2>5. db[RemotePath(f)] # None =>
             /\ db[RemotePath(f)].md5 \in Nat /\ db[RemotePath(f)].mtime \in Nat
             /\ db[RemotePath(f)].md5 <= local[f].content
             /\ db[RemotePath(f)].mtime <= local[f].mtime
      BY Parts DEF SyncInv, RowInv, RowOk, Past
    <2>6. \A r \in givenUp : r.key = RemotePath(f) => r.mtime \in Nat /\ r.mtime <= local[f].mtime
      BY Parts DEF SyncInv, LateInv, Past
    <2>7. QED
      BY <1>1, <2>1, <2>2, <2>3, <2>4, <2>5, <2>6 DEF SyncInv, DeleteInv
  <1>11. QED
    BY <1>3, <1>4, <1>5, <1>6, <1>8, <1>9, <1>10 DEF SyncInv

\* 32 bits of an mtime are that mtime or a smaller one.
LEMMA CurrentUint32 ==
    ASSUME TypeOK, NEW f \in Files, NEW m \in Nat, m <= local[f].mtime, Current(f, m)
    PROVE  /\ Uint32(m) \in Nat /\ Uint32(m) <= local[f].mtime
           /\ Current(f, Uint32(m))
  <1>1. Uint32(m) \in Nat /\ Uint32(m) <= m /\ local[f].mtime \in Nat
    BY Uint32Bounds, Parts
  <1>2. Uint32(m) = local[f].mtime => m = local[f].mtime
    BY <1>1
  <1>3. QED
    BY <1>1, <1>2 DEF Current

\* The steps of a rebuild: no job exists, and every row written is a listed one.
LEMMA RebuildSync ==
    ASSUME TypeOK, PhaseInv, SyncInv, ListingInv, Rebuild
    PROVE  SyncInv'
  <1> USE DEF folder
  <1>1. pc \in {"list", "resolve", "truncate", "restore"} /\ slot = AllFree /\ cur = None
    BY DEF Rebuild, List, Resolve, Truncate, StoreChunk, Rebuilt, PhaseInv, SyncInv, ApartInv
  <1>2. ASSUME UNCHANGED <<slot, cur>>, pc' \notin {"loop", "dispatch", "drain", "compare",
               "delete", "forget"}
        PROVE  JobInv' /\ ApartInv' /\ DeleteInv'
    BY <1>1, <1>2 DEF JobInv, ApartInv, DeleteInv, AllFree
  <1>3. ASSUME UNCHANGED <<local, clock, stores>>,
               Exit \/ (UNCHANGED <<slot, cur>> /\ pc' \in {"resolve", "truncate", "scan"})
        PROVE  SyncInv'
    BY <1>2, <1>3, ExitQuiet, SameStores DEF SyncInv
  <1>4. CASE List
    BY <1>3, <1>4 DEF List
  <1>5. CASE Resolve
    BY <1>3, <1>5 DEF Resolve
  <1>6. CASE Rebuilt
    BY <1>3, <1>6 DEF Rebuilt
  <1>7. ASSUME UNCHANGED <<local, clock, bucket>>,
               \/ Exit /\ UNCHANGED db
               \/ /\ UNCHANGED <<slot, cur>> /\ pc' = "restore"
                  /\ \A f \in Files : \/ db'[RemotePath(f)] = None
                                      \/ db'[RemotePath(f)] = db[RemotePath(f)]
                                      \/ RowOk(f, db'[RemotePath(f)])
        PROVE  SyncInv'
    <2>1. CASE Exit /\ UNCHANGED db
      BY <1>7, <2>1, ExitQuiet DEF stores
    <2>2. CASE /\ UNCHANGED <<slot, cur>> /\ pc' = "restore"
               /\ \A f \in Files : \/ db'[RemotePath(f)] = None
                                   \/ db'[RemotePath(f)] = db[RemotePath(f)]
                                   \/ RowOk(f, db'[RemotePath(f)])
      <3>1. \A f \in Files : db'[RemotePath(f)] # None => RowOk(f, db'[RemotePath(f)])
        BY <2>2 DEF SyncInv, RowInv
      <3>2. RowInv'
        BY <1>7, <3>1 DEF RowInv, RowOk, Past, Known, Current, Accounted, Synced, bucket
      <3>3. ClockInv' /\ ObjectInv' /\ LateInv'
        BY <1>7 DEF SyncInv, ClockInv, ObjectInv, LateInv, Past, Current, Accounted, Synced, bucket
      <3>4. QED
        BY <1>2, <2>2, <3>2, <3>3 DEF SyncInv
    <2>3. QED
      BY <1>7, <2>1, <2>2
  <1>8. CASE Truncate
    BY <1>7, <1>8, Parts DEF Truncate, NoRows
  <1>9. CASE \E c \in SUBSET Keys : StoreChunk(c)
    <2>1. PICK c \in SUBSET Keys : StoreChunk(c)
      BY <1>9
    <2>2. pc = "restore" /\ \A f \in Files : RowOk(f, listing[RemotePath(f)])
      BY <2>1 DEF StoreChunk, ListingInv
    <2>3. QED
      BY <1>7, <2>1, <2>2, Parts DEF StoreChunk
  <1>10. QED
    BY <1>4, <1>5, <1>6, <1>8, <1>9 DEF Rebuild

\* The upload loop: a job starts with what lstat and lookup returned together.
LEMMA UploadFilesSync ==
    ASSUME Careful, TypeOK, PhaseInv, SyncInv, UploadFiles
    PROVE  SyncInv'
  <1> USE DEF folder
  <1>1. CASE Scan
    <2>1. slot = AllFree /\ cur = None
      BY <1>1 DEF Scan, PhaseInv, SyncInv, ApartInv
    <2>2. opts.delete => opts.exclude = {}
      BY <1>1 DEF Scan, TypeOK, Careful
    <2>3. JobInv' /\ ApartInv'
      BY <1>1, <2>1 DEF Scan, JobInv, ApartInv, AllFree
    <2>4. DeleteInv'
      BY <1>1, <2>2 DEF Scan, DeleteInv
    <2>5. QED
      BY <1>1, <2>3, <2>4, SameStores DEF Scan, SyncInv
  <1>2. CASE \E f \in Files : Examine(f)
    <2>1. PICK f \in Files : Examine(f)
      BY <1>2
    <2> DEFINE row == Lookup(RemotePath(f))
               job == [step |-> "start", path |-> f, mtime |-> local[f].mtime,
                       size |-> local[f].content, md5 |-> row.md5,
                       check |-> row.mtime > 0, cUploads |-> 0]
    <2>2. /\ UNCHANGED <<local, clock, stores, opts, scanned, slot, toDelete, touched>>
          /\ pc = "loop" /\ pc' \in {"loop", "dispatch"}
          /\ f \in todo /\ todo' = todo \ {f} /\ f \in scanned /\ cur = None
          /\ \/ cur' = None
             \/ cur' = job /\ pc' = "dispatch"
      BY <2>1 DEF Examine, TypeOK, SyncInv, ApartInv
    <2>3. job \in Job /\ JobOk(job)
      <3>1. job.path = f /\ job.mtime = local[f].mtime /\ job.size = local[f].content
            /\ job.md5 = row.md5 /\ job.step = "start" /\ (job.check => row.mtime > 0)
        OBVIOUS
      <3>2. Pair(f, local[f].content, local[f].mtime)
        BY Parts DEF Pair, Past
      <3>3. db[RemotePath(f)] # None =>
               row = db[RemotePath(f)] /\ RowOk(f, row)
        BY DEF Lookup, SyncInv, RowInv
      <3>4. job.check => db[RemotePath(f)] # None
        BY <3>1 DEF Lookup
      <3>5. \A r \in givenUp : r.key = RemotePath(f) => r.mtime <= local[f].mtime
        BY DEF SyncInv, LateInv, Past
      <3>6. JobOk(job)
        BY <3>1, <3>2, <3>3, <3>4, <3>5 DEF JobOk, RowOk, Past
      <3>7. row.md5 \in Nat /\ row.mtime \in Nat
        BY Parts DEF Lookup
      <3>8. job \in Job
        BY <3>7, Parts DEF Job
      <3>9. QED
        BY <3>6, <3>8
    <2>4. ASSUME NEW j \in Job, JobOk(j) PROVE JobOk(j)'
      BY <2>2, <2>4, SameStores
    <2>5. JobInv'
      <3>1. cur' # None => JobOk(cur)'
        <4>1. PICK j : j = job
          OBVIOUS
        <4>2. JobOk(j)'
          BY <2>3, <2>4, <4>1
        <4>3. QED
          BY <2>2, <4>1, <4>2 DEF JobOk
      <3>2. QED
        BY <2>2, <2>4, <3>1 DEF SyncInv, JobInv, TypeOK
    <2>6. ApartInv'
      <3>1. job.path = f
        OBVIOUS
      <3>2. \A t \in Slots : slot[t] # None => slot[t].path # f
        BY <2>2 DEF SyncInv, ApartInv
      <3>3. QED
        BY <2>2, <3>1, <3>2 DEF SyncInv, ApartInv
    <2>7. DeleteInv'
      BY <2>2 DEF SyncInv, DeleteInv, stores, bucket
    <2>8. QED
      BY <2>2, <2>5, <2>6, <2>7, SameStores DEF SyncInv
  <1>3. CASE \E t \in Slots : Dispatch(t)
    <2>1. PICK t \in Slots : Dispatch(t)
      BY <1>3
    <2>2. cur # None /\ cur \in Job /\ slot' = [slot EXCEPT ![t] = cur] /\ cur' = None
          /\ slot[t] = None /\ pc = "dispatch" /\ pc' = "loop"
          /\ UNCHANGED <<local, clock, stores, opts, scanned, todo, toDelete, touched>>
      BY <2>1 DEF Dispatch, TypeOK
    <2>3. JobInv'
      BY <2>2, SameStores DEF SyncInv, JobInv, TypeOK
    <2>4. ApartInv'
      <3>1. cur'= None /\ slot'[t] = cur /\ \A u \in Slots \ {t} : slot'[u] = slot[u]
        BY <2>2 DEF TypeOK
      <3>2. QED
        BY <2>2, <3>1 DEF SyncInv, ApartInv
    <2>5. DeleteInv'
      BY <2>2 DEF SyncInv, DeleteInv, stores, bucket
    <2>6. QED
      BY <2>2, <2>3, <2>4, <2>5, SameStores DEF SyncInv
  <1>4. CASE LoopEnds
    <2>1. /\ UNCHANGED <<local, clock, stores, opts, scanned, todo, cur, slot, toDelete, touched>>
          /\ pc = "loop" /\ pc' = "drain"
      BY <1>4 DEF LoopEnds
    <2>2. JobInv' /\ ApartInv' /\ DeleteInv'
      BY <2>1, SameStores DEF SyncInv, JobInv, ApartInv, DeleteInv, TypeOK, stores, bucket
    <2>3. QED
      BY <2>1, <2>2, SameStores DEF SyncInv
  <1>5. CASE Drain
    <2>1. CASE Exit
      BY <1>5, <2>1, ExitQuiet DEF Drain
    <2>2. CASE /\ pc' = IF opts.delete THEN "compare" ELSE "uploadDb"
              /\ UNCHANGED <<opts, listing, scanned, todo, cur, slot, failed, toDelete,
                             batch, touched>>
      <3>1. pc = "drain" /\ slot = AllFree /\ cur = None /\ UNCHANGED <<local, clock, stores>>
        BY <1>5 DEF Drain, SyncInv, ApartInv
      <3>2. JobInv' /\ ApartInv'
        BY <2>2, <3>1 DEF JobInv, ApartInv, AllFree
      <3>3. DeleteInv'
        BY <2>2, <3>1 DEF SyncInv, DeleteInv, stores, bucket
      <3>4. QED
        BY <3>1, <3>2, <3>3, SameStores DEF SyncInv
    <2>3. QED
      BY <1>5, <2>1, <2>2 DEF Drain
  <1>6. QED
    BY <1>1, <1>2, <1>3, <1>4, <1>5 DEF UploadFiles

\* A step that touches only the key of one file leaves what is said of the others.
LEMMA OtherFiles ==
    ASSUME UNCHANGED local, NEW key \in Keys,
           \A k \in Keys \ {key} :
              /\ remote'[k] = remote[k] /\ db'[k] = db[k]
              /\ k \in overtaken' <=> k \in overtaken,
           \A r \in givenUp' : r \in givenUp \/ r.key = key,
           NEW f \in Files, RemotePath(f) # key
    PROVE  /\ Keeps(f) /\ db'[RemotePath(f)] = db[RemotePath(f)]
           /\ Accounted(f)' <=> Accounted(f)
           /\ \A j \in Job : j.path = f /\ JobOk(j) => JobOk(j)'
  <1>1. Keeps(f) /\ db'[RemotePath(f)] = db[RemotePath(f)]
    <2>1. RemotePath(f) \in Keys \ {key}
      BY DEF RemotePath, Keys
    <2>2. QED
      BY <2>1 DEF Keeps
  <1>2. Accounted(f)' <=> Accounted(f)
    BY <1>1, KeptAccounted
  <1>3. ASSUME NEW j \in Job, j.path = f, JobOk(j) PROVE JobOk(j)'
    BY <1>1, <1>2, <1>3 DEF JobOk, Pair, Past, Known, Current, Keeps
  <1>4. QED
    BY <1>1, <1>2, <1>3

\* What a worker does to the bucket: it puts what Sent has, changes an mtime or
\* gives up doing either, and never loses what was accounted for, unless the file
\* was changed since main took its size and mtime.
LEMMA WorkerBucket ==
    ASSUME TypeOK, NEW t \in Slots, UpdateMeta(t) \/ Put(t), NEW job, job = slot[t],
           JobOk(job), job \in Job, NEW key, key = RemotePath(job.path)
    PROVE  /\ \A k \in Keys \ {key} :
                 remote'[k] = remote[k] /\ (k \in overtaken' <=> k \in overtaken)
           /\ \A r \in givenUp' \ givenUp :
                 /\ r.key = key /\ r.mtime = job.mtime
                 /\ \/ r.op = "put" /\ r.content \in Sent(job)
                    \/ r.op = "meta" /\ r.content = 0 /\ job.step = "meta"
           /\ \/ remote'[key] = remote[key] /\ (key \in overtaken' <=> key \in overtaken)
              \/ /\ remote[key] # None /\ remote'[key] # None /\ job.step = "meta"
                 /\ (key \in overtaken' <=> key \in overtaken)
                 /\ remote'[key].content = remote[key].content /\ remote'[key].mtime = job.mtime
              \/ /\ remote'[key] # None /\ remote'[key].mtime = job.mtime
                 /\ remote'[key].content \in Sent(job) /\ job.step = "put"
           /\ local[job.path].exists /\ Accounted(job.path) =>
                 \/ Accounted(job.path)'
                 \/ /\ job.size < local[job.path].content
                    /\ job.mtime < local[job.path].mtime
           /\ \A c : /\ slot'[t] # None /\ slot'[t].step = "store" /\ slot'[t].md5 = c
                     /\ job.step = "put"
                     => /\ c \in Sent(job) /\ remote'[key] # None /\ remote'[key].content = c
  <1> DEFINE f == job.path
             file == local[f]
  <1>1. /\ f \in Files /\ key \in Keys /\ job.mtime \in Nat /\ job.size \in Nat
        /\ file.content \in Nat /\ file.mtime \in Nat /\ UNCHANGED local
    BY JobParts, Parts DEF UpdateMeta, Put, WorkerOnly, folder
  <1>2. Pair(f, job.size, job.mtime)
    BY DEF JobOk
  <1>3. \A c \in Sent(job) :
           /\ c \in Nat
           /\ file.exists => c = file.content \/ (c = 0 /\ file.content # job.size)
    BY <1>1 DEF Sent
  <1>4. file.content # job.size /\ file.exists =>
           job.size < file.content /\ job.mtime < file.mtime
    BY <1>1, <1>2 DEF Pair, Past
  <1>5. ASSUME UNCHANGED <<remote, overtaken>> PROVE Accounted(f) => Accounted(f)'
    BY <1>1, <1>5 DEF Accounted, Synced
  <1>6. ASSUME NEW o \in {"put", "meta"}, NEW c \in Nat, NoAnswer(o, {key}, c, job.mtime)
        PROVE  /\ UNCHANGED <<remote, overtaken>>
               /\ \A r \in givenUp' \ givenUp :
                     r.key = key /\ r.mtime = job.mtime /\ r.op = o /\ r.content = c
    <2>1. givenUp' = givenUp \cup
             {[op |-> o, key |-> k, content |-> c, mtime |-> job.mtime, nth |-> faults'] :
                 k \in {key}}
      BY <1>6 DEF NoAnswer
    <2>2. UNCHANGED <<remote, overtaken>>
      BY <1>6 DEF NoAnswer
    <2>3. ASSUME NEW r \in givenUp' \ givenUp
          PROVE  r.key = key /\ r.mtime = job.mtime /\ r.op = o /\ r.content = c
      BY <2>1, <2>3
    <2>4. QED
      BY <2>2, <2>3
  <1>7. ASSUME NEW c \in Sent(job), PutObject(key, c, job.mtime), Answered({key})
        PROVE  /\ \A k \in Keys \ {key} :
                     remote'[k] = remote[k] /\ (k \in overtaken' <=> k \in overtaken)
               /\ givenUp' = givenUp
               /\ remote'[key] # None /\ remote'[key].content = c
               /\ remote'[key].mtime = job.mtime
               /\ file.exists /\ Accounted(f) =>
                     Accounted(f)' \/ (job.size < file.content /\ job.mtime < file.mtime)
    BY <1>1, <1>3, <1>4, <1>7, PutObjectTyped DEF Answered, Accounted, Synced
  <1>8. CASE UpdateMeta(t)
    <2>1. job.step = "meta"
      BY <1>8 DEF UpdateMeta
    <2>2. CASE CopyMeta(key, job.mtime) /\ UNCHANGED <<givenUp, overtaken>>
      <3>1. /\ \A k \in Keys \ {key} : remote'[k] = remote[k]
            /\ \/ remote'[key] = remote[key]
               \/ /\ remote[key] # None /\ remote'[key] # None
                  /\ remote'[key].content = remote[key].content /\ remote'[key].mtime = job.mtime
        BY <1>1, <2>2, CopyMetaTyped
      <3>2. Accounted(f) => Accounted(f)'
        BY <1>1, <2>2, <3>1 DEF Accounted, Synced
      <3>3. QED
        BY <2>1, <2>2, <3>1, <3>2
    <2>3. CASE NoAnswer("meta", {key}, 0, job.mtime)
      BY <1>5, <1>6, <2>1, <2>3
    <2>4. CASE UNCHANGED bucket
      BY <1>5, <2>1, <2>4 DEF bucket
    <2>5. QED
      BY <1>8, <2>2, <2>3, <2>4 DEF UpdateMeta
  <1>9. CASE Put(t)
    <2>1. job.step = "put"
      BY <1>9 DEF Put
    <2>2. CASE \E c \in Sent(job) : /\ PutObject(key, c, job.mtime) /\ Answered({key})
                                    /\ Goto(t, [job EXCEPT !.step = "store", !.md5 = c])
      <3>1. PICK c \in Sent(job) : /\ PutObject(key, c, job.mtime) /\ Answered({key})
                                   /\ Goto(t, [job EXCEPT !.step = "store", !.md5 = c])
        BY <2>2
      <3>2. slot'[t].md5 = c
        <4>1. PICK j : j = [job EXCEPT !.step = "store", !.md5 = c]
          OBVIOUS
        <4>2. j.md5 = c
          BY <4>1 DEF Job
        <4>3. slot'[t] = j
          BY <3>1, <4>1 DEF Goto, TypeOK
        <4>4. QED
          BY <4>2, <4>3
      <3>3. QED
        BY <1>7, <2>1, <3>1, <3>2
    <2>3. CASE RetryOrFail(t, job) \/ WorkerFails(t)
      <3>1. slot'[t] = None \/ slot'[t].step = "put"
        <4>1. CASE Goto(t, [job EXCEPT !.cUploads = @ + 1])
          <5>1. PICK j : j = [job EXCEPT !.cUploads = @ + 1]
            OBVIOUS
          <5>2. j.step = "put"
            BY <2>1, <5>1 DEF Job
          <5>3. slot'[t] = j
            BY <4>1, <5>1 DEF Goto, TypeOK
          <5>4. QED
            BY <5>2, <5>3
        <4>2. QED
          BY <2>3, <4>1 DEF RetryOrFail, WorkerFails, Free, TypeOK
      <3>2. CASE \E c \in Sent(job) : NoAnswer("put", {key}, c, job.mtime)
        <4>1. PICK c \in Sent(job) : NoAnswer("put", {key}, c, job.mtime)
          BY <3>2
        <4>2. /\ UNCHANGED <<remote, overtaken>>
              /\ \A r \in givenUp' \ givenUp :
                    r.key = key /\ r.mtime = job.mtime /\ r.op = "put" /\ r.content = c
          BY <1>3, <1>6, <4>1
        <4>3. QED
          BY <1>5, <2>1, <3>1, <4>2
      <3>3. CASE UNCHANGED bucket
        BY <1>5, <2>1, <3>1, <3>3 DEF bucket
      <3>4. CASE \E c \in Sent(job) : PutObject(key, c, job.mtime) /\ Answered({key})
        BY <1>7, <2>1, <3>1, <3>4
      <3>5. QED
        BY <1>9, <2>2, <3>2, <3>3, <3>4 DEF Put
    <2>4. QED
      BY <1>9, <2>2, <2>3 DEF Put
  <1>10. QED
    BY <1>8, <1>9

\* A worker's step: what it stores is what the bucket accepted, with the mtime
\* that was read before the content.
LEMMA WorkerSync ==
    ASSUME TypeOK, PhaseInv, SyncInv, NEW t \in Slots, Worker(t)
    PROVE  SyncInv'
  <1> USE DEF folder
  <1>0. PICK job : job = slot[t]
    OBVIOUS
  <1> DEFINE f == job.path
             key == RemotePath(f)
             file == local[f]
  <1>1. job \in Job /\ job # None /\ job = slot[t]
    BY <1>0 DEF TypeOK, Worker, Begin, BeginOnMissing, UpdateMeta, Put, Store
  <1>2. /\ f \in Files /\ job.mtime \in Nat /\ job.size \in Nat /\ job.md5 \in Nat
        /\ job.step \in {"start", "meta", "put", "store"} /\ key \in Keys
        /\ file.content \in Nat /\ file.mtime \in Nat /\ f \in scanned
    BY <1>1, JobParts, Parts DEF SyncInv, ApartInv
  <1>3. JobOk(job) /\ Pair(f, job.size, job.mtime) /\ Past(f, job.size, job.mtime) /\ ClockInv
    BY <1>1 DEF SyncInv, JobInv, JobOk, Pair
  <1>4. CASE BeginOnMissing(t)
    BY <1>4, ExitQuiet DEF BeginOnMissing
  <1>5. pc \in {"loop", "dispatch", "drain"}
    BY <1>1 DEF PhaseInv, AllFree
  <1>6. db[key] # None =>
           /\ db[key].md5 \in Nat /\ db[key].mtime \in Nat /\ RowOk(f, db[key])
           /\ db[key].md5 <= job.size /\ db[key].mtime <= job.mtime
    BY <1>2, <1>3, Parts DEF SyncInv, RowInv, JobOk
  \* What remains to be shown of a step that moves or frees this worker.
  <1>7. ASSUME WorkerOnly,
               \A k \in Keys \ {key} :
                  /\ remote'[k] = remote[k] /\ db'[k] = db[k]
                  /\ k \in overtaken' <=> k \in overtaken,
               \A r \in givenUp' \ givenUp :
                  /\ r.key = key /\ r.mtime = job.mtime
                  /\ Past(f, r.content, r.mtime)
                  /\ r.op = "meta" => Current(f, r.mtime)',
               file.exists /\ Accounted(f) =>
                  Accounted(f)' \/ (job.size < file.content /\ job.mtime < file.mtime),
               NEW j, slot' = [slot EXCEPT ![t] = j],
               j = None \/ (j \in Job /\ j.path = f /\ JobOk(j)'),
               remote'[key] # None => /\ Past(f, remote'[key].content, remote'[key].mtime)
                                      /\ Current(f, remote[key].mtime)',
               db'[key] = db[key] \/ RowOk(f, db[key])'
        PROVE  SyncInv'
    <2>1. UNCHANGED <<local, clock, pc, opts, scanned, todo, cur, toDelete, touched>>
      BY <1>7 DEF WorkerOnly
    <2>2. \A g \in Files \ {f} : RemotePath(g) \in Keys \ {key}
      BY <1>2, KeysApart, Parts
    <2>3. slot'[t] = j /\ \A u \in Slots \ {t} : slot'[u] = slot[u]
      BY <1>7 DEF TypeOK
    <2>4. /\ \A g \in Files \ {f} :
                /\ Keeps(g) /\ db'[RemotePath(g)] = db[RemotePath(g)]
                /\ Accounted(g)' <=> Accounted(g)
          /\ \A i \in Job : i.path # f /\ JobOk(i) => JobOk(i)'
      BY <1>2, <1>7, <2>1, <2>2, OtherFiles, JobParts
    <2>5. ClockInv'
      BY <2>1 DEF SyncInv, ClockInv
    <2>6. ObjectInv'
      <3>1. ASSUME NEW g \in Files \ {f}, remote'[RemotePath(g)] # None
            PROVE  /\ Past(g, remote[RemotePath(g)].content, remote[RemotePath(g)].mtime)'
                   /\ Current(g, remote[RemotePath(g)].mtime)'
        BY <2>1, <2>4, <3>1 DEF SyncInv, ObjectInv, Past, Current, Keeps
      <3>2. remote'[key] # None => /\ Past(f, remote[key].content, remote[key].mtime)'
                                   /\ Current(f, remote[key].mtime)'
        BY <1>7, <2>1 DEF Past
      <3>3. QED
        BY <1>2, <3>1, <3>2 DEF ObjectInv
    \* What was known of a content as old as the size stays known.
    <2>7. /\ \A c \in Nat : c <= job.size /\ Known(f, c) => Known(f, c)'
          /\ \A m \in Nat : m <= job.mtime /\ Current(f, m) => Current(f, m)'
      BY <1>2, <1>7, <2>1 DEF Known, Current
    <2>8. RowInv'
      <3>1. RowOk(f, db[key])'
        BY <1>2, <1>6, <1>7, <2>1, <2>7 DEF RowOk, Past
      <3>2. \A g \in Files \ {f} : RowOk(g, db[RemotePath(g)])'
        BY <2>1, <2>4 DEF SyncInv, RowInv, RowOk, Past, Known, Current
      <3>3. QED
        BY <1>2, <3>1, <3>2 DEF RowInv
    <2>9. LateInv'
      <3>1. SUFFICES ASSUME NEW r \in givenUp', NEW g \in Files, r.key = RemotePath(g)
                     PROVE  Past(g, r.content, r.mtime)' /\ (r.op = "meta" => Current(g, r.mtime)')
        BY DEF LateInv
      <3>2. CASE g # f
        <4>1. r \in givenUp /\ (Accounted(g)' <=> Accounted(g))
          BY <2>4, <3>1, <3>2 DEF Keeps
        <4>2. QED
          BY <2>1, <3>1, <4>1 DEF SyncInv, LateInv, Past, Current
      <3>3. CASE g = f /\ r \in givenUp
        <4>1. /\ Past(f, r.content, r.mtime) /\ (r.op = "meta" => Current(f, r.mtime))
              /\ r.mtime \in Nat /\ r.mtime <= job.mtime
          BY <1>2, <1>3, <3>1, <3>3, Parts DEF SyncInv, LateInv, JobOk
        <4>2. QED
          BY <2>1, <2>7, <3>3, <4>1 DEF Past
      <3>4. CASE g = f /\ r \notin givenUp
        BY <1>7, <2>1, <3>4 DEF Past
      <3>5. QED
        BY <3>2, <3>3, <3>4
    <2>10. JobInv'
      <3>1. cur # None => cur.path # f /\ JobOk(cur) /\ cur \in Job
        BY <1>1 DEF SyncInv, ApartInv, JobInv, TypeOK
      <3>2. \A u \in Slots \ {t} : slot[u] # None =>
               slot[u].path # f /\ JobOk(slot[u]) /\ slot[u] \in Job
        BY <1>1 DEF SyncInv, ApartInv, JobInv, TypeOK
      <3>3. cur' # None => JobOk(cur)'
        BY <2>1, <2>4, <3>1 DEF JobOk
      <3>4. \A u \in Slots \ {t} : slot'[u] # None => JobOk(slot[u])'
        BY <2>3, <2>4, <3>2 DEF JobOk
      <3>5. slot'[t] # None => JobOk(slot[t])'
        BY <1>7, <2>3 DEF JobOk
      <3>6. QED
        BY <3>3, <3>4, <3>5 DEF JobInv
    <2>11. ApartInv'
      BY <1>1, <1>7, <2>1, <2>3 DEF SyncInv, ApartInv
    <2>12. DeleteInv'
      BY <1>2, <1>5, <2>1, <2>4 DEF SyncInv, DeleteInv, Keeps
    <2>13. QED
      BY <2>5, <2>6, <2>8, <2>9, <2>10, <2>11, <2>12 DEF SyncInv
  \* The same of a step that leaves the bucket alone.
  <1>8. ASSUME UNCHANGED bucket, WorkerOnly, \A k \in Keys \ {key} : db'[k] = db[k],
               NEW j, slot' = [slot EXCEPT ![t] = j],
               j = None \/ (j \in Job /\ j.path = f /\ JobOk(j)'),
               db'[key] = db[key] \/ RowOk(f, db[key])'
        PROVE  SyncInv'
    <2>1. UNCHANGED <<local, remote, givenUp, overtaken>>
      BY <1>8 DEF bucket, WorkerOnly
    <2>2. Accounted(f) => Accounted(f)'
      BY <2>1 DEF Accounted, Synced
    <2>3. remote'[key] # None => /\ Past(f, remote'[key].content, remote'[key].mtime)
                                 /\ Current(f, remote[key].mtime)'
      BY <1>2, <2>1, <2>2 DEF SyncInv, ObjectInv, Current
    <2>4. QED
      BY <1>7, <1>8, <2>1, <2>2, <2>3
  <1>9. CASE Begin(t)
    <2>1. UNCHANGED <<local, stores>> /\ WorkerOnly /\ job.step = "start"
      BY <1>1, <1>9 DEF Begin, WorkerOnly
    <2>2. PICK m : m = [job EXCEPT !.step = "meta"]
      OBVIOUS
    <2>3. PICK p : p = [job EXCEPT !.step = "put"]
      OBVIOUS
    <2>4. /\ m \in Job /\ m.path = f /\ m.step = "meta" /\ m.size = job.size
          /\ m.mtime = job.mtime /\ m.md5 = job.md5
          /\ p \in Job /\ p.path = f /\ p.step = "put" /\ p.size = job.size
          /\ p.mtime = job.mtime
      BY <1>1, <2>2, <2>3 DEF Job
    <2>5. JobOk(p)
      BY <1>3, <2>4 DEF JobOk
    <2>6. ASSUME Checks(job), file.exists, file.content = job.md5 PROVE JobOk(m)
      <3>1. Accounted(f)
        BY <1>3, <2>1, <2>6 DEF JobOk, Known, Checks
      <3>2. QED
        BY <1>2, <1>3, <2>4, <2>6, <3>1 DEF JobOk, Known, Current
    <2>7. \/ slot' = [slot EXCEPT ![t] = None]
          \/ slot' = [slot EXCEPT ![t] = p]
          \/ /\ slot' = [slot EXCEPT ![t] = m]
             /\ Checks(job) /\ file.exists /\ file.content = job.md5
      BY <1>1, <1>9, <2>2, <2>3 DEF Begin, Free, Goto
    <2>8. PICK j : /\ slot' = [slot EXCEPT ![t] = j]
                   /\ j = None \/ (j \in Job /\ j.path = f /\ JobOk(j)')
      <3>1. UNCHANGED <<local, clock, stores>>
        BY <2>1 DEF WorkerOnly
      <3>2. \A j \in Job : JobOk(j) => JobOk(j)'
        BY <3>1, SameStores
      <3>3. QED
        BY <2>4, <2>5, <2>6, <2>7, <3>2
    <2>9. QED
      BY <1>8, <2>1, <2>8 DEF stores
  <1>10. CASE Store(t)
    <2>1. UNCHANGED <<local, bucket>> /\ WorkerOnly /\ job.step = "store"
          /\ slot' = [slot EXCEPT ![t] = None]
      BY <1>1, <1>10 DEF Store, WorkerOnly, WorkerFails, Free
    <2>2. PICK row : row = [md5 |-> job.md5, mtime |-> Uint32(job.mtime)]
      OBVIOUS
    <2>3. row.md5 = job.md5 /\ row.mtime = Uint32(job.mtime)
      BY <2>2
    <2>4. /\ \A k \in Keys \ {key} : db'[k] = db[k]
          /\ db'[key] = db[key] \/ db'[key] = row
      BY <1>1, <1>2, <1>10, <2>2 DEF Store, TypeOK
    <2>5. RowOk(f, row)
      <3>1. job.md5 <= file.content /\ Known(f, job.md5) /\ Current(f, job.mtime)
            /\ job.mtime <= file.mtime
        BY <1>3, <2>1 DEF JobOk, Past
      <3>2. Uint32(job.mtime) <= file.mtime /\ Current(f, Uint32(job.mtime))
        BY <1>2, <3>1, CurrentUint32
      <3>3. QED
        BY <2>3, <3>1, <3>2 DEF RowOk, Past
    <2>6. db'[key] = db[key] \/ RowOk(f, db[key])'
      BY <2>1, <2>4, <2>5 DEF RowOk, Past, Known, Current, Accounted, Synced, bucket
    <2>7. QED
      BY <1>8, <2>1, <2>4, <2>6
  <1>11. CASE UpdateMeta(t) \/ Put(t)
    <2>1. UNCHANGED <<local, db>> /\ WorkerOnly /\ job.step \in {"meta", "put"}
      BY <1>1, <1>11 DEF UpdateMeta, Put, WorkerOnly
    <2>2. file.exists /\ Accounted(f) =>
             Accounted(f)' \/ (job.size < file.content /\ job.mtime < file.mtime)
      BY <1>1, <1>3, <1>11, WorkerBucket
    <2>3. \A c \in Sent(job) :
             /\ c \in Nat /\ c <= file.content
             /\ file.exists => c = file.content \/ (c = 0 /\ file.content # job.size)
             /\ ~file.exists => c = 0
      BY <1>2 DEF Sent
    \* The mtime of the job is current only if the file is as main found it.
    <2>4. job.step = "meta" => Current(f, job.mtime)'
      BY <1>2, <1>3, <2>1, <2>2 DEF JobOk, Current
    <2>5. ASSUME NEW c \in Sent(job), job.step = "put", remote'[key] # None,
                 remote'[key].content = c
          PROVE  Known(f, c)' /\ Current(f, job.mtime)'
      BY <1>2, <1>3, <2>1, <2>3, <2>5 DEF Pair, Known, Current, Accounted, Synced
    <2>6. remote'[key] # None => /\ Past(f, remote'[key].content, remote'[key].mtime)
                                 /\ Current(f, remote[key].mtime)'
      <3>1. CASE remote'[key] = remote[key] /\ remote[key] # None
        <4>1. Past(f, remote[key].content, remote[key].mtime) /\ Current(f, remote[key].mtime)
          BY <1>2, <3>1 DEF SyncInv, ObjectInv
        <4>2. remote[key].mtime \in Nat
          BY <1>2, <3>1, Parts
        <4>3. CASE file.exists /\ remote[key].mtime = file.mtime
          <5>1. Accounted(f)
            BY <4>1, <4>3 DEF Current
          <5>2. CASE Accounted(f)'
            BY <3>1, <4>1, <5>2 DEF Current
          <5>3. CASE job.size < file.content /\ job.mtime < file.mtime /\ ~Accounted(f)'
            <6>1. key \in overtaken
              BY <1>2, <2>1, <3>1, <5>1, <5>3 DEF Accounted, Synced
            <6>2. key \notin overtaken' /\ job.mtime < file.mtime
              BY <5>3 DEF Accounted
            <6>3. remote'[key].mtime = job.mtime
              BY <1>1, <1>3, <1>11, <6>1, <6>2, WorkerBucket
            <6>4. QED
              BY <1>2, <3>1, <4>3, <6>2, <6>3
          <5>4. QED
            BY <2>2, <4>3, <5>1, <5>2, <5>3
        <4>4. QED
          BY <2>1, <3>1, <4>1, <4>3 DEF Current
      <3>2. CASE /\ remote[key] # None /\ job.step = "meta"
                 /\ remote'[key].content = remote[key].content /\ remote'[key].mtime = job.mtime
        BY <1>2, <1>3, <2>4, <3>2 DEF SyncInv, ObjectInv, Past, Current
      <3>3. CASE /\ remote'[key] # None /\ remote'[key].mtime = job.mtime
                 /\ remote'[key].content \in Sent(job) /\ job.step = "put"
        BY <1>3, <2>3, <2>5, <3>3 DEF Past, Current
      <3>4. QED
        BY <1>1, <1>3, <1>11, <3>1, <3>2, <3>3, WorkerBucket
    <2>7. \A r \in givenUp' \ givenUp :
             /\ r.key = key /\ r.mtime = job.mtime
             /\ Past(f, r.content, r.mtime)
             /\ r.op = "meta" => Current(f, r.mtime)'
      <3>1. SUFFICES ASSUME NEW r \in givenUp' \ givenUp
                     PROVE  /\ r.key = key /\ r.mtime = job.mtime
                            /\ Past(f, r.content, r.mtime)
                            /\ r.op = "meta" => Current(f, r.mtime)'
        OBVIOUS
      <3>2. /\ r.key = key /\ r.mtime = job.mtime
            /\ \/ r.op = "put" /\ r.content \in Sent(job)
               \/ r.op = "meta" /\ r.content = 0 /\ job.step = "meta"
        BY <1>1, <1>3, <1>11, <3>1, WorkerBucket
      <3>3. r.content <= file.content
        BY <1>2, <2>3, <3>2
      <3>4. QED
        BY <1>3, <2>4, <3>2, <3>3 DEF Past, Current
    <2>8. PICK j : slot' = [slot EXCEPT ![t] = j] /\ (j = None \/ j \in Job)
      <3>1. slot' \in [Slots -> Job \cup {None}]
        BY WorkerTyped DEF TypeOK
      <3>2. \A u \in Slots \ {t} : slot'[u] = slot[u]
        BY <1>11, WorkerMoves
      <3>3. QED
        BY <3>1, <3>2 DEF TypeOK
    <2>9. j = slot'[t]
      BY <2>8 DEF TypeOK
    <2>10. j # None => JobOk(j)'
      <3>1. SUFFICES ASSUME j # None PROVE JobOk(j)'
        OBVIOUS
      <3>2. /\ j \in Job /\ j.path = f /\ j.size = job.size /\ j.mtime = job.mtime
            /\ j.step # "start"
        BY <1>1, <1>11, <2>8, <2>9, <3>1, WorkerMoves
      <3>3. Pair(f, j.size, j.mtime)'
        BY <1>3, <2>1, <3>2 DEF Pair, Past
      <3>4. \A r \in givenUp' : r.key = key => r.mtime <= j.mtime
        BY <1>2, <1>3, <2>7, <3>2 DEF JobOk
      <3>5. CASE j.step = "put"
        BY <1>3, <2>1, <3>2, <3>3, <3>4, <3>5 DEF JobOk
      <3>6. CASE job.step = "put" /\ j.step = "store"
        <4>1. j.md5 \in Sent(job) /\ remote'[key] # None /\ remote'[key].content = j.md5
          BY <1>1, <1>3, <1>11, <2>9, <3>1, <3>6, WorkerBucket
        <4>2. Known(f, j.md5)' /\ Current(f, j.mtime)' /\ j.md5 <= local'[f].content
          BY <2>1, <2>3, <2>5, <3>2, <3>6, <4>1
        <4>3. QED
          BY <1>3, <2>1, <3>2, <3>3, <3>4, <3>6, <4>2 DEF JobOk
      <3>7. CASE job.step = "meta" /\ j.step = "store"
        <4>1. j.md5 = job.md5
          <5>1. UpdateMeta(t)
            BY <1>1, <1>11, <3>7 DEF Put
          <5>2. Goto(t, [job EXCEPT !.step = "store"])
            BY <1>1, <2>9, <3>1, <5>1 DEF UpdateMeta, WorkerFails, Free, TypeOK
          <5>3. PICK i : i = [job EXCEPT !.step = "store"]
            OBVIOUS
          <5>4. i.md5 = job.md5
            BY <1>1, <5>3 DEF Job
          <5>5. QED
            BY <2>9, <5>2, <5>3, <5>4 DEF Goto, TypeOK
        <4>2. job.md5 <= file.content /\ Known(f, job.md5)
          BY <1>3, <3>7 DEF JobOk
        <4>3. Current(f, j.mtime)'
          BY <2>4, <3>2, <3>7
        <4>4. Known(f, j.md5)'
          <5>1. file.exists /\ job.md5 = file.content => Accounted(f)
            BY <4>2 DEF Known
          <5>2. Accounted(f) => Accounted(f)'
            BY <1>1, <1>3, <1>11, <2>1, <3>7, WorkerBucket DEF Accounted, Synced
          <5>3. QED
            BY <2>1, <4>1, <5>1, <5>2 DEF Known
        <4>5. QED
          BY <1>3, <2>1, <3>2, <3>3, <3>4, <3>7, <4>1, <4>2, <4>3, <4>4 DEF JobOk
      <3>8. QED
        BY <2>1, <3>2, <3>5, <3>6, <3>7, <1>1, <1>11, <2>9, <3>1, WorkerMoves, JobParts
    <2>11. \A k \in Keys \ {key} :
              /\ remote'[k] = remote[k] /\ db'[k] = db[k]
              /\ k \in overtaken' <=> k \in overtaken
      BY <1>1, <1>3, <1>11, <2>1, WorkerBucket
    <2>12. j = None \/ (j \in Job /\ j.path = f /\ JobOk(j)')
      BY <1>1, <1>11, <2>8, <2>9, <2>10, WorkerMoves
    <2>13. QED
      BY <1>7, <2>1, <2>2, <2>6, <2>7, <2>8, <2>11, <2>12
  <1>12. QED
    BY <1>4, <1>9, <1>10, <1>11 DEF Worker

\* The tail: what a batch erases is not in the folder, or was created since the
\* scan with a content and an mtime that nothing before it had.
LEMMA TailSync ==
    ASSUME Careful, TypeOK, PhaseInv, SyncInv, DeleteFiles \/ UploadDatabase
    PROVE  SyncInv'
  <1> USE DEF folder
  <1>1. slot = AllFree /\ cur = None /\ pc \in {"compare", "delete", "forget", "uploadDb"}
    BY DEF DeleteFiles, Compare, DeleteBatch, Forget, Deleted, UploadDatabase, PhaseInv,
           SyncInv, ApartInv
  <1>2. ASSUME UNCHANGED <<slot, cur>>, pc' # "dispatch" PROVE JobInv' /\ ApartInv'
    BY <1>1, <1>2 DEF JobInv, ApartInv, AllFree
  <1>3. CASE Compare
    <2>1. CASE Exit
      BY <1>3, <2>1, ExitQuiet DEF Compare
    <2>2. CASE /\ toDelete' \subseteq {k \in Keys : db[k] # None}
                                         \ {LocalName(f) : f \in scanned \cup {Database}}
               /\ pc' = "delete"
               /\ UNCHANGED <<opts, scanned, cur, slot, touched>>
      <3>1. UNCHANGED <<local, clock, stores>> /\ pc = "compare"
        BY <1>3 DEF Compare
      <3>2. DeleteInv'
        BY <2>2, <3>1 DEF SyncInv, DeleteInv, stores, bucket
      <3>3. QED
        BY <1>2, <2>2, <3>1, <3>2, SameStores DEF SyncInv
    <2>3. QED
      BY <1>3, <2>1, <2>2 DEF Compare
  <1>4. CASE \E b \in SUBSET Keys : DeleteBatch(b)
    <2>1. PICK b \in SUBSET Keys : DeleteBatch(b)
      BY <1>4
    <2>2. /\ UNCHANGED <<local, clock, db, opts, scanned, cur, slot, touched>>
          /\ pc = "delete" /\ pc' \in {"delete", "forget", "uploadDb"}
          /\ toDelete' \subseteq toDelete /\ b \subseteq toDelete
      BY <2>1 DEF DeleteBatch, Chunks
    <2>3. /\ \A k \in Keys :
                \/ remote'[k] = remote[k] /\ (k \in overtaken' <=> k \in overtaken)
                \/ remote'[k] = None /\ k \in b
          /\ \A r \in givenUp' \ givenUp : r.op = "delete" /\ r.content = 0 /\ r.mtime = 0
      <3>1. ASSUME NEW done \in SUBSET b, Erase(done), Answered(done)
            PROVE  /\ \A k \in Keys :
                         \/ remote'[k] = remote[k] /\ (k \in overtaken' <=> k \in overtaken)
                         \/ remote'[k] = None /\ k \in b
                   /\ givenUp' = givenUp
        BY <3>1 DEF Erase, Answered
      <3>2. CASE NoAnswer("delete", b, 0, 0)
        <4>1. givenUp' = givenUp \cup
                 {[op |-> "delete", key |-> k, content |-> 0, mtime |-> 0, nth |-> faults'] :
                     k \in b}
          BY <3>2 DEF NoAnswer
        <4>2. UNCHANGED <<remote, overtaken>>
          BY <3>2 DEF NoAnswer
        <4>3. QED
          BY <4>1, <4>2
      <3>3. CASE UNCHANGED bucket
        BY <3>3 DEF bucket
      <3>4. QED
        BY <2>1, <3>1, <3>2, <3>3 DEF DeleteBatch
    \* A file whose object goes: nothing left behind has its content or its mtime.
    <2>4. ASSUME NEW f \in Files, local[f].exists, Accounted(f), ~Accounted(f)'
          PROVE  /\ remote'[RemotePath(f)] = None
                 /\ LET row == db[RemotePath(f)]
                    IN  row # None => row.md5 # local[f].content /\ row.mtime # local[f].mtime
                 /\ \A r \in givenUp :
                       r.key = RemotePath(f) /\ r.op = "meta" => r.mtime # local[f].mtime
      <3>1. RemotePath(f) \in Keys
        BY Parts
      <3>2. remote'[RemotePath(f)] = None /\ RemotePath(f) \in b
        BY <2>2, <2>3, <2>4, <3>1 DEF Accounted, Synced
      <3>3. opts.delete /\ opts \in Invocations
        BY <2>2 DEF SyncInv, DeleteInv, TypeOK
      <3>4. RemotePath(f) = LocalName(f)
        BY <3>3 DEF Careful, RemotePath, LocalName
      <3>5. f \notin scanned
        BY <2>2, <3>2, <3>4 DEF SyncInv, DeleteInv
      <3>6. QED
        BY <2>2, <2>4, <3>2, <3>3, <3>5 DEF SyncInv, DeleteInv
    <2>5. ObjectInv'
      <3>1. SUFFICES ASSUME NEW f \in Files, remote'[RemotePath(f)] # None
                     PROVE  /\ Past(f, remote[RemotePath(f)].content, remote[RemotePath(f)].mtime)'
                            /\ Current(f, remote[RemotePath(f)].mtime)'
        BY DEF ObjectInv, Past, Current
      <3>2. remote'[RemotePath(f)] = remote[RemotePath(f)]
        BY <2>3, <3>1, Parts
      <3>3. QED
        BY <2>2, <2>4, <3>1, <3>2 DEF SyncInv, ObjectInv, Past, Current
    <2>6. RowInv'
      BY <2>2, <2>4 DEF SyncInv, RowInv, RowOk, Past, Known, Current
    <2>7. LateInv'
      <3>1. SUFFICES ASSUME NEW r \in givenUp', NEW f \in Files, r.key = RemotePath(f)
                     PROVE  Past(f, r.content, r.mtime)' /\ (r.op = "meta" => Current(f, r.mtime)')
        BY DEF LateInv
      <3>2. CASE r \in givenUp
        BY <2>2, <2>4, <3>1, <3>2 DEF SyncInv, LateInv, Past, Current
      <3>3. CASE r \notin givenUp
        BY <2>2, <2>3, <3>3, Parts DEF Past
      <3>4. QED
        BY <3>2, <3>3
    <2>8. DeleteInv'
      BY <2>2, <2>3 DEF SyncInv, DeleteInv
    <2>9. ClockInv'
      BY <2>2 DEF SyncInv, ClockInv
    <2>10. QED
      BY <1>2, <2>2, <2>5, <2>6, <2>7, <2>8, <2>9 DEF SyncInv
  <1>5. CASE Forget
    <2>1. /\ UNCHANGED <<local, clock, remote, givenUp, overtaken, opts, scanned, cur, slot,
                         toDelete, touched>>
          /\ pc = "forget" /\ pc' = "delete"
      BY <1>5 DEF Forget, bucket
    <2>2. \A k \in Keys : db'[k] = db[k] \/ db'[k] = None
      BY <1>5 DEF Forget
    <2>3. ClockInv' /\ ObjectInv' /\ LateInv'
      BY <2>1 DEF SyncInv, ClockInv, ObjectInv, LateInv, Past, Current, Accounted, Synced
    <2>4. RowInv'
      BY <2>1, <2>2, Parts DEF SyncInv, RowInv, RowOk, Past, Known, Current, Accounted, Synced
    <2>5. DeleteInv'
      BY <2>1, <2>2, Parts DEF SyncInv, DeleteInv
    <2>6. QED
      BY <1>2, <2>1, <2>3, <2>4, <2>5 DEF SyncInv
  <1>6. CASE Deleted
    <2>1. CASE Exit
      BY <1>6, <2>1, ExitQuiet DEF Deleted
    <2>2. CASE pc' = "uploadDb" /\ UNCHANGED <<opts, scanned, cur, slot, toDelete, touched>>
      <3>1. UNCHANGED <<local, clock, stores>>
        BY <1>6 DEF Deleted
      <3>2. DeleteInv'
        BY <2>2, <3>1 DEF DeleteInv
      <3>3. QED
        BY <1>2, <2>2, <3>1, <3>2, SameStores DEF SyncInv
    <2>3. QED
      BY <1>6, <2>1, <2>2 DEF Deleted
  <1>7. CASE UploadDatabase
    BY <1>7, ExitSync, DatabaseKeeps DEF UploadDatabase
  <1>8. QED
    BY <1>3, <1>4, <1>5, <1>6, <1>7 DEF DeleteFiles

\* The rows of a rebuild: what the pages and the HEADs say is no newer than the file.
LEMMA ListingStep ==
    ASSUME Careful, TypeOK, PhaseInv, SyncInv, ListingInv, [Next]_vars
    PROVE  ListingInv'
  <1> USE DEF folder
  <1>1. \A f \in Files : RemotePath(f) \in Keys
    BY Parts
  <1>2. CASE pc' \notin {"resolve", "truncate", "restore"}
    <2>1. listing' = NoRows
      BY <1>2, TypedStep DEF PhaseInv
    <2>2. QED
      BY <1>1, <2>1 DEF NoRows, ListingInv, RowOk
  \* What remains to be shown of a step that accounts for no file less.
  <1>3. ASSUME UNCHANGED local, \A f \in Files : Accounted(f) => Accounted(f)',
               \A f \in Files : LET row == listing'[RemotePath(f)]
                                IN  row # None =>
                                       /\ pc' # "resolve" => RowOk(f, row)
                                       /\ row.md5 <= local[f].content /\ Known(f, row.md5)
        PROVE  ListingInv'
    BY <1>3 DEF ListingInv, RowOk, Past, Known, Current
  <1>4. ASSUME UNCHANGED <<stores, local>> PROVE \A f \in Files : Accounted(f) => Accounted(f)'
    BY <1>4 DEF Accounted, Synced, stores, bucket
  <1>5. ASSUME NEW f \in Files, Edit(f) PROVE ListingInv'
    <2>1. UNCHANGED <<listing, pc>> /\ ClockInv
      BY <1>5, CarefulEdit DEF process, SyncInv
    <2>2. ASSUME NEW g \in Files, listing[RemotePath(g)] # None,
                 NEW c \in Nat, c = listing[RemotePath(g)].md5,
                 NEW m \in Nat, m = listing[RemotePath(g)].mtime
          PROVE  /\ pc # "resolve" => /\ Past(g, c, m)'
                                      /\ Known(g, c)' /\ Current(g, m)'
                 /\ c <= local'[g].content /\ Known(g, c)'
      BY <1>5, <2>1, <2>2, EditOld DEF ListingInv, RowOk, Past
    <2>3. ASSUME NEW g \in Files, listing[RemotePath(g)] # None
          PROVE  /\ pc # "resolve" => RowOk(g, listing[RemotePath(g)])'
                 /\ listing[RemotePath(g)].md5 <= local'[g].content
                 /\ Known(g, listing[RemotePath(g)].md5)'
      <3>1. PICK c \in Nat, m \in Nat :
               c = listing[RemotePath(g)].md5 /\ m = listing[RemotePath(g)].mtime
        BY <1>1, <2>3, Parts
      <3>2. QED
        BY <2>1, <2>2, <2>3, <3>1 DEF RowOk, Past, Known, Current
    <2>4. QED
      BY <2>1, <2>3 DEF ListingInv, RowOk, Past, Known, Current
  <1>6. ASSUME NEW r \in givenUp, Arrive(r) PROVE ListingInv'
    <2>1. UNCHANGED <<local, listing, pc>> /\ \A f \in Files : Accounted(f) => Accounted(f)'
      BY <1>6, ArriveEffect DEF process
    <2>2. QED
      BY <1>3, <2>1 DEF ListingInv
  <1>7. CASE List /\ pc' = "resolve"
    <2>1. UNCHANGED <<stores, local>>
      BY <1>7 DEF List
    <2>2. ASSUME NEW f \in Files, listing'[RemotePath(f)] # None
          PROVE  /\ listing'[RemotePath(f)].md5 <= local[f].content
                 /\ Known(f, listing'[RemotePath(f)].md5)
      <3>1. /\ remote[RemotePath(f)] # None
            /\ listing'[RemotePath(f)].md5 = remote[RemotePath(f)].content
        BY <1>1, <1>7, <2>2 DEF List, Exit, NoRows
      <3>2. QED
        BY <3>1 DEF SyncInv, ObjectInv, Past, Known, Accounted, Synced
    <2>3. QED
      BY <1>3, <1>4, <1>7, <2>1, <2>2
  <1>8. CASE Resolve /\ pc' \in {"resolve", "truncate", "restore"}
    <2>1. UNCHANGED <<stores, local>> /\ pc' = "truncate" /\ pc = "resolve"
      BY <1>8 DEF Resolve, Exit
    <2>2. ASSUME NEW f \in Files, listing'[RemotePath(f)] # None
          PROVE  /\ RowOk(f, listing'[RemotePath(f)])
                 /\ listing'[RemotePath(f)].md5 <= local[f].content
                 /\ Known(f, listing'[RemotePath(f)].md5)
      <3>1. /\ listing[RemotePath(f)] # None /\ remote[RemotePath(f)] # None
            /\ listing'[RemotePath(f)].md5 = listing[RemotePath(f)].md5
            /\ listing'[RemotePath(f)].mtime = Uint32(remote[RemotePath(f)].mtime)
        BY <1>1, <1>8, <2>1, <2>2 DEF Resolve, Exit, Listed
      <3>2. PICK m \in Nat : m = remote[RemotePath(f)].mtime
        BY <1>1, <3>1, Parts
      <3>3. m <= local[f].mtime /\ Current(f, m)
        BY <3>1, <3>2 DEF SyncInv, ObjectInv, Past
      <3>4. Uint32(m) <= local[f].mtime /\ Current(f, Uint32(m))
        BY <3>3, CurrentUint32
      <3>5. QED
        BY <3>1, <3>2, <3>4 DEF ListingInv, RowOk, Past
    <2>3. QED
      BY <1>3, <1>4, <2>1, <2>2
  <1>9. CASE /\ Truncate \/ UNCHANGED vars \/ \E c \in SUBSET Keys : StoreChunk(c)
             /\ pc' \in {"resolve", "truncate", "restore"}
    <2>1. /\ UNCHANGED <<local, remote, overtaken>>
          /\ \A k \in Keys : listing'[k] = listing[k] \/ listing'[k] = None
          /\ pc' # "resolve" => pc # "resolve"
      BY <1>9 DEF Truncate, StoreChunk, Exit, vars, process, stores, bucket
    <2>2. \A f \in Files : Accounted(f) => Accounted(f)'
      BY <2>1 DEF Accounted, Synced
    <2>3. QED
      BY <1>1, <1>3, <2>1, <2>2 DEF ListingInv
  <1>10. CASE pc' \in {"resolve", "truncate", "restore"}
    <2>1. ~Crash /\ ~Rebuilt /\ ~UploadFiles /\ ~DeleteFiles /\ ~UploadDatabase
          /\ \A o \in Invocations : ~Start(o)
      BY <1>10
      DEF Crash, Exit, Rebuilt, UploadFiles, Scan, Examine, Dispatch, LoopEnds, Drain, DeleteFiles,
          Compare, DeleteBatch, Forget, Deleted, UploadDatabase, Start, AfterRebuild
    <2>2. \A t \in Slots : ~Worker(t)
      <3>1. SUFFICES ASSUME NEW t \in Slots, Worker(t) PROVE FALSE
        OBVIOUS
      <3>2. slot # AllFree
        BY <3>1 DEF Worker, Begin, BeginOnMissing, UpdateMeta, Put, Store, AllFree
      <3>3. pc \in {"loop", "dispatch", "drain"}
        BY <3>2 DEF PhaseInv
      <3>4. pc' = pc \/ pc' = "idle"
        BY <3>1 DEF Worker, Begin, BeginOnMissing, UpdateMeta, Put, Store, WorkerOnly, Exit
      <3>5. QED
        BY <1>10, <3>3, <3>4
    <2>3. QED
      BY <1>5, <1>6, <1>7, <1>8, <1>9, <1>10, <2>1, <2>2 DEF Next, Main, Rebuild, List, Exit
  <1>11. QED
    BY <1>2, <1>10

\* Every step of a careful user's world keeps the invariant.
LEMMA SyncStep ==
    ASSUME Careful, TypeOK, PhaseInv, SyncInv, ListingInv, [Next]_vars
    PROVE  SyncInv'
  <1>1. ASSUME NEW o \in Invocations, Start(o) PROVE SyncInv'
    <2>1. /\ UNCHANGED <<local, clock, stores, scanned, todo, cur, slot, toDelete, touched>>
          /\ pc' \in {"list", "scan", "idle"} /\ slot = AllFree /\ cur = None
      BY <1>1 DEF Start, AfterRebuild, folder, PhaseInv, SyncInv, ApartInv
    <2>2. JobInv' /\ ApartInv' /\ DeleteInv'
      BY <2>1 DEF JobInv, ApartInv, DeleteInv, AllFree
    <2>3. QED
      BY <2>1, <2>2, SameStores DEF SyncInv
  <1>2. CASE Crash
    BY <1>2, ExitQuiet DEF Crash, folder
  <1>3. CASE UNCHANGED vars
    <2>1. UNCHANGED <<local, clock, stores, pc, opts, scanned, todo, cur, slot, toDelete, touched>>
      BY <1>3 DEF vars, folder, process
    <2>2. JobInv'
      BY <2>1, SameStores DEF SyncInv, JobInv, TypeOK
    <2>3. ApartInv' /\ DeleteInv'
      BY <2>1 DEF SyncInv, ApartInv, DeleteInv, stores, bucket
    <2>4. QED
      BY <2>1, <2>2, <2>3, SameStores DEF SyncInv
  <1>4. QED
    BY <1>1, <1>2, <1>3, EditSync, ArriveSync, RebuildSync, UploadFilesSync, WorkerSync, TailSync
    DEF Next, Main

\* Before the first invocation the bucket and the database are empty.
LEMMA SyncInit == Init => SyncInv /\ ListingInv
  <1> SUFFICES ASSUME Init PROVE SyncInv /\ ListingInv
    OBVIOUS
  <1>1. ClockInv
    <2>1. PICK e \in [Files -> BOOLEAN], m \in [Files -> StartMtimes] :
             local = [f \in Files |-> [exists |-> e[f], content |-> 1, mtime |-> m[f]]]
      BY DEF Init
    <2>2. \A f \in Files : local[f].content = 1 /\ local[f].mtime \in {0, 1}
      BY <2>1
    <2>3. QED
      BY <2>2 DEF Init, ClockInv
  <1>2. \A f \in Files : /\ remote[RemotePath(f)] = None /\ db[RemotePath(f)] = None
                       /\ listing[RemotePath(f)] = None
    BY DEF Init, NoProcess, NoRows, RemotePath, Keys
  <1>3. ObjectInv /\ RowInv /\ ListingInv /\ LateInv
    BY <1>2 DEF Init, ObjectInv, RowInv, RowOk, ListingInv, LateInv
  <1>4. JobInv /\ ApartInv /\ DeleteInv
    BY DEF Init, NoProcess, JobInv, ApartInv, DeleteInv, AllFree
  <1>5. QED
    BY <1>1, <1>3, <1>4 DEF SyncInv

\* The invariants together are inductive.
LEMMA Invariant == Careful => (Spec => [](TypeOK /\ PhaseInv /\ SyncInv /\ ListingInv))
  <1> SUFFICES ASSUME Careful PROVE Spec => [](TypeOK /\ PhaseInv /\ SyncInv /\ ListingInv)
    OBVIOUS
  <1>1. Init => TypeOK /\ PhaseInv /\ SyncInv /\ ListingInv
    BY TypedInit, SyncInit
  <1>2. (TypeOK /\ PhaseInv /\ SyncInv /\ ListingInv) /\ [Next]_vars
           => (TypeOK /\ PhaseInv /\ SyncInv /\ ListingInv)'
    BY TypedStep, SyncStep, ListingStep
  <1>3. QED
    BY <1>1, <1>2, PTL DEF Spec

\* Of careful users, for any number of files, threads, edits, crashes, lost replies
\* and requests performed late: a file that the loop of uploadFiles would skip is in
\* the bucket, or a request given up came after what clarc was last told.
THEOREM SkipsAreSound == Careful => (Spec => []SkipIsSound)
  <1>1. TypeOK /\ SyncInv => SkipIsSound
    <2> SUFFICES ASSUME TypeOK, SyncInv, NEW f \in Files, local[f].exists,
                        NotChanged(f, Lookup(RemotePath(f)))
                 PROVE  Accounted(f)
      BY DEF SkipIsSound
    <2>1. db[RemotePath(f)] # None /\ db[RemotePath(f)].mtime = local[f].mtime
      BY DEF NotChanged, Lookup
    <2>2. QED
      BY <2>1 DEF SyncInv, RowInv, RowOk, Current
  <1>2. QED
    BY <1>1, Invariant, PTL

\* Of careful users: the metadata shortcut of runOverThread is taken only when
\* the bucket has the content already, as far as clarc was told.
THEOREM ShortcutIsSound == Careful => (Spec => []KnownIsSynced)
  <1>1. SyncInv => KnownIsSynced
    BY DEF SyncInv, RowInv, RowOk, Known, KnownIsSynced
  <1>2. QED
    BY <1>1, Invariant, PTL

\* No worker ever removes an object.
LEMMA WorkerKeeps ==
    ASSUME TypeOK, NEW t \in Slots, Worker(t), NEW k \in Keys, remote[k] # None
    PROVE  remote'[k] # None
  <1> DEFINE job == slot[t]
             key == RemotePath(job.path)
  <1>1. job \in Job
    BY DEF TypeOK, Worker, Begin, BeginOnMissing, UpdateMeta, Put, Store
  <1>2. job.path \in Files /\ job.mtime \in Nat /\ key \in Keys
    BY <1>1, JobParts, Parts
  <1>3. CASE UNCHANGED remote
    BY <1>3
  <1>4. CASE CopyMeta(key, job.mtime)
    BY <1>2, <1>4, CopyMetaTyped
  <1>5. CASE \E c \in Sent(job) : PutObject(key, c, job.mtime)
    <2>1. PICK c \in Sent(job) : PutObject(key, c, job.mtime)
      BY <1>5
    <2>2. c \in Nat
      BY <1>2, Parts DEF Sent
    <2>3. QED
      BY <1>2, <2>1, <2>2, PutObjectTyped
  <1>6. QED
    BY <1>3, <1>4, <1>5
    DEF Worker, Begin, BeginOnMissing, UpdateMeta, Put, Store, stores, bucket, NoAnswer

\* Of careful users: no step of any invocation erases the object of a file that
\* was in the folder when the invocation scanned it and was not touched since, but
\* for the requests given up before.
THEOREM DeletionsAreRight == Careful => (Spec => DeletesOnlyLocallyDeleted)
  <1> SUFFICES ASSUME Careful PROVE Spec => DeletesOnlyLocallyDeleted
    OBVIOUS
  <1>1. TypeOK /\ PhaseInv /\ SyncInv /\ [Next]_vars =>
           \A f \in Files : local[f].exists /\ f \notin touched /\ remote[RemotePath(f)] # None
              => Late \/ remote'[RemotePath(f)] # None
    <2>1. SUFFICES ASSUME TypeOK, PhaseInv, SyncInv, [Next]_vars,
                          NEW f \in Files, local[f].exists, f \notin touched,
                          remote[RemotePath(f)] # None, ~Late
                   PROVE  remote'[RemotePath(f)] # None
      OBVIOUS
    <2>2. RemotePath(f) \in Keys
      BY DEF RemotePath, Keys
    <2>3. CASE UNCHANGED remote
      BY <2>1, <2>3
    <2>4. ASSUME NEW b \in SUBSET Keys, DeleteBatch(b) PROVE remote'[RemotePath(f)] # None
      <3>1. b \subseteq toDelete /\ pc = "delete"
        BY <2>4 DEF DeleteBatch, Chunks
      <3>2. opts.delete /\ f \in scanned /\ Folder = ""
        BY <2>1, <3>1 DEF SyncInv, DeleteInv, TypeOK, Careful
      <3>3. RemotePath(f) \notin b
        BY <2>1, <3>1, <3>2 DEF SyncInv, DeleteInv, RemotePath, LocalName
      <3>4. QED
        BY <2>1, <2>2, <2>4, <3>3 DEF DeleteBatch, Erase, NoAnswer, bucket
    <2>5. ASSUME NEW t \in Slots, Worker(t) PROVE remote'[RemotePath(f)] # None
      BY <2>1, <2>2, <2>5, WorkerKeeps
    <2>6. CASE UploadDatabase
      BY <2>1, <2>6, DatabaseKeeps DEF Keeps
    <2>7. QED
      BY <2>1, <2>3, <2>4, <2>5, <2>6
      DEF Next, Late, vars, folder, stores, bucket, Edit, Fresh, Touch, Remove, Racy, Revert,
          Restore, Edited, Start, Crash, Main, Rebuild, List, Resolve, Truncate, StoreChunk,
          Rebuilt, UploadFiles, Scan, Examine, Dispatch, LoopEnds, Drain, DeleteFiles, Compare,
          Forget, Deleted
  <1>2. QED
    BY <1>1, Invariant, PTL DEF Spec, DeletesOnlyLocallyDeleted

(***************************************************************************)
(* Clarc implements Mirror, for any files, slots, bounds, faults and       *)
(* command lines of a careful user.                                        *)
(***************************************************************************)
\* A process that ends keeps what is said of jobs and of the files edited.
LEMMA ExitTouch == ASSUME Exit PROVE TouchInv'
  BY DEF Exit, TouchInv, AllFree

\* So does a step that leaves files and edits alone, if its jobs were watched.
LEMMA WatchedJobs ==
    ASSUME TouchInv, UNCHANGED <<local, touched>>, pc # "idle",
           cur' # None => Watched(cur'),
           \A t \in Slots : slot'[t] # None => Watched(slot'[t]), pc' # "idle"
    PROVE  TouchInv'
  <1>1. \A j : Watched(j) => Watched(j)'
    BY DEF Watched
  <1>2. QED
    BY DEF TouchInv, Watched

\* An edit touches the file, and nothing else.
LEMMA EditTouch ==
    ASSUME TypeOK, PhaseInv, SyncInv, TouchInv, NEW f \in Files, Edit(f)
    PROVE  TouchInv'
  <1>1. /\ UNCHANGED <<pc, cur, slot>>
        /\ touched' = IF pc = "idle" THEN {} ELSE touched \cup {f}
    BY DEF Edit, Fresh, Touch, Remove, Racy, Revert, Restore, Edited, process
  <1>2. \A g \in Files \ {f} : local'[g] = local[g]
    BY DEF Edit, Fresh, Touch, Remove, Racy, Revert, Restore, Edited, TypeOK
  <1>3. CASE pc = "idle"
    BY <1>1, <1>3 DEF PhaseInv, SyncInv, ApartInv, AllFree, TouchInv
  <1>4. CASE pc # "idle"
    <2>1. \A j \in Job : Watched(j) => Watched(j)'
      BY <1>1, <1>2, <1>4, JobParts DEF Watched
    <2>2. /\ cur # None => cur \in Job
          /\ \A t \in Slots : slot[t] # None => slot[t] \in Job
      BY DEF TypeOK
    <2>3. /\ cur # None => Watched(cur)'
          /\ \A t \in Slots : slot[t] # None => Watched(slot[t])'
      BY <1>1, <2>1, <2>2 DEF TouchInv, Watched
    <2>4. QED
      BY <1>1, <1>4, <2>3 DEF TouchInv, Watched
  <1>5. QED
    BY <1>3, <1>4

\* A worker keeps what its job says of the file.
LEMMA WorkerTouch ==
    ASSUME TypeOK, PhaseInv, TouchInv, NEW t \in Slots, Worker(t)
    PROVE  TouchInv'
  <1>1. CASE BeginOnMissing(t)
    BY <1>1, ExitTouch DEF BeginOnMissing
  <1>2. CASE Begin(t) \/ UpdateMeta(t) \/ Put(t) \/ Store(t)
    <2>1. /\ slot[t] # None /\ WorkerOnly
          /\ \A u \in Slots \ {t} : slot'[u] = slot[u]
          /\ slot'[t] # None =>
                /\ slot'[t].path = slot[t].path
                /\ slot'[t].size = slot[t].size /\ slot'[t].mtime = slot[t].mtime
      BY <1>2, WorkerMoves
    <2>2. Watched(slot[t]) /\ (slot'[t] # None => Watched(slot'[t]))
      BY <2>1 DEF TouchInv, Watched
    <2>3. UNCHANGED <<local, touched, pc, cur>> /\ pc # "idle"
      BY <2>1 DEF WorkerOnly, folder, PhaseInv, AllFree
    <2>4. QED
      BY <2>1, <2>2, <2>3, WatchedJobs DEF TouchInv
  <1>3. QED
    BY <1>1, <1>2 DEF Worker

\* The main thread takes size and mtime of a file that is there.
LEMMA MainTouch ==
    ASSUME TypeOK, PhaseInv, TouchInv, Main
    PROVE  TouchInv'
  <1> USE DEF folder
  <1>1. CASE Exit
    BY <1>1, ExitTouch
  <1>2. CASE /\ UNCHANGED <<local, touched>> /\ pc # "idle" /\ pc' # "idle"
             /\ UNCHANGED <<cur, slot>>
    BY <1>2, WatchedJobs DEF TouchInv
  <1>3. ASSUME NEW f \in Files, Examine(f) PROVE TouchInv'
    <2>1. UNCHANGED <<local, touched, slot>> /\ pc = "loop" /\ pc' \in {"loop", "dispatch"}
      BY <1>3 DEF Examine
    <2>2. UNCHANGED cur \/ Watched(cur')
      BY <1>3 DEF Examine, Watched
    <2>3. QED
      BY <2>1, <2>2, WatchedJobs DEF TouchInv
  <1>4. ASSUME NEW t \in Slots, Dispatch(t) PROVE TouchInv'
    <2>1. UNCHANGED <<local, touched>> /\ pc = "dispatch" /\ pc' = "loop"
      BY <1>4 DEF Dispatch
    <2>2. cur' = None /\ cur # None /\ \A u \in Slots : slot'[u] = IF u = t THEN cur ELSE slot[u]
      BY <1>4 DEF Dispatch, TypeOK
    <2>3. QED
      BY <2>1, <2>2, WatchedJobs DEF TouchInv
  <1>5. QED
    BY <1>1, <1>2, <1>3, <1>4
    DEF Main, Rebuild, List, Resolve, Truncate, StoreChunk, Rebuilt, UploadFiles, Scan, LoopEnds,
        Drain, DeleteFiles, Compare, DeleteBatch, Forget, Deleted, UploadDatabase

\* Every step keeps what is said of jobs and of the files edited.
LEMMA TouchStep ==
    ASSUME TypeOK, PhaseInv, SyncInv, TouchInv, [Next]_vars
    PROVE  TouchInv'
  <1>1. ASSUME NEW o \in Invocations, Start(o) PROVE TouchInv'
    BY <1>1 DEF Start, AfterRebuild, PhaseInv, SyncInv, ApartInv, TouchInv, AllFree, folder,
                stores
  <1>2. CASE Crash
    BY <1>2, ExitTouch DEF Crash
  <1>3. CASE UNCHANGED vars \/ \E r \in givenUp : Arrive(r)
    BY <1>3 DEF vars, folder, process, Arrive, TouchInv, Watched
  <1>4. QED
    BY <1>1, <1>2, <1>3, EditTouch, WorkerTouch, MainTouch DEF Next

(***************************************************************************)
(* The refinement.                                                         *)
(***************************************************************************)
Contents == Nat \ {0}
FileOf(f) == IF local[f].exists THEN local[f].content ELSE None
ObjectOf(f) ==
    IF remote[RemotePath(f)] = None THEN None ELSE remote[RemotePath(f)].content
LateOf ==
    {<<p[1], ContentOf(p[2])>> :
        p \in {q \in Files \X givenUp : q[2].key = RemotePath(q[1]) /\ q[2].op # "meta"}}

\* A request that may still make c the object of f.
Makes(r, f, c) == r.key = RemotePath(f) /\ r.op # "meta" /\ c = ContentOf(r)

\* The changes Mirror holds to be under way are those of the requests given up.
LEMMA LatePairs ==
    /\ \A f \in Files : \A c : <<f, c>> \in LateOf <=> \E r \in givenUp : Makes(r, f, c)
    /\ \A p \in LateOf : \E f \in Files, c \in {p[2]} : p = <<f, c>>
  <1>1. ASSUME NEW f \in Files, NEW c, <<f, c>> \in LateOf
        PROVE  \E r \in givenUp : Makes(r, f, c)
    BY <1>1 DEF LateOf, Makes
  <1>2. ASSUME NEW f \in Files, NEW c, NEW r \in givenUp, Makes(r, f, c)
        PROVE  <<f, c>> \in LateOf
    <2>1. <<f, r>> \in {q \in Files \X givenUp : q[2].key = RemotePath(q[1]) /\ q[2].op # "meta"}
      BY <1>2 DEF Makes
    <2>2. <<f, r>>[1] = f /\ <<f, r>>[2] = r
      OBVIOUS
    <2>3. QED
      BY <1>2, <2>1, <2>2 DEF LateOf, Makes
  <1>3. \A p \in LateOf : \E f \in Files, c \in {p[2]} : p = <<f, c>>
    BY DEF LateOf
  <1>4. QED
    BY <1>1, <1>2, <1>3

\* The same of the next state.
LEMMA LatePairsNext ==
    /\ \A f \in Files : \A c : <<f, c>> \in LateOf' <=> \E r \in givenUp' : Makes(r, f, c)
    /\ \A p \in LateOf' : \E f \in Files, c \in {p[2]} : p = <<f, c>>
  <1>1. (/\ \A f \in Files : \A c : <<f, c>> \in LateOf <=> \E r \in givenUp : Makes(r, f, c)
         /\ \A p \in LateOf : \E f \in Files, c \in {p[2]} : p = <<f, c>>)'
    BY LatePairs, PTL
  <1>2. QED
    BY <1>1 DEF Makes

\* Requests that are not about contents of files do not count.
LEMMA LateKept ==
    ASSUME \A f \in Files : \A r : r.key = RemotePath(f) /\ r.op # "meta" =>
              (r \in givenUp' <=> r \in givenUp)
    PROVE  LateOf' = LateOf
  <1>1. \A f \in Files : \A c : <<f, c>> \in LateOf' <=> <<f, c>> \in LateOf
    <2>1. ASSUME NEW f \in Files, NEW c
          PROVE  (\E r \in givenUp' : Makes(r, f, c)) <=> (\E r \in givenUp : Makes(r, f, c))
      BY DEF Makes
    <2>2. QED
      BY <2>1, LatePairs, LatePairsNext
  <1>2. ASSUME NEW p \in LateOf' PROVE p \in LateOf
    <2>1. PICK f \in Files, c \in {p[2]} : p = <<f, c>>
      BY LatePairsNext
    <2>2. QED
      BY <1>1, <1>2, <2>1
  <1>3. ASSUME NEW p \in LateOf PROVE p \in LateOf'
    <2>1. PICK f \in Files, c \in {p[2]} : p = <<f, c>>
      BY LatePairs
    <2>2. QED
      BY <1>1, <1>3, <2>1
  <1>4. QED
    BY <1>2, <1>3

\* The initial states are Mirror's.
LEMMA MirrorInit == Init => MirrorSpec!Init
  <1> SUFFICES ASSUME Init PROVE MirrorSpec!Init
    OBVIOUS
  <1>1. TypeOK /\ SyncInv
    BY TypedInit, SyncInit
  <1>2. \A f \in Files : FileOf(f) \in Contents \cup {None}
    BY <1>1, Parts DEF FileOf, Contents, SyncInv, ClockInv
  <1>3. \A f \in Files : remote[RemotePath(f)] = None
    BY <1>1, Parts DEF Init
  <1>4. touched = {} /\ pc = "idle" /\ LateOf = {}
    BY DEF Init, NoProcess, LateOf
  <1>5. QED
    BY <1>2, <1>3, <1>4 DEF MirrorSpec!Init, FileOf, Contents, LateOf

\* An edit is an edit.
LEMMA MirrorEdit ==
    ASSUME TypeOK, SyncInv', TypeOK', NEW f \in Files, Edit(f), TouchInv
    PROVE  MirrorSpec!Edit(f)
  <1>1. /\ UNCHANGED <<pc, remote, givenUp>>
        /\ touched' = IF pc = "idle" THEN touched ELSE touched \cup {f}
    BY DEF Edit, Fresh, Touch, Remove, Racy, Revert, Restore, Edited, process, stores, bucket,
           TouchInv
  <1>2. \A g \in Files \ {f} : local'[g] = local[g]
    BY DEF Edit, Fresh, Touch, Remove, Racy, Revert, Restore, Edited, TypeOK
  <1>3. local'[f].content \in Contents /\ local'[f].exists \in BOOLEAN
    BY DEF SyncInv, ClockInv, TypeOK, LocalFile, Contents
  <1>4. QED
    BY <1>1, <1>2, <1>3 DEF MirrorSpec!Edit, Contents

\* A step that changes no content, and neither starts nor ends a process.
LEMMA MirrorQuiet ==
    ASSUME UNCHANGED <<local, touched>>, (pc = "idle") <=> (pc' = "idle"),
           \A f \in Files : ObjectOf(f)' = ObjectOf(f), LateOf' = LateOf
    PROVE  UNCHANGED MirrorSpec!vars
  BY DEF MirrorSpec!vars, ObjectOf, LateOf

\* A process that ends.
LEMMA MirrorEnd ==
    ASSUME Exit, pc # "idle", UNCHANGED local,
           \A f \in Files : remote'[RemotePath(f)] = remote[RemotePath(f)], LateOf' = LateOf
    PROVE  MirrorSpec!End
  BY DEF MirrorSpec!End, Exit, LateOf

\* What a request given up, now performed, does.
LEMMA MirrorArrive ==
    ASSUME TypeOK, NEW r \in givenUp, Arrive(r)
    PROVE  MirrorSpec!Next \/ UNCHANGED MirrorSpec!vars
  <1>1. /\ UNCHANGED <<local, touched, pc>> /\ givenUp' = givenUp \ {r} /\ r.key \in Keys
        /\ \A k \in Keys \ {r.key} : remote'[k] = remote[k]
    BY ArriveEffect DEF Arrive, folder, process
  <1>2. CASE r.op = "meta"
    <2>1. ASSUME NEW g \in Files PROVE ObjectOf(g)' = ObjectOf(g)
      BY <1>1, <1>2, ArriveEffect, Parts DEF ObjectOf
    <2>2. LateOf' = LateOf
      BY <1>1, <1>2, LateKept
    <2>3. QED
      BY <1>1, <2>1, <2>2, MirrorQuiet
  <1>3. CASE \A f \in Files : r.key # RemotePath(f)
    <2>1. ASSUME NEW g \in Files PROVE ObjectOf(g)' = ObjectOf(g)
      BY <1>1, <1>3, Parts DEF ObjectOf
    <2>2. LateOf' = LateOf
      BY <1>1, <1>3, LateKept
    <2>3. QED
      BY <1>1, <2>1, <2>2, MirrorQuiet
  <1>4. ASSUME NEW f \in Files, r.key = RemotePath(f), r.op # "meta"
        PROVE  MirrorSpec!Next
    <2>1. PICK c : c = ContentOf(r)
      OBVIOUS
    <2>2. <<f, c>> \in LateOf
      BY <1>4, <2>1, LatePairs DEF Makes
    <2>3. ObjectOf(f)' = c
      BY <1>4, <2>1, ArriveEffect DEF ObjectOf, ContentOf
    <2>4. \A g \in Files \ {f} : ObjectOf(g)' = ObjectOf(g)
      BY <1>1, <1>4, KeysApart, Parts DEF ObjectOf
    <2>5. [g \in Files |-> ObjectOf(g)]' = [[g \in Files |-> ObjectOf(g)] EXCEPT ![f] = c]
      BY <2>3, <2>4
    <2>6. LateOf' \in {LateOf, LateOf \ {<<f, c>>}}
      <3>1. \A g \in Files : \A d : <<g, d>> \in LateOf' => <<g, d>> \in LateOf
        BY <1>1, LatePairs, LatePairsNext
      <3>2. \A g \in Files : \A d : <<g, d>> \in LateOf /\ <<g, d>> # <<f, c>> => <<g, d>> \in LateOf'
        <4>1. SUFFICES ASSUME NEW g \in Files, NEW d, <<g, d>> \in LateOf, g # f \/ d # c
                       PROVE  <<g, d>> \in LateOf'
          OBVIOUS
        <4>2. PICK q \in givenUp : Makes(q, g, d)
          BY <4>1, LatePairs
        <4>3. q # r
          BY <1>4, <2>1, <4>1, <4>2, KeysApart DEF Makes
        <4>4. QED
          BY <1>1, <4>2, <4>3, LatePairsNext
      <3>3. ASSUME NEW p \in LateOf' PROVE p \in LateOf
        <4>1. PICK g \in Files, d \in {p[2]} : p = <<g, d>>
          BY LatePairsNext
        <4>2. QED
          BY <3>1, <3>3, <4>1
      <3>4. ASSUME NEW p \in LateOf, p # <<f, c>> PROVE p \in LateOf'
        <4>1. PICK g \in Files, d \in {p[2]} : p = <<g, d>>
          BY LatePairs
        <4>2. QED
          BY <3>2, <3>4, <4>1
      <3>5. CASE <<f, c>> \in LateOf'
        BY <3>3, <3>4, <3>5
      <3>6. CASE <<f, c>> \notin LateOf'
        BY <3>3, <3>4, <3>6
      <3>7. QED
        BY <3>5, <3>6
    <2>7. MirrorSpec!Arrive(<<f, c>>)
      <3>1. <<f, c>>[1] = f /\ <<f, c>>[2] = c
        OBVIOUS
      <3>2. QED
        BY <1>1, <2>5, <2>6, <3>1 DEF MirrorSpec!Arrive, ObjectOf, LateOf
    <2>8. QED
      BY <2>2, <2>7 DEF MirrorSpec!Next, LateOf
  <1>5. QED
    BY <1>2, <1>3, <1>4

\* Requests given up by a process that goes on.
LEMMA MirrorGiveUp ==
    ASSUME UNCHANGED <<local, touched, remote>>, pc # "idle", pc' # "idle",
           givenUp \subseteq givenUp',
           \A r \in givenUp' \ givenUp : \A f \in Files : r.key = RemotePath(f) /\ r.op # "meta" =>
              \/ ContentOf(r) = FileOf(f)
              \/ f \in touched /\ ContentOf(r) \in {0, None}
    PROVE  MirrorSpec!GiveUp
  <1>1. LateOf \subseteq LateOf'
    BY LatePairs, LatePairsNext
  <1>2. ASSUME NEW p \in LateOf' \ LateOf
        PROVE  \E f \in Files : p \in {f} \X MirrorSpec!Due(f)
    <2>1. PICK f \in Files, c \in {p[2]} : p = <<f, c>>
      BY LatePairsNext
    <2>2. PICK r \in givenUp' \ givenUp : Makes(r, f, c)
      BY <1>2, <2>1, LatePairs, LatePairsNext
    <2>3. c = FileOf(f) \/ (f \in touched /\ c \in {0, None})
      BY <2>2 DEF Makes
    <2>4. c \in MirrorSpec!Due(f)
      BY <2>3 DEF MirrorSpec!Due, FileOf
    <2>5. QED
      BY <2>1, <2>4
  <1>3. \A p \in LateOf' \ LateOf : p \in UNION {{f} \X MirrorSpec!Due(f) : f \in Files}
    BY <1>2
  <1>4. QED
    BY <1>1, <1>3 DEF MirrorSpec!GiveUp, LateOf

\* What a batch erases, or is asked to, is gone from the folder, or was touched
\* since the scan.
LEMMA MirrorDrop ==
    ASSUME Careful, TypeOK, SyncInv, NEW b \in SUBSET Keys, DeleteBatch(b)
    PROVE  MirrorSpec!Next \/ UNCHANGED MirrorSpec!vars
  <1>1. /\ UNCHANGED <<local, touched>> /\ pc = "delete" /\ pc' # "idle"
        /\ b \subseteq toDelete
    BY DEF DeleteBatch, Chunks, folder
  <1>2. ASSUME NEW f \in Files, RemotePath(f) \in b PROVE FileOf(f) = None \/ f \in touched
    <2>1. opts.delete /\ Folder = ""
      BY <1>1 DEF SyncInv, DeleteInv, TypeOK, Careful
    <2>2. f \in Files \ scanned
      BY <1>1, <1>2, <2>1 DEF SyncInv, DeleteInv, RemotePath, LocalName
    <2>3. local[f].exists => f \in touched
      BY <1>1, <2>1, <2>2 DEF SyncInv, DeleteInv
    <2>4. QED
      BY <2>3 DEF FileOf
  <1>3. CASE UNCHANGED bucket
    <2>1. LateOf' = LateOf
      BY <1>3, LateKept DEF bucket
    <2>2. QED
      BY <1>1, <1>3, <2>1, MirrorQuiet DEF ObjectOf, bucket
  <1>4. CASE NoAnswer("delete", b, 0, 0)
    <2>1. givenUp' = givenUp \cup
             {[op |-> "delete", key |-> k, content |-> 0, mtime |-> 0, nth |-> faults'] : k \in b}
      BY <1>4 DEF NoAnswer
    <2>2. \A r \in givenUp' \ givenUp : r.op = "delete" /\ r.key \in b
      BY <2>1
    <2>3. \A r \in givenUp' \ givenUp : ContentOf(r) = None
      BY <2>2 DEF ContentOf
    <2>4. givenUp \subseteq givenUp' /\ UNCHANGED remote
      BY <1>4 DEF NoAnswer
    <2>5. MirrorSpec!GiveUp
      BY <1>1, <1>2, <2>2, <2>3, <2>4, MirrorGiveUp
    <2>6. QED
      BY <2>5 DEF MirrorSpec!Next
  <1>5. ASSUME NEW done \in SUBSET b, Erase(done), UNCHANGED givenUp
        PROVE  MirrorSpec!Next
    <2> DEFINE fs == {f \in Files : RemotePath(f) \in done}
    <2>1. \A f \in fs : None \in MirrorSpec!Due(f)
      BY <1>2 DEF MirrorSpec!Due, FileOf
    <2>2. \A f \in Files : remote'[RemotePath(f)] =
                            IF f \in fs THEN None ELSE remote[RemotePath(f)]
      BY <1>5, Parts DEF Erase
    <2>3. \A f \in Files : ObjectOf(f)' = IF f \in fs THEN None ELSE ObjectOf(f)
      BY <2>2 DEF ObjectOf
    <2>4. LateOf' = LateOf
      BY <1>5, LateKept
    <2>5. MirrorSpec!Drop(fs)
      BY <1>1, <2>1, <2>3, <2>4 DEF MirrorSpec!Drop, ObjectOf, LateOf
    <2>6. QED
      BY <2>5 DEF MirrorSpec!Next
  <1>6. QED
    BY <1>3, <1>4, <1>5 DEF DeleteBatch, Answered

\* A metadata update keeps the content, and a PUT sends the file as it is now
\* unless the user touched it.
LEMMA MirrorWorker ==
    ASSUME TypeOK, PhaseInv, SyncInv, TouchInv, NEW t \in Slots, Worker(t)
    PROVE  MirrorSpec!Next \/ UNCHANGED MirrorSpec!vars
  <1>0. PICK job : job = slot[t]
    OBVIOUS
  <1> DEFINE f == job.path
             key == RemotePath(f)
  <1>1. /\ job \in Job /\ job # None /\ job = slot[t] /\ Watched(job)
    BY <1>0 DEF TypeOK, TouchInv, Worker, Begin, BeginOnMissing, UpdateMeta, Put, Store
  <1>2. f \in Files /\ key \in Keys /\ job.mtime \in Nat /\ \A c \in Sent(job) : c \in Nat
    BY <1>1, JobParts, Parts DEF Sent
  <1>3. pc \in {"loop", "dispatch", "drain"}
    BY <1>1 DEF PhaseInv, AllFree
  <1>4. CASE BeginOnMissing(t)
    <2>1. LateOf' = LateOf
      BY <1>4, LateKept DEF BeginOnMissing, stores, bucket
    <2>2. QED
      BY <1>3, <1>4, <2>1, MirrorEnd DEF BeginOnMissing, folder, stores, bucket, MirrorSpec!Next
  <1>5. CASE UNCHANGED bucket /\ WorkerOnly
    <2>1. LateOf' = LateOf
      BY <1>5, LateKept DEF bucket
    <2>2. QED
      BY <1>3, <1>5, <2>1, MirrorQuiet DEF WorkerOnly, folder, ObjectOf, bucket
  <1>6. CASE CopyMeta(key, job.mtime) /\ UNCHANGED givenUp /\ WorkerOnly
    <2>1. \A g \in Files : ObjectOf(g)' = ObjectOf(g)
      BY <1>2, <1>6, CopyMetaTyped, Parts DEF ObjectOf
    <2>2. LateOf' = LateOf
      BY <1>6, LateKept
    <2>3. QED
      BY <1>3, <1>6, <2>1, <2>2, MirrorQuiet DEF WorkerOnly, folder
  <1>7. ASSUME NEW c \in Sent(job)
        PROVE  /\ c # None
               /\ \/ c = FileOf(f)
                  \/ f \in touched /\ c = 0
    <2>1. c \in Nat
      BY <1>2
    <2>2. QED
      BY <1>1, <1>2, <1>7, <2>1, Parts DEF Sent, FileOf, Watched
  <1>8. ASSUME NEW c \in Sent(job), WorkerOnly, PutObject(key, c, job.mtime), UNCHANGED givenUp
        PROVE  MirrorSpec!Copy(f)
    <2>1. ObjectOf(f)' = c /\ c \in Nat
      BY <1>2, <1>8, PutObjectTyped DEF ObjectOf
    <2>2. \A g \in Files \ {f} : ObjectOf(g)' = ObjectOf(g)
      <3>1. \A g \in Files \ {f} : RemotePath(g) \in Keys \ {key}
        BY <1>2, KeysApart, Parts
      <3>2. QED
        BY <1>2, <1>8, <3>1, PutObjectTyped DEF ObjectOf
    <2>3. [g \in Files |-> ObjectOf(g)]' = [[g \in Files |-> ObjectOf(g)] EXCEPT ![f] = c]
      BY <1>2, <2>1, <2>2
    <2>4. UNCHANGED <<local, touched, pc>> /\ pc # "idle"
      BY <1>3, <1>8 DEF WorkerOnly, folder
    <2>5. LateOf' = LateOf
      BY <1>8, LateKept
    <2>6. c \in MirrorSpec!Due(f) \ {None}
      BY <1>2, <1>7, <1>8, <2>1 DEF MirrorSpec!Due, FileOf
    <2>7. QED
      BY <2>3, <2>4, <2>5, <2>6 DEF MirrorSpec!Copy, FileOf, ObjectOf, LateOf
  <1>9. ASSUME NEW o \in {"put", "meta"}, NEW c, c \in Sent(job) \/ o = "meta", WorkerOnly,
               NoAnswer(o, {key}, c, job.mtime)
        PROVE  MirrorSpec!GiveUp
    <2>1. givenUp' = givenUp \cup
             {[op |-> o, key |-> k, content |-> c, mtime |-> job.mtime, nth |-> faults'] :
                 k \in {key}}
      BY <1>9 DEF NoAnswer
    <2>2. \A r \in givenUp' \ givenUp : r.op = o /\ r.key = key /\ r.content = c
      BY <2>1
    <2>3. \A r \in givenUp' \ givenUp : r.op # "meta" => ContentOf(r) = c /\ c \in Sent(job)
      BY <1>9, <2>2 DEF ContentOf
    <2>4. \A g \in Files : key = RemotePath(g) => g = f
      BY <1>2, KeysApart
    <2>5. UNCHANGED <<local, touched, pc, remote>> /\ pc # "idle" /\ givenUp \subseteq givenUp'
      BY <1>3, <1>9 DEF WorkerOnly, folder, NoAnswer
    <2>6. QED
      BY <1>7, <2>2, <2>3, <2>4, <2>5, MirrorGiveUp
  <1>10. CASE UpdateMeta(t)
    BY <1>1, <1>5, <1>6, <1>9, <1>10 DEF UpdateMeta, MirrorSpec!Next
  <1>11. CASE Put(t)
    BY <1>1, <1>2, <1>5, <1>8, <1>9, <1>11 DEF Put, Answered, MirrorSpec!Next
  <1>12. QED
    BY <1>4, <1>5, <1>10, <1>11 DEF Worker, Begin, Store, stores

\* Every step of Clarc is a step of Mirror or leaves what Mirror sees alone.
LEMMA MirrorStep ==
    ASSUME Careful, TypeOK, PhaseInv, SyncInv, TouchInv, TypeOK', SyncInv', [Next]_vars
    PROVE  [MirrorSpec!Next]_(MirrorSpec!vars)
  <1> USE DEF folder
  <1>0. ASSUME UNCHANGED bucket PROVE UNCHANGED remote /\ LateOf' = LateOf
    BY <1>0, LateKept DEF bucket
  <1>1. ASSUME NEW f \in Files, Edit(f) PROVE MirrorSpec!Next
    BY <1>1, MirrorEdit DEF MirrorSpec!Next
  <1>2. ASSUME NEW o \in Invocations, Start(o) PROVE MirrorSpec!Next
    BY <1>0, <1>2 DEF Start, stores, MirrorSpec!Next, MirrorSpec!Begin, LateOf
  <1>3. CASE Exit /\ pc # "idle" /\ UNCHANGED <<local, bucket>>
    BY <1>0, <1>3, MirrorEnd DEF MirrorSpec!Next
  <1>4. CASE UploadDatabase
    <2>1. Exit /\ pc # "idle" /\ UNCHANGED local
      BY <1>4 DEF UploadDatabase
    <2>2. \A f \in Files : \A r \in givenUp' \ givenUp : r.key # RemotePath(f)
      BY <1>4, DatabaseKeeps DEF Keeps
    <2>3. givenUp \subseteq givenUp'
      BY <1>4 DEF UploadDatabase, Answered, NoAnswer, bucket
    <2>4. LateOf' = LateOf
      BY <2>2, <2>3, LateKept
    <2>5. QED
      BY <1>4, <2>1, <2>4, DatabaseKeeps, MirrorEnd DEF MirrorSpec!Next, Keeps
  <1>5. CASE UNCHANGED <<local, touched, bucket>> /\ pc # "idle" /\ pc' # "idle"
    BY <1>0, <1>5, MirrorQuiet DEF ObjectOf
  <1>6. ASSUME NEW b \in SUBSET Keys, DeleteBatch(b)
        PROVE  [MirrorSpec!Next]_(MirrorSpec!vars)
    BY <1>6, MirrorDrop
  <1>7. CASE UNCHANGED vars
    BY <1>0, <1>7, MirrorQuiet DEF vars, stores, process, ObjectOf
  <1>8. ASSUME NEW t \in Slots, Worker(t) PROVE [MirrorSpec!Next]_(MirrorSpec!vars)
    BY <1>8, MirrorWorker
  <1>9. ASSUME Rebuild \/ UploadFiles \/ Compare \/ Forget \/ Deleted \/ Crash
        PROVE  [MirrorSpec!Next]_(MirrorSpec!vars)
    BY <1>3, <1>5, <1>9
    DEF Crash, Rebuild, List, Resolve, Truncate, StoreChunk, Rebuilt, UploadFiles, Scan, Examine,
        Dispatch, LoopEnds, Drain, Compare, Forget, Deleted, stores
  <1>10. ASSUME NEW r \in givenUp, Arrive(r) PROVE [MirrorSpec!Next]_(MirrorSpec!vars)
    BY <1>10, MirrorArrive
  <1>11. QED
    BY <1>1, <1>2, <1>4, <1>6, <1>7, <1>8, <1>9, <1>10 DEF Next, Main, DeleteFiles

\* Of careful users, for any number of files, threads, edits, crashes, lost
\* replies and requests performed late: the bucket is a mirror that takes only
\* what the files hold, or held when a request was given up.
THEOREM BucketIsMirror == Careful => (Spec => ImplementsMirror)
  <1> SUFFICES ASSUME Careful PROVE Spec => ImplementsMirror
    OBVIOUS
  <1>1. Init => TypeOK /\ PhaseInv /\ SyncInv /\ ListingInv /\ TouchInv
    BY TypedInit, SyncInit DEF Init, NoProcess, TouchInv, AllFree
  <1>2. TypeOK /\ PhaseInv /\ SyncInv /\ ListingInv /\ TouchInv /\ [Next]_vars
           => (TypeOK /\ PhaseInv /\ SyncInv /\ ListingInv /\ TouchInv)'
    BY TypedStep, SyncStep, ListingStep, TouchStep
  <1>3. TypeOK /\ PhaseInv /\ SyncInv /\ TouchInv /\ TypeOK' /\ SyncInv' /\ [Next]_vars
           => [MirrorSpec!Next]_(MirrorSpec!vars)
    BY MirrorStep
  <1>4. QED
    BY <1>1, <1>2, <1>3, MirrorInit, PTL DEF Spec, ImplementsMirror, MirrorSpec!Spec
=============================================================================

--------------------------- MODULE RequestsProofs ---------------------------
(***************************************************************************)
(* uidMutex does what it is for, no refusal of a content goes unnoticed,   *)
(* and the counter that nothing guards never runs ahead, for any number of *)
(* threads.                                                                *)
(***************************************************************************)
EXTENDS Requests, FiniteSetTheorems, TLAPS

\* The types that the steps below use.
Typed ==
    /\ pc \in [Files -> Steps]
    /\ header \in [Files -> (Ids \cup {None}) \X (Ids \cup {None})]
    /\ todo \subseteq Files

USE FilesAssumption DEF Steps, InLock, Unnamed

LEMMA InitNames == Init => Typed /\ NamesInv
  BY DEF Init, Typed, NamesInv, OwnersAreRight

\* The steps of the main thread only turn "off" into "skipped" and "md5".
LEMMA MainNames == Typed /\ NamesInv /\ Main => Typed' /\ NamesInv'
<1> SUFFICES ASSUME Typed, NamesInv, Main PROVE Typed' /\ NamesInv'
  OBVIOUS
<1> USE DEF Typed, NamesInv, OwnersAreRight
<1>1. ASSUME NEW f \in Files, Skip(f) \/ LookupFails(f) \/ Take(f) PROVE Typed' /\ NamesInv'
  BY <1>1 DEF Skip, LookupFails, Take, Threads, names
<1>2. CASE SkipReads \/ SkipWrites \/ Log
  BY <1>2 DEF SkipReads, SkipWrites, Log, Threads, names
<1>3. CASE Start
  BY <1>3 DEF Start, Threads, names
<1>4. CASE LoopEnds \/ Drain
  BY <1>4 DEF LoopEnds, Drain, Threads, names
<1> QED
  BY <1>1, <1>2, <1>3, <1>4 DEF Main

\* Between the lock and the copy of the names.
LEMMA LockedNames ==
    ASSUME Typed, NamesInv, NEW f \in Files, Names(f)
    PROVE  Typed' /\ NamesInv'
<1> USE DEF Typed, NamesInv, OwnersAreRight, Named, At, Goes, control
<1>1. CASE Lock(f)
  BY <1>1 DEF Lock
<1>2. CASE GetUser(f)
  BY <1>2 DEF GetUser
<1>3. CASE GetGroup(f)
  BY <1>3 DEF GetGroup
<1>4. CASE CopyNames(f)
  BY <1>4 DEF CopyNames, Ids
<1>5. CASE Die(f)
  BY <1>5 DEF Die, names
<1> QED
  BY <1>1, <1>2, <1>3, <1>4, <1>5 DEF Names

\* Outside the lock a thread leaves mutex, buffers and headers alone, and a retry
\* begins at the lock again.
LEMMA OtherNames ==
    ASSUME Typed, NamesInv, NEW f \in Files, CompareMd5(f) \/ Prepare(f) \/ Transfer(f) \/ Update(f)
    PROVE  Typed' /\ NamesInv'
<1>1. /\ UNCHANGED <<names, main, todo, cur>>
      /\ pc[f] \notin {"off"} \cup InLock
      /\ \E s \in Steps \ ({"off"} \cup InLock) :
            /\ pc' = [pc EXCEPT ![f] = s]
            /\ pc[f] = "md5" => s = "lock"
            /\ pc[f] # "lock" /\ pc[f] # "skipped"
  BY DEF CompareMd5, Same, Differs, Prepare, Transfer, Update, Updated, NotUpdated, Gmtime, StartFormat,
         FinishFormat, Dated, Send, ReadSize, WriteSize, Accepted, Answered, Refused, Broken, Sending,
         At, Goes, control
<1> QED
  BY <1>1 DEF Typed, NamesInv, OwnersAreRight, names

\* The names in x-amz-meta-uid and -gid are those of the file's own owner and group
\* in every interleaving.
THEOREM OwnersSafe == Spec => []OwnersAreRight
<1>1. Typed /\ NamesInv /\ [Next]_vars => (Typed /\ NamesInv)'
  <2> SUFFICES ASSUME Typed, NamesInv, [Next]_vars PROVE Typed' /\ NamesInv'
    OBVIOUS
  <2>1. CASE UNCHANGED vars
    BY <2>1 DEF vars, control, names, Typed, NamesInv, OwnersAreRight
  <2>2. CASE Main
    BY <2>2, MainNames
  <2>3. ASSUME NEW f \in Files, Thread(f) PROVE Typed' /\ NamesInv'
    BY <2>3, LockedNames, OtherNames DEF Thread
  <2> QED
    BY <2>1, <2>2, <2>3 DEF Next
<1>2. NamesInv => OwnersAreRight
  BY DEF NamesInv
<1> QED
  BY <1>1, <1>2, InitNames, PTL DEF Spec

LEMMA MainNotices == Typed /\ NamesInv /\ NoticeInv /\ Main => NoticeInv'
<1> SUFFICES ASSUME Typed, NamesInv, NoticeInv, Main PROVE NoticeInv'
  OBVIOUS
<1> USE DEF Typed, NamesInv, NoticeInv, RefusalIsNoticed, Threads
<1>1. ASSUME NEW f \in Files, Skip(f) \/ LookupFails(f) \/ Take(f) PROVE NoticeInv'
  BY <1>1 DEF Skip, LookupFails, Take
<1>2. CASE SkipReads \/ SkipWrites \/ Log
  BY <1>2 DEF SkipReads, SkipWrites, Log
<1>3. CASE Start
  BY <1>3 DEF Start
<1>4. CASE LoopEnds
  BY <1>4 DEF LoopEnds
<1>5. CASE Drain
  BY <1>5 DEF Drain, Ended
<1> QED
  BY <1>1, <1>2, <1>3, <1>4, <1>5 DEF Main

\* A thread that goes on has not ended, so the main thread is not at its tail.
LEMMA ThreadNotices ==
    ASSUME Typed, NoticeInv, NEW f \in Files, Thread(f)
    PROVE  NoticeInv'
<1> USE DEF Typed, NoticeInv, RefusalIsNoticed
<1>1. CASE Names(f)
  <2>1. /\ pc[f] \in {"lock", "user", "group", "names"}
        /\ UNCHANGED <<todo, cur, failed, meta>>
        /\ \/ main' = "dead" /\ UNCHANGED pc
           \/ /\ UNCHANGED main
              /\ \E s \in {"user", "group", "names", "gmtime"} : pc' = [pc EXCEPT ![f] = s]
    BY <1>1 DEF Names, Lock, GetUser, GetGroup, CopyNames, Die, Named, At, Goes, control
  <2> QED
    BY <2>1
<1>2. CASE CompareMd5(f)
  <2>1. /\ pc[f] = "md5" /\ pc' = [pc EXCEPT ![f] = "lock"]
        /\ UNCHANGED <<main, todo, cur, failed>> /\ meta \subseteq meta'
    BY <1>2 DEF CompareMd5, Same, Differs, At, Goes, control
  <2> QED
    BY <2>1
<1>3. CASE Prepare(f) \/ Transfer(f) \/ Update(f)
  <2>1. /\ pc[f] \notin {"off", "skipped", "ok", "updated", "failed"}
        /\ UNCHANGED <<main, todo, cur, meta>>
        /\ \/ /\ UNCHANGED failed
              /\ \E s \in Steps \ {"off", "failed", "update", "updated"} : pc' = [pc EXCEPT ![f] = s]
           \/ failed' = TRUE /\ pc' = [pc EXCEPT ![f] = "failed"]
           \/ UNCHANGED failed /\ f \in meta /\ pc' = [pc EXCEPT ![f] = "update"]
           \/ UNCHANGED failed /\ pc[f] = "update" /\ pc' = [pc EXCEPT ![f] = "updated"]
    BY <1>3 DEF Prepare, Transfer, Update, Updated, NotUpdated, Gmtime, StartFormat, FinishFormat, Dated,
           Send, ReadSize, WriteSize, Accepted, Answered, Refused, Broken, Sending, At, Goes, control
  <2> QED
    BY <2>1
<1> QED
  BY <1>1, <1>2, <1>3 DEF Thread

\* Whatever becomes of the requests, main goes on to --delete and to the upload of
\* the database only if every content that was to be sent was accepted.
THEOREM RefusalsNoticed == Spec => []RefusalIsNoticed
<1> DEFINE I == Typed /\ NamesInv /\ NoticeInv
<1>1. Init => I
  <2>1. Init => NoticeInv
    BY DEF Init, NoticeInv, RefusalIsNoticed
  <2> QED
    BY <2>1, InitNames
<1>2. I /\ [Next]_vars => I'
  <2> SUFFICES ASSUME I, [Next]_vars PROVE I'
    OBVIOUS
  <2>1. CASE UNCHANGED vars
    BY <2>1 DEF vars, control, names, Typed, NamesInv, OwnersAreRight, NoticeInv, RefusalIsNoticed
  <2>2. CASE Main
    BY <2>2, MainNames, MainNotices
  <2>3. ASSUME NEW f \in Files, Thread(f) PROVE I'
    <3>1. Typed' /\ NamesInv'
      BY <2>3, LockedNames, OtherNames DEF Thread
    <3> QED
      BY <2>3, <3>1, ThreadNotices
  <2> QED
    BY <2>1, <2>2, <2>3 DEF Next
<1>3. I => RefusalIsNoticed
  BY DEF NoticeInv
<1> QED
  BY <1>1, <1>2, <1>3, PTL DEF Spec

(***************************************************************************)
(* The counter.                                                            *)
(***************************************************************************)
\* A thread that has been told of a piece and has not added it yet owns one of the
\* pieces sent, and main, until it has added it, the size of a file it skips: what
\* the counter holds, or somebody is about to write into it, is below what was sent
\* and skipped by at least what is owed.  Who overwrites another's addition only
\* makes it less.
Owing == {f \in Files : pc[f] \in {"read", "write"}}
MainOwes == IF main \in {"skip", "add"} THEN Size ELSE 0
Owed == Cardinality(Owing) + MainOwes

PiecesInv ==
    /\ sent \in Nat /\ skipped \in Nat /\ uploadedSize \in Nat /\ mainCopy \in Nat
    /\ copy \in [Files -> Nat]
    /\ IsFiniteSet(Owing)
    /\ uploadedSize + Owed <= sent + skipped
    /\ mainCopy <= sent + skipped
    /\ main = "add" => mainCopy + Owed <= sent + skipped
    /\ \A f \in Files : copy[f] <= sent + skipped
    /\ \A f \in Files : pc[f] \in {"write", "answered"} => copy[f] + Owed <= sent + skipped

\* A thread with no attempt left has failed.
TriesInv ==
    /\ tries \in [Files -> 0 .. MaxTries]
    /\ \A f \in Files : pc[f] # "failed" => tries[f] < MaxTries

OtherTypes ==
    /\ main \in Places /\ meta \subseteq Stored
    /\ cur \in Files \cup {None} /\ failed \in BOOLEAN
    /\ mutex \in Files \cup {None}
    /\ {passwd, group} \subseteq Ids \cup {None}
    /\ tm \in {"now", "past"}
    /\ half \in [Files -> {"now", "past"}] /\ date \in [Files -> {"now", "past", "mixed"}]
    /\ ulnow \in [Files -> 0 .. Size]

LEMMA PiecesInit == Init => PiecesInv /\ TriesInv /\ OtherTypes
<1> SUFFICES ASSUME Init PROVE PiecesInv /\ TriesInv /\ OtherTypes
  OBVIOUS
<1>1. Owing = {}
  BY DEF Init, Owing
<1>2. IsFiniteSet(Owing) /\ Cardinality(Owing) = 0 /\ MainOwes = 0
  BY <1>1, FS_EmptySet DEF Init, MainOwes
<1>3. PiecesInv
  BY <1>2 DEF Init, PiecesInv, Owed
<1>4. TriesInv
  BY NumbersAssumption DEF Init, TriesInv
<1>5. failed \in BOOLEAN
  BY DEF Init
<1>6. OtherTypes
  BY <1>5, NumbersAssumption DEF Init, OtherTypes, Places
<1> QED
  BY <1>3, <1>4, <1>6

LEMMA OwedType == PiecesInv => Cardinality(Owing) \in Nat /\ MainOwes \in Nat /\ Owed \in Nat
<1> SUFFICES ASSUME PiecesInv PROVE Cardinality(Owing) \in Nat /\ MainOwes \in Nat /\ Owed \in Nat
  OBVIOUS
<1>1. Cardinality(Owing) \in Nat
  BY FS_CardinalityType DEF PiecesInv
<1>2. MainOwes \in Nat
  BY NumbersAssumption DEF MainOwes
<1> QED
  BY <1>1, <1>2 DEF Owed

\* Only Send makes a thread owe a piece, and only WriteSize pays it; main owes a
\* size between Skip and SkipWrites.
LEMMA OthersOwe ==
    ASSUME Typed, PiecesInv, UNCHANGED <<uploadedSize, sent, skipped, copy, mainCopy>>,
           main' = main \/ main' \notin {"skip", "add"},
           \A f \in Files : pc'[f] = pc[f] \/ {pc[f], pc'[f]} \cap {"read", "write", "answered"} = {}
    PROVE  PiecesInv'
<1>1. Owing' = Owing
  BY DEF Owing
<1>2. \A f \in Files : pc'[f] \in {"write", "answered"} => pc[f] \in {"write", "answered"}
  OBVIOUS
<1>3. /\ MainOwes' <= MainOwes /\ (main' = "add" => main = "add")
      /\ MainOwes' \in Nat /\ MainOwes \in Nat /\ Cardinality(Owing) \in Nat
  BY NumbersAssumption, OwedType DEF MainOwes
<1> QED
  BY <1>1, <1>2, <1>3 DEF PiecesInv, Owed

\* Main takes the debt of a file it skips upon itself, reads the counter and pays.
LEMMA SkipPieces ==
    ASSUME Typed, NamesInv, PiecesInv, (\E f \in Files : Skip(f)) \/ SkipReads \/ SkipWrites
    PROVE  PiecesInv'
<1>0. Cardinality(Owing) \in Nat /\ MainOwes \in Nat /\ Owed \in Nat /\ Size \in Nat
  BY OwedType, NumbersAssumption
<1>1. Owing' = Owing /\ \A f \in Files : pc'[f] \in {"write", "answered"} => pc[f] = pc'[f]
  BY DEF Owing, Skip, SkipReads, SkipWrites, NamesInv, Typed
<1>2. ASSUME NEW f \in Files, Skip(f) PROVE PiecesInv'
  <2>1. Owed' = Owed + Size
    BY <1>0, <1>1, <1>2 DEF Skip, Owed, MainOwes
  <2> QED
    BY <1>0, <1>1, <1>2, <2>1 DEF Skip, PiecesInv
<1>3. CASE SkipReads
  <2>1. Owed' = Owed
    BY <1>1, <1>3 DEF SkipReads, Owed, MainOwes
  <2> QED
    BY <1>0, <1>1, <1>3, <2>1 DEF SkipReads, PiecesInv
<1>4. CASE SkipWrites
  <2>1. Owed' = Owed - Size
    BY <1>0, <1>1, <1>4 DEF SkipWrites, Owed, MainOwes
  <2>2. UNCHANGED <<sent, skipped, copy, mainCopy>> /\ main = "add" /\ main' = "loop"
        /\ uploadedSize' = mainCopy + Size
    BY <1>4 DEF SkipWrites
  <2> QED
    BY <1>0, <1>1, <2>1, <2>2 DEF PiecesInv
<1> QED
  BY <1>2, <1>3, <1>4

LEMMA MainTypes ==
    ASSUME Typed, NamesInv, PiecesInv, TriesInv, OtherTypes, Main
    PROVE  PiecesInv' /\ TriesInv' /\ OtherTypes'
<1>1. /\ UNCHANGED <<tries, meta, names, half, date, ulnow>>
      /\ \/ UNCHANGED pc
         \/ \E f \in Files, s \in {"skipped", "md5"} : pc[f] = "off" /\ pc' = [pc EXCEPT ![f] = s]
  BY DEF Main, Skip, LookupFails, Take, SkipReads, SkipWrites, Log, Start, LoopEnds, Drain, Threads,
         NamesInv, bytes
<1>2. PiecesInv'
  <2>1. CASE (\E f \in Files : Skip(f)) \/ SkipReads \/ SkipWrites
    BY <2>1, SkipPieces
  <2>2. CASE (\E f \in Files : LookupFails(f) \/ Take(f)) \/ Log \/ Start \/ LoopEnds \/ Drain
    <3>1. UNCHANGED bytes /\ main' \notin {"skip", "add"}
      BY <2>2 DEF LookupFails, Take, Log, Start, LoopEnds, Drain
    <3> QED
      BY <1>1, <3>1, OthersOwe DEF bytes, Typed
  <2> QED
    BY <2>1, <2>2 DEF Main
<1>3. TriesInv'
  BY <1>1 DEF TriesInv, Typed
<1>4. OtherTypes'
  <2>1. /\ main' \in Places /\ cur' \in Files \cup {None}
        /\ failed' = failed \/ failed' = TRUE
        /\ tm' \in {"now", "past"}
    BY DEF Main, Skip, LookupFails, Take, SkipReads, SkipWrites, Log, Start, LoopEnds, Drain, Threads,
           OtherTypes, Places
  <2>2. failed' \in BOOLEAN
    BY <2>1 DEF OtherTypes
  <2> QED
    BY <1>1, <2>1, <2>2 DEF OtherTypes, names
<1> QED
  BY <1>2, <1>3, <1>4

LEMMA NamesTypes ==
    ASSUME Typed, NamesInv, PiecesInv, TriesInv, OtherTypes, NEW f \in Files,
           CompareMd5(f) \/ Names(f) \/ Prepare(f)
    PROVE  PiecesInv' /\ TriesInv' /\ OtherTypes'
<1> DEFINE Early == {"md5", "lock", "user", "group", "names", "gmtime", "strftime", "finish",
                  "send", "update"}
<1> USE DEF CompareMd5, Same, Differs, Names, Lock, GetUser, GetGroup, CopyNames, Die, Named, Prepare,
        Gmtime, StartFormat, FinishFormat, Dated, At, Goes
<1>1. /\ UNCHANGED <<todo, cur, failed, tries, bytes>> /\ pc[f] \in Early
      /\ UNCHANGED pc \/ \E s \in Early : pc' = [pc EXCEPT ![f] = s]
      /\ main' = main \/ main' = "dead"
  BY DEF control
<1>2. PiecesInv'
  BY <1>1, OthersOwe DEF bytes, Typed
<1>3. TriesInv'
  BY <1>1 DEF TriesInv, Typed
<1>4. OtherTypes'
  <2>1. CASE Names(f)
    <3>1. /\ main' \in {main, "dead"} /\ UNCHANGED meta /\ mutex' \in {mutex, f, None}
          /\ passwd' \in {passwd, Owner[f], None} /\ group' \in {group, Group[f], None}
          /\ UNCHANGED times
      BY <2>1 DEF control, names
    <3> QED
      BY <1>1, <3>1 DEF OtherTypes, Places, Ids, bytes, times
  <2>2. CASE Prepare(f)
    <3>1. /\ UNCHANGED <<main, meta, names>> /\ tm' \in {tm, "now"}
          /\ half' = half \/ half' = [half EXCEPT ![f] = tm]
          /\ date' = date \/ \E d \in {tm, "mixed"} : date' = [date EXCEPT ![f] = d]
      BY <2>2 DEF control
    <3> QED
      BY <1>1, <3>1 DEF OtherTypes, bytes, names
  <2>3. CASE CompareMd5(f)
    <3>1. UNCHANGED <<main, names, times>> /\ meta' \subseteq Stored
      BY <2>3 DEF control, OtherTypes
    <3> QED
      BY <1>1, <3>1 DEF OtherTypes, bytes, names, times
  <2> QED
    BY <2>1, <2>2, <2>3
<1> QED
  BY <1>2, <1>3, <1>4

\* One thread begins to owe or stops owing.
LEMMA OwesMore ==
    ASSUME Typed, PiecesInv, NEW f \in Files, pc[f] \notin {"read", "write"}, pc' = [pc EXCEPT ![f] = "read"]
    PROVE  IsFiniteSet(Owing)' /\ Cardinality(Owing)' = Cardinality(Owing) + 1 /\ Cardinality(Owing) \in Nat
<1>1. Owing' = Owing \cup {f} /\ f \notin Owing
  BY DEF Owing, Typed
<1> QED
  BY <1>1, FS_AddElement, FS_CardinalityType DEF PiecesInv

LEMMA OwesLess ==
    ASSUME Typed, PiecesInv, NEW f \in Files, pc[f] = "write", pc' = [pc EXCEPT ![f] = "send"]
    PROVE  IsFiniteSet(Owing)' /\ Cardinality(Owing)' = Cardinality(Owing) - 1 /\ Cardinality(Owing) \in Nat
<1>1. Owing' = Owing \ {f} /\ f \in Owing
  BY DEF Owing, Typed
<1> QED
  BY <1>1, FS_RemoveElement, FS_CardinalityType DEF PiecesInv

LEMMA TransferPieces ==
    ASSUME Typed, PiecesInv, NEW f \in Files, Transfer(f) \/ Update(f)
    PROVE  PiecesInv'
<1> USE DEF At, Goes, Sending
<1>0. Cardinality(Owing) \in Nat /\ MainOwes \in Nat
  BY OwedType
<1>1. UNCHANGED <<main, mainCopy, skipped, MainOwes>>
  BY DEF Transfer, Update, Updated, NotUpdated, Send, ReadSize, WriteSize, Answered, Accepted, Refused,
         Broken, MainOwes
<1>2. CASE Send(f)
  <2>1. Cardinality(Owing)' = Cardinality(Owing) + 1 /\ IsFiniteSet(Owing)'
    BY <1>2, OwesMore DEF Send
  <2> QED
    BY <1>0, <1>1, <1>2, <2>1 DEF Send, PiecesInv, Owed, Typed
<1>3. CASE ReadSize(f)
  <2>1. Owing' = Owing
    BY <1>3 DEF ReadSize, Owing, Typed
  <2> QED
    BY <1>0, <1>1, <1>3, <2>1 DEF ReadSize, PiecesInv, Owed, Typed
<1>4. CASE WriteSize(f)
  <2>1. Cardinality(Owing)' = Cardinality(Owing) - 1 /\ IsFiniteSet(Owing)'
    BY <1>4, OwesLess DEF WriteSize
  <2> QED
    BY <1>0, <1>1, <1>4, <2>1 DEF WriteSize, PiecesInv, Owed, Typed
<1>5. CASE Answered(f)
  <2>1. Owing' = Owing
    BY <1>5 DEF Answered, Owing, Typed
  <2> QED
    BY <1>0, <1>1, <1>5, <2>1 DEF Answered, PiecesInv, Owed, Typed
<1>6. CASE Accepted(f) \/ Refused(f)
  <2>1. Owing' = Owing
    BY <1>6 DEF Accepted, Refused, Owing, Typed
  <2> QED
    BY <1>0, <1>1, <1>6, <2>1 DEF Accepted, Refused, PiecesInv, Owed, Typed
<1>7. CASE Broken(f) \/ Update(f)
  <2>1. /\ UNCHANGED <<uploadedSize, sent, copy>> /\ pc[f] \in {"send", "update"}
        /\ \E s \in {"lock", "updated", "failed"} : pc' = [pc EXCEPT ![f] = s]
    BY <1>7 DEF Broken, Update, Updated, NotUpdated
  <2> QED
    BY <1>1, <2>1, OthersOwe DEF Typed
<1> QED
  BY <1>2, <1>3, <1>4, <1>5, <1>6, <1>7 DEF Transfer

LEMMA TransferTypes ==
    ASSUME Typed, PiecesInv, TriesInv, OtherTypes, NEW f \in Files, Transfer(f) \/ Update(f)
    PROVE  PiecesInv' /\ TriesInv' /\ OtherTypes'
<1> USE DEF At, Goes, Sending
<1>1. TriesInv'
  <2>1. CASE Broken(f)
    BY <2>1, NumbersAssumption DEF Broken, TriesInv, Typed
  <2>2. CASE ~Broken(f)
    <3>1. UNCHANGED tries /\ pc[f] # "failed" /\ \E s \in Steps : pc' = [pc EXCEPT ![f] = s]
      BY <2>2 DEF Transfer, Update, Updated, NotUpdated, Send, ReadSize, WriteSize, Answered, Accepted,
             Refused
    <3> QED
      BY <3>1 DEF TriesInv, Typed
  <2> QED
    BY <2>1, <2>2
<1>2. UNCHANGED <<main, todo, cur, meta, names, times>>
  BY DEF Transfer, Update, Updated, NotUpdated, Send, ReadSize, WriteSize, Answered, Accepted, Refused,
         Broken
<1>3. failed' \in BOOLEAN
  <2>1. failed' = failed \/ failed' = TRUE
    BY DEF Transfer, Update, Updated, NotUpdated, Send, ReadSize, WriteSize, Answered, Accepted, Refused,
           Broken
  <2> QED
    BY <2>1 DEF OtherTypes
<1>4. ulnow' \in [Files -> 0 .. Size]
  BY NumbersAssumption DEF Transfer, Update, Updated, NotUpdated, Send, ReadSize, WriteSize, Answered,
         Accepted, Refused, Broken, OtherTypes
<1>5. OtherTypes'
  BY <1>2, <1>3, <1>4 DEF OtherTypes, names, times
<1> QED
  BY <1>1, <1>5, TransferPieces

\* progress: the threads add to uploadedSize without a lock, lose each other's
\* additions and add what a retry sends again, and the main thread adds the files it skips, but the
\* number that clarc shows never goes beyond what was sent and skipped; and no file is
\* tried more often than the limit.
THEOREM RequestsTyped == Spec => []TypeOK
<1> DEFINE I == Typed /\ NamesInv /\ PiecesInv /\ TriesInv /\ OtherTypes
<1>1. I /\ [Next]_vars => I'
  <2> SUFFICES ASSUME I, [Next]_vars PROVE I'
    OBVIOUS
  <2>1. CASE UNCHANGED vars
    <3>1. UNCHANGED <<control, pc, meta, tries, names, times, bytes>>
      BY <2>1 DEF vars
    <3>2. Typed' /\ NamesInv'
      BY <3>1 DEF control, names, Typed, NamesInv, OwnersAreRight
    <3>3. PiecesInv' /\ TriesInv'
      BY <3>1 DEF PiecesInv, Owed, MainOwes, Owing, TriesInv, bytes, control
    <3>4. OtherTypes'
      BY <3>1 DEF OtherTypes, control, names, times, bytes
    <3> QED
      BY <3>2, <3>3, <3>4
  <2>2. CASE Main
    BY <2>2, MainNames, MainTypes
  <2>3. ASSUME NEW f \in Files, Thread(f) PROVE I'
    <3>1. CASE Names(f)
      BY <3>1, LockedNames, NamesTypes
    <3>2. CASE CompareMd5(f) \/ Prepare(f)
      BY <3>2, OtherNames, NamesTypes
    <3>3. CASE Transfer(f) \/ Update(f)
      BY <3>3, OtherNames, TransferTypes
    <3> QED
      BY <2>3, <3>1, <3>2, <3>3 DEF Thread
  <2> QED
    BY <2>1, <2>2, <2>3 DEF Next
<1>2. I => TypeOK
  <2> SUFFICES ASSUME I PROVE TypeOK
    OBVIOUS
  <2>1. Owed \in Nat
    BY OwedType
  <2>2. /\ sent \in Nat /\ skipped \in Nat /\ {uploadedSize, mainCopy} \subseteq 0 .. sent + skipped
        /\ copy \in [Files -> 0 .. sent + skipped]
    BY <2>1 DEF PiecesInv
  <2>3. tries \in [Files -> 0 .. MaxTries] /\ OtherTypes /\ Typed
    BY DEF TriesInv
  <2> QED
    BY <2>2, <2>3 DEF TypeOK, OtherTypes, Typed
<1> QED
  BY <1>1, <1>2, InitNames, PiecesInit, PTL DEF Spec
=============================================================================

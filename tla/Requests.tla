------------------------------ MODULE Requests ------------------------------
(***************************************************************************)
(* What the threads of an upload share while they make and send their      *)
(* requests (uploadFile, updateMeta and progress of upload.cc, microCurl.cc, *)
(* getIsoDate of utils.c): the buffers of getpwuid and getgrgid, which     *)
(* uidMutex guards; the struct tm of gmtime, which nothing guards and the  *)
(* main thread fills with mtimes for its log; and the counter of progress, *)
(* to which threads add what they sent and main the files it skips, all    *)
(* without a lock.  One thread serves one file; how threads get their slots *)
(* is in Threads, which files are skipped in Clarc, redirects in UploadRetry. *)
(***************************************************************************)
EXTENDS Naturals, FiniteSets

CONSTANTS
    Files,      \* the files of the list, each for a thread unless main skips it
    Stored,     \* those with an mtime in the database
    Owner,      \* st_uid of each file, and
    Group,      \* st_gid
    Nameless,   \* ids for which getpwuid and getgrgid may find nothing
    Size,       \* pieces of a file of which progress is told
    MaxTries,   \* attempts for a file
    None        \* nobody, nothing

ASSUME FilesAssumption ==
    /\ Stored \subseteq Files /\ None \notin Files
    /\ None \notin {Owner[f] : f \in Files} \cup {Group[f] : f \in Files}

ASSUME NumbersAssumption == Size \in Nat /\ MaxTries \in Nat \ {0}

Ids == {Owner[f] : f \in Files} \cup {Group[f] : f \in Files}

VARIABLES
    main,       \* where the main thread is, see Places
    todo,       \* files its loop has not reached
    cur,        \* the one it is at
    failed,     \* Uploader::failed
    pc,         \* where the thread of each file is, see Steps
    meta,       \* files of which only the metadata is sent
    tries,      \* attempts it has made
    mutex,      \* who holds uidMutex
    passwd,     \* the id whose name is in the buffer of getpwuid, and
    group,      \* in that of getgrgid
    header,     \* the ids whose names are in x-amz-meta-uid and -gid
    tm,         \* what is in the buffer of gmtime: "now" or an mtime, "past"
    half,       \* what strftime has read the date from
    date,       \* and what the Date header was made of, "mixed" if of both
    ulnow,      \* pieces of the attempt sent
    copy,       \* uploadedSize as a thread has read it, to be increased,
    mainCopy,   \* and as main has
    uploadedSize,
    sent,       \* history: pieces sent in all attempts,
    skipped     \* and those of the files that main skipped

control == <<main, todo, cur, failed>>
names == <<mutex, passwd, group, header>>
times == <<tm, half, date>>
bytes == <<ulnow, copy, mainCopy, uploadedSize, sent, skipped>>
vars == <<control, pc, meta, tries, names, times, bytes>>

Places == {"loop", "skip", "add", "log", "start", "drain", "tail", "end", "dead"}
Steps == {"off", "skipped", "md5", "lock", "user", "group", "names", "gmtime", "strftime", "finish",
          "send", "read", "write", "answered", "ok", "update", "updated", "failed"}
InLock == {"user", "group", "names"}
Unnamed == {"off", "skipped", "md5", "lock"} \cup InLock
Ended == {"off", "skipped", "ok", "updated", "failed"}

\* Every variable holds a value of the kind the code gives it; although additions
\* to it get lost and retries are added again, the counter is never ahead of what
\* was sent and skipped.
TypeOK ==
    /\ main \in Places /\ meta \subseteq Stored
    /\ todo \subseteq Files /\ cur \in Files \cup {None} /\ failed \in BOOLEAN
    /\ pc \in [Files -> Steps] /\ tries \in [Files -> 0 .. MaxTries]
    /\ mutex \in Files \cup {None}
    /\ {passwd, group} \subseteq Ids \cup {None}
    /\ header \in [Files -> (Ids \cup {None}) \X (Ids \cup {None})]
    /\ tm \in {"now", "past"}
    /\ half \in [Files -> {"now", "past"}] /\ date \in [Files -> {"now", "past", "mixed"}]
    /\ ulnow \in [Files -> 0 .. Size]
    /\ sent \in Nat /\ skipped \in Nat
    /\ {uploadedSize, mainCopy} \subseteq 0 .. sent + skipped
    /\ copy \in [Files -> 0 .. sent + skipped]

Init ==
    /\ main = "loop" /\ todo = Files /\ cur = None /\ failed = FALSE
    /\ pc = [f \in Files |-> "off"] /\ meta = {} /\ tries = [f \in Files |-> 0]
    /\ mutex = None /\ passwd = None /\ group = None
    /\ header = [f \in Files |-> <<None, None>>]
    /\ tm = "now" /\ half = [f \in Files |-> "now"] /\ date = [f \in Files |-> "now"]
    /\ ulnow = [f \in Files |-> 0] /\ copy = [f \in Files |-> 0]
    /\ mainCopy = 0 /\ uploadedSize = 0 /\ sent = 0 /\ skipped = 0

(***************************************************************************)
(* The main thread.                                                        *)
(***************************************************************************)
Threads == UNCHANGED <<meta, tries, names, half, date>>

\* A file that is not there, is too large or has the stored mtime is skipped: its
\* whole size counts as progress.
Skip(f) ==
    /\ main = "loop" /\ f \in todo /\ ~failed
    /\ todo' = todo \ {f} /\ pc' = [pc EXCEPT ![f] = "skipped"] /\ skipped' = skipped + Size
    /\ main' = "skip"
    /\ UNCHANGED <<cur, failed, tm, ulnow, copy, mainCopy, uploadedSize, sent>> /\ Threads

\* uploadedSize += sizes[i]
SkipReads ==
    /\ main = "skip"
    /\ mainCopy' = uploadedSize /\ main' = "add"
    /\ UNCHANGED <<todo, cur, failed, pc, tm, ulnow, copy, uploadedSize, sent, skipped>> /\ Threads

SkipWrites ==
    /\ main = "add"
    /\ uploadedSize' = mainCopy + Size /\ main' = "loop"
    /\ UNCHANGED <<todo, cur, failed, pc, tm, ulnow, copy, mainCopy, sent, skipped>> /\ Threads

LookupFails(f) ==
    /\ main = "loop" /\ f \in todo /\ ~failed
    /\ todo' = todo \ {f} /\ failed' = TRUE
    /\ UNCHANGED <<main, cur, pc, tm, bytes>> /\ Threads

\* logDebugMtime formats the stored mtime, whatever the log level is,
Take(f) ==
    /\ main = "loop" /\ f \in todo /\ ~failed
    /\ cur' = f /\ todo' = todo \ {f}
    /\ IF f \in Stored THEN main' = "log" /\ tm' = "past" ELSE main' = "start" /\ UNCHANGED tm
    /\ UNCHANGED <<failed, pc, bytes>> /\ Threads

\* and then that of the file.
Log ==
    /\ main = "log"
    /\ tm' = "past" /\ main' = "start"
    /\ UNCHANGED <<todo, cur, failed, pc, bytes>> /\ Threads

Start ==
    /\ main = "start"
    /\ pc' = [pc EXCEPT ![cur] = "md5"]
    /\ main' = "loop" /\ cur' = None
    /\ UNCHANGED <<todo, failed, tm, bytes>> /\ Threads

LoopEnds ==
    /\ main = "loop" /\ (todo = {} \/ failed)
    /\ main' = "drain"
    /\ UNCHANGED <<todo, cur, failed, pc, tm, bytes>> /\ Threads

\* Mutant: reads failed before the threads have ended.
Drain_Early ==
    /\ main = "drain"
    /\ main' = IF failed THEN "end" ELSE "tail"
    /\ UNCHANGED <<todo, cur, failed, pc, tm, bytes>> /\ Threads

Drain ==
    /\ main = "drain" /\ \A f \in Files : pc[f] \in Ended
    /\ main' = IF failed THEN "end" ELSE "tail"
    /\ UNCHANGED <<todo, cur, failed, pc, tm, bytes>> /\ Threads

Main ==
    \/ \E f \in Files : Skip(f) \/ LookupFails(f) \/ Take(f)
    \/ SkipReads \/ SkipWrites \/ Log \/ Start \/ LoopEnds \/ Drain

At(f, step) == main # "dead" /\ pc[f] = step
Goes(f, step) == pc' = [pc EXCEPT ![f] = step]

(***************************************************************************)
(* runOverThread: of a regular file with a stored row whose md5 is the     *)
(* same, only the metadata is sent.                                        *)
(***************************************************************************)
Same(f) ==
    /\ At(f, "md5") /\ f \in Stored
    /\ meta' = meta \cup {f} /\ Goes(f, "lock")
    /\ UNCHANGED <<control, tries, names, times, bytes>>

Differs(f) ==
    /\ At(f, "md5")
    /\ Goes(f, "lock")
    /\ UNCHANGED <<control, meta, tries, names, times, bytes>>

CompareMd5(f) == Same(f) \/ Differs(f)

(***************************************************************************)
(* addUidAndGidHeaders.                                                    *)
(***************************************************************************)
Named == UNCHANGED <<control, meta, tries, times, bytes>>

\* Mutant: nobody waits for the lock.
Lock_Not(f) ==
    /\ At(f, "lock")
    /\ mutex' = f /\ Goes(f, "user")
    /\ UNCHANGED <<passwd, group, header>> /\ Named

Lock(f) ==
    /\ At(f, "lock") /\ mutex = None
    /\ mutex' = f /\ Goes(f, "user")
    /\ UNCHANGED <<passwd, group, header>> /\ Named

GetUser(f) ==
    /\ At(f, "user")
    /\ passwd' \in {Owner[f]} \cup (IF Owner[f] \in Nameless THEN {None} ELSE {})
    /\ Goes(f, "group")
    /\ UNCHANGED <<mutex, group, header>> /\ Named

GetGroup(f) ==
    /\ At(f, "group")
    /\ group' \in {Group[f]} \cup (IF Group[f] \in Nameless THEN {None} ELSE {})
    /\ Goes(f, "names")
    /\ UNCHANGED <<mutex, passwd, header>> /\ Named

\* Copies the names, and gives the lock back.
CopyNames(f) ==
    /\ At(f, "names") /\ passwd # None /\ group # None
    /\ header' = [header EXCEPT ![f] = <<passwd, group>>]
    /\ mutex' = None /\ Goes(f, "gmtime")
    /\ UNCHANGED <<passwd, group>> /\ Named

\* There is no name: the null pointer is read, and the process dies.
Die(f) ==
    /\ At(f, "names") /\ (passwd = None \/ group = None)
    /\ main' = "dead"
    /\ UNCHANGED <<todo, cur, failed, pc, meta, tries, names, times, bytes>>

Names(f) == Lock(f) \/ GetUser(f) \/ GetGroup(f) \/ CopyNames(f) \/ Die(f)

(***************************************************************************)
(* getIsoDate, called by prepare.  The signature is made of the same text. *)
(***************************************************************************)
Dated == UNCHANGED <<control, meta, tries, names, bytes>>

Gmtime(f) ==
    /\ At(f, "gmtime")
    /\ tm' = "now" /\ Goes(f, "strftime")
    /\ UNCHANGED <<half, date>> /\ Dated

StartFormat(f) ==
    /\ At(f, "strftime")
    /\ half' = [half EXCEPT ![f] = tm] /\ Goes(f, "finish")
    /\ UNCHANGED <<tm, date>> /\ Dated

FinishFormat(f) ==
    /\ At(f, "finish")
    /\ date' = [date EXCEPT ![f] = IF half[f] = tm THEN tm ELSE "mixed"]
    /\ Goes(f, IF f \in meta THEN "update" ELSE "send")
    /\ UNCHANGED <<tm, half>> /\ Dated

Prepare(f) == Gmtime(f) \/ StartFormat(f) \/ FinishFormat(f)

(***************************************************************************)
(* The transfer and its progress.                                          *)
(***************************************************************************)
Sending == UNCHANGED <<main, todo, cur, meta, mainCopy, skipped, names, times>>

Send(f) ==
    /\ At(f, "send") /\ ulnow[f] < Size
    /\ ulnow' = [ulnow EXCEPT ![f] = @ + 1] /\ sent' = sent + 1
    /\ Goes(f, "read")
    /\ UNCHANGED <<failed, tries, copy, uploadedSize>> /\ Sending

\* uploadedSize += uploadedBytes
ReadSize(f) ==
    /\ At(f, "read")
    /\ copy' = [copy EXCEPT ![f] = uploadedSize] /\ Goes(f, "write")
    /\ UNCHANGED <<failed, tries, ulnow, uploadedSize, sent>> /\ Sending

\* Mutant: adds all that was sent of the file.
WriteSize_All(f) ==
    /\ At(f, "write")
    /\ uploadedSize' = copy[f] + ulnow[f] /\ Goes(f, "send")
    /\ UNCHANGED <<failed, tries, ulnow, copy, sent>> /\ Sending

WriteSize(f) ==
    /\ At(f, "write")
    /\ uploadedSize' = copy[f] + 1 /\ Goes(f, "send")
    /\ UNCHANGED <<failed, tries, ulnow, copy, sent>> /\ Sending

\* The call of progress that follows an answer adds nothing, but writes back what
\* it read before others added.
Answered(f) ==
    /\ At(f, "send") /\ ulnow[f] = Size
    /\ copy' = [copy EXCEPT ![f] = uploadedSize] /\ Goes(f, "answered")
    /\ UNCHANGED <<failed, tries, ulnow, uploadedSize, sent>> /\ Sending

Accepted(f) ==
    /\ At(f, "answered")
    /\ uploadedSize' = copy[f] /\ Goes(f, "ok")
    /\ UNCHANGED <<failed, tries, ulnow, copy, sent>> /\ Sending

\* 403, RequestTimeTooSkewed: only a date that is not now can be refused.
Refused(f) ==
    /\ At(f, "answered") /\ date[f] # "now"
    /\ uploadedSize' = copy[f] /\ failed' = TRUE /\ Goes(f, "failed")
    /\ UNCHANGED <<tries, ulnow, copy, sent>> /\ Sending

\* An error in the middle: once more from the beginning, with new headers.
Broken(f) ==
    /\ At(f, "send")
    /\ tries' = [tries EXCEPT ![f] = @ + 1]
    /\ IF tries[f] + 1 < MaxTries
       THEN Goes(f, "lock") /\ UNCHANGED failed
       ELSE Goes(f, "failed") /\ failed' = TRUE
    /\ ulnow' = [ulnow EXCEPT ![f] = 0]
    /\ UNCHANGED <<copy, uploadedSize, sent>> /\ Sending

Transfer(f) ==
    Send(f) \/ ReadSize(f) \/ WriteSize(f) \/ Answered(f) \/ Accepted(f) \/ Refused(f) \/ Broken(f)

(***************************************************************************)
(* updateMeta: one attempt, of which no progress is told.                  *)
(***************************************************************************)
\* An answer is a success whatever its status is, 403 for a spoilt date too.
Updated(f) ==
    /\ At(f, "update")
    /\ Goes(f, "updated")
    /\ UNCHANGED <<failed, tries, ulnow, copy, uploadedSize, sent>> /\ Sending

NotUpdated(f) ==
    /\ At(f, "update")
    /\ failed' = TRUE /\ Goes(f, "failed")
    /\ UNCHANGED <<tries, ulnow, copy, uploadedSize, sent>> /\ Sending

Update(f) == Updated(f) \/ NotUpdated(f)

Thread(f) == CompareMd5(f) \/ Names(f) \/ Prepare(f) \/ Transfer(f) \/ Update(f)

Next == Main \/ \E f \in Files : Thread(f)

Spec == Init /\ [][Next]_vars

(***************************************************************************)
(* Properties.                                                             *)
(***************************************************************************)
\* addUidAndGidHeaders: the names sent with a file are those of its own owner and
\* group, although all threads get them in the same two buffers.
OwnersAreRight ==
    \A f \in Files : pc[f] \notin Unnamed => header[f] = <<Owner[f], Group[f]>>

\* Why: one thread at a time is between the lock and the copy, and what it finds in
\* the buffers is its own.
NamesInv ==
    /\ main \in {"log", "start"} => cur \in Files /\ cur \notin todo /\ pc[cur] = "off"
    /\ \A f \in todo : pc[f] = "off"
    /\ \A f \in Files : mutex = f <=> pc[f] \in InLock
    /\ \A f \in Files :
          /\ pc[f] \in {"group", "names"} => passwd \in {Owner[f], None}
          /\ pc[f] = "names" => group \in {Group[f], None}
    /\ OwnersAreRight

\* getIsoDate, logDebugMtime, runOverThread: a date that the log of an mtime spoilt
\* can cost a request.  If it cost the PUT of a content, the run does not go on to
\* --delete and the upload of the database.  It may if it cost an update of the
\* metadata: those are the only files, but for the skipped, that a run goes on
\* without knowing them accepted.
RefusalIsNoticed ==
    main = "tail" => \A f \in Files :
        pc[f] \in {"skipped", "ok"} \/ (f \in meta /\ pc[f] = "updated")

\* Why: every file the loop has passed is skipped or has a thread, one that failed
\* has set the flag, and after the drain no thread is left that could.
NoticeInv ==
    /\ main # "dead" => \A f \in Files :
          pc[f] = "off" => f \in todo \/ failed \/ (main \in {"log", "start"} /\ f = cur)
    /\ \A f \in Files : pc[f] = "failed" => failed
    /\ \A f \in Files : pc[f] \in {"update", "updated"} => f \in meta
    /\ main = "drain" => todo = {} \/ failed
    /\ RefusalIsNoticed
=============================================================================

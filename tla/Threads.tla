------------------------------- MODULE Threads -------------------------------
(***************************************************************************)
(* threads.cc and the two loops around it, of uploadFiles (upload.cc) and  *)
(* of resolveMtimes (remoteListOfFiles.cc).  The array busyThreads has no  *)
(* lock: the main thread reads it one element at a time, looking for a     *)
(* free slot or for a busy one, while workers write to it.  A worker ends  *)
(* in two steps: it is done with the task, and it marks its slot free; its *)
(* thread, which is detached, touches nothing after that.                  *)
(*                                                                         *)
(* What a task does is left out; it may set the flag failed.               *)
(***************************************************************************)
EXTENDS Naturals

CONSTANTS
    Tasks,      \* entries of the list that the loop of the main thread goes through
    N,          \* threadsCount
    None        \* no task, no slot

ASSUME CountAssumption == N \in Nat \ {0}

ASSUME NoneAssumption == None \notin Tasks /\ None \notin 0 .. N - 1

Slots == 0 .. N - 1

VARIABLES
    pc,         \* the main thread: "loop", "find", "mark", "create", "scan", "done", "dead"
    i,          \* index of the element it reads next
    foundBusy,  \* local of sleepTillAllThreadsFree
    task,       \* the entry being dispatched
    busy,       \* busyThreads
    todo,       \* entries the loop has not dispatched or passed over
    at,         \* threadNumber of each task that has not marked its slot free
    outcome,    \* what became of each task
    failed      \* Uploader::failed, RemoteListOfFiles::failed

main == <<pc, i, foundBusy, task>>
vars == <<main, busy, todo, at, outcome, failed>>

\* The values of the variables are those of the code's locals and arrays.
TypeOK ==
    /\ pc \in {"loop", "find", "mark", "create", "scan", "done", "dead"}
    /\ i \in 0 .. N
    /\ foundBusy \in {0, 1}
    /\ task \in Tasks \cup {None}
    /\ busy \in [Slots -> {0, 1}]
    /\ todo \subseteq Tasks
    /\ at \in [Tasks -> Slots \cup {None}]
    /\ outcome \in [Tasks -> {"none", "ok", "failed"}]
    /\ failed \in BOOLEAN

Init ==
    /\ pc = "loop" /\ i = 0 /\ foundBusy = 0 /\ task = None
    /\ busy = [s \in Slots |-> 0]
    /\ todo = Tasks
    /\ at = [t \in Tasks |-> None]
    /\ outcome = [t \in Tasks |-> "none"]
    /\ failed = FALSE

Ends(t, o) ==
    /\ outcome' = [outcome EXCEPT ![t] = o]
    /\ failed' = (failed \/ o = "failed")

(***************************************************************************)
(* The main thread.                                                        *)
(***************************************************************************)
\* An entry that needs no thread: not changed, too large, gone, lookup failed.
Skip(t, o) ==
    /\ pc = "loop" /\ t \in todo /\ ~failed
    /\ todo' = todo \ {t}
    /\ Ends(t, o)
    /\ UNCHANGED <<main, busy, at>>

Take(t) ==
    /\ pc = "loop" /\ t \in todo /\ ~failed
    /\ pc' = "find" /\ i' = 0 /\ task' = t
    /\ UNCHANGED <<foundBusy, busy, todo, at, outcome, failed>>

\* Mutants: takes the first slot, free or not; does not stop after the last one.
Find_First ==
    /\ pc = "find"
    /\ i' = 0 /\ pc' = "mark"
    /\ UNCHANGED <<foundBusy, task, busy, todo, at, outcome, failed>>

Find_Overruns ==
    /\ pc = "find"
    /\ \/ i < N /\ busy[i] = 1 /\ i' = i + 1 /\ UNCHANGED pc
       \/ i < N /\ busy[i] = 0 /\ pc' = "mark" /\ UNCHANGED i
       \/ i = N /\ i' = i + 1 /\ UNCHANGED pc
    /\ UNCHANGED <<foundBusy, task, busy, todo, at, outcome, failed>>

\* findFreeThread reads element i and returns the first free one; after the last
\* element sleepTillThreadFree sleeps and starts again.
Find ==
    /\ pc = "find"
    /\ \/ i < N /\ busy[i] = 1 /\ i' = i + 1 /\ UNCHANGED pc
       \/ i < N /\ busy[i] = 0 /\ pc' = "mark" /\ UNCHANGED i
       \/ i = N /\ i' = 0 /\ UNCHANGED pc
    /\ UNCHANGED <<foundBusy, task, busy, todo, at, outcome, failed>>

MarkBusy ==
    /\ pc = "mark"
    /\ busy' = [busy EXCEPT ![i] = 1]
    /\ pc' = "create"
    /\ UNCHANGED <<i, foundBusy, task, todo, at, outcome, failed>>

\* pthread_create; when it fails the process exits and takes all threads along.
Create ==
    /\ pc = "create"
    /\ \/ /\ at' = [at EXCEPT ![task] = i]
          /\ todo' = todo \ {task}
          /\ pc' = "loop"
       \/ /\ pc' = "dead"
          /\ UNCHANGED <<at, todo>>
    /\ i' = 0 /\ task' = None
    /\ UNCHANGED <<foundBusy, busy, outcome, failed>>

LoopEnds ==
    /\ pc = "loop"
    /\ todo = {} \/ failed
    /\ pc' = "scan" /\ i' = 0 /\ foundBusy' = 0
    /\ UNCHANGED <<task, busy, todo, at, outcome, failed>>

\* Mutants: remembers the last element only; takes one pass for enough.
Scan_LastOnly ==
    /\ pc = "scan"
    /\ \/ i < N /\ i' = i + 1 /\ foundBusy' = busy[i] /\ UNCHANGED pc
       \/ i = N /\ foundBusy = 1 /\ i' = 0 /\ foundBusy' = 0 /\ UNCHANGED pc
       \/ i = N /\ foundBusy = 0 /\ pc' = "done" /\ i' = 0 /\ UNCHANGED foundBusy
    /\ UNCHANGED <<task, busy, todo, at, outcome, failed>>

Scan_Stuck ==
    /\ pc = "scan"
    /\ \/ i < N /\ i' = i + 1 /\ foundBusy' = (IF busy[i] = 1 THEN 1 ELSE foundBusy) /\ UNCHANGED pc
       \/ i = N /\ foundBusy = 1 /\ i' = 0 /\ UNCHANGED <<pc, foundBusy>>
       \/ i = N /\ foundBusy = 0 /\ pc' = "done" /\ i' = 0 /\ UNCHANGED foundBusy
    /\ UNCHANGED <<task, busy, todo, at, outcome, failed>>

\* sleepTillAllThreadsFree: element i, or the end of a pass and the sleep.
Scan ==
    /\ pc = "scan"
    /\ \/ i < N /\ i' = i + 1 /\ foundBusy' = (IF busy[i] = 1 THEN 1 ELSE foundBusy) /\ UNCHANGED pc
       \/ i = N /\ foundBusy = 1 /\ i' = 0 /\ foundBusy' = 0 /\ UNCHANGED pc
       \/ i = N /\ foundBusy = 0 /\ pc' = "done" /\ i' = 0 /\ UNCHANGED foundBusy
    /\ UNCHANGED <<task, busy, todo, at, outcome, failed>>

Main ==
    \/ \E t \in Tasks : Take(t) \/ \E o \in {"ok", "failed"} : Skip(t, o)
    \/ Find \/ MarkBusy \/ Create \/ LoopEnds \/ Scan

(***************************************************************************)
(* The threads.                                                            *)
(***************************************************************************)
\* Mutant: the slot is marked free by the thread before the task is done.
MarkFree_Early(t) ==
    /\ pc # "dead" /\ at[t] # None
    /\ busy' = [busy EXCEPT ![at[t]] = 0]
    /\ UNCHANGED <<main, todo, at, outcome, failed>>

Work(t, o) ==
    /\ pc # "dead" /\ at[t] # None /\ outcome[t] = "none"
    /\ Ends(t, o)
    /\ UNCHANGED <<main, busy, todo, at>>

MarkFree(t) ==
    /\ pc # "dead" /\ at[t] # None /\ outcome[t] # "none"
    /\ busy' = [busy EXCEPT ![at[t]] = 0]
    /\ at' = [at EXCEPT ![t] = None]
    /\ UNCHANGED <<main, todo, outcome, failed>>

Thread(t) == (\E o \in {"ok", "failed"} : Work(t, o)) \/ MarkFree(t)

(***************************************************************************)
(* The specification.                                                      *)
(***************************************************************************)
Next == Main \/ \E t \in Tasks : Thread(t)

Spec == Init /\ [][Next]_vars

\* The scheduler runs the main thread and every worker.
FairSpec == Spec /\ WF_vars(Main) /\ \A t \in Tasks : WF_vars(Thread(t))

(***************************************************************************)
(* Properties.                                                             *)
(***************************************************************************)
\* A slot is never given to a task while the task that has it still works:
\* findFreeThread and markBusy are not atomic, but only one thread takes slots.
SlotsAreExclusive ==
    \A t, u \in Tasks : t # u /\ at[t] # None => at[t] # at[u]

\* When sleepTillAllThreadsFree returns no worker touches anything any more,
\* although it read the slots at different times; if the run did not fail then
\* every entry was dealt with and none of them failed.
DrainIsComplete ==
    pc = "done" =>
        /\ \A t \in Tasks : at[t] = None
        /\ failed \/ \A t \in Tasks : outcome[t] = "ok"
        /\ failed <=> \E t \in Tasks : outcome[t] = "failed"

\* A flag is up exactly while its slot is taken.
FlagsUp ==
    pc # "dead" => \A s \in Slots :
        busy[s] = 1 <=> (\E t \in Tasks : at[t] = s) \/ (pc = "create" /\ i = s)

\* The slot that findFreeThread found is still free.
SlotFound ==
    /\ pc \in {"mark", "create"} => i \in Slots /\ \A t \in Tasks : at[t] # i
    /\ pc = "mark" => busy[i] = 0
    /\ pc \in {"find", "mark", "create"} => task \in todo

\* An entry is still to come, at work, or has an outcome.
EntriesLeft ==
    /\ \A t \in todo : at[t] = None /\ outcome[t] = "none"
    /\ \A t \in Tasks \ todo : at[t] # None \/ outcome[t] # "none"
    /\ pc \in {"scan", "done"} => todo = {} \/ failed
    /\ failed <=> \E t \in Tasks : outcome[t] = "failed"

\* A pass of the drain that has found nothing busy so far is right about the
\* slots it has read.
DrainPass ==
    /\ pc = "scan" /\ foundBusy = 0 => \A s \in Slots : s < i => busy[s] = 0
    /\ pc = "done" => \A s \in Slots : busy[s] = 0

\* The inductive invariant: what the flags say of the slots and the entries at
\* every step of the three unsynchronised scans.
FlagsInv == FlagsUp /\ SlotFound /\ EntriesLeft /\ DrainPass

\* The waits end: the loop and the drain both get to their end, or the process
\* gave up on a failed pthread_create.
PoolEnds == <>(pc \in {"done", "dead"})

(***************************************************************************)
(* The pool as its users see it: a task leaves its slot when it is done,   *)
(* and the drain is one step.                                              *)
(***************************************************************************)
Pool == INSTANCE ThreadPool WITH
    at <- [t \in Tasks |-> IF outcome[t] = "none" THEN at[t] ELSE None],
    mode <- CASE pc = "done" -> "closed" [] pc = "dead" -> "aborted" [] OTHER -> "open"

ImplementsPool == Pool!Spec
=============================================================================

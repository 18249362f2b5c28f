----------------------------- MODULE ThreadPool -----------------------------
(***************************************************************************)
(* What uploadFiles and resolveMtimes rely on Threads for: each task is    *)
(* given to a free slot in one step, and the pool closes in one step when  *)
(* nothing runs.  Clarc dispatches and drains in this way.                 *)
(***************************************************************************)
EXTENDS Naturals

CONSTANTS
    Tasks,      \* entries of the list that the loop of the main thread goes through
    N,          \* threadsCount, the number of slots
    None        \* no slot

VARIABLES
    todo,       \* tasks the loop has not dispatched or passed over
    at,         \* the slot a running task occupies
    outcome,    \* what became of each task
    failed,     \* Uploader::failed, RemoteListOfFiles::failed
    mode        \* "open", then "closed"; "aborted" when the process gave up

pool == <<todo, at, outcome, failed, mode>>

TypeOK ==
    /\ todo \subseteq Tasks
    /\ at \in [Tasks -> 0 .. N - 1 \cup {None}]
    /\ outcome \in [Tasks -> {"none", "ok", "failed"}]
    /\ failed \in BOOLEAN
    /\ mode \in {"open", "closed", "aborted"}

Init ==
    /\ todo = Tasks
    /\ at = [t \in Tasks |-> None]
    /\ outcome = [t \in Tasks |-> "none"]
    /\ failed = FALSE
    /\ mode = "open"

\* Task t ends with outcome o, in whichever thread.
Ends(t, o) ==
    /\ outcome' = [outcome EXCEPT ![t] = o]
    /\ failed' = (failed \/ o = "failed")

\* The main thread deals with t itself.
Skip(t, o) ==
    /\ mode = "open" /\ t \in todo /\ ~failed
    /\ todo' = todo \ {t}
    /\ Ends(t, o)
    /\ UNCHANGED <<at, mode>>

\* A thread for t starts in slot s, which no other task occupies.
Dispatch(t, s) ==
    /\ mode = "open" /\ t \in todo
    /\ \A u \in Tasks : at[u] # s
    /\ todo' = todo \ {t}
    /\ at' = [at EXCEPT ![t] = s]
    /\ UNCHANGED <<outcome, failed, mode>>

Finish(t, o) ==
    /\ mode = "open" /\ at[t] # None
    /\ at' = [at EXCEPT ![t] = None]
    /\ Ends(t, o)
    /\ UNCHANGED <<todo, mode>>

Close ==
    /\ mode = "open"
    /\ todo = {} \/ failed
    /\ \A t \in Tasks : at[t] = None
    /\ mode' = "closed"
    /\ UNCHANGED <<todo, at, outcome, failed>>

Abort ==
    /\ mode = "open"
    /\ mode' = "aborted"
    /\ UNCHANGED <<todo, at, outcome, failed>>

Next ==
    \/ \E t \in Tasks, o \in {"ok", "failed"} : Skip(t, o) \/ Finish(t, o)
    \/ \E t \in Tasks, s \in 0 .. N - 1 : Dispatch(t, s)
    \/ Close
    \/ Abort

Spec == Init /\ [][Next]_pool
=============================================================================

------------------------------- MODULE Mirror -------------------------------
(***************************************************************************)
(* What clarc promises of a folder and its objects, without database and   *)
(* threads.  While clarc is active it may make the object of a file what   *)
(* the file is at that moment, and drop the object of a file that is not   *)
(* there.  Only of a file that the user edits meanwhile may the object     *)
(* become a torn copy, or be dropped though the file is back.  What it may *)
(* do it may also ask for and give up waiting: such a change may come at   *)
(* any time, and it alone can bring back an older content.                 *)
(***************************************************************************)
CONSTANTS
    Files,
    Contents,   \* what a file can hold
    None,       \* no file, no object
    Torn        \* an object made of two contents

VARIABLES
    file,       \* the content of each file, None if it is not there
    object,     \* the content of each object, None if there is none
    active,     \* whether clarc runs
    busy,       \* files edited since it was started
    late        \* changes given up: files with what their object may become

vars == <<file, object, active, busy, late>>

Init ==
    /\ file \in [Files -> Contents \cup {None}]
    /\ object = [f \in Files |-> None]
    /\ active = FALSE
    /\ busy = {}
    /\ late = {}

Edit(f) ==
    /\ file'[f] \in Contents \cup {None}
    /\ file' = [file EXCEPT ![f] = file'[f]]
    /\ busy' = IF active THEN busy \cup {f} ELSE busy
    /\ UNCHANGED <<object, active, late>>

Begin ==
    /\ ~active
    /\ active' = TRUE
    /\ UNCHANGED <<file, object, busy, late>>

\* At any time: the process may die.
End ==
    /\ active
    /\ active' = FALSE
    /\ busy' = {}
    /\ UNCHANGED <<file, object, late>>

\* What the object of f may become now.
Due(f) == {file[f]} \cup (IF f \in busy THEN {Torn, None} ELSE {})

Copy(f) ==
    /\ active
    /\ \E c \in Due(f) \ {None} : object' = [object EXCEPT ![f] = c]
    /\ UNCHANGED <<file, active, busy, late>>

\* Objects are deleted many at a time.
Drop(fs) ==
    /\ active
    /\ \A f \in fs : None \in Due(f)
    /\ object' = [f \in Files |-> IF f \in fs THEN None ELSE object[f]]
    /\ UNCHANGED <<file, active, busy, late>>

\* Copies and deletions are asked for, and clarc does not wait for the answer.
GiveUp ==
    /\ active
    /\ late \subseteq late'
    /\ \A p \in late' \ late : p \in UNION {{f} \X Due(f) : f \in Files}
    /\ UNCHANGED <<file, object, active, busy>>

\* One of several alike may be left.
Arrive(p) ==
    /\ object' = [object EXCEPT ![p[1]] = p[2]]
    /\ late' \in {late, late \ {p}}
    /\ UNCHANGED <<file, active, busy>>

Next ==
    \/ \E f \in Files : Edit(f) \/ Copy(f)
    \/ Begin
    \/ End
    \/ \E fs \in SUBSET Files : Drop(fs)
    \/ GiveUp
    \/ \E p \in late : Arrive(p)

Spec == Init /\ [][Next]_vars
=============================================================================

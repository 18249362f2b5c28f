------------------------------ MODULE MCThreads ------------------------------
(***************************************************************************)
(* Constants of the small instances of Threads that TLC checks.            *)
(***************************************************************************)
EXTENDS Threads, TLC

CONSTANTS t1, t2, t3, t4

FourTasks == {t1, t2, t3, t4}
=============================================================================

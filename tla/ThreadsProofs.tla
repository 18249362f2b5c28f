---------------------------- MODULE ThreadsProofs ----------------------------
(***************************************************************************)
(* Theorems about Threads, for any number of slots and tasks.              *)
(***************************************************************************)
EXTENDS Threads, TLAPS

USE CountAssumption, NoneAssumption

\* Nothing is at work before the loop.
LEMMA InvInit == Init => TypeOK /\ FlagsInv /\ SlotsAreExclusive
  <1> SUFFICES ASSUME Init PROVE TypeOK /\ FlagsInv /\ SlotsAreExclusive
    OBVIOUS
  <1>1. TypeOK
    <2>1. 0 \in 0 .. N
      OBVIOUS
    <2>2. QED
      BY <2>1 DEF Init, TypeOK
  <1>2. \A s \in Slots : None # s
    BY DEF Slots
  <1>3. FlagsUp
    BY <1>2 DEF Init, FlagsUp
  <1>4. SlotFound /\ EntriesLeft /\ DrainPass /\ SlotsAreExclusive
    BY DEF Init, SlotFound, EntriesLeft, DrainPass, SlotsAreExclusive
  <1>5. QED
    BY <1>1, <1>3, <1>4 DEF FlagsInv

\* The main thread is the only one that takes slots, so what it read stays true.
LEMMA MainStep ==
    ASSUME TypeOK, FlagsInv, SlotsAreExclusive, Main
    PROVE  TypeOK' /\ FlagsInv' /\ SlotsAreExclusive'
  <1> USE DEF main, FlagsInv
  <1>1. ASSUME NEW t \in Tasks, NEW o \in {"ok", "failed"}, Skip(t, o)
        PROVE  TypeOK' /\ FlagsInv' /\ SlotsAreExclusive'
    <2>1. TypeOK'
      BY <1>1 DEF Skip, Ends, TypeOK
    <2>2. FlagsUp' /\ SlotFound' /\ DrainPass' /\ SlotsAreExclusive'
      BY <1>1 DEF Skip, FlagsUp, SlotFound, DrainPass, SlotsAreExclusive
    <2>3. EntriesLeft'
      BY <1>1 DEF Skip, Ends, EntriesLeft, TypeOK
    <2>4. QED
      BY <2>1, <2>2, <2>3
  <1>2. ASSUME NEW t \in Tasks, Take(t)
        PROVE  TypeOK' /\ FlagsInv' /\ SlotsAreExclusive'
    BY <1>2 DEF Take, TypeOK, FlagsUp, SlotFound, EntriesLeft, DrainPass, SlotsAreExclusive
  <1>3. CASE Find
    BY <1>3 DEF Find, TypeOK, FlagsUp, SlotFound, EntriesLeft, DrainPass, SlotsAreExclusive, Slots
  <1>4. CASE MarkBusy
    BY <1>4
    DEF MarkBusy, TypeOK, FlagsUp, SlotFound, EntriesLeft, DrainPass, SlotsAreExclusive, Slots
  <1>5. CASE Create
    <2>1. TypeOK'
      BY <1>5 DEF Create, TypeOK, SlotFound, EntriesLeft
    <2>2. FlagsUp'
      <3>1. \A s \in Slots : s # None
        BY DEF Slots
      <3>2. QED
        BY <1>5, <3>1 DEF Create, TypeOK, FlagsUp, SlotFound, EntriesLeft
    <2>3. EntriesLeft'
      BY <1>5 DEF Create, TypeOK, EntriesLeft, SlotFound
    <2>4. SlotsAreExclusive'
      BY <1>5 DEF Create, TypeOK, SlotFound, SlotsAreExclusive
    <2>5. SlotFound' /\ DrainPass'
      BY <1>5 DEF Create, SlotFound, DrainPass
    <2>6. QED
      BY <2>1, <2>2, <2>3, <2>4, <2>5
  <1>6. CASE LoopEnds
    <2>1. TypeOK' /\ DrainPass'
      BY <1>6 DEF LoopEnds, TypeOK, DrainPass, Slots
    <2>2. FlagsUp' /\ SlotFound' /\ EntriesLeft' /\ SlotsAreExclusive'
      BY <1>6 DEF LoopEnds, FlagsUp, SlotFound, EntriesLeft, SlotsAreExclusive
    <2>3. QED
      BY <2>1, <2>2
  <1>7. CASE Scan
    <2>1. TypeOK'
      BY <1>7 DEF Scan, TypeOK
    <2>2. DrainPass'
      BY <1>7 DEF Scan, DrainPass, TypeOK, Slots
    <2>3. FlagsUp' /\ SlotFound' /\ EntriesLeft' /\ SlotsAreExclusive'
      BY <1>7 DEF Scan, FlagsUp, SlotFound, EntriesLeft, SlotsAreExclusive
    <2>4. QED
      BY <2>1, <2>2, <2>3
  <1>8. QED
    BY <1>1, <1>2, <1>3, <1>4, <1>5, <1>6, <1>7 DEF Main

\* A thread only ever lowers its own flag.
LEMMA ThreadStep ==
    ASSUME TypeOK, FlagsInv, SlotsAreExclusive, NEW t \in Tasks, Thread(t)
    PROVE  TypeOK' /\ FlagsInv' /\ SlotsAreExclusive'
  <1> USE DEF main, FlagsInv
  <1>1. ASSUME NEW o \in {"ok", "failed"}, Work(t, o)
        PROVE  TypeOK' /\ FlagsInv' /\ SlotsAreExclusive'
    <2>1. TypeOK'
      BY <1>1 DEF Work, Ends, TypeOK
    <2>2. FlagsUp' /\ SlotFound' /\ DrainPass' /\ SlotsAreExclusive'
      BY <1>1 DEF Work, FlagsUp, SlotFound, DrainPass, SlotsAreExclusive
    <2>3. EntriesLeft'
      BY <1>1 DEF Work, Ends, EntriesLeft, TypeOK
    <2>4. QED
      BY <2>1, <2>2, <2>3
  <1>2. CASE MarkFree(t)
    <2>1. at[t] \in Slots /\ t \notin todo /\ \A s \in Slots : s # None
      BY <1>2 DEF MarkFree, TypeOK, EntriesLeft, Slots
    <2>2. TypeOK'
      BY <1>2, <2>1 DEF MarkFree, TypeOK
    <2>3. SlotFound' /\ SlotsAreExclusive'
      BY <1>2, <2>1 DEF MarkFree, TypeOK, SlotFound, SlotsAreExclusive
    <2>4. EntriesLeft'
      BY <1>2, <2>1 DEF MarkFree, TypeOK, EntriesLeft
    <2>5. DrainPass'
      BY <1>2, <2>1 DEF MarkFree, TypeOK, DrainPass
    <2>6. FlagsUp'
      BY <1>2, <2>1 DEF MarkFree, TypeOK, FlagsUp, SlotFound, SlotsAreExclusive
    <2>7. QED
      BY <2>2, <2>3, <2>4, <2>5, <2>6
  <1>3. QED
    BY <1>1, <1>2 DEF Thread

\* Every step keeps the invariant.
LEMMA InvStep ==
    TypeOK /\ FlagsInv /\ SlotsAreExclusive /\ [Next]_vars
        => TypeOK' /\ FlagsInv' /\ SlotsAreExclusive'
  <1> SUFFICES ASSUME TypeOK, FlagsInv, SlotsAreExclusive, [Next]_vars
               PROVE  TypeOK' /\ FlagsInv' /\ SlotsAreExclusive'
    OBVIOUS
  <1>1. CASE UNCHANGED vars
    BY <1>1 DEF vars, main, TypeOK, FlagsInv, FlagsUp, SlotFound, EntriesLeft, DrainPass,
                SlotsAreExclusive
  <1>2. QED
    BY <1>1, MainStep, ThreadStep DEF Next

\* The index never leaves the array but for the end of a pass, and no flag is
\* anything but 0 or 1, for any number of slots.
THEOREM PoolTyped == Spec => []TypeOK
  BY InvInit, InvStep, PTL DEF Spec

\* Reachable states are well typed, and the flags tell the truth in them.
THEOREM FlagsAreTrue == Spec => [](TypeOK /\ FlagsInv)
  BY InvInit, InvStep, PTL DEF Spec

\* No two tasks ever share a slot, for any number of slots and tasks.
THEOREM SlotsExclusive == Spec => []SlotsAreExclusive
  BY InvInit, InvStep, PTL DEF Spec

\* When the drain returns, every worker is done with its slot, and a run that
\* has not failed dealt with every entry.
THEOREM DrainsComplete == Spec => []DrainIsComplete
  <1>1. TypeOK /\ FlagsInv => DrainIsComplete
    <2> SUFFICES ASSUME TypeOK, FlagsInv, pc = "done"
                 PROVE  /\ \A t \in Tasks : at[t] = None
                        /\ failed \/ \A t \in Tasks : outcome[t] = "ok"
                        /\ failed <=> \E t \in Tasks : outcome[t] = "failed"
      BY DEF DrainIsComplete
    <2>1. \A t \in Tasks : at[t] = None
      BY DEF TypeOK, FlagsInv, FlagsUp, DrainPass
    <2>2. QED
      BY <2>1 DEF TypeOK, FlagsInv, EntriesLeft
  <1>2. QED
    BY <1>1, FlagsAreTrue, PTL

(***************************************************************************)
(* Threads implements ThreadPool.                                          *)
(***************************************************************************)
\* What the pool sees of a slot and of the main thread.
Seen == [t \in Tasks |-> IF outcome[t] = "none" THEN at[t] ELSE None]
Mode == CASE pc = "done" -> "closed" [] pc = "dead" -> "aborted" [] OTHER -> "open"

LEMMA PoolInit == Init => Pool!Init
  BY DEF Init, Pool!Init

\* The first read of a free flag that leads to a create, the create, the end of
\* a worker's task and the last pass of the drain are steps of the pool; the
\* other reads and writes of busyThreads are invisible to it.
LEMMA PoolStep ==
    TypeOK /\ FlagsInv /\ [Next]_vars => [Pool!Next]_(Pool!pool)
  <1> SUFFICES ASSUME TypeOK, FlagsInv, [Next]_vars PROVE [Pool!Next]_(Pool!pool)
    OBVIOUS
  <1> USE DEF main
  <1>1. ASSUME UNCHANGED <<todo, at, outcome, failed>>, Mode' = Mode PROVE UNCHANGED Pool!pool
    BY <1>1 DEF Pool!pool, Mode
  <1>2. ASSUME NEW t \in Tasks, NEW o \in {"ok", "failed"}, Skip(t, o) PROVE Pool!Next
    <2>1. Seen' = Seen
      BY <1>2 DEF Skip, Ends, Seen, TypeOK, FlagsInv, EntriesLeft
    <2>2. Pool!Skip(t, o)
      BY <1>2, <2>1 DEF Skip, Ends, Pool!Skip, Pool!Ends, Seen
    <2>3. QED
      BY <2>2 DEF Pool!Next
  <1>3. CASE Create
    <2>1. CASE /\ at' = [at EXCEPT ![task] = i]
               /\ todo' = todo \ {task} /\ pc' = "loop"
      <3>1. task \in Tasks /\ task \in todo /\ i \in Slots /\ outcome[task] = "none"
            /\ \A u \in Tasks : at[u] # i
        BY <1>3 DEF Create, TypeOK, FlagsInv, SlotFound, EntriesLeft
      <3>2. \A u \in Tasks : Seen[u] # i
        BY <3>1 DEF Seen, Slots
      <3>3. Seen' = [Seen EXCEPT ![task] = i]
        BY <1>3, <2>1, <3>1 DEF Create, Seen, TypeOK
      <3>4. Pool!Dispatch(task, i)
        BY <1>3, <2>1, <3>1, <3>2, <3>3 DEF Create, Pool!Dispatch, Seen
      <3>5. i \in 0 .. N - 1
        BY <3>1 DEF Slots
      <3>6. \E t \in Tasks, s \in 0 .. N - 1 : Pool!Dispatch(t, s)
        BY <3>1, <3>4, <3>5 DEF Pool!Dispatch
      <3>7. QED
        BY <3>6 DEF Pool!Next
    <2>2. CASE pc' = "dead" /\ UNCHANGED <<at, todo>>
      <3>1. Pool!Abort
        BY <1>3, <2>2 DEF Create, Pool!Abort
      <3>2. QED
        BY <3>1 DEF Pool!Next
    <2>3. QED
      BY <1>3, <2>1, <2>2 DEF Create
  <1>4. CASE Scan
    <2>1. CASE i = N /\ foundBusy = 0 /\ pc' = "done"
      <3>1. \A t \in Tasks : at[t] = None
        BY <1>4, <2>1 DEF Scan, TypeOK, FlagsInv, FlagsUp, DrainPass, Slots
      <3>2. todo = {} \/ failed
        BY <1>4 DEF Scan, FlagsInv, EntriesLeft
      <3>3. Pool!Close
        BY <1>4, <2>1, <3>1, <3>2 DEF Scan, Pool!Close
      <3>4. QED
        BY <3>3 DEF Pool!Next
    <2>2. CASE UNCHANGED pc
      BY <1>1, <1>4, <2>2 DEF Scan, Mode
    <2>3. QED
      BY <1>4, <2>1, <2>2 DEF Scan
  <1>5. ASSUME NEW t \in Tasks, NEW o \in {"ok", "failed"}, Work(t, o) PROVE Pool!Next
    <2>1. Seen[t] = at[t] /\ Seen' = [Seen EXCEPT ![t] = None]
      BY <1>5 DEF Work, Ends, Seen, TypeOK
    <2>2. pc # "done"
      BY <1>5 DEF Work, TypeOK, FlagsInv, FlagsUp, DrainPass
    <2>3. Pool!Finish(t, o)
      BY <1>5, <2>1, <2>2 DEF Work, Ends, Pool!Finish, Pool!Ends, Seen
    <2>4. QED
      BY <2>3 DEF Pool!Next
  <1>6. ASSUME NEW t \in Tasks, MarkFree(t) PROVE UNCHANGED Pool!pool
    <2>1. Seen' = Seen
      BY <1>6 DEF MarkFree, Seen, TypeOK
    <2>2. QED
      BY <1>6, <2>1 DEF MarkFree, Pool!pool, Seen
  <1>7. ASSUME NEW t \in Tasks, Take(t) PROVE UNCHANGED Pool!pool
    BY <1>1, <1>7 DEF Take, Mode
  <1>8. CASE Find \/ MarkBusy \/ LoopEnds
    BY <1>1, <1>8 DEF Find, MarkBusy, LoopEnds, Mode
  <1>9. CASE UNCHANGED vars
    BY <1>1, <1>9 DEF vars, Mode
  <1>10. QED
    BY <1>2, <1>3, <1>4, <1>5, <1>6, <1>7, <1>8, <1>9 DEF Next, Main, Thread

\* threads.cc gives its callers the pool they count on: a dispatch into a slot
\* that is free, and a drain that closes the pool only when it is empty.
THEOREM PoolIsImplemented == Spec => ImplementsPool
  <1>1. Spec => [](TypeOK /\ FlagsInv)
    BY FlagsAreTrue
  <1>2. QED
    BY <1>1, PoolInit, PoolStep, PTL DEF Spec, ImplementsPool, Pool!Spec
=============================================================================

---------------------------- MODULE RebuildProofs ----------------------------
(***************************************************************************)
(* What a rebuild does to the table, for any bucket, sizes of page, chunk  *)
(* and pool, and number of runs.                                           *)
(***************************************************************************)
EXTENDS Rebuild, SequenceTheorems, FiniteSetTheorems, TLAPS

USE SizesAssumption DEF Keys

(***************************************************************************)
(* Types.                                                                  *)
(***************************************************************************)
\* TypeOK in three parts: what the listing moves, what the pool moves, and the
\* rest.  The marker is never past the last key.
ListTyped ==
    /\ pc \in {"list", "head", "truncate", "store", "done", "failed"}
    /\ lastKey \in 0 .. size /\ isTruncated \in BOOLEAN
    /\ paths \in Seq(Keys)
    /\ pc \notin {"list", "failed"} => Len(mtimes) = Len(paths)
    /\ pc = "list" => next = 1
    /\ from \in 0 .. Len(paths)
    /\ redirects \in 0 .. MaxRedirects

PoolTyped ==
    /\ mtimes \in Seq(0 .. NumKeys)
    /\ next \in 1 .. Len(mtimes) + 1
    /\ thread \in [DOMAIN mtimes -> {"none", "new", "run", "done"}]
    /\ tries \in [DOMAIN mtimes -> 0 .. RetryFailAfter - 1]
    /\ failed \in BOOLEAN

TableTyped ==
    /\ size \in 0 .. NumKeys /\ dryRun \in BOOLEAN
    /\ db \in [Keys -> -1 .. Stale] /\ before \in [Keys -> -1 .. Stale]
    /\ starts \in 0 .. MaxStarts

Typed == ListTyped /\ PoolTyped /\ TableTyped

LEMMA TypedIsTypeOK == Typed => TypeOK
  <1> SUFFICES ASSUME ListTyped, PoolTyped, TableTyped PROVE TypeOK
    BY DEF Typed
  <1>1. lastKey \in 0 .. NumKeys
    BY DEF ListTyped, TableTyped
  <1> QED
    BY <1>1, Zenon DEF TypeOK, ListTyped, PoolTyped, TableTyped

LEMMA SameTable == TableTyped /\ UNCHANGED <<world, db>> => TableTyped'
  BY DEF TableTyped, world

LEMMA SamePool == PoolTyped /\ UNCHANGED heads => PoolTyped'
  BY DEF PoolTyped, heads

\* The keys of a page, in order.
LEMMA PageTyped ==
    ASSUME Typed, NEW m \in 0 .. size
    PROVE  /\ PageEnd(m) \in m .. size
           /\ Page(m) \in Seq(Keys) /\ Len(Page(m)) = PageEnd(m) - m
           /\ \A i \in 1 .. Len(Page(m)) : Page(m)[i] = m + i
  <1>1. size \in 0 .. NumKeys
    BY DEF Typed, TableTyped
  <1>2. PageEnd(m) \in m .. size
    BY <1>1 DEF PageEnd
  <1>3. Page(m) \in [1 .. PageEnd(m) - m -> Keys]
    BY <1>1, <1>2 DEF Page
  <1>4. Page(m) \in Seq(Keys) /\ Len(Page(m)) = PageEnd(m) - m
    BY <1>2, <1>3
  <1> QED
    BY <1>2, <1>4 DEF Page

\* Sequences of one value.
LEMMA ListedTyped ==
    ASSUME NEW list \in Seq(Keys), Listed(list)
    PROVE  /\ pc' = "head" /\ next' = next /\ failed' = failed
           /\ mtimes' \in Seq(0 .. NumKeys) /\ Len(mtimes') = Len(list) /\ DOMAIN mtimes' = 1 .. Len(list)
           /\ thread' \in [1 .. Len(list) -> {"none", "new", "run", "done"}]
           /\ tries' \in [1 .. Len(list) -> 0 .. RetryFailAfter - 1]
           /\ \A i \in 1 .. Len(list) : mtimes'[i] = Unresolved /\ thread'[i] = "none"
  <1>1. Len(list) \in Nat
    OBVIOUS
  <1>2. mtimes' \in [1 .. Len(list) -> 0 .. NumKeys]
    BY DEF Listed, Unresolved
  <1>3. mtimes' \in Seq(0 .. NumKeys) /\ Len(mtimes') = Len(list)
    BY <1>1, <1>2
  <1> QED
    BY <1>2, <1>3 DEF Listed

LEMMA InitTyped == Init => Typed
  <1> SUFFICES ASSUME Init PROVE Typed
    OBVIOUS
  <1>1. /\ paths = <<>> /\ mtimes = <<>> /\ thread = <<>> /\ tries = <<>> /\ next = 1 /\ from = 0
        /\ pc = "list" /\ lastKey = 0 /\ isTruncated = FALSE /\ failed = FALSE /\ size \in 0 .. NumKeys
        /\ redirects = 0 /\ starts = 0
    BY DEF Init
  <1>2. /\ <<>> \in Seq(Keys) /\ <<>> \in Seq(0 .. NumKeys) /\ Len(<<>>) = 0 /\ DOMAIN <<>> = {}
        /\ <<>> \in [{} -> {"none", "new", "run", "done"}] /\ <<>> \in [{} -> 0 .. RetryFailAfter - 1]
    OBVIOUS
  <1>3. db \in [Keys -> -1 .. Stale] /\ before \in [Keys -> -1 .. Stale]
    BY DEF Init, Empty, NoRow, Stale
  <1>4. dryRun \in BOOLEAN /\ isTruncated \in BOOLEAN /\ failed \in BOOLEAN
    BY <1>1, Zenon DEF Init
  <1> QED
    BY <1>1, <1>2, <1>3, <1>4 DEF Typed, ListTyped, PoolTyped, TableTyped

LEMMA ListSteps ==
    ASSUME Typed, ListPage \/ ListRedirect \/ ListFails
    PROVE  Typed'
  <1> USE DEF Typed
  <1>1. /\ pc = "list" /\ next = 1 /\ paths \in Seq(Keys) /\ Len(paths) \in Nat
        /\ size \in Nat /\ size' = size /\ from' = from /\ TableTyped'
    <2>1. pc = "list" /\ UNCHANGED <<world, db, from>>
      BY DEF ListPage, ListRedirect, ListFails
    <2> QED
      BY <2>1, SameTable DEF ListTyped, world, TableTyped
  <1>2. /\ paths' \in Seq(Keys) /\ Len(paths') \in Nat /\ Len(paths) <= Len(paths')
        /\ lastKey' \in 0 .. size /\ isTruncated' \in BOOLEAN /\ redirects' \in 0 .. MaxRedirects
    <2>1. CASE ListPage
      <3>1. Marker \in 0 .. size
        BY DEF Marker, ListTyped, TableTyped
      <3>2. paths' = paths \o Page(Marker) /\ lastKey' = PageEnd(Marker) /\ redirects' = redirects
        BY <2>1 DEF ListPage
      <3>3. PageEnd(Marker) \in Marker .. size /\ Page(Marker) \in Seq(Keys) /\ Len(Page(Marker)) \in Nat
        BY <3>1, PageTyped
      <3>4. paths' \in Seq(Keys) /\ Len(paths') = Len(paths) + Len(Page(Marker))
        BY <1>1, <3>2, <3>3, ConcatProperties
      <3>5. isTruncated' \in BOOLEAN
        BY <2>1, SMT DEF ListPage
      <3> QED
        BY <1>1, <3>1, <3>2, <3>3, <3>4, <3>5 DEF ListTyped
    <2>2. CASE ListRedirect
      BY <1>1, <2>2 DEF ListRedirect, listing, ListTyped
    <2>3. CASE ListFails
      BY <1>1, <2>3 DEF ListFails, listing, ListTyped
    <2> QED
      BY <2>1, <2>2, <2>3
  <1>3. CASE pc' \in {"list", "failed"} /\ UNCHANGED heads
    <2>1. PoolTyped' /\ next' = 1
      BY <1>1, <1>3, SamePool DEF heads
    <2> QED
      BY <1>1, <1>2, <1>3, <2>1 DEF ListTyped
  <1>4. CASE Listed(paths')
    <2>1. PoolTyped' /\ pc' = "head" /\ Len(mtimes') = Len(paths')
      <3>1. /\ pc' = "head" /\ next' = 1 /\ failed' = failed
            /\ mtimes' \in Seq(0 .. NumKeys) /\ Len(mtimes') = Len(paths') /\ DOMAIN mtimes' = 1 .. Len(paths')
            /\ thread' \in [DOMAIN mtimes' -> {"none", "new", "run", "done"}]
            /\ tries' \in [DOMAIN mtimes' -> 0 .. RetryFailAfter - 1]
        BY <1>1, <1>2, <1>4, ListedTyped
      <3>2. failed' \in BOOLEAN
        BY <3>1 DEF PoolTyped
      <3> QED
        BY <1>2, <3>1, <3>2 DEF PoolTyped
    <2> QED
      BY <1>1, <1>2, <2>1 DEF ListTyped
  <1> QED
    BY <1>1, <1>3, <1>4 DEF ListPage, ListRedirect, ListFails, Continues, listing

LEMMA PoolSteps ==
    ASSUME Typed, Dispatch \/ Break \/ (\E i \in DOMAIN thread : Begin(i) \/ Request(i)) \/ Resolved
    PROVE  Typed'
  <1> USE DEF Typed
  <1>1. /\ pc = "head" /\ UNCHANGED <<world, db, listing, from>>
        /\ pc' \in {"head", "truncate", "done", "failed"}
        /\ redirects' \in 0 .. MaxRedirects
    BY DEF Dispatch, Break, Begin, Request, HeadOk, HeadRedirect, HeadBroken, HeadRefused, Resolved, ListTyped
  <1>2. /\ mtimes \in Seq(0 .. NumKeys) /\ Len(mtimes) = Len(paths) /\ Len(paths) \in Nat
        /\ DOMAIN mtimes = 1 .. Len(paths) /\ DOMAIN thread = 1 .. Len(paths)
        /\ paths \in Seq(Keys)
    BY <1>1, LenProperties DEF ListTyped, PoolTyped
  <1>3. PoolTyped' /\ Len(mtimes') = Len(mtimes)
    <2>1. CASE Dispatch
      <3>1. /\ thread' = [thread EXCEPT ![next] = "new"] /\ UNCHANGED <<mtimes, tries, failed>>
            /\ next' \in {Len(paths) + 1, next + 1} /\ next <= Len(paths)
        BY <2>1 DEF Dispatch
      <3>2. next' \in 1 .. Len(mtimes) + 1
        BY <1>2, <3>1 DEF PoolTyped
      <3> QED
        BY <3>1, <3>2 DEF PoolTyped
    <2>2. CASE Break
      BY <1>2, <2>2 DEF Break, PoolTyped
    <2>3. ASSUME NEW i \in DOMAIN thread, Begin(i) PROVE PoolTyped' /\ Len(mtimes') = Len(mtimes)
      <3>1. /\ thread' = [thread EXCEPT ![i] = IF failed THEN "done" ELSE "run"]
            /\ UNCHANGED <<mtimes, next, tries, failed>>
        BY <2>3 DEF Begin
      <3> QED
        BY <3>1 DEF PoolTyped
    <2>4. ASSUME NEW i \in DOMAIN thread, Request(i) PROVE PoolTyped' /\ Len(mtimes') = Len(mtimes)
      <3>1. next' = next
        BY <2>4 DEF Request
      <3>2. CASE HeadOk(i)
        <4>1. mtimes' = [mtimes EXCEPT ![i] = paths[i]] /\ thread' = [thread EXCEPT ![i] = "done"]
              /\ UNCHANGED <<tries, failed>>
          BY <3>2 DEF HeadOk
        <4>2. paths[i] \in 0 .. NumKeys
          <5>1. paths[i] \in Keys
            BY <1>2, ElementOfSeq
          <5> QED
            BY <5>1
        <4>3. mtimes' \in Seq(0 .. NumKeys) /\ Len(mtimes') = Len(mtimes) /\ DOMAIN mtimes' = DOMAIN mtimes
          BY <1>2, <4>1, <4>2, ExceptSeq
        <4> QED
          BY <3>1, <4>1, <4>3 DEF PoolTyped
      <3>3. CASE HeadRedirect(i)
        BY <3>1, <3>3 DEF HeadRedirect, PoolTyped
      <3>4. CASE Fails(i)
        <4>1. /\ thread' = [thread EXCEPT ![i] = "done"] /\ failed' = TRUE /\ UNCHANGED <<mtimes, tries>>
          BY <3>4 DEF Fails
        <4>2. failed' \in BOOLEAN
          BY <4>1, Zenon
        <4> QED
          BY <3>1, <4>1, <4>2 DEF PoolTyped
      <3>5. CASE /\ tries[i] + 1 < RetryFailAfter /\ tries' = [tries EXCEPT ![i] = @ + 1]
                 /\ UNCHANGED <<mtimes, thread, failed>>
        BY <3>1, <3>5 DEF PoolTyped
      <3> QED
        BY <2>4, <3>2, <3>3, <3>4, <3>5 DEF Request, HeadBroken, HeadRefused
    <2>5. CASE Resolved
      BY <2>5, SamePool DEF Resolved, heads
    <2> QED
      BY <2>1, <2>2, <2>3, <2>4, <2>5
  <1>4. ListTyped'
    BY <1>1, <1>2, <1>3 DEF ListTyped, listing, world
  <1> QED
    BY <1>1, <1>3, <1>4, SameTable

LEMMA TableSteps ==
    ASSUME Typed, Truncate \/ StoreChunk \/ StatementFails
    PROVE  Typed'
  <1> USE DEF Typed
  <1>1. /\ pc \in {"truncate", "store"} /\ pc' \in {"store", "done", "failed"}
        /\ UNCHANGED <<world, listing, heads, redirects>>
    BY DEF Truncate, StoreChunk, StatementFails
  <1>2. /\ paths \in Seq(Keys) /\ mtimes \in Seq(0 .. NumKeys) /\ Len(mtimes) = Len(paths)
        /\ Len(paths) \in Nat /\ from \in 0 .. Len(paths) /\ ChunkEnd \in from .. Len(paths)
    BY <1>1 DEF ListTyped, PoolTyped, ChunkEnd
  <1>3. from' \in 0 .. Len(paths)
    BY <1>2 DEF Truncate, StoreChunk, StatementFails
  <1>4. db' \in [Keys -> -1 .. Stale]
    <2>1. CASE Truncate
      BY <2>1 DEF Truncate, Empty, NoRow, Stale
    <2>2. CASE StoreChunk
      <3>1. ASSUME NEW k \in Keys, \E i \in Chunk : paths[i] = k
            PROVE  mtimes[CHOOSE i \in Chunk : paths[i] = k] \in -1 .. Stale
        <4> DEFINE c == CHOOSE i \in Chunk : paths[i] = k
        <4>1. c \in Chunk
          BY <3>1
        <4>2. c \in 1 .. Len(mtimes)
          BY <1>2, <4>1 DEF Chunk
        <4>3. mtimes[c] \in 0 .. NumKeys
          BY <1>2, <4>2, ElementOfSeq
        <4> QED
          BY <4>3 DEF Stale
      <3>2. \A k \in Keys : db[k] \in -1 .. Stale
        BY DEF TableTyped
      <3> QED
        BY <2>2, <3>1, <3>2 DEF StoreChunk
    <2>3. CASE StatementFails
      BY <2>3 DEF StatementFails, TableTyped
    <2> QED
      BY <2>1, <2>2, <2>3
  <1>5. ListTyped' /\ PoolTyped'
    BY <1>1, <1>2, <1>3, SamePool DEF ListTyped, listing, heads, world
  <1>6. TableTyped'
    BY <1>1, <1>4 DEF TableTyped, world
  <1> QED
    BY <1>5, <1>6

LEMMA RestartTyped == ASSUME Typed, Restart PROVE Typed'
  <1> USE DEF Typed
  <1>1. /\ paths' = <<>> /\ mtimes' = <<>> /\ thread' = <<>> /\ tries' = <<>> /\ next' = 1 /\ from' = 0
        /\ pc' = "list" /\ lastKey' = 0 /\ isTruncated' = FALSE /\ failed' = FALSE
        /\ before' = db /\ UNCHANGED <<size, db, redirects>> /\ starts' = starts + 1 /\ starts < MaxStarts
    BY DEF Restart, Reset
  <1>2. /\ <<>> \in Seq(Keys) /\ <<>> \in Seq(0 .. NumKeys) /\ Len(<<>>) = 0 /\ DOMAIN <<>> = {}
        /\ <<>> \in [{} -> {"none", "new", "run", "done"}] /\ <<>> \in [{} -> 0 .. RetryFailAfter - 1]
    OBVIOUS
  <1>3. dryRun' \in BOOLEAN /\ isTruncated' \in BOOLEAN /\ failed' \in BOOLEAN
    BY <1>1, Zenon DEF Restart, Reset
  <1>4. ListTyped' /\ PoolTyped'
    BY <1>1, <1>2, <1>3 DEF ListTyped, PoolTyped, TableTyped
  <1> QED
    BY <1>1, <1>3, <1>4 DEF TableTyped

LEMMA TypedStep == Typed /\ [Next]_vars => Typed'
  <1> SUFFICES ASSUME Typed, [Next]_vars PROVE Typed'
    OBVIOUS
  <1>1. CASE UNCHANGED vars
    BY <1>1 DEF vars, world, listing, heads, Typed, ListTyped, PoolTyped, TableTyped
  <1>2. CASE Step
    BY <1>2, ListSteps, PoolSteps, TableSteps DEF Step
  <1>3. CASE Restart
    BY <1>3, RestartTyped
  <1> QED
    BY <1>1, <1>2, <1>3 DEF Next

LEMMA AlwaysTyped == Spec => []Typed
  BY InitTyped, TypedStep, PTL DEF Spec

\* Every variable keeps its type, for any sizes and any redirects.
THEOREM RebuildTyped == Spec => []TypeOK
  BY AlwaysTyped, TypedIsTypeOK, PTL

(***************************************************************************)
(* The table.  Two things have to be excluded, both of them errors of the  *)
(* code: a redirect of the first page, and a marker that is taken to be in *)
(* the url already.                                                        *)
(***************************************************************************)
Undisturbed ==
    /\ "first" \notin Redirected
    /\ \A n \in Nat \ {0} : n * PageSize \notin InUrl

\* The list is a prefix of the bucket, of whole pages while more are to come.
ListInv ==
    /\ ListIsPrefix
    /\ pc \notin {"list", "failed"} => Len(paths) = size
    /\ pc = "list" =>
          /\ lastKey = Len(paths)
          /\ isTruncated => lastKey < size /\ \E n \in Nat \ {0} : lastKey = n * PageSize
          /\ ~isTruncated => lastKey = 0
    /\ pc \in {"list", "head", "truncate"} => from = 0

\* Unless one failed, the threads created so far are at work or have brought the
\* mtime of their object, and behind the drain all of them have.
PoolInv ==
    /\ pc = "list" => ~failed
    /\ pc = "head" /\ ~failed =>
          \A i \in DOMAIN thread :
             /\ i < next => thread[i] # "none"
             /\ thread[i] = "done" => mtimes[i] = i
    /\ pc \in {"truncate", "store"} => ~dryRun /\ Running = {} /\ mtimes = paths

\* The table is the old one up to the point where it is emptied; then it is that
\* of the objects stored so far.
TableInv ==
    /\ pc \in {"list", "head", "truncate"} => db = before
    /\ pc = "store" => db = [k \in Keys |-> IF k <= from THEN k ELSE NoRow]
    /\ pc = "done" => db = IF dryRun THEN before ELSE [k \in Keys |-> True(k)]
    /\ pc = "failed" => OldOrTrue

RebuildInv == ListInv /\ PoolInv /\ TableInv

LEMMA RebuildInit == Init => RebuildInv
  <1> SUFFICES ASSUME Init PROVE RebuildInv
    OBVIOUS
  <1>1. /\ paths = <<>> /\ Len(<<>>) = 0 /\ from = 0 /\ pc = "list" /\ lastKey = 0 /\ ~isTruncated
        /\ ~failed /\ db = before
    BY DEF Init
  <1>2. ListIsPrefix
    BY <1>1 DEF ListIsPrefix
  <1> QED
    BY <1>1, <1>2 DEF RebuildInv, ListInv, PoolInv, TableInv

LEMMA RestartInv == ASSUME RebuildInv, Restart PROVE RebuildInv'
  <1>1. /\ paths' = <<>> /\ Len(<<>>) = 0 /\ from' = 0 /\ pc' = "list" /\ lastKey' = 0 /\ ~isTruncated'
        /\ ~failed' /\ db' = before'
    BY DEF Restart, Reset
  <1>2. ListIsPrefix'
    BY <1>1 DEF ListIsPrefix
  <1> QED
    BY <1>1, <1>2 DEF RebuildInv, ListInv, PoolInv, TableInv

\* A page goes on where the list ends.
LEMMA PageInv ==
    ASSUME Undisturbed, Typed, RebuildInv, ListPage
    PROVE  /\ ListIsPrefix' /\ lastKey' = Len(paths')
           /\ isTruncated' => lastKey' < size /\ \E n \in Nat \ {0} : lastKey' = n * PageSize
           /\ ~isTruncated' => Len(paths') = size
  <1> DEFINE m == Len(paths)
  <1>1. /\ pc = "list" /\ m \in Nat /\ m = lastKey /\ lastKey \in 0 .. size /\ size \in Nat
        /\ paths \in Seq(Keys) /\ \A i \in 1 .. m : paths[i] = i
    BY DEF ListPage, RebuildInv, ListInv, ListIsPrefix, Typed, ListTyped, TableTyped
  <1>2. PICK n \in Nat : m = n * PageSize
    <2>1. CASE isTruncated
      BY <1>1, <2>1 DEF RebuildInv, ListInv
    <2>2. CASE ~isTruncated
      <3>1. m = 0 /\ 0 \in Nat /\ 0 = 0 * PageSize
        BY <1>1, <2>2 DEF RebuildInv, ListInv
      <3> QED
        BY <3>1
    <2> QED
      BY <2>1, <2>2
  <1>3. Marker = m
    BY <1>1, <1>2 DEF Marker, Undisturbed
  <1>4. paths' = paths \o Page(m) /\ lastKey' = PageEnd(m) /\ isTruncated' = (PageEnd(m) < size)
    BY <1>3 DEF ListPage
  <1>5. /\ PageEnd(m) \in m .. size /\ Page(m) \in Seq(Keys) /\ Len(Page(m)) = PageEnd(m) - m
        /\ \A i \in 1 .. Len(Page(m)) : Page(m)[i] = m + i
    BY <1>1, PageTyped
  <1> HIDE DEF m
  <1>6. /\ paths' \in Seq(Keys) /\ Len(paths') = PageEnd(m)
        /\ \A i \in 1 .. Len(paths') : paths'[i] = i
    <2>1. /\ paths' \in Seq(Keys) /\ Len(paths') = m + Len(Page(m))
          /\ \A i \in 1 .. m + Len(Page(m)) : paths'[i] = IF i <= m THEN paths[i] ELSE Page(m)[i - m]
      BY <1>1, <1>4, <1>5, ConcatProperties DEF m
    <2>2. Len(paths') = PageEnd(m)
      BY <1>1, <1>5, <2>1
    <2>3. ASSUME NEW i \in 1 .. Len(paths') PROVE paths'[i] = i
      <3>0. i \in 1 .. m + Len(Page(m)) /\ i \in Int /\ m \in Int
        BY <1>1, <2>1
      <3>1. CASE i <= m
        <4>1. paths'[i] = paths[i] /\ i \in 1 .. m
          BY <2>1, <3>0, <3>1
        <4> QED
          BY <1>1, <4>1
      <3>2. CASE i > m
        <4>1. i - m \in 1 .. Len(Page(m)) /\ m + (i - m) = i /\ ~(i <= m)
          BY <1>1, <1>5, <3>0, <3>2
        <4>2. paths'[i] = Page(m)[i - m]
          BY <2>1, <3>0, <4>1
        <4> QED
          BY <1>5, <4>1, <4>2
      <3> QED
        BY <1>1, <3>1, <3>2
    <2> QED
      BY <2>1, <2>2, <2>3
  <1>7. ListIsPrefix'
    BY <1>6 DEF ListIsPrefix
  <1>8. PageEnd(m) < size => PageEnd(m) = m + PageSize
    BY <1>1 DEF PageEnd
  <1>9. n + 1 \in Nat \ {0} /\ m + PageSize = (n + 1) * PageSize
    BY <1>2
  <1>10. CASE PageEnd(m) < size
    <2>1. isTruncated' /\ lastKey' = (n + 1) * PageSize /\ lastKey' < size
      BY <1>4, <1>8, <1>9, <1>10
    <2> QED
      BY <1>4, <1>6, <1>7, <1>9, <2>1
  <1>11. CASE ~(PageEnd(m) < size)
    <2>1. ~isTruncated'
      BY <1>4, <1>11
    <2>2. PageEnd(m) = size
      BY <1>1, <1>5, <1>11
    <2> QED
      BY <1>4, <1>6, <1>7, <2>1, <2>2
  <1> QED
    BY <1>10, <1>11

LEMMA ListKeepsInv ==
    ASSUME Undisturbed, Typed, RebuildInv, ListPage \/ ListRedirect \/ ListFails
    PROVE  RebuildInv'
  <1>1. /\ pc = "list" /\ UNCHANGED <<size, dryRun, before, db, from>> /\ from = 0 /\ db = before /\ ~failed
        /\ paths \in Seq(Keys)
    BY DEF ListPage, ListRedirect, ListFails, world, RebuildInv, ListInv, PoolInv, TableInv, Typed, ListTyped
  <1>2. CASE ListFails
    <2>1. pc' = "failed" /\ paths' = paths
      BY <1>2 DEF ListFails, listing
    <2> QED
      BY <1>1, <2>1 DEF RebuildInv, ListInv, ListIsPrefix, PoolInv, TableInv, OldOrTrue
  <1>3. CASE ListRedirect
    \* Of the first page there is none.
    <2>1. isTruncated /\ pc' = pc /\ UNCHANGED <<listing, heads>>
      BY <1>3 DEF ListRedirect, Undisturbed, Continues
    <2> QED
      BY <1>1, <2>1 DEF RebuildInv, ListInv, ListIsPrefix, PoolInv, TableInv, listing, heads
  <1>4. CASE ListPage /\ isTruncated'
    <2>1. pc' = pc /\ UNCHANGED heads
      BY <1>4 DEF ListPage, Continues
    <2> QED
      BY <1>1, <1>4, <2>1, PageInv DEF RebuildInv, ListInv, PoolInv, TableInv, heads
  <1>5. CASE ListPage /\ ~isTruncated'
    <2>1. Listed(paths') /\ paths' \in Seq(Keys)
      <3>1. Typed'
        BY <1>5, ListSteps
      <3> QED
        BY <1>5, <3>1 DEF ListPage, Typed, ListTyped
    <2>2. /\ pc' = "head" /\ next' = next /\ next = 1 /\ DOMAIN thread' = 1 .. Len(paths')
          /\ \A i \in DOMAIN thread' : thread'[i] = "none"
      BY <1>1, <2>1, ListedTyped DEF Typed, ListTyped
    <2>3. PoolInv'
      BY <2>2 DEF PoolInv
    <2> QED
      BY <1>1, <1>5, <2>2, <2>3, PageInv DEF RebuildInv, ListInv, TableInv
  <1> QED
    BY <1>2, <1>3, <1>4, <1>5

LEMMA PoolKeepsInv ==
    ASSUME Typed, RebuildInv,
           Dispatch \/ Break \/ (\E i \in DOMAIN thread : Begin(i) \/ Request(i)) \/ Resolved
    PROVE  RebuildInv'
  <1>1. /\ pc = "head" /\ UNCHANGED <<size, dryRun, before, starts, db, lastKey, isTruncated, paths, from>>
        /\ pc' \in {"head", "truncate", "done", "failed"}
    BY DEF Dispatch, Break, Begin, Request, Resolved, world, listing
  <1>2. /\ DOMAIN thread = 1 .. Len(paths) /\ Len(paths) = size /\ size \in Nat /\ from = 0 /\ db = before
        /\ paths = [i \in 1 .. size |-> i] /\ mtimes \in Seq(0 .. NumKeys) /\ Len(mtimes) = size
        /\ next \in 1 .. size + 1 /\ failed \in BOOLEAN
        /\ thread \in [1 .. size -> {"none", "new", "run", "done"}]
    BY <1>1, LenProperties DEF RebuildInv, ListInv, ListIsPrefix, TableInv, Typed, ListTyped, PoolTyped, TableTyped
  <1>3. ListInv'
    BY <1>1, <1>2 DEF RebuildInv, ListInv, ListIsPrefix
  <1>4. CASE Resolved
    <2>1. /\ next > size /\ Running = {} /\ UNCHANGED <<mtimes, thread, failed>>
          /\ pc' = IF failed THEN "failed" ELSE IF dryRun THEN "done" ELSE "truncate"
      BY <1>2, <1>4 DEF Resolved, heads
    <2>2. CASE failed
      BY <1>1, <1>2, <1>3, <2>1, <2>2 DEF RebuildInv, PoolInv, TableInv, OldOrTrue
    <2>3. CASE ~failed
      <3>1. \A i \in 1 .. size : thread[i] = "done"
        <4>1. \A i \in 1 .. size : thread[i] # "none"
          BY <1>1, <1>2, <2>1, <2>3 DEF RebuildInv, PoolInv
        <4>2. \A i \in 1 .. size : thread[i] \notin {"new", "run"}
          BY <1>2, <2>1 DEF Running
        <4> QED
          BY <1>2, <4>1, <4>2
      <3>2. \A i \in 1 .. size : mtimes[i] = i
        BY <1>1, <1>2, <2>3, <3>1 DEF RebuildInv, PoolInv
      <3>3. mtimes = paths
        BY <1>2, <3>2
      <3>4. PoolInv'
        BY <1>1, <2>1, <2>3, <3>3 DEF PoolInv, Running
      <3>5. TableInv'
        BY <1>1, <1>2, <2>1, <2>3 DEF TableInv
      <3> QED
        BY <1>3, <3>4, <3>5 DEF RebuildInv
    <2> QED
      BY <2>2, <2>3
  <1>5. CASE pc' = "head"
    <2>1. TableInv'
      BY <1>1, <1>2, <1>5 DEF TableInv
    <2>2. PoolInv'
      <3> SUFFICES ASSUME ~failed', NEW i \in DOMAIN thread'
                   PROVE  /\ i < next' => thread'[i] # "none"
                          /\ thread'[i] = "done" => mtimes'[i] = i
        BY <1>5 DEF PoolInv
      <3>1. CASE Dispatch
        <4>1. /\ next \in 1 .. size /\ ~failed /\ thread' = [thread EXCEPT ![next] = "new"]
              /\ next' = next + 1 /\ mtimes' = mtimes
          BY <1>2, <3>1 DEF Dispatch
        <4> QED
          BY <1>1, <1>2, <4>1 DEF RebuildInv, PoolInv
      <3>2. CASE Break
        BY <3>2 DEF Break
      <3>3. ASSUME NEW j \in DOMAIN thread, Begin(j)
            PROVE  /\ i < next' => thread'[i] # "none"
                   /\ thread'[i] = "done" => mtimes'[i] = i
        <4>1. ~failed /\ thread' = [thread EXCEPT ![j] = "run"] /\ UNCHANGED <<mtimes, next>>
          BY <3>3 DEF Begin
        <4> QED
          BY <1>1, <1>2, <4>1 DEF RebuildInv, PoolInv
      <3>4. ASSUME NEW j \in DOMAIN thread, Request(j)
            PROVE  /\ i < next' => thread'[i] # "none"
                   /\ thread'[i] = "done" => mtimes'[i] = i
        <4>1. next' = next
          BY <3>4 DEF Request
        <4>2. CASE HeadOk(j)
          <5>1. ~failed /\ mtimes' = [mtimes EXCEPT ![j] = j] /\ thread' = [thread EXCEPT ![j] = "done"]
            BY <1>2, <4>2 DEF HeadOk
          <5>2. i \in 1 .. size /\ DOMAIN mtimes = 1 .. size
            BY <1>2, <5>1, LenProperties
          <5> QED
            BY <1>1, <1>2, <4>1, <5>1, <5>2 DEF RebuildInv, PoolInv
        <4>3. CASE ~Fails(j) /\ UNCHANGED <<mtimes, thread, failed>>
          BY <1>1, <4>1, <4>3 DEF RebuildInv, PoolInv
        <4>4. CASE Fails(j)
          BY <4>4 DEF Fails
        <4> QED
          BY <3>4, <4>2, <4>3, <4>4 DEF Request, HeadRedirect, HeadBroken, HeadRefused
      <3>5. CASE Resolved
        BY <1>5, <3>5 DEF Resolved
      <3> QED
        BY <3>1, <3>2, <3>3, <3>4, <3>5
    <2> QED
      BY <1>3, <2>1, <2>2 DEF RebuildInv
  <1> QED
    BY <1>1, <1>4, <1>5 DEF Dispatch, Break, Begin, Request

LEMMA TableKeepsInv ==
    ASSUME Typed, RebuildInv, Truncate \/ StoreChunk \/ StatementFails
    PROVE  RebuildInv'
  <1>1. /\ pc \in {"truncate", "store"} /\ pc' \in {"store", "done", "failed"}
        /\ UNCHANGED <<size, dryRun, before, paths, mtimes, thread>>
    BY DEF Truncate, StoreChunk, StatementFails, world, listing, heads
  <1>2. /\ Len(paths) = size /\ size \in 0 .. NumKeys /\ from \in 0 .. size /\ paths = [i \in 1 .. size |-> i]
        /\ mtimes = paths /\ ~dryRun
    BY <1>1 DEF RebuildInv, ListInv, ListIsPrefix, PoolInv, Typed, ListTyped, TableTyped
  <1>3. ListInv'
    BY <1>1, <1>2 DEF RebuildInv, ListInv, ListIsPrefix
  <1>4. PoolInv'
    BY <1>1 DEF RebuildInv, PoolInv, Running
  <1>5. TableInv'
    <2>1. CASE Truncate
      <3>1. pc' = "store" /\ db' = Empty /\ from' = 0
        BY <1>1, <2>1 DEF Truncate, RebuildInv, ListInv
      <3>2. db' = [k \in Keys |-> IF k <= 0 THEN k ELSE NoRow]
        BY <3>1 DEF Empty
      <3> QED
        BY <3>1, <3>2 DEF TableInv
    <2>2. CASE StoreChunk
      <3>1. /\ pc = "store" /\ from' = ChunkEnd /\ pc' = IF ChunkEnd = size THEN "done" ELSE pc
            /\ db' = [k \in Keys |-> IF \E i \in Chunk : paths[i] = k
                                     THEN mtimes[CHOOSE i \in Chunk : paths[i] = k] ELSE db[k]]
        BY <1>2, <2>2 DEF StoreChunk
      <3>2. ChunkEnd \in from .. size
        BY <1>2 DEF ChunkEnd
      <3>3. \A i \in Chunk : i \in 1 .. size /\ paths[i] = i /\ mtimes[i] = i
        BY <1>2, <3>2 DEF Chunk
      <3>4. ASSUME NEW k \in Keys PROVE db'[k] = IF k <= ChunkEnd THEN k ELSE NoRow
        <4>1. db[k] = IF k <= from THEN k ELSE NoRow
          BY <3>1 DEF RebuildInv, TableInv
        <4>2. CASE k \in Chunk
          <5>1. (CHOOSE i \in Chunk : paths[i] = k) = k
            BY <3>3, <4>2
          <5>2. db'[k] = k
            BY <3>1, <3>3, <4>2, <5>1
          <5> QED
            BY <3>2, <4>2, <5>2 DEF Chunk
        <4>3. CASE k \notin Chunk
          <5>1. db'[k] = db[k]
            BY <3>1, <3>3, <4>3
          <5> QED
            BY <1>2, <3>2, <4>1, <4>3, <5>1 DEF Chunk
        <4> QED
          BY <4>2, <4>3
      <3>5. db' = [k \in Keys |-> IF k <= ChunkEnd THEN k ELSE NoRow]
        BY <3>1, <3>4
      <3>6. CASE ChunkEnd = size
        BY <1>1, <1>2, <3>1, <3>5, <3>6 DEF TableInv, True
      <3>7. CASE ChunkEnd # size
        BY <3>1, <3>5, <3>7 DEF TableInv
      <3> QED
        BY <3>6, <3>7
    <2>3. CASE StatementFails
      <3>1. pc' = "failed" /\ db' = db
        BY <2>3 DEF StatementFails
      <3>2. OldOrTrue
        BY <1>1, <1>2 DEF RebuildInv, TableInv, OldOrTrue, True
      <3> QED
        BY <1>1, <3>1, <3>2 DEF TableInv, OldOrTrue, True
    <2> QED
      BY <2>1, <2>2, <2>3
  <1> QED
    BY <1>3, <1>4, <1>5 DEF RebuildInv

LEMMA RebuildStep == Undisturbed /\ Typed /\ RebuildInv /\ [Next]_vars => RebuildInv'
  <1> SUFFICES ASSUME Undisturbed, Typed, RebuildInv, [Next]_vars PROVE RebuildInv'
    OBVIOUS
  <1>1. CASE UNCHANGED vars
    BY <1>1 DEF vars, world, listing, heads, RebuildInv, ListInv, ListIsPrefix, PoolInv, TableInv,
       Running, OldOrTrue, True
  <1>2. CASE Step
    BY <1>2, ListKeepsInv, PoolKeepsInv, TableKeepsInv DEF Step
  <1>3. CASE Restart
    BY <1>3, RestartInv
  <1> QED
    BY <1>1, <1>2, <1>3 DEF Next

LEMMA RebuildHolds == Undisturbed /\ Spec => []RebuildInv
  <1>1. ASSUME Undisturbed PROVE Spec => []RebuildInv
    <2>1. Typed /\ RebuildInv /\ [Next]_vars => RebuildInv'
      BY <1>1, RebuildStep
    <2> QED
      BY <2>1, RebuildInit, AlwaysTyped, PTL DEF Spec
  <1> QED
    BY <1>1

(***************************************************************************)
(* The theorems.                                                           *)
(***************************************************************************)
\* downloadList: pages follow each other without gap or overlap, for any bucket
\* and any size of page.
THEOREM ListHolds == Undisturbed => (Spec => []ListIsPrefix)
  <1>1. RebuildInv => ListIsPrefix
    BY DEF RebuildInv, ListInv
  <1> QED
    BY <1>1, RebuildHolds, PTL

\* rebuildDatabase: a success has left one row for each object, with its mtime,
\* for any number of objects, pages, chunks, threads, failures and runs.
THEOREM RebuildComplete == Undisturbed => (Spec => []DoneIsComplete)
  <1>1. RebuildInv => DoneIsComplete
    BY DEF RebuildInv, TableInv, DoneIsComplete
  <1> QED
    BY <1>1, RebuildHolds, PTL

\* Wherever the process stops, the table is the old one or part of the true one.
THEOREM TableOldOrTrue == Undisturbed => (Spec => []OldOrTrue)
  <1>1. Typed /\ RebuildInv => OldOrTrue
    <2> SUFFICES ASSUME Typed, RebuildInv PROVE OldOrTrue
      OBVIOUS
    <2>1. CASE pc = "store"
      <3>1. size \in Nat /\ from <= size /\ from \in Nat
        BY <2>1 DEF RebuildInv, ListInv, Typed, ListTyped, TableTyped
      <3> QED
        BY <2>1, <3>1 DEF RebuildInv, TableInv, OldOrTrue, True
    <2>2. CASE pc = "done"
      BY <2>2 DEF RebuildInv, TableInv, OldOrTrue
    <2>3. CASE pc \notin {"store", "done"}
      BY <2>3 DEF RebuildInv, TableInv, OldOrTrue, Typed, ListTyped
    <2> QED
      BY <2>1, <2>2, <2>3
  <1> QED
    BY <1>1, RebuildHolds, AlwaysTyped, PTL

\* The table is touched only with the whole list and all mtimes at hand.
THEOREM ChangesInformed == Undisturbed => (Spec => ChangesAreInformed)
  <1> DEFINE Informed == ~dryRun /\ Running = {} /\ paths = [i \in 1 .. size |-> i] /\ mtimes = paths
  <1>1. RebuildInv /\ [Next]_vars => [db' # db => Informed]_vars
    <2> SUFFICES ASSUME RebuildInv, Next, db' # db PROVE Informed
      OBVIOUS
    <2>1. pc \in {"truncate", "store"}
      BY DEF Next, Step, ListPage, ListRedirect, ListFails, Dispatch, Break, Begin, Request, Resolved,
         Truncate, StoreChunk, StatementFails, Restart
    <2> QED
      BY <2>1 DEF RebuildInv, ListInv, ListIsPrefix, PoolInv
  <1> QED
    BY <1>1, RebuildHolds, PTL DEF Spec, ChangesAreInformed

(***************************************************************************)
(* The refinement.                                                         *)
(***************************************************************************)
Bucket == [k \in Keys |-> True(k)]
Rows == [k \in Keys |-> IF k \in ToStore
                       THEN mtimes[CHOOSE i \in DOMAIN paths : paths[i] = k] ELSE NoRow]
TaskPc ==
    CASE pc \in {"list", "head"} -> "list"
      [] pc = "truncate" -> "truncate"
      [] pc = "store" \/ (pc = "done" /\ ~dryRun) -> "restore"
      [] pc = "done" /\ dryRun -> "after"
      [] OTHER -> "idle"
DryTask == dryRun /\ pc # "failed"

\* What is left to be stored is the rest of the bucket.
RestOfBucket == [k \in Keys |-> IF from < k /\ k <= size THEN k ELSE NoRow]

LEMMA RowsAreRest ==
    ASSUME Typed, RebuildInv, pc \in {"truncate", "store"}
    PROVE  Rows = RestOfBucket
  <1>1. /\ paths = [i \in 1 .. size |-> i] /\ mtimes = paths /\ Len(paths) = size
        /\ size \in 0 .. NumKeys /\ from \in 0 .. size /\ NumKeys \in Nat
    BY SizesAssumption DEF RebuildInv, ListInv, ListIsPrefix, PoolInv, Typed, ListTyped, TableTyped
  <1>2. \A i \in from + 1 .. size : paths[i] = i
    BY <1>1
  <1>3. ToStore = from + 1 .. size
    BY <1>1, <1>2 DEF ToStore
  <1>4. ASSUME NEW k \in ToStore
        PROVE  mtimes[CHOOSE i \in DOMAIN paths : paths[i] = k] = k
    <2>1. k \in DOMAIN paths /\ paths[k] = k
      BY <1>1, <1>3, <1>4
    <2>2. PICK j : j = CHOOSE i \in DOMAIN paths : paths[i] = k
      OBVIOUS
    <2>3. j \in DOMAIN paths /\ paths[j] = k
      BY <2>1, <2>2, Zenon
    <2> QED
      BY <1>1, <2>2, <2>3
  <1>5. \A k \in Keys : k \in ToStore <=> from < k /\ k <= size
    BY <1>1, <1>3 DEF Keys
  <1> QED
    BY <1>4, <1>5 DEF Rows, RestOfBucket

\* Elsewhere there is nothing to store.
LEMMA NothingToStore ==
    ASSUME pc \notin {"truncate", "store"}
    PROVE  Rows = [k \in Keys |-> NoRow]
  BY DEF Rows, ToStore

LEMMA NothingToStoreNext == (pc \notin {"truncate", "store"} => Rows = [k \in Keys |-> NoRow])'
  <1>1. pc \notin {"truncate", "store"} => Rows = [k \in Keys |-> NoRow]
    BY NothingToStore
  <1> QED
    BY <1>1, PTL

\* A process that has failed, wherever it was.
LEMMA TaskEnds ==
    ASSUME pc' = "failed", UNCHANGED db
    PROVE  Task!End
  <1>1. TaskPc' = "idle" /\ DryTask' = FALSE
    BY DEF TaskPc, DryTask
  <1>2. Rows' = [k \in Keys |-> NoRow]
    BY NothingToStoreNext
  <1> QED
    BY <1>1, <1>2 DEF Task!End, Task!NoRows, TaskPc, DryTask, Rows

LEMMA ListIsTask ==
    ASSUME ListPage \/ ListRedirect \/ Dispatch \/ Break \/ \E i \in DOMAIN thread : Begin(i) \/ Request(i)
    PROVE  UNCHANGED <<Bucket, db, DryTask, Rows, TaskPc>>
  <1>1. pc \in {"list", "head"} /\ pc' \in {"list", "head"} /\ UNCHANGED <<size, db, dryRun>>
    BY DEF ListPage, ListRedirect, Continues, Listed, Dispatch, Break, Begin, Request, world
  <1>2. Rows = [k \in Keys |-> NoRow] /\ Rows' = [k \in Keys |-> NoRow]
    BY <1>1, NothingToStore, NothingToStoreNext
  <1> QED
    BY <1>1, <1>2 DEF TaskPc, DryTask, Bucket, True

LEMMA ResolvedIsTask ==
    ASSUME Typed, RebuildInv, Typed', RebuildInv', Resolved
    PROVE  Task!List \/ Task!End
  <1>1. pc = "head" /\ UNCHANGED <<size, db, dryRun, from>> /\ from = 0
    BY DEF Resolved, world, RebuildInv, ListInv
  <1>2. CASE pc' = "failed"
    BY <1>1, <1>2, TaskEnds
  <1>3. CASE pc' = "done" /\ dryRun
    <2>1. Rows' = [k \in Keys |-> NoRow]
      BY <1>3, NothingToStoreNext
    <2>2. TaskPc = "list" /\ TaskPc' = "after" /\ DryTask /\ DryTask'
      BY <1>1, <1>3 DEF TaskPc, DryTask
    <2> QED
      BY <1>1, <2>1, <2>2 DEF Task!List, Task!NoRows, TaskPc, DryTask, Rows
  <1>4. CASE pc' = "truncate" /\ ~dryRun
    <2>1. (Typed /\ RebuildInv /\ pc \in {"truncate", "store"} => Rows = RestOfBucket)'
      BY RowsAreRest, PTL
    <2>2. Rows' = Bucket
      <3>1. \A k \in Keys : from' < k
        BY <1>1 DEF Keys
      <3> QED
        BY <1>1, <1>4, <2>1, <3>1 DEF Bucket, RestOfBucket, True
    <2>3. TaskPc = "list" /\ TaskPc' = "truncate" /\ ~DryTask /\ ~DryTask'
      BY <1>1, <1>4 DEF TaskPc, DryTask
    <2> QED
      BY <1>1, <2>2, <2>3 DEF Task!List, TaskPc, DryTask, Bucket, Rows
  <1> QED
    BY <1>2, <1>3, <1>4 DEF Resolved

LEMMA TruncateIsTask ==
    ASSUME Truncate
    PROVE  Task!Truncate
  <1>1. /\ pc = "truncate" /\ pc' = "store" /\ db' = Empty
        /\ UNCHANGED <<dryRun, from, paths, mtimes>>
    BY DEF Truncate, world, listing, heads
  <1>2. Rows' = Rows
    BY <1>1 DEF Rows, ToStore
  <1>3. TaskPc = "truncate" /\ TaskPc' = "restore" /\ DryTask' = DryTask
    BY <1>1 DEF TaskPc, DryTask
  <1> QED
    BY <1>1, <1>2, <1>3 DEF Task!Truncate, Task!NoRows, Empty, TaskPc, DryTask, Rows

\* A chunk takes the next rows; one without rows, of an empty bucket, changes
\* nothing.
LEMMA ChunkIsTask ==
    ASSUME Typed, RebuildInv, Typed', RebuildInv', StoreChunk
    PROVE  \/ \E c \in SUBSET Keys : Task!StoreChunk(c)
           \/ UNCHANGED <<Bucket, db, DryTask, Rows, TaskPc>>
  <1>1. /\ pc = "store" /\ from' = ChunkEnd /\ pc' = IF ChunkEnd = size THEN "done" ELSE pc
        /\ UNCHANGED <<size, dryRun>> /\ ~dryRun /\ Rows = RestOfBucket
        /\ size \in 0 .. NumKeys /\ from \in 0 .. size /\ Len(paths) = size /\ NumKeys \in Nat
    BY RowsAreRest, SizesAssumption
    DEF StoreChunk, world, listing, RebuildInv, PoolInv, ListInv, ListIsPrefix, Typed, ListTyped,
        TableTyped
  <1>2. /\ ChunkEnd \in from .. size /\ ChunkSize \in Nat
        /\ ChunkEnd = from + ChunkSize \/ (ChunkEnd = size /\ size < from + ChunkSize)
    BY <1>1, SizesAssumption DEF ChunkEnd
  <1>3. Rows' = [k \in Keys |-> IF ChunkEnd < k /\ k <= size THEN k ELSE NoRow]
    <2>1. CASE pc' = "store"
      <3>1. (Typed /\ RebuildInv /\ pc \in {"truncate", "store"} => Rows = RestOfBucket)'
        BY RowsAreRest, PTL
      <3> QED
        BY <1>1, <2>1, <3>1 DEF RestOfBucket
    <2>2. CASE ChunkEnd = size /\ pc' = "done"
      <3>1. \A k \in Keys : ~(ChunkEnd < k /\ k <= size)
        BY <1>1, <2>2 DEF Keys
      <3>2. Rows' = [k \in Keys |-> NoRow]
        BY <2>2, NothingToStoreNext
      <3> QED
        BY <3>1, <3>2
    <2> QED
      BY <1>1, <2>1, <2>2
  <1>4. Bucket' = Bucket /\ TaskPc = "restore" /\ TaskPc' = "restore" /\ DryTask' = DryTask
    BY <1>1 DEF Bucket, True, TaskPc, DryTask
  <1>5. \A k \in Keys : k \in Chunk <=> from < k /\ k <= ChunkEnd
    BY <1>1, <1>2 DEF Chunk, Keys
  <1>6. db' = [k \in Keys |-> IF k \in Chunk THEN Rows[k] ELSE db[k]]
    <2>1. /\ db = [k \in Keys |-> IF k <= from THEN k ELSE NoRow]
          /\ db' = [k \in Keys |-> IF k <= ChunkEnd THEN k ELSE NoRow]
      <3>1. (TableInv /\ pc = "store" => db = [k \in Keys |-> IF k <= from THEN k ELSE NoRow])'
        BY DEF TableInv
      <3>2. CASE pc' = "store"
        BY <1>1, <3>1, <3>2 DEF RebuildInv, TableInv
      <3>3. CASE pc' = "done"
        BY <1>1, <3>3 DEF RebuildInv, TableInv, True
      <3> QED
        BY <1>1, <3>2, <3>3
    <2>2. ASSUME NEW k \in Keys
          PROVE  (IF k <= ChunkEnd THEN k ELSE NoRow) = IF k \in Chunk THEN Rows[k] ELSE db[k]
      <3>1. k \in Nat /\ Rows[k] = IF from < k /\ k <= size THEN k ELSE NoRow
        BY <1>1 DEF RestOfBucket, Keys
      <3>2. db[k] = IF k <= from THEN k ELSE NoRow
        BY <2>1
      <3>3. k \in Chunk <=> from < k /\ k <= ChunkEnd
        BY <1>5
      <3> QED
        BY <1>1, <1>2, <3>1, <3>2, <3>3
    <2> QED
      BY <2>1, <2>2
  <1>7. CASE ChunkEnd = from
    <2>1. \A k \in Keys : k \notin Chunk
      BY <1>1, <1>5, <1>7 DEF Keys
    <2>2. db' = db
      BY <1>6, <2>1 DEF Typed, TableTyped
    <2>3. Rows' = Rows
      BY <1>1, <1>3, <1>7 DEF RestOfBucket
    <2> QED
      BY <1>4, <2>2, <2>3
  <1>8. CASE ChunkEnd # from
    <2>1. Chunk # {} /\ Chunk \subseteq Keys
      <3>1. from + 1 \in Chunk
        BY <1>1, <1>2, <1>8 DEF Chunk
      <3>2. Chunk \subseteq Keys
        BY <1>1, <1>2 DEF Chunk, Keys
      <3> QED
        BY <3>1, <3>2
    <2>2. Cardinality(Chunk) = ChunkEnd - from
      <3>1. Cardinality(from + 1 .. ChunkEnd) =
               IF from + 1 > ChunkEnd THEN 0 ELSE ChunkEnd - (from + 1) + 1
        BY <1>1, <1>2, FS_Interval
      <3> QED
        BY <1>1, <1>2, <1>8, <3>1 DEF Chunk
    <2>3. \A k \in Keys : Rows[k] # NoRow <=> from < k /\ k <= size
      BY <1>1 DEF RestOfBucket, Keys, NoRow
    <2>4. Task!Left = {k \in Keys : Rows[k] # NoRow}
      BY DEF Task!Left, Rows
    <2>5. Chunk \subseteq Task!Left
      BY <1>1, <1>2, <1>5, <2>1, <2>3, <2>4 DEF Keys
    <2>6. ChunkEnd = size => Chunk = Task!Left
      BY <1>1, <1>5, <2>1, <2>3, <2>4
    <2>7. PICK c \in SUBSET Keys : c = Chunk
      BY <2>1
    <2>8. Task!IsChunk(c)
      <3>1. Task!Cardinality(c) = Cardinality(c)
        BY Zenon DEF Cardinality, Task!Cardinality
      <3>2. Cardinality(c) = ChunkSize \/ (c = Task!Left /\ Cardinality(c) < ChunkSize)
        BY <1>1, <1>2, <2>2, <2>6, <2>7
      <3> QED
        BY <2>1, <2>5, <2>7, <3>1, <3>2 DEF Task!IsChunk
    <2>9. Rows' = [k \in Keys |-> IF k \in c THEN NoRow ELSE Rows[k]]
      <3>1. ASSUME NEW k \in Keys
            PROVE  (IF ChunkEnd < k /\ k <= size THEN k ELSE NoRow)
                      = IF k \in c THEN NoRow ELSE Rows[k]
        <4>1. k \in Nat /\ Rows[k] = IF from < k /\ k <= size THEN k ELSE NoRow
          BY <1>1 DEF RestOfBucket, Keys
        <4>2. k \in c <=> from < k /\ k <= ChunkEnd
          BY <1>5, <2>7
        <4> QED
          BY <1>1, <1>2, <4>1, <4>2
      <3> QED
        BY <1>3, <3>1
    <2>10. db' = [k \in Keys |-> IF k \in c THEN Rows[k] ELSE db[k]]
      BY <1>6, <2>7
    <2>11. Task!StoreChunk(c)
      BY <1>4, <2>8, <2>9, <2>10 DEF Task!StoreChunk, TaskPc, DryTask, Rows
    <2> QED
      BY <2>7, <2>11
  <1> QED
    BY <1>7, <1>8

\* Every step of Rebuild is one of TableRebuild or leaves what that sees alone.
LEMMA TaskStep ==
    ASSUME Typed, RebuildInv, Typed', RebuildInv', [Next]_vars
    PROVE  [Task!Next]_(Task!vars)
  <1>1. UNCHANGED <<Bucket, db, DryTask, Rows, TaskPc>> => UNCHANGED Task!vars
    BY DEF Task!vars, Bucket, DryTask, Rows, TaskPc
  <1>2. CASE UNCHANGED vars
    BY <1>1, <1>2 DEF vars, world, listing, heads, Bucket, True, DryTask, Rows, ToStore, TaskPc
  <1>3. CASE Restart
    <2>1. pc' = "list" /\ dryRun' \in BOOLEAN /\ UNCHANGED db
      BY <1>3 DEF Restart, Reset
    <2>2. TaskPc' = "list" /\ DryTask' = dryRun' /\ Rows' = [k \in Keys |-> NoRow]
      BY <2>1, NothingToStoreNext DEF TaskPc, DryTask
    <2>3. Task!Begin
      BY <2>1, <2>2 DEF Task!Begin, Task!NoRows, TaskPc, DryTask, Rows
    <2> QED
      BY <2>3 DEF Task!Next
  <1>4. CASE ListFails \/ StatementFails
    BY <1>4, TaskEnds DEF ListFails, StatementFails, Task!Next
  <1>5. CASE StoreChunk
    BY <1>1, <1>5, ChunkIsTask DEF Task!Next
  <1>6. CASE Resolved
    BY <1>6, ResolvedIsTask DEF Task!Next
  <1>7. CASE Truncate
    BY <1>7, TruncateIsTask DEF Task!Next
  <1> QED
    BY <1>1, <1>2, <1>3, <1>4, <1>5, <1>6, <1>7, ListIsTask DEF Next, Step

\* rebuildDatabase, with its pages, its pool, its tries and its restarts, is a
\* rebuild as TableRebuild has it, for any bucket, sizes and faults but the two
\* redirects and markers that Undisturbed excludes.
THEOREM RebuildIsTask == Undisturbed => (Spec => ImplementsTask)
  <1> SUFFICES ASSUME Undisturbed PROVE Spec => ImplementsTask
    OBVIOUS
  <1>1. Init => Task!Init
    <2> SUFFICES ASSUME Init PROVE Task!Init
      OBVIOUS
    <2>1. pc = "list" /\ dryRun \in BOOLEAN
      BY DEF Init
    <2>2. TaskPc = "list" /\ Rows = [k \in Keys |-> NoRow] /\ DryTask = dryRun
      BY <2>1, NothingToStore DEF TaskPc, DryTask
    <2> QED
      BY <2>1, <2>2 DEF Task!Init, Task!NoRows, TaskPc, Rows, DryTask
  <1>2. Typed /\ RebuildInv /\ Typed' /\ RebuildInv' /\ [Next]_vars => [Task!Next]_(Task!vars)
    BY TaskStep
  <1>3. Spec => []Typed /\ []RebuildInv
    BY AlwaysTyped, RebuildHolds
  <1> QED
    BY <1>1, <1>2, <1>3, PTL DEF Spec, ImplementsTask, Task!Spec
=============================================================================

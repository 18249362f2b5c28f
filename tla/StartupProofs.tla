---------------------------- MODULE StartupProofs ----------------------------
(***************************************************************************)
(* What a start does for any command lines, folders and answers.           *)
(***************************************************************************)
EXTENDS Startup, SequenceTheorems, WellFoundedInduction, TLAPS

Flags == {"number", "region", "upload", "delete", "rebuild", "dryRun", "keys"}

\* The static variables are what the options read so far made of them.
ReadInv ==
    /\ line \in Seq(Range(line)) /\ optind \in 0 .. Len(line)
    /\ DOMAIN opts = Flags
    /\ opts.dryRun \in BOOLEAN
    /\ pc \notin {"options", "exited"} => optind = Len(line)
    /\ pc # "exited" =>
         /\ opts.dryRun <=> \E i \in 1 .. optind : line[i].name = "dryRun"
         /\ opts.region # None =>
              \E i \in 1 .. optind :
                 /\ line[i].name = "create" /\ line[i].region = opts.region
                 /\ \A j \in 1 .. optind : j > i => line[j].name # "create"

\* What each step of main relies on from those before it.
OrderInv ==
    /\ pc = "create" => ~opts.dryRun /\ opts.region # None
    /\ pc \in {"open", "files", "meta", "rebuild", "filter", "scan", "ready"} =>
         bucket = "ours" \/ opts.dryRun
    /\ pc \in {"meta", "rebuild", "filter", "scan", "ready"} => "files" \in tables
    /\ pc \in {"rebuild", "filter", "scan", "ready"} => "meta" \in tables
    /\ pc = "ready" => scan = "done"

StartInv == ReadInv /\ OrderInv

LEMMA StartInit == Init => StartInv
  <1> SUFFICES ASSUME Init PROVE StartInv
    OBVIOUS
  <1>1. line \in Seq(Range(line))
    BY CommandLinesAssumption DEF Init
  <1>2. opts.region = None /\ ~opts.dryRun /\ opts.dryRun \in BOOLEAN /\ DOMAIN opts = Flags /\ pc = "options" /\ optind = 0
    BY DEF Init, Flags
  <1>3. Len(line) \in Nat
    BY <1>1
  <1>4. ReadInv
    BY <1>1, <1>2, <1>3 DEF ReadInv
  <1>5. OrderInv
    BY <1>2 DEF OrderInv
  <1> QED
    BY <1>4, <1>5 DEF StartInv

\* An option stores what it is about and leaves the rest alone.
LEMMA Stored ==
    ASSUME NEW o, DOMAIN opts = Flags
    PROVE  /\ DOMAIN Stores(o) = Flags
           /\ Stores(o).dryRun = IF o.name = "dryRun" THEN TRUE ELSE opts.dryRun
           /\ Stores(o).region = IF o.name = "create" THEN o.region ELSE opts.region
           /\ Stores(o).number = IF o.name \in DOMAIN Limit
                                 THEN [opts.number EXCEPT ![o.name] = o.number] ELSE opts.number
  <1> USE DEF Flags
  <1>1. DOMAIN Limit = {"uploadThreads", "connectTimeout", "networkTimeout", "logLevel"}
    BY DEF Limit
  <1>2. CASE o.name = "create"
    BY <1>1, <1>2 DEF Stores
  <1>3. CASE o.name \in DOMAIN Limit
    BY <1>1, <1>3 DEF Stores
  <1>4. CASE o.name = "delete"
    BY <1>1, <1>4 DEF Stores
  <1>5. CASE o.name \in {"rebuild", "rebuildOnly"}
    BY <1>1, <1>5 DEF Stores
  <1>6. CASE o.name = "dryRun"
    BY <1>1, <1>6 DEF Stores
  <1>7. CASE o.name = "keys"
    BY <1>1, <1>7 DEF Stores
  <1>8. CASE o.name \notin {"create", "delete", "rebuild", "rebuildOnly", "dryRun", "keys"} \cup DOMAIN Limit
    BY <1>8 DEF Stores
  <1> QED
    BY <1>2, <1>3, <1>4, <1>5, <1>6, <1>7, <1>8

LEMMA ReadStep == ReadInv /\ ReadOption => ReadInv'
  <1> SUFFICES ASSUME ReadInv, ReadOption PROVE ReadInv'
    OBVIOUS
  <1> DEFINE o == line[optind + 1]
  <1>1. /\ optind \in Nat /\ optind' = optind + 1 /\ optind' \in 1 .. Len(line) /\ line' = line
        /\ pc = "options" /\ pc' \in {"options", "exited"} /\ Len(line) \in Nat
    BY DEF ReadInv, ReadOption, Goes
  <1>2. CASE UNCHANGED opts /\ pc' = "exited"
    BY <1>1, <1>2 DEF ReadInv
  <1>3. CASE UNCHANGED opts /\ o.name = "exclude"
    BY <1>1, <1>3 DEF ReadInv
  <1>4. CASE opts' = Stores(o)
    <2>1. /\ DOMAIN opts' = Flags
          /\ opts'.dryRun = IF o.name = "dryRun" THEN TRUE ELSE opts.dryRun
          /\ opts'.region = IF o.name = "create" THEN o.region ELSE opts.region
      BY <1>4, Stored DEF ReadInv
    <2> HIDE DEF o
    <2>2. \A i \in 1 .. optind' : i \in 1 .. optind \/ line[i] = o
      BY <1>1 DEF o
    <2>3. optind' \in 1 .. optind' /\ line[optind'] = o
      BY <1>1 DEF o
    <2>4. opts'.dryRun <=> \E i \in 1 .. optind' : line'[i].name = "dryRun"
      BY <1>1, <2>1, <2>2, <2>3 DEF ReadInv
    <2>5. opts'.region # None =>
            \E i \in 1 .. optind' :
               /\ line'[i].name = "create" /\ line'[i].region = opts'.region
               /\ \A j \in 1 .. optind' : j > i => line'[j].name # "create"
      <3>1. CASE o.name = "create"
        <4>1. line'[optind'].name = "create" /\ line'[optind'].region = opts'.region
          BY <1>1, <2>1, <2>3, <3>1
        <4>2. \A j \in 1 .. optind' : ~(j > optind')
          BY <1>1
        <4> QED
          BY <2>3, <4>1, <4>2
      <3>2. CASE o.name # "create"
        BY <1>1, <2>1, <2>2, <3>2 DEF ReadInv
      <3> QED
        BY <3>1, <3>2
    <2>6. opts'.dryRun \in BOOLEAN
      BY <2>1 DEF ReadInv
    <2>7. /\ line' \in Seq(Range(line')) /\ optind' \in 0 .. Len(line')
          /\ pc' \notin {"options", "exited"} => optind' = Len(line')
      BY <1>1 DEF ReadInv
    <2> QED
      BY <2>1, <2>4, <2>5, <2>6, <2>7 DEF ReadInv
  <1> QED
    BY <1>2, <1>3, <1>4 DEF ReadOption, Goes
\* After the options every step leaves them alone and follows the order of main.
LEMMA OrderStep ==
    ASSUME StartInv, Check \/ VerifySource \/ CheckAuth \/ CreateBucket \/ OpenStorage
                     \/ Rebuild \/ AddDatabase \/ Scan
    PROVE  StartInv'
  <1> USE DEF StartInv, ReadInv, OrderInv, input, cloud, own, Local, Goes
  <1>1. CASE Check
    BY <1>1 DEF Check
  <1>2. CASE VerifySource
    BY <1>2 DEF VerifySource
  <1>3. CASE CheckAuth
    BY <1>3 DEF CheckAuth
  <1>4. CASE CreateBucket
    BY <1>4 DEF CreateBucket, Created, NotCreated, CreateElsewhere
  <1>5. CASE OpenStorage
    BY <1>5 DEF OpenStorage, Statement
  <1>6. CASE Rebuild
    BY <1>6 DEF Rebuild
  <1>7. CASE AddDatabase
    BY <1>7 DEF AddDatabase
  <1>8. CASE Scan
    BY <1>8 DEF Scan, Outside, walk
  <1> QED
    BY <1>1, <1>2, <1>3, <1>4, <1>5, <1>6, <1>7, <1>8

LEMMA StartStep == StartInv /\ [Next]_vars => StartInv'
  <1> SUFFICES ASSUME StartInv, [Next]_vars PROVE StartInv'
    OBVIOUS
  <1>1. CASE ReadOption
    <2>1. OrderInv'
      BY <1>1 DEF StartInv, OrderInv, ReadOption, Goes
    <2> QED
      BY <1>1, <2>1, ReadStep DEF StartInv
  <1>2. CASE Taken
    BY <1>2 DEF Taken, StartInv, ReadInv, OrderInv, Local, input
  <1>3. CASE User /\ UNCHANGED own
    <2>1. scan' = scan
      BY <1>3 DEF User, Create, Unlink
    <2> QED
      BY <1>3, <2>1 DEF StartInv, ReadInv, OrderInv, own, input, cloud
  <1>4. CASE UNCHANGED vars
    BY <1>4 DEF vars, walk, StartInv, ReadInv, OrderInv, own, input, cloud
  <1> QED
    BY <1>1, <1>2, <1>3, <1>4, OrderStep DEF Next, Main

LEMMA StartHolds == FairSpec => []StartInv
  BY StartInit, StartStep, PTL DEF FairSpec

\* When the upload begins the tables are there, the bucket is the user's unless
\* nothing is going to be sent, and the list is finished, whatever was refused,
\* redirected, lost or left half done before.
THEOREM ReadyPrepared == FairSpec => []ReadyIsPrepared
  <1>1. StartInv => ReadyIsPrepared
    BY DEF StartInv, ReadInv, OrderInv, ReadyIsPrepared, Given
  <1> QED
    BY <1>1, StartHolds, PTL

\* No start makes a bucket that its command line does not ask for, nor in another
\* region than that of the last --create.
THEOREM CreatesAsAsked == FairSpec => CreatedOnlyIfAsked
  <1> DEFINE Asked ==
        /\ ~Given("dryRun")
        /\ \E i \in DOMAIN line :
              /\ line[i].name = "create" /\ line[i].region = region'
              /\ \A j \in DOMAIN line : j > i => line[j].name # "create"
  <1>1. StartInv /\ [Next]_vars => [bucket # "ours" /\ bucket' = "ours" => Asked]_vars
    <2> SUFFICES ASSUME StartInv, Next, bucket # "ours", bucket' = "ours" PROVE Asked
      OBVIOUS
    <2>1. Created
      BY DEF Next, Main, Taken, own, cloud, ReadOption, Check, VerifySource, CheckAuth, CreateBucket,
             NotCreated, CreateElsewhere, OpenStorage, Statement, Rebuild, AddDatabase, Scan
    <2>2. pc = "create" /\ region' = opts.region
      BY <2>1 DEF Created
    <2>3. optind = Len(line) /\ DOMAIN line = 1 .. Len(line)
      BY <2>2 DEF StartInv, ReadInv
    <2> QED
      BY <2>2, <2>3 DEF StartInv, ReadInv, OrderInv, Given
  <1> QED
    BY <1>1, StartHolds, PTL DEF FairSpec, CreatedOnlyIfAsked

(***************************************************************************)
(* Induction over the numbers, for a set instead of a predicate: what      *)
(* loops over lines, options and characters do is proved with it.          *)
(***************************************************************************)
LEMMA Least ==
    ASSUME NEW T \in SUBSET Nat, T # {}
    PROVE  \E x \in T : \A y \in T : x <= y
  <1> DEFINE R == OpToRel(<, Nat)
  <1>1. IsWellFoundedOn(R, Nat)
    BY NatLessThanWellFounded
  <1>2. \A x, y \in Nat : x < y => <<x, y>> \in R
    BY DEF OpToRel
  <1> HIDE DEF R
  <1>3. PICK x \in T : \A y \in T : ~ (<<y, x>> \in R)
    BY <1>1, WFMin
  <1>4. ASSUME NEW y \in T PROVE x <= y
    <2>1. x \in Nat /\ y \in Nat /\ ~ (<<y, x>> \in R)
      BY <1>3
    <2>2. ~(y < x)
      BY <1>2, <2>1
    <2> QED
      BY <2>1, <2>2
  <1> QED
    BY <1>4

LEMMA Induction ==
    ASSUME NEW S, 0 \in S, \A n \in Nat : n \in S => n + 1 \in S
    PROVE  Nat \subseteq S
  <1> SUFFICES ASSUME Nat \ S # {} PROVE FALSE
    OBVIOUS
  <1>1. PICK x \in Nat \ S : \A y \in Nat \ S : x <= y
    BY Least
  <1>2. x # 0
    BY <1>1
  <1>3. x - 1 \in Nat /\ x - 1 \in S
    BY <1>1, <1>2
  <1> QED
    BY <1>1, <1>3

LEMMA MaxIs ==
    ASSUME NEW T \in SUBSET Nat, NEW n \in T, \A x \in T : x <= n
    PROVE  Max(T) = n
  <1>1. PICK m : m = Max(T)
    OBVIOUS
  <1>2. m \in T /\ \A y \in T : m >= y
    <2>1. \E x \in T : \A y \in T : x >= y
      OBVIOUS
    <2> QED
      BY <1>1, <2>1 DEF Max
  <1>3. m \in Nat /\ n \in Nat /\ m >= n /\ m <= n
    BY <1>2
  <1> QED
    BY <1>1, <1>3

(***************************************************************************)
(* The patterns of an option.                                              *)
(***************************************************************************)
\* What FoldLeft makes of each set of the first n places.
Folds(g, p, s, ms, n) ==
    g = [t \in SUBSET (1 .. n) |->
            IF t = {} THEN [patterns |-> p, size |-> s]
            ELSE LET x == Max(t)
                     r == g[t \ {x}]
                 IN  WithPattern(r.patterns, r.size, ms[x])]

LEMMA FoldExists == ASSUME NEW p, NEW s, NEW ms PROVE \A n \in Nat : \E g : Folds(g, p, s, ms, n)
  <1> DEFINE S == {n \in Nat : \E g : Folds(g, p, s, ms, n)}
  <1>1. 0 \in S
    <2> DEFINE g == [t \in SUBSET (1 .. 0) |-> [patterns |-> p, size |-> s]]
    <2>1. \A t \in SUBSET (1 .. 0) : t = {}
      OBVIOUS
    <2>2. Folds(g, p, s, ms, 0)
      BY <2>1 DEF Folds
    <2> QED
      BY <2>2
  <1>2. ASSUME NEW n \in Nat, n \in S PROVE n + 1 \in S
    <2>1. PICK g : Folds(g, p, s, ms, n)
      BY <1>2
    <2> DEFINE Grown(t) == WithPattern(g[t \ {n + 1}].patterns, g[t \ {n + 1}].size, ms[n + 1])
               h == [t \in SUBSET (1 .. n + 1) |-> IF n + 1 \in t THEN Grown(t) ELSE g[t]]
    <2>2. ASSUME NEW t \in SUBSET (1 .. n + 1)
          PROVE  h[t] = IF t = {} THEN [patterns |-> p, size |-> s]
                        ELSE LET x == Max(t)
                                 r == h[t \ {x}]
                             IN  WithPattern(r.patterns, r.size, ms[x])
      <3>1. CASE n + 1 \in t
        <4>1. Max(t) = n + 1
          BY <3>1, MaxIs
        <4>2. t \ {n + 1} \in SUBSET (1 .. n + 1) /\ h[t \ {n + 1}] = g[t \ {n + 1}]
          OBVIOUS
        <4> QED
          BY <3>1, <4>1, <4>2
      <3>2. CASE n + 1 \notin t
        <4>1. t \in SUBSET (1 .. n)
          BY <3>2
        <4>2. \A x : t \ {x} \in SUBSET (1 .. n + 1) /\ h[t \ {x}] = g[t \ {x}]
          BY <3>2
        <4> QED
          BY <2>1, <3>2, <4>1, <4>2 DEF Folds
      <3> QED
        BY <3>1, <3>2
    <2>3. Folds(h, p, s, ms, n + 1)
      BY <2>2 DEF Folds
    <2> QED
      BY <2>3
  <1> HIDE DEF S
  <1>3. Nat \subseteq S
    BY <1>1, <1>2, Induction
  <1> QED
    BY <1>3 DEF S

\* readFromFile, add: however many patterns are added, the array has room for them.
LEMMA Room ==
    ASSUME NEW S, NEW p \in Seq(S), NEW s \in Nat, Len(p) <= s, NEW ms \in Seq(S)
    PROVE  LET r == WithPatterns(p, s, ms) IN
           r.patterns \in Seq(S) /\ r.size \in Nat /\ Len(r.patterns) <= r.size
  <1> DEFINE n == Len(ms)
             g == CHOOSE h : Folds(h, p, s, ms, n)
             Fitting(r) == r.patterns \in Seq(S) /\ r.size \in Nat /\ Len(r.patterns) <= r.size
             T == {k \in Nat : k <= n => Fitting(g[1 .. k])}
  <1>1. n \in Nat /\ DOMAIN ms = 1 .. n
    BY LenProperties
  <1>2. Folds(g, p, s, ms, n)
    BY <1>1, FoldExists
  <1>3. WithPatterns(p, s, ms) = g[1 .. n]
    <2>1. WithPatterns(p, s, ms)
            = (CHOOSE h : h = [t \in SUBSET DOMAIN ms |->
                 IF t = {} THEN [patterns |-> p, size |-> s]
                 ELSE LET x == Max(t)
                          r == h[t \ {x}]
                      IN  WithPattern(r.patterns, r.size, ms[x])])[DOMAIN ms]
      BY DEF WithPatterns, FoldLeft, MapThenFoldSet
    <2> QED
      BY <1>1, <2>1 DEF Folds
  <1> HIDE DEF g, n
  <1>4. 0 \in T
    <2>1. 1 .. 0 = {} /\ {} \in SUBSET (1 .. n)
      OBVIOUS
    <2>2. g[1 .. 0] = [patterns |-> p, size |-> s]
      BY <1>2, <2>1 DEF Folds
    <2> QED
      BY <2>2
  <1>5. ASSUME NEW k \in Nat, k \in T PROVE k + 1 \in T
    <2> SUFFICES ASSUME k + 1 <= n PROVE Fitting(g[1 .. k + 1])
      OBVIOUS
    <2>1. /\ 1 .. k + 1 \in SUBSET (1 .. n) /\ 1 .. k + 1 # {}
          /\ Max(1 .. k + 1) = k + 1 /\ (1 .. k + 1) \ {k + 1} = 1 .. k
      <3>1. 1 .. k + 1 \in SUBSET Nat /\ k + 1 \in 1 .. k + 1 /\ \A x \in 1 .. k + 1 : x <= k + 1
        OBVIOUS
      <3>2. Max(1 .. k + 1) = k + 1
        BY <3>1, MaxIs
      <3>3. 1 .. k + 1 \in SUBSET (1 .. n) /\ (1 .. k + 1) \ {k + 1} = 1 .. k
        BY <1>1
      <3> QED
        BY <3>1, <3>2, <3>3
    <2>2. g[1 .. k + 1] = WithPattern(g[1 .. k].patterns, g[1 .. k].size, ms[k + 1])
      BY <1>2, <2>1 DEF Folds
    <2>3. ms[k + 1] \in S
      <3>1. k + 1 \in 1 .. Len(ms)
        BY <1>1 DEF n
      <3> QED
        BY <3>1, ElementOfSeq
    <2>4. k <= n /\ Fitting(g[1 .. k])
      BY <1>1, <1>5
    <2> DEFINE q == g[1 .. k].patterns
               z == g[1 .. k].size
    <2>5. q \in Seq(S) /\ z \in Nat /\ Len(q) <= z /\ Len(q) \in Nat
      BY <2>4
    <2> HIDE DEF q, z
    <2>6. Append(q, ms[k + 1]) \in Seq(S) /\ Len(Append(q, ms[k + 1])) = Len(q) + 1
      BY <2>3, <2>5, AppendProperties
    <2>7. /\ g[1 .. k + 1].patterns = Append(q, ms[k + 1])
          /\ g[1 .. k + 1].size = IF Len(q) = z THEN z + Grow ELSE z
      BY <2>2 DEF WithPattern, q, z
    <2> QED
      BY <2>5, <2>6, <2>7, SizesAssumption
  <1> HIDE DEF T
  <1>6. Nat \subseteq T
    BY <1>4, <1>5, Induction
  <1>7. Fitting(g[1 .. n])
    BY <1>1, <1>6 DEF T
  <1> QED
    BY <1>3, <1>7

(***************************************************************************)
(* The first character of a kind in a text.                                *)
(***************************************************************************)
LEMMA FirstProperties ==
    ASSUME NEW A, NEW x \in Seq(A), NEW u
    PROVE  /\ FirstAt(x, u) \in 0 .. Len(x)
           /\ FirstAt(x, u) = 0 => \A i \in 1 .. Len(x) : x[i] # u
           /\ FirstAt(x, u) # 0 => /\ x[FirstAt(x, u)] = u
                                   /\ \A i \in 1 .. FirstAt(x, u) - 1 : x[i] # u
  <1> DEFINE I == {i \in 1 .. Len(x) : x[i] = u}
  <1>1. Len(x) \in Nat
    BY LenProperties
  <1>2. FirstAt(x, u) = IF I # {} THEN Min(I) ELSE 0
    BY DEF FirstAt, SelectInSeq
  <1>3. CASE I = {}
    BY <1>1, <1>2, <1>3
  <1>4. CASE I # {}
    <2>1. PICK m : m = Min(I)
      OBVIOUS
    <2>2. I \in SUBSET Nat
      BY <1>1
    <2>3. m \in I /\ \A y \in I : m <= y
      <3> HIDE DEF I
      <3>1. \E z \in I : \A y \in I : z <= y
        BY <1>4, <2>2, Least
      <3> QED
        BY <2>1, <3>1 DEF Min
    <2>4. m \in 1 .. Len(x) /\ x[m] = u
      BY <2>3
    <2>5. ASSUME NEW i \in 1 .. m - 1, x[i] = u PROVE FALSE
      <3>1. i \in 1 .. Len(x) /\ ~(m <= i)
        BY <1>1, <2>4
      <3>2. i \in I
        BY <2>5, <3>1
      <3> QED
        BY <2>3, <3>1, <3>2
    <2>6. FirstAt(x, u) = m /\ m # 0
      BY <1>1, <1>2, <1>4, <2>1, <2>4
    <2> QED
      BY <1>1, <2>4, <2>5, <2>6
  <1> QED
    BY <1>3, <1>4

LEMMA FirstIs ==
    ASSUME NEW A, NEW x \in Seq(A), NEW n \in 1 .. Len(x), \A i \in 1 .. n - 1 : x[i] # x[n]
    PROVE  FirstAt(x, x[n]) = n
  <1> DEFINE m == FirstAt(x, x[n])
  <1>1. /\ m \in 0 .. Len(x) /\ Len(x) \in Nat
        /\ m = 0 => \A i \in 1 .. Len(x) : x[i] # x[n]
        /\ m # 0 => x[m] = x[n] /\ \A i \in 1 .. m - 1 : x[i] # x[n]
    BY FirstProperties, LenProperties
  <1> HIDE DEF m
  <1>2. m # 0 /\ ~(m < n) /\ ~(n < m)
    BY <1>1
  <1> QED
    BY <1>1, <1>2 DEF m

(***************************************************************************)
(* A text that is put together is taken apart again.                       *)
(***************************************************************************)
LEMMA Glued ==
    ASSUME NEW A, NEW h \in Seq(A), NEW c \in A, NEW r \in Seq(A)
    PROVE  LET x == h \o (<<c>> \o r) IN
           /\ x \in Seq(A) /\ Len(x) = Len(h) + 1 + Len(r)
           /\ \A i \in 1 .. Len(h) : x[i] = h[i]
           /\ x[Len(h) + 1] = c
           /\ SubSeq(x, 1, Len(h)) = h
           /\ SubSeq(x, Len(h) + 2, Len(x)) = r
  <1> DEFINE t == <<c>> \o r
             x == h \o t
  <1>1. /\ t \in Seq(A) /\ Len(t) = 1 + Len(r) /\ Len(r) \in Nat /\ Len(h) \in Nat
        /\ \A i \in 1 .. 1 + Len(r) : t[i] = IF i = 1 THEN c ELSE r[i - 1]
    <2>1. <<c>> \in Seq(A) /\ Len(<<c>>) = 1 /\ <<c>>[1] = c
      OBVIOUS
    <2> QED
      BY <2>1, ConcatProperties, LenProperties
  <1> HIDE DEF t
  <1>2. /\ x \in Seq(A) /\ Len(x) = Len(h) + Len(t)
        /\ \A i \in 1 .. Len(h) + Len(t) : x[i] = IF i <= Len(h) THEN h[i] ELSE t[i - Len(h)]
    BY <1>1, ConcatProperties
  <1> HIDE DEF x
  <1>3. \A i \in 1 .. Len(h) : x[i] = h[i]
    BY <1>1, <1>2
  <1>4. x[Len(h) + 1] = c
    BY <1>1, <1>2
  <1>5. \A i \in 1 .. Len(r) : x[Len(h) + 1 + i] = r[i]
    BY <1>1, <1>2
  <1>6. \A i \in 1 .. Len(x) : x[i] \in A
    BY <1>2, ElementOfSeq
  <1>7. SubSeq(x, 1, Len(h)) = h
    <2>1. \A i \in 1 .. Len(h) : x[i] \in A
      BY <1>1, <1>2, <1>6
    <2>2. /\ SubSeq(x, 1, Len(h)) \in Seq(A)
          /\ Len(SubSeq(x, 1, Len(h))) = IF 1 <= Len(h) THEN Len(h) - 1 + 1 ELSE 0
          /\ \A i \in 1 .. Len(h) - 1 + 1 : SubSeq(x, 1, Len(h))[i] = x[1 + i - 1]
      BY <1>1, <1>2, <2>1, SubSeqProperties
    <2> DEFINE y == SubSeq(x, 1, Len(h))
    <2>3. y \in Seq(A) /\ Len(y) = Len(h) /\ \A i \in 1 .. Len(h) : y[i] = h[i]
      BY <1>1, <1>3, <2>2
    <2> HIDE DEF y
    <2>4. y = h
      BY <2>3, SeqEqual
    <2> QED
      BY <2>4 DEF y
  <1>8. SubSeq(x, Len(h) + 2, Len(x)) = r
    <2> DEFINE m == Len(h) + 2
               y == SubSeq(x, m, Len(x))
    <2>1. \A i \in m .. Len(x) : x[i] \in A
      BY <1>1, <1>2, <1>6
    <2>2. /\ y \in Seq(A)
          /\ Len(y) = IF m <= Len(x) THEN Len(x) - m + 1 ELSE 0
          /\ \A i \in 1 .. Len(x) - m + 1 : y[i] = x[m + i - 1]
      BY <1>1, <1>2, <2>1, SubSeqProperties
    <2>3. Len(x) - m + 1 = Len(r)
      BY <1>1, <1>2
    <2> HIDE DEF y
    <2>4. Len(y) = Len(r) /\ \A i \in 1 .. Len(r) : y[i] = r[i]
      <3>1. Len(y) = Len(r)
        BY <1>1, <1>2, <2>2, <2>3
      <3>2. ASSUME NEW i \in 1 .. Len(r) PROVE y[i] = r[i]
        <4>1. y[i] = x[m + i - 1] /\ m + i - 1 = Len(h) + 1 + i
          BY <1>1, <2>2, <2>3
        <4> QED
          BY <1>5, <4>1
      <3> QED
        BY <3>1, <3>2
    <2>5. y = r
      BY <2>2, <2>4, SeqEqual
    <2> QED
      BY <2>5 DEF y
  <1> QED
    BY <1>1, <1>2, <1>3, <1>4, <1>7, <1>8 DEF x, t

LEMMA TailOf ==
    ASSUME NEW A, NEW c \in A, NEW y \in Seq(A)
    PROVE  Tail(<<c>> \o y) = y
  <1> DEFINE x == <<c>> \o y
             t == Tail(x)
  <1>1. <<c>> \in Seq(A) /\ Len(<<c>>) = 1 /\ <<c>>[1] = c
    OBVIOUS
  <1>2. /\ x \in Seq(A) /\ Len(x) = 1 + Len(y) /\ Len(y) \in Nat
        /\ \A i \in 1 .. 1 + Len(y) : x[i] = IF i <= 1 THEN <<c>>[i] ELSE y[i - 1]
    BY <1>1, ConcatProperties, LenProperties
  <1> HIDE DEF x
  <1>3. x # <<>>
    BY <1>2, EmptySeq
  <1>4. t \in Seq(A) /\ Len(t) = Len(x) - 1 /\ \A i \in 1 .. Len(t) : t[i] = x[i + 1]
    BY <1>2, <1>3, HeadTailProperties
  <1> HIDE DEF t
  <1>5. ASSUME NEW i \in 1 .. Len(y) PROVE t[i] = y[i]
    <2>1. i + 1 \in 1 .. 1 + Len(y) /\ i \in 1 .. Len(t) /\ ~(i + 1 <= 1) /\ i + 1 - 1 = i
      BY <1>2, <1>4
    <2>2. t[i] = x[i + 1] /\ x[i + 1] = y[i + 1 - 1]
      BY <1>2, <1>4, <2>1
    <2> QED
      BY <2>1, <2>2
  <1>6. t = y
    BY <1>2, <1>4, <1>5, SeqEqual
  <1> QED
    BY <1>6 DEF t, x

LEMMA Pairs ==
    ASSUME NEW A, NEW a \in A, NEW c \in A
    PROVE  <<a, c>> = <<a>> \o <<c>> /\ <<a, c>> \in Seq(A)
  <1> DEFINE x == <<a>> \o <<c>>
             y == <<a, c>>
  <1>1. /\ <<a>> \in Seq(A) /\ Len(<<a>>) = 1 /\ <<a>>[1] = a
        /\ <<c>> \in Seq(A) /\ Len(<<c>>) = 1 /\ <<c>>[1] = c
    OBVIOUS
  <1>2. y \in Seq(A) /\ Len(y) = 2 /\ y[1] = a /\ y[2] = c
    OBVIOUS
  <1>3. /\ x \in Seq(A) /\ Len(x) = 2
        /\ \A i \in 1 .. 2 : x[i] = IF i <= 1 THEN <<a>>[i] ELSE <<c>>[i - 1]
    <2>1. 1 + 1 = 2
      OBVIOUS
    <2> QED
      BY <1>1, <2>1, ConcatProperties
  <1> HIDE DEF x, y
  <1>4. x[1] = a /\ x[2] = c
    BY <1>1, <1>3
  <1>5. \A i \in 1 .. Len(x) : x[i] = y[i]
    BY <1>2, <1>3, <1>4
  <1>6. x = y
    BY <1>2, <1>3, <1>5, SeqEqual
  <1> QED
    BY <1>2, <1>6 DEF x, y

\* The alphabet of DEST; the provers do not know that a literal is a string.
Tokens == STRING \cup EndPoints \cup {Prefix, "/", "."}

NoSlash(x) == \A i \in 1 .. Len(x) : x[i] # "/"
NoEndPoint(x) == \A i \in 1 .. Len(x) : x[i] \notin EndPoints

\* The host ends at the first slash, and what follows is the folder.
LEMMA SlashSplits ==
    ASSUME NEW h \in Seq(Tokens), NEW r \in Seq(Tokens), NoSlash(h)
    PROVE  LET x == h \o (<<"/">> \o r) IN
           /\ Host(x) = h
           /\ FolderOf(x) = IF r # <<>> /\ Last(r) = "/" THEN Front(r) ELSE r
  <1> DEFINE x == h \o (<<"/">> \o r)
             n == Len(h) + 1
  <1>1. /\ x \in Seq(Tokens) /\ Len(x) = Len(h) + 1 + Len(r)
        /\ \A i \in 1 .. Len(h) : x[i] = h[i]
        /\ x[Len(h) + 1] = "/"
        /\ SubSeq(x, 1, Len(h)) = h /\ SubSeq(x, Len(h) + 2, Len(x)) = r
    <2>1. "/" \in Tokens
      BY DEF Tokens
    <2> QED
      BY <2>1, Glued
  <1> HIDE DEF x
  <1>2. Len(h) \in Nat /\ Len(r) \in Nat
    BY LenProperties
  <1>3. n \in 1 .. Len(x) /\ \A i \in 1 .. n - 1 : x[i] # x[n]
    BY <1>1, <1>2 DEF NoSlash
  <1>4. FirstAt(x, x[n]) = n
    BY <1>1, <1>3, FirstIs
  <1>5. FirstAt(x, "/") = n
    BY <1>1, <1>4
  <1>6. n - 1 = Len(h) /\ n + 1 = Len(h) + 2 /\ n # 0
    BY <1>2
  <1>7. Host(x) = h
    BY <1>1, <1>5, <1>6 DEF Host
  <1>8. FolderOf(x) = IF r # <<>> /\ Last(r) = "/" THEN Front(r) ELSE r
    BY <1>1, <1>5, <1>6 DEF FolderOf
  <1> QED
    BY <1>7, <1>8 DEF x

\* The folder, with or without a slash at its end.
LEMMA FolderRead ==
    ASSUME NEW f \in Seq(Tokens), NoSlash(f), NEW h \in Seq(Tokens), NoSlash(h)
    PROVE  /\ FolderOf(h \o (<<"/">> \o f)) = f
           /\ FolderOf(h \o (<<"/">> \o (f \o <<"/">>))) = f
  <1>1. f # <<>> => Last(f) # "/"
    <2> SUFFICES ASSUME f # <<>> PROVE Last(f) # "/"
      OBVIOUS
    <2>1. Len(f) \in 1 .. Len(f)
      BY EmptySeq, LenProperties
    <2> QED
      BY <2>1 DEF Last, NoSlash
  <1>2. FolderOf(h \o (<<"/">> \o f)) = f
    BY <1>1, SlashSplits
  <1> DEFINE r == f \o <<"/">>
  <1>3. /\ r \in Seq(Tokens) /\ Len(r) = Len(f) + 1 /\ r[Len(f) + 1] = "/"
        /\ SubSeq(r, 1, Len(f)) = f /\ Len(f) \in Nat
    <2>1. <<"/">> \o <<>> = <<"/">> /\ <<>> \in Seq(Tokens) /\ "/" \in Tokens /\ Len(<<>>) = 0
      <3>1. "/" \in Tokens
        BY DEF Tokens
      <3>2. <<"/">> \in Seq(Tokens)
        BY <3>1
      <3> QED
        BY <3>1, <3>2, ConcatEmptySeq, EmptySeq
    <2>2. Len(f) \in Nat /\ Len(f) + 1 + 0 = Len(f) + 1
      BY LenProperties
    <2> QED
      BY <2>1, <2>2, Glued
  <1> HIDE DEF r
  <1>4. r # <<>> /\ Last(r) = "/" /\ Front(r) = f
    <2>1. Len(r) - 1 = Len(f) /\ Len(r) # 0
      BY <1>3
    <2> QED
      BY <1>3, <2>1, EmptySeq DEF Last, Front
  <1>5. FolderOf(h \o (<<"/">> \o r)) = f
    BY <1>3, <1>4, SlashSplits
  <1> QED
    BY <1>2, <1>5 DEF r

LEMMA Split ==
    ASSUME NEW h \in Seq(Tokens), NEW f \in Seq(Tokens), NoSlash(h), NoSlash(f),
           NEW s \in {<<>>, <<"/">>}
    PROVE  LET x == h \o (<<"/">> \o (f \o s)) IN
           x \in Seq(Tokens) /\ Host(x) = h /\ FolderOf(x) = f
  <1> DEFINE r == f \o s
             x == h \o (<<"/">> \o r)
  <1>1. s \in Seq(Tokens) /\ "/" \in Tokens /\ <<"/">> \in Seq(Tokens)
    <2>1. "/" \in Tokens
      BY DEF Tokens
    <2>2. <<"/">> \in Seq(Tokens) /\ <<>> \in Seq(Tokens)
      BY <2>1, EmptySeq
    <2> QED
      BY <2>1, <2>2
  <1>2. r \in Seq(Tokens)
    BY <1>1, ConcatProperties
  <1>3. FolderOf(x) = f
    <2>1. CASE s = <<>>
      <3>1. r = f
        BY <2>1, ConcatEmptySeq
      <3> QED
        BY <3>1, FolderRead
    <2>2. CASE s = <<"/">>
      BY <2>2, FolderRead
    <2> QED
      BY <2>1, <2>2
  <1> HIDE DEF r
  <1>4. x \in Seq(Tokens)
    BY <1>1, <1>2, Glued
  <1>5. Host(x) = h
    BY <1>2, SlashSplits
  <1> HIDE DEF x
  <1> QED
    BY <1>3, <1>4, <1>5 DEF x, r

\* The bucket and the endpoint after it.
LEMMA HostRead ==
    ASSUME NEW b \in Seq(Tokens), NEW e \in EndPoints, NoSlash(b), NoEndPoint(b)
    PROVE  LET h == b \o <<".", e>> IN
           /\ h \in Seq(Tokens) /\ NoSlash(h)
           /\ BucketOf(h) = b /\ EndPointOf(h) = e
  <1> DEFINE h == b \o <<".", e>>
  <1>1. e \in Tokens /\ e # "." /\ e # "/" /\ "." \notin EndPoints /\ "." \in Tokens
    BY DEF EndPoints, Tokens
  <1>2. h = b \o (<<".">> \o <<e>>) /\ <<e>> \in Seq(Tokens) /\ Len(<<e>>) = 1 /\ <<e>>[1] = e
    <2>1. <<".", e>> = <<".">> \o <<e>>
      BY <1>1, Pairs
    <2>2. <<e>> \in Seq(Tokens) /\ Len(<<e>>) = 1 /\ <<e>>[1] = e
      BY <1>1
    <2> QED
      BY <2>1, <2>2
  <1>3. /\ h \in Seq(Tokens) /\ Len(h) = Len(b) + 2 /\ Len(b) \in Nat
        /\ \A i \in 1 .. Len(b) : h[i] = b[i]
        /\ h[Len(b) + 1] = "." /\ h[Len(b) + 2] = e
        /\ SubSeq(h, 1, Len(b)) = b
    <2> HIDE DEF h
    <2>1. /\ h \in Seq(Tokens) /\ Len(h) = Len(b) + 1 + 1
          /\ \A i \in 1 .. Len(b) : h[i] = b[i]
          /\ h[Len(b) + 1] = "."
          /\ SubSeq(h, 1, Len(b)) = b
          /\ SubSeq(h, Len(b) + 2, Len(h)) = <<e>>
      <3> DEFINE y == <<e>>
                 g == b \o (<<".">> \o y)
      <3>1. y \in Seq(Tokens) /\ Len(y) = 1 /\ "." \in Tokens /\ h = g
        BY <1>1, <1>2
      <3> HIDE DEF y
      <3>2. /\ g \in Seq(Tokens) /\ Len(g) = Len(b) + 1 + Len(y)
            /\ \A i \in 1 .. Len(b) : g[i] = b[i]
            /\ g[Len(b) + 1] = "."
            /\ SubSeq(g, 1, Len(b)) = b
            /\ SubSeq(g, Len(b) + 2, Len(g)) = y
        <4>1. "." \in Tokens /\ y \in Seq(Tokens)
          BY <3>1
        <4> HIDE DEF h
        <4> QED
          BY <4>1, Glued
      <3> HIDE DEF g
      <3>3. /\ h \in Seq(Tokens) /\ Len(h) = Len(b) + 1 + 1
            /\ \A i \in 1 .. Len(b) : h[i] = b[i]
            /\ h[Len(b) + 1] = "."
            /\ SubSeq(h, 1, Len(b)) = b
        BY <3>1, <3>2
      <3>4. SubSeq(h, Len(b) + 2, Len(h)) = y
        BY <3>1, <3>2
      <3> QED
        BY <3>3, <3>4 DEF y
    <2>2. Len(b) \in Nat /\ Len(h) = Len(b) + 2
      BY <2>1, LenProperties
    <2>3. h[Len(b) + 2] = e
      <3> DEFINE m == Len(b) + 2
      <3>1. m \in Int /\ m \in 1 .. Len(h)
        BY <2>2
      <3>2. h[m] \in Tokens
        BY <2>1, <3>1, ElementOfSeq
      <3> HIDE DEF m
      <3>3. \A i \in m .. m : h[i] \in Tokens
        BY <3>1, <3>2
      <3>4. \A i \in 1 .. m - m + 1 : SubSeq(h, m, m)[i] = h[m + i - 1]
        BY <3>1, <3>3, SubSeqProperties
      <3>5. SubSeq(h, m, m)[1] = h[m]
        BY <3>1, <3>4
      <3>6. SubSeq(h, m, m) = <<e>>
        BY <2>1, <2>2 DEF m
      <3>7. h[m] = e
        BY <1>2, <3>5, <3>6
      <3> QED
        BY <3>7 DEF m
    <2> QED
      BY <2>1, <2>2, <2>3
  <1> HIDE DEF h
  <1>4. NoSlash(h)
    <2> SUFFICES ASSUME NEW i \in 1 .. Len(h) PROVE h[i] # "/"
      BY DEF NoSlash
    <2>1. i \in 1 .. Len(b) \/ i = Len(b) + 1 \/ i = Len(b) + 2
      BY <1>3
    <2> QED
      BY <1>1, <1>3, <2>1 DEF NoSlash
  <1>5. NamesEndPoint(h)
    <2>1. Len(h) \in 1 .. Len(h) /\ h[Len(h)] = e /\ h # <<>>
      BY <1>3, EmptySeq
    <2>2. ASSUME NEW i \in 1 .. Len(h) - 1 PROVE h[i] # h[Len(h)]
      <3>1. i \in 1 .. Len(b) \/ i = Len(b) + 1
        BY <1>3
      <3> QED
        BY <1>1, <1>3, <2>1, <3>1 DEF NoEndPoint
    <2>3. FirstAt(h, h[Len(h)]) = Len(h)
      BY <1>3, <2>1, <2>2, FirstIs
    <2> QED
      BY <2>1, <2>3 DEF NamesEndPoint, Last
  <1>6. BucketOf(h) = b
    <2>1. Len(h) > 1 /\ Len(h) - 2 = Len(b)
      BY <1>3
    <2> QED
      BY <1>3, <1>5, <2>1 DEF BucketOf
  <1>7. EndPointOf(h) = e
    BY <1>3, <1>5 DEF EndPointOf, Last
  <1> QED
    BY <1>3, <1>4, <1>6, <1>7 DEF h

\* A destination written with an endpoint is read as it was meant.
LEMMA ReadBack ==
    ASSUME NEW b \in Seq(Tokens), NEW e \in EndPoints, NEW f \in Seq(Tokens),
           NoSlash(b), NoEndPoint(b), NoSlash(f),
           NEW s \in {<<>>, <<"/">>}
    PROVE  Parse(<<Prefix>> \o ((b \o <<".", e>>) \o (<<"/">> \o (f \o s))))
               = [bucket |-> b, endPoint |-> e, folder |-> f]
  <1> DEFINE h == b \o <<".", e>>
             x == h \o (<<"/">> \o (f \o s))
  <1>1. h \in Seq(Tokens) /\ NoSlash(h) /\ BucketOf(h) = b /\ EndPointOf(h) = e
    BY HostRead
  <1> HIDE DEF h
  <1>2. x \in Seq(Tokens) /\ Host(x) = h /\ FolderOf(x) = f
    BY <1>1, Split
  <1> HIDE DEF x
  <1>3. Tail(<<Prefix>> \o x) = x
    BY <1>2, TailOf DEF Tokens
  <1>4. Parse(<<Prefix>> \o x) = [bucket |-> b, endPoint |-> e, folder |-> f]
    BY <1>1, <1>2, <1>3 DEF Parse
  <1> QED
    BY <1>4 DEF x, h

\* And without one, for the endpoint of the United States.
LEMMA ReadBackDefault ==
    ASSUME NEW b \in Seq(Tokens), NEW f \in Seq(Tokens),
           NoSlash(b), NoEndPoint(b), NoSlash(f),
           NEW s \in {<<>>, <<"/">>}
    PROVE  Parse(<<Prefix>> \o (b \o (<<"/">> \o (f \o s))))
               = [bucket |-> b, endPoint |-> DefaultEndPoint, folder |-> f]
  <1> DEFINE x == b \o (<<"/">> \o (f \o s))
  <1>1. BucketOf(b) = b /\ EndPointOf(b) = DefaultEndPoint
    <2>1. ~NamesEndPoint(b)
      <3> SUFFICES ASSUME b # <<>> PROVE Last(b) \notin EndPoints
        BY DEF NamesEndPoint
      <3>1. Len(b) \in 1 .. Len(b)
        BY EmptySeq
      <3> QED
        BY <3>1 DEF Last, NoEndPoint
    <2> QED
      BY <2>1 DEF BucketOf, EndPointOf
  <1>2. x \in Seq(Tokens) /\ Host(x) = b /\ FolderOf(x) = f
    BY Split
  <1> HIDE DEF x
  <1>3. Tail(<<Prefix>> \o x) = x
    BY <1>2, TailOf DEF Tokens
  <1>4. Parse(<<Prefix>> \o x) = [bucket |-> b, endPoint |-> DefaultEndPoint, folder |-> f]
    BY <1>1, <1>2, <1>3 DEF Parse
  <1> QED
    BY <1>4 DEF x

\* Concatenation as an operator that the provers do not look into.
Cat(u, v) == u \o v

LEMMA CatAssociative ==
    ASSUME NEW A
    PROVE  \A u, v, w \in Seq(A) : Cat(u, v) \in Seq(A) /\ Cat(Cat(u, v), w) = Cat(u, Cat(v, w))
  <1> TAKE u, v, w \in Seq(A)
  <1>1. u \o v \in Seq(A)
    BY ConcatProperties
  <1>2. (u \o v) \o w = u \o (v \o w)
    BY ConcatAssociative, SMTT(180)
  <1> QED
    BY <1>1, <1>2 DEF Cat

\* A text put together from the left is the same put together from the right.
LEMMA Regroup ==
    ASSUME NEW A, NEW p \in Seq(A), NEW b \in Seq(A), NEW e \in Seq(A), NEW c \in Seq(A),
           NEW f \in Seq(A), NEW s \in Seq(A)
    PROVE  /\ Cat(Cat(Cat(Cat(Cat(p, b), e), c), f), s) = Cat(p, Cat(Cat(b, e), Cat(c, Cat(f, s))))
           /\ Cat(Cat(Cat(p, b), Cat(e, c)), Cat(f, s)) = Cat(p, Cat(Cat(b, e), Cat(c, Cat(f, s))))
  <1>1. \A u, v, w \in Seq(A) : Cat(u, v) \in Seq(A) /\ Cat(Cat(u, v), w) = Cat(u, Cat(v, w))
    BY CatAssociative
  <1>2. PICK h \in Seq(A) : h = Cat(b, e)
    BY <1>1
  <1>3. PICK x \in Seq(A) : x = Cat(p, h)
    BY <1>1
  <1>4. PICK y \in Seq(A) : y = Cat(f, s)
    BY <1>1
  <1>5. PICK z \in Seq(A) : z = Cat(x, c)
    BY <1>1
  <1>6. PICK t \in Seq(A) : t = Cat(c, y)
    BY <1>1
  <1>7. PICK g \in Seq(A) : g = Cat(p, b)
    BY <1>1
  <1>8. Cat(g, e) = x
    BY <1>1, <1>2, <1>3, <1>7
  <1>9. Cat(Cat(z, f), s) = Cat(z, y)
    BY <1>1, <1>4
  <1>10. Cat(z, y) = Cat(x, t)
    BY <1>1, <1>5, <1>6
  <1>11. Cat(x, t) = Cat(p, Cat(h, t))
    BY <1>1, <1>3
  <1>12. Cat(g, Cat(e, c)) = z
    BY <1>1, <1>5, <1>8
  <1> QED
    BY <1>2, <1>4, <1>5, <1>6, <1>7, <1>8, <1>9, <1>10, <1>11, <1>12

\* While SOURCE is verified the destination is what Check has read in DEST.
ParseInv ==
    /\ given \in Seq(STRING)
    /\ pc = "verify" => IsValid(given) /\ destination = Parse(given)

LEMMA ParseHolds == FairSpec => []ParseInv
  <1>1. Init => ParseInv
    BY CommandLinesAssumption DEF Init, ParseInv
  <1>2. ParseInv /\ [Next]_vars => ParseInv'
    <2> SUFFICES ASSUME ParseInv, [Next]_vars PROVE ParseInv'
      OBVIOUS
    <2> USE DEF ParseInv
    <2>1. given' = given
      BY DEF Next, Main, ReadOption, Check, VerifySource, CheckAuth, CreateBucket, Created,
             NotCreated, CreateElsewhere, Taken, OpenStorage, Statement, Rebuild, AddDatabase,
             Scan, Local, Outside, input, own, vars
    <2>2. CASE Check
      BY <2>1, <2>2 DEF Check, Refused, Goes
    <2>3. CASE pc' = pc /\ destination' = destination
      BY <2>1, <2>3
    <2>4. CASE pc' # "verify"
      BY <2>1, <2>4
    <2>5. Check \/ (pc' = pc /\ destination' = destination) \/ pc' # "verify"
      <3>1. CASE ReadOption
        BY <3>1 DEF ReadOption, Goes
      <3>2. CASE VerifySource
        BY <3>2 DEF VerifySource, Goes
      <3>3. CASE CheckAuth
        BY <3>3 DEF CheckAuth, Goes
      <3>4. CASE CreateBucket
        BY <3>4 DEF CreateBucket, Created, NotCreated, CreateElsewhere, Goes
      <3>5. CASE OpenStorage
        BY <3>5 DEF OpenStorage, Statement, Goes
      <3>6. CASE Rebuild
        BY <3>6 DEF Rebuild, Goes
      <3>7. CASE AddDatabase
        BY <3>7 DEF AddDatabase, Goes
      <3>8. CASE Scan
        BY <3>8 DEF Scan, Goes, Local, own
      <3>9. CASE Taken
        BY <3>9 DEF Taken, Local
      <3>10. CASE UNCHANGED own
        BY <3>10 DEF own
      <3> QED
        BY <3>1, <3>2, <3>3, <3>4, <3>5, <3>6, <3>7, <3>8, <3>9, <3>10 DEF Next, Main, vars
    <2> QED
      BY <2>2, <2>3, <2>4, <2>5
  <1> QED
    BY <1>1, <1>2, PTL DEF FairSpec

LEMMA InTokens == ASSUME NEW x \in Seq(STRING) PROVE x \in Seq(Tokens)
  <1>1. STRING \subseteq Tokens
    BY DEF Tokens
  <1> QED
    BY <1>1, SeqMonotonic

LEMMA OutOfRange ==
    ASSUME NEW x \in Seq(Tokens)
    PROVE  /\ "/" \notin Range(x) <=> NoSlash(x)
           /\ Range(x) \cap EndPoints = {} <=> NoEndPoint(x)
  <1>1. Range(x) = {x[i] : i \in 1 .. Len(x)}
    BY RangeEquality
  <1> QED
    BY <1>1 DEF NoSlash, NoEndPoint

\* The parts of a text that Check has taken.
LEMMA Parts ==
    ASSUME NEW g \in Seq(Tokens), IsValid(g)
    PROVE  LET d == Parse(g) IN
           /\ d.bucket \in Seq(Tokens) /\ NoSlash(d.bucket)
           /\ d.endPoint \in EndPoints
           /\ d.folder \in Seq(Tokens) /\ NoSlash(d.folder)
  <1> DEFINE x == Tail(g)
             h == Host(x)
             n == FirstAt(x, "/")
  <1>1. x \in Seq(Tokens) /\ Len(x) \in Nat
    BY HeadTailProperties, LenProperties DEF IsValid
  <1> HIDE DEF x
  <1>2. /\ n \in 0 .. Len(x)
        /\ n = 0 => NoSlash(x)
        /\ \A i \in 1 .. n - 1 : x[i] # "/"
    BY <1>1, FirstProperties DEF NoSlash
  <1> HIDE DEF n
  <1>3. \A k \in 1 .. Len(x) : x[k] \in Tokens
    BY <1>1, ElementOfSeq
  <1>4. h \in Seq(Tokens) /\ NoSlash(h)
    <2>1. CASE n = 0
      BY <1>1, <1>2, <2>1 DEF Host, n
    <2>2. CASE n # 0
      <3>1. \A k \in 1 .. n - 1 : x[k] \in Tokens
        BY <1>1, <1>2, <1>3
      <3>2. /\ SubSeq(x, 1, n - 1) \in Seq(Tokens)
            /\ Len(SubSeq(x, 1, n - 1)) = IF 1 <= n - 1 THEN n - 1 - 1 + 1 ELSE 0
            /\ \A i \in 1 .. n - 1 - 1 + 1 : SubSeq(x, 1, n - 1)[i] = x[1 + i - 1]
        BY <1>1, <1>2, <3>1, SubSeqProperties
      <3>3. h = SubSeq(x, 1, n - 1)
        BY <2>2 DEF Host, n
      <3> HIDE DEF h
      <3>4. h \in Seq(Tokens) /\ Len(h) = n - 1 /\ \A i \in 1 .. n - 1 : h[i] = x[i]
        BY <1>1, <1>2, <2>2, <3>2, <3>3
      <3> QED
        BY <1>2, <3>4 DEF NoSlash
    <2> QED
      BY <2>1, <2>2
  <1> HIDE DEF h
  <1>5. BucketOf(h) \in Seq(Tokens) /\ NoSlash(BucketOf(h))
    <2>1. CASE NamesEndPoint(h) /\ Len(h) > 1
      <3> DEFINE m == Len(h) - 2
                 y == SubSeq(h, 1, m)
      <3>1. Len(h) \in Nat /\ m \in 0 .. Len(h) /\ \A k \in 1 .. m : h[k] \in Tokens
        BY <1>4, <2>1, ElementOfSeq, LenProperties
      <3>2. /\ y \in Seq(Tokens)
            /\ Len(y) = IF 1 <= m THEN m - 1 + 1 ELSE 0
            /\ \A i \in 1 .. m - 1 + 1 : y[i] = h[1 + i - 1]
        BY <3>1, SubSeqProperties
      <3>3. BucketOf(h) = y
        BY <2>1 DEF BucketOf
      <3> HIDE DEF y, m
      <3>4. Len(y) = m /\ \A i \in 1 .. m : y[i] = h[i]
        BY <3>1, <3>2
      <3> QED
        BY <1>4, <3>1, <3>2, <3>3, <3>4 DEF NoSlash
    <2>2. CASE ~(NamesEndPoint(h) /\ Len(h) > 1)
      BY <1>4, <2>2 DEF BucketOf
    <2> QED
      BY <2>1, <2>2
  <1>6. EndPointOf(h) \in EndPoints
    BY DEF EndPointOf, NamesEndPoint, DefaultEndPoint, EndPoints
  <1>7. FolderOf(x) \in Seq(Tokens)
    <2> DEFINE r == IF n = 0 THEN <<>> ELSE SubSeq(x, n + 1, Len(x))
    <2>1. r \in Seq(Tokens)
      <3>1. \A k \in n + 1 .. Len(x) : x[k] \in Tokens
        BY <1>1, <1>2, <1>3
      <3>2. SubSeq(x, n + 1, Len(x)) \in Seq(Tokens)
        BY <1>1, <1>2, <3>1, SubSeqProperties
      <3> QED
        BY <3>2, EmptySeq
    <2>2. FolderOf(x) = IF r # <<>> /\ Last(r) = "/" THEN Front(r) ELSE r
      BY DEF FolderOf, n
    <2> HIDE DEF r
    <2>3. r # <<>> => Front(r) \in Seq(Tokens)
      <3> SUFFICES ASSUME r # <<>> PROVE Front(r) \in Seq(Tokens)
        OBVIOUS
      <3>1. Len(r) \in Nat \ {0}
        BY <2>1, EmptySeq
      <3>2. \A k \in 1 .. Len(r) - 1 : r[k] \in Tokens
        BY <2>1, <3>1, ElementOfSeq
      <3> QED
        BY <3>1, <3>2, SubSeqProperties DEF Front
    <2> QED
      BY <2>1, <2>2, <2>3
  <1>8. NoSlash(FolderOf(x))
    <2>1. FirstAt(FolderOf(x), "/") = 0
      BY DEF IsValid, x
    <2> QED
      BY <1>7, <2>1, FirstProperties DEF NoSlash
  <1>9. Parse(g) = [bucket |-> BucketOf(h), endPoint |-> EndPointOf(h), folder |-> FolderOf(x)]
    BY DEF Parse, h, x
  <1> QED
    BY <1>4, <1>5, <1>6, <1>7, <1>8, <1>9

LEMMA Triples ==
    ASSUME NEW A, NEW a \in A, NEW c \in A, NEW e \in A
    PROVE  <<a, c, e>> = <<a, c>> \o <<e>>
  <1> DEFINE u == <<a, c>>
             v == <<e>>
             x == u \o v
             y == <<a, c, e>>
  <1>1. /\ u \in Seq(A) /\ Len(u) = 2 /\ u[1] = a /\ u[2] = c
        /\ v \in Seq(A) /\ Len(v) = 1 /\ v[1] = e
        /\ y \in Seq(A) /\ Len(y) = 3 /\ y[1] = a /\ y[2] = c /\ y[3] = e
    OBVIOUS
  <1> HIDE DEF u, v, y
  <1>2. /\ x \in Seq(A) /\ Len(x) = 3
        /\ \A i \in 1 .. 3 : x[i] = IF i <= 2 THEN u[i] ELSE v[i - 2]
    <2>1. Len(u) + Len(v) = 3
      BY <1>1
    <2>2. /\ x \in Seq(A) /\ Len(x) = Len(u) + Len(v)
          /\ \A i \in 1 .. Len(u) + Len(v) : x[i] = IF i <= Len(u) THEN u[i] ELSE v[i - Len(u)]
      BY <1>1, ConcatProperties
    <2> QED
      BY <1>1, <2>1, <2>2
  <1> HIDE DEF x
  <1>3. x[1] = a /\ x[2] = c /\ x[3] = e
    BY <1>1, <1>2
  <1>4. \A i \in 1 .. Len(x) : x[i] = y[i]
    BY <1>1, <1>2, <1>3
  <1>5. y = x
    BY <1>1, <1>2, <1>4, SeqEqual
  <1> QED
    BY <1>5 DEF x, y, u, v

LEMMA Literals ==
    ASSUME NEW e \in EndPoints
    PROVE  /\ <<Prefix>> \in Seq(Tokens) /\ <<"/">> \in Seq(Tokens) /\ <<>> \in Seq(Tokens)
           /\ <<".", e>> \in Seq(Tokens)
           /\ <<".", e, "/">> = <<".", e>> \o <<"/">>
  <1>1. e \in Tokens /\ "/" \in Tokens /\ "." \in Tokens /\ Prefix \in Tokens
    BY DEF Tokens
  <1>2. <<Prefix>> \in Seq(Tokens) /\ <<"/">> \in Seq(Tokens) /\ <<>> \in Seq(Tokens)
    BY <1>1
  <1>3. <<".", e>> \in Seq(Tokens)
    BY <1>1
  <1> QED
    BY <1>1, <1>2, <1>3, Triples

\* What absoluteString puts together.
LEMMA Absolute ==
    ASSUME NEW b \in Seq(Tokens), NEW e \in EndPoints, NEW f \in Seq(Tokens)
    PROVE  \E s \in {<<>>, <<"/">>} :
              AbsoluteString([bucket |-> b, endPoint |-> e, folder |-> f])
                  = <<Prefix>> \o ((b \o <<".", e>>) \o (<<"/">> \o (f \o s)))
  <1> DEFINE s == IF f = <<>> THEN <<>> ELSE <<"/">>
             F == IF f = <<>> THEN <<>> ELSE f \o <<"/">>
  <1>1. s \in {<<>>, <<"/">>} /\ s \in Seq(Tokens)
    BY Literals
  <1>2. F = f \o s
    <2>1. CASE f = <<>>
      BY <2>1, Literals, ConcatEmptySeq
    <2>2. CASE f # <<>>
      BY <2>2
    <2> QED
      BY <2>1, <2>2
  <1>3. AbsoluteString([bucket |-> b, endPoint |-> e, folder |-> f])
            = <<Prefix>> \o b \o <<".", e, "/">> \o F
    BY DEF AbsoluteString
  <1> HIDE DEF s, F
  <1>4. PICK p \in Seq(Tokens), u \in Seq(Tokens), c \in Seq(Tokens) :
            p = <<Prefix>> /\ u = <<".", e>> /\ c = <<"/">>
    BY Literals
  <1>5. PICK t \in Seq(Tokens) : t = s
    BY <1>1
  <1>6. Cat(Cat(Cat(p, b), Cat(u, c)), Cat(f, t)) = Cat(p, Cat(Cat(b, u), Cat(c, Cat(f, t))))
    BY Regroup
  <1>7. <<".", e, "/">> = Cat(u, c)
    BY <1>4, Literals DEF Cat
  <1>8. F = Cat(f, t)
    BY <1>2, <1>5 DEF Cat
  <1>9. <<Prefix>> \o b \o <<".", e, "/">> \o F = Cat(Cat(Cat(p, b), Cat(u, c)), Cat(f, t))
    <2>1. <<Prefix>> \o b \o <<".", e, "/">> \o F = Cat(Cat(Cat(p, b), <<".", e, "/">>), F)
      BY <1>4 DEF Cat
    <2> QED
      BY <1>7, <1>8, <2>1
  <1>10. <<Prefix>> \o ((b \o <<".", e>>) \o (<<"/">> \o (f \o s)))
             = Cat(p, Cat(Cat(b, u), Cat(c, Cat(f, t))))
    BY <1>4, <1>5 DEF Cat
  <1> QED
    BY <1>1, <1>3, <1>6, <1>9, <1>10

\* What is written as clarc.1 describes it, put together from the right.
LEMMA WrittenOut ==
    ASSUME NEW b \in Seq(Tokens), NEW e \in EndPoints \cup {None}, NEW f \in Seq(Tokens),
           NEW g \in Written(b, e, f)
    PROVE  \E s \in {<<>>, <<"/">>} :
              g = <<Prefix>> \o ((b \o (IF e = None THEN <<>> ELSE <<".", e>>)) \o (<<"/">> \o (f \o s)))
  <1> DEFINE E == IF e = None THEN <<>> ELSE <<".", e>>
  <1>1. PICK s \in {<<>>, <<"/">>} : g = <<Prefix>> \o b \o E \o <<"/">> \o f \o s
    BY DEF Written
  <1>2. /\ <<Prefix>> \in Seq(Tokens) /\ <<"/">> \in Seq(Tokens) /\ <<>> \in Seq(Tokens)
        /\ E \in Seq(Tokens)
    <2>1. DefaultEndPoint \in EndPoints
      BY DEF DefaultEndPoint, EndPoints
    <2> QED
      BY <2>1, Literals
  <1> HIDE DEF E
  <1>3. PICK p \in Seq(Tokens), u \in Seq(Tokens), c \in Seq(Tokens), t \in Seq(Tokens) :
            p = <<Prefix>> /\ u = E /\ c = <<"/">> /\ t = s
    BY <1>2
  <1>4. Cat(Cat(Cat(Cat(Cat(p, b), u), c), f), t) = Cat(p, Cat(Cat(b, u), Cat(c, Cat(f, t))))
    BY Regroup
  <1>5. g = Cat(Cat(Cat(Cat(Cat(p, b), u), c), f), t)
    BY <1>1, <1>3 DEF Cat
  <1>6. <<Prefix>> \o ((b \o E) \o (<<"/">> \o (f \o s))) = Cat(p, Cat(Cat(b, u), Cat(c, Cat(f, t))))
    BY <1>3 DEF Cat
  <1>7. g = <<Prefix>> \o ((b \o E) \o (<<"/">> \o (f \o s)))
    BY <1>4, <1>5, <1>6
  <1> QED
    BY <1>7 DEF E

\* For every text: what is logged for a destination reads as that destination, and
\* what is written as the manual says reads as it was meant (destination.cc).
THEOREM DestinationRead == FairSpec => []DestinationIsRead
  <1>1. ParseInv => DestinationIsRead
    <2> SUFFICES ASSUME ParseInv, pc = "verify" PROVE DestinationIsRead
      BY DEF DestinationIsRead
    <2>1. given \in Seq(Tokens) /\ IsValid(given) /\ destination = Parse(given)
      BY InTokens DEF ParseInv
    <2>2. ASSUME Range(destination.bucket) \cap EndPoints = {}
          PROVE  Parse(AbsoluteString(destination)) = destination
      <3>1. PICK b \in Seq(Tokens), e \in EndPoints, f \in Seq(Tokens) :
                /\ destination = [bucket |-> b, endPoint |-> e, folder |-> f]
                /\ NoSlash(b) /\ NoSlash(f)
        <4>1. destination = [bucket |-> destination.bucket, endPoint |-> destination.endPoint,
                             folder |-> destination.folder]
          BY <2>1 DEF Parse
        <4> QED
          BY <2>1, <4>1, Parts
      <3>2. NoEndPoint(b)
        BY <2>2, <3>1, OutOfRange
      <3>3. PICK s \in {<<>>, <<"/">>} :
                AbsoluteString(destination)
                    = <<Prefix>> \o ((b \o <<".", e>>) \o (<<"/">> \o (f \o s)))
        BY <3>1, Absolute
      <3>4. Parse(<<Prefix>> \o ((b \o <<".", e>>) \o (<<"/">> \o (f \o s)))) = destination
        BY <3>1, <3>2, ReadBack
      <3> QED
        BY <3>3, <3>4
    <2>3. ASSUME NEW b \in Buckets, NEW e \in EndPoints \cup {None}, NEW f \in Folders,
                 given \in Written(b, e, f)
          PROVE  destination = [bucket |-> b, folder |-> f,
                                endPoint |-> IF e = None THEN DefaultEndPoint ELSE e]
      <3>1. b \in Seq(Tokens) /\ f \in Seq(Tokens)
        BY NamesAssumption, InTokens
      <3>2. NoSlash(b) /\ NoEndPoint(b) /\ NoSlash(f)
        BY <3>1, NamesAssumption, OutOfRange
      <3>3. PICK s \in {<<>>, <<"/">>} :
                given = <<Prefix>> \o ((b \o (IF e = None THEN <<>> ELSE <<".", e>>))
                                           \o (<<"/">> \o (f \o s)))
        BY <2>3, <3>1, WrittenOut
      <3>4. CASE e = None
        <4>1. b \o <<>> = b
          BY <3>1, ConcatEmptySeq
        <4>2. Parse(given) = [bucket |-> b, endPoint |-> DefaultEndPoint, folder |-> f]
          BY <3>1, <3>2, <3>3, <3>4, <4>1, ReadBackDefault
        <4> QED
          BY <2>1, <3>4, <4>2
      <3>5. CASE e # None
        <4>1. Parse(given) = [bucket |-> b, endPoint |-> e, folder |-> f]
          BY <3>1, <3>2, <3>3, <3>5, ReadBack
        <4> QED
          BY <2>1, <3>5, <4>1
      <3> QED
        BY <3>4, <3>5
    <2> QED
      BY <2>2, <2>3 DEF DestinationIsRead
  <1> QED
    BY <1>1, ParseHolds, PTL
=============================================================================

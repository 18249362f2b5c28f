----------------------------- MODULE ScanProofs -----------------------------
(***************************************************************************)
(* What the walk of a start finds, for any tree and any changes to it.     *)
(***************************************************************************)
EXTENDS StartupProofs

(***************************************************************************)
(* Paths.                                                                  *)
(***************************************************************************)
Names == UNION {Range(e) : e \in Entries}

LEMMA Paths == \A e \in Entries : e \in Seq(Names)
  <1> SUFFICES ASSUME NEW e \in Entries PROVE e \in Seq(Names)
    OBVIOUS
  <1>1. e \in Seq(Range(e)) /\ Range(e) \subseteq Names
    BY TreeAssumption DEF Names
  <1> QED
    BY <1>1

LEMMA PrefixIsSubSeq ==
    ASSUME NEW S, NEW s \in Seq(S), NEW t \in Seq(S)
    PROVE  IsPrefix(s, t) <=> Len(s) <= Len(t) /\ s = SubSeq(t, 1, Len(s))
  <1>1. SubSeq(s, 1, Len(s)) = s
    BY SubSeqFull
  <1> QED
    BY <1>1 DEF IsPrefix

LEMMA PrefixElements ==
    ASSUME NEW S, NEW s \in Seq(S), NEW t \in Seq(S)
    PROVE  IsPrefix(s, t) <=> Len(s) <= Len(t) /\ \A i \in 1 .. Len(s) : s[i] = t[i]
  <1>1. SubSeq(s, 1, Len(s)) = s
    BY SubSeqFull
  <1>2. ASSUME Len(s) <= Len(t)
        PROVE  (s = SubSeq(t, 1, Len(s))) <=> \A i \in 1 .. Len(s) : s[i] = t[i]
    <2>1. /\ SubSeq(t, 1, Len(s)) \in Seq(S) /\ Len(SubSeq(t, 1, Len(s))) = Len(s)
          /\ \A i \in 1 .. Len(s) : SubSeq(t, 1, Len(s))[i] = t[i]
      BY <1>2, SubSeqProperties
    <2> QED
      BY <2>1, SeqEqual
  <1> QED
    BY <1>1, <1>2 DEF IsPrefix

LEMMA PrefixTransitive ==
    ASSUME NEW S, NEW s \in Seq(S), NEW t \in Seq(S), NEW u \in Seq(S),
           IsPrefix(s, t), IsPrefix(t, u)
    PROVE  IsPrefix(s, u)
  BY PrefixElements

LEMMA Cut ==
    ASSUME NEW S, NEW f \in Seq(S), NEW n \in 0 .. Len(f)
    PROVE  /\ SubSeq(f, 1, n) \in Seq(S) /\ Len(SubSeq(f, 1, n)) = n
           /\ \A i \in 1 .. n : SubSeq(f, 1, n)[i] = f[i]
           /\ IsPrefix(SubSeq(f, 1, n), f)
  <1>1. \A i \in 1 .. n : f[i] \in S
    BY ElementOfSeq
  <1>2. /\ SubSeq(f, 1, n) \in Seq(S) /\ Len(SubSeq(f, 1, n)) = n
        /\ \A i \in 1 .. n : SubSeq(f, 1, n)[i] = f[i]
    <2>1. /\ SubSeq(f, 1, n) \in Seq(S)
          /\ Len(SubSeq(f, 1, n)) = IF 1 <= n THEN n - 1 + 1 ELSE 0
          /\ \A i \in 1 .. n - 1 + 1 : SubSeq(f, 1, n)[i] = f[1 + i - 1]
      BY <1>1, SubSeqProperties
    <2> QED
      BY <2>1
  <1> DEFINE c == SubSeq(f, 1, n)
  <1>3. n <= Len(f)
    BY LenProperties
  <1>4. c \in Seq(S) /\ Len(c) = n /\ \A i \in 1 .. n : c[i] = f[i]
    BY <1>2
  <1> HIDE DEF c
  <1>5. IsPrefix(c, f)
    BY <1>3, <1>4, PrefixElements
  <1> QED
    BY <1>2, <1>5 DEF c

\* The entry through which a longer path goes on.
LEMMA NextEntry ==
    ASSUME NEW S, NEW d \in Seq(S), NEW f \in Seq(S), IsPrefix(d, f), d # f
    PROVE  LET c == SubSeq(f, 1, Len(d) + 1) IN
           /\ Len(d) + 1 \in 1 .. Len(f) /\ c # <<>>
           /\ Front(c) = d /\ IsPrefix(c, f)
  <1> DEFINE c == SubSeq(f, 1, Len(d) + 1)
  <1>1. Len(d) <= Len(f) /\ \A i \in 1 .. Len(d) : d[i] = f[i]
    BY PrefixElements
  <1>2. Len(d) # Len(f)
    BY <1>1, SeqEqual
  <1>3. Len(d) + 1 \in 1 .. Len(f)
    BY <1>1, <1>2
  <1>4. c \in Seq(S) /\ Len(c) = Len(d) + 1 /\ IsPrefix(c, f) /\ \A i \in 1 .. Len(d) + 1 : c[i] = f[i]
    BY <1>3, Cut
  <1> HIDE DEF c
  <1>5. /\ SubSeq(c, 1, Len(d)) \in Seq(S) /\ Len(SubSeq(c, 1, Len(d))) = Len(d)
        /\ \A i \in 1 .. Len(d) : SubSeq(c, 1, Len(d))[i] = c[i]
    BY <1>4, Cut
  <1>6. SubSeq(c, 1, Len(d)) = d
    BY <1>1, <1>4, <1>5, SeqEqual
  <1>7. Front(c) = d
    BY <1>4, <1>6 DEF Front
  <1> QED
    BY <1>3, <1>4, <1>7 DEF c

\* A prefix of a path without its last name is one of the path.
LEMMA FrontCuts ==
    ASSUME NEW S, NEW e \in Seq(S), e # <<>>, NEW n \in 0 .. Len(e) - 1
    PROVE  Len(Front(e)) = Len(e) - 1 /\ SubSeq(Front(e), 1, n) = SubSeq(e, 1, n)
  <1>1. Len(e) \in Nat \ {0}
    BY EmptySeq
  <1>2. /\ Front(e) \in Seq(S) /\ Len(Front(e)) = Len(e) - 1
        /\ \A i \in 1 .. Len(e) - 1 : Front(e)[i] = e[i]
    <2>1. Len(e) - 1 \in 0 .. Len(e)
      BY <1>1
    <2> QED
      BY <2>1, Cut DEF Front
  <1>3. /\ SubSeq(Front(e), 1, n) \in Seq(S) /\ Len(SubSeq(Front(e), 1, n)) = n
        /\ \A i \in 1 .. n : SubSeq(Front(e), 1, n)[i] = Front(e)[i]
    BY <1>1, <1>2, Cut
  <1>4. /\ SubSeq(e, 1, n) \in Seq(S) /\ Len(SubSeq(e, 1, n)) = n
        /\ \A i \in 1 .. n : SubSeq(e, 1, n)[i] = e[i]
    BY <1>1, Cut
  <1>5. SubSeq(Front(e), 1, n) = SubSeq(e, 1, n)
    BY <1>1, <1>2, <1>3, <1>4, SeqEqual
  <1> QED
    BY <1>2, <1>5

(***************************************************************************)
(* The tree: what it is closed under, and what is above a file.            *)
(***************************************************************************)
LEMMA ClosedPrefix ==
    ASSUME NEW t \in SUBSET Entries, Closed(t), NEW f \in t, NEW e \in Entries, IsPrefix(e, f)
    PROVE  e \in t
  <1>1. e \in Seq(Names) /\ f \in Seq(Names)
    BY Paths
  <1>2. Len(e) \in 0 .. Len(f) /\ e = SubSeq(f, 1, Len(e))
    BY <1>1, PrefixIsSubSeq
  <1> QED
    BY <1>2 DEF Closed

LEMMA AboveIsDir ==
    ASSUME NEW f \in Entries, NEW e \in Entries, IsPrefix(e, f), e # f
    PROVE  e \in Dirs
  <1>1. e \in Seq(Names) /\ f \in Seq(Names)
    BY Paths
  <1>2. Len(e) \in Nat /\ Len(f) \in Nat /\ Len(e) <= Len(f) /\ e = SubSeq(f, 1, Len(e))
    BY <1>1, PrefixIsSubSeq
  <1>3. Len(e) # Len(f)
    BY <1>1, <1>2, SubSeqFull
  <1>4. Len(e) \in 0 .. Len(f) - 1
    BY <1>2, <1>3
  <1>5. SubSeq(f, 1, Len(e)) \in Dirs
    BY <1>4, TreeAssumption
  <1> QED
    BY <1>2, <1>5

\* A directory that is there has, above every file below it, an entry that is read.
LEMMA EntryOnTheWay ==
    ASSUME there \subseteq Entries, Closed(there), NEW d \in Dirs, NEW f \in there \cap Files,
           IsPrefix(d, f)
    PROVE  \E c \in In(d) : IsPrefix(c, f)
  <1>1. d \in Seq(Names) /\ f \in Seq(Names) /\ d # f
    BY Paths, TreeAssumption DEF Entries
  <1> DEFINE c == SubSeq(f, 1, Len(d) + 1)
  <1>2. Len(d) + 1 \in 1 .. Len(f) /\ c # <<>> /\ Front(c) = d /\ IsPrefix(c, f)
    BY <1>1, NextEntry
  <1>3. c \in there
    <2>1. Len(f) \in Nat /\ Len(d) + 1 \in 0 .. Len(f)
      BY <1>1, <1>2
    <2> QED
      BY <2>1 DEF Closed
  <1> QED
    BY <1>2, <1>3 DEF In

(***************************************************************************)
(* The open directories.                                                   *)
(***************************************************************************)
\* The entries that the walk is still sure to read.
Heads(s) == UNION {s[i].unread \ s[i].unsure : i \in DOMAIN s}

LEMMA WithoutHeads ==
    ASSUME stack \in Seq(Frame), stack # <<>>, NEW e
    PROVE  /\ Without(e) \in Seq(Frame) /\ Without(e) # <<>>
           /\ Heads(stack) \ {e} \subseteq Heads(Without(e))
  <1> DEFINE n == Len(stack)
             t == Past(stack[n], e)
             s == [stack EXCEPT ![n] = t]
  <1>1. n \in 1 .. Len(stack) /\ stack[n] \in Frame
    <2>1. n \in Nat \ {0}
      BY EmptySeq
    <2>2. n \in 1 .. Len(stack)
      BY <2>1
    <2> QED
      BY <2>2, ElementOfSeq
  <1>2. t \in Frame /\ t.unread = stack[n].unread \ {e} /\ t.unsure = stack[n].unsure \ {e}
    BY <1>1 DEF Frame, Past
  <1>3. Without(e) = s
    BY DEF Without
  <1> HIDE DEF t
  <1>4. /\ s \in Seq(Frame) /\ Len(s) = Len(stack)
        /\ \A j \in 1 .. Len(stack) : s[j] = IF j = n THEN t ELSE stack[j]
    BY <1>1, <1>2, ExceptSeq
  <1>5. DOMAIN stack = 1 .. Len(stack) /\ DOMAIN s = 1 .. Len(stack)
    BY <1>4, LenProperties
  <1> HIDE DEF s
  <1>6. s # <<>>
    BY <1>1, <1>4, EmptySeq
  <1>7. ASSUME NEW h \in Heads(stack), h # e PROVE h \in Heads(s)
    <2>1. PICK i \in 1 .. Len(stack) : h \in stack[i].unread \ stack[i].unsure
      BY <1>5, <1>7 DEF Heads
    <2>2. h \in s[i].unread \ s[i].unsure
      BY <1>2, <1>4, <1>7, <2>1
    <2> QED
      BY <1>5, <2>2 DEF Heads
  <1> QED
    BY <1>3, <1>4, <1>6, <1>7

LEMMA PushHeads ==
    ASSUME NEW s \in Seq(Frame), NEW t \in Frame
    PROVE  /\ Append(s, t) \in Seq(Frame) /\ Append(s, t) # <<>>
           /\ Heads(s) \cup (t.unread \ t.unsure) \subseteq Heads(Append(s, t))
  <1> DEFINE a == Append(s, t)
  <1>1. /\ a \in Seq(Frame) /\ Len(a) = Len(s) + 1 /\ Len(s) \in Nat
        /\ \A i \in 1 .. Len(s) : a[i] = s[i]
        /\ a[Len(s) + 1] = t
    OBVIOUS
  <1>2. DOMAIN s = 1 .. Len(s) /\ DOMAIN a = 1 .. Len(s) + 1
    BY <1>1, LenProperties
  <1> HIDE DEF a
  <1>3. Len(s) + 1 \in DOMAIN a /\ DOMAIN s \subseteq DOMAIN a /\ a # <<>>
    BY <1>1, <1>2
  <1>4. t.unread \ t.unsure \subseteq Heads(a)
    BY <1>1, <1>3 DEF Heads
  <1>5. Heads(s) \subseteq Heads(a)
    BY <1>1, <1>2, <1>3 DEF Heads
  <1> QED
    BY <1>1, <1>3, <1>4, <1>5 DEF a

LEMMA PopHeads ==
    ASSUME stack \in Seq(Frame), stack # <<>>, Last(stack).unread \subseteq Last(stack).unsure
    PROVE  /\ Front(stack) \in Seq(Frame) /\ (Len(stack) = 1 <=> Front(stack) = <<>>)
           /\ Heads(stack) \subseteq Heads(Front(stack))
  <1> DEFINE n == Len(stack)
             s == Front(stack)
  <1>1. n \in Nat \ {0} /\ DOMAIN stack = 1 .. n
    BY EmptySeq, LenProperties
  <1>2. s \in Seq(Frame) /\ Len(s) = n - 1 /\ \A i \in 1 .. n - 1 : s[i] = stack[i]
    <2>1. n - 1 \in 0 .. Len(stack)
      BY <1>1
    <2> QED
      BY <2>1, Cut DEF Front
  <1>3. DOMAIN s = 1 .. n - 1
    BY <1>2, LenProperties
  <1> HIDE DEF s, n
  <1>4. n = 1 <=> s = <<>>
    BY <1>1, <1>2, EmptySeq
  <1>5. ASSUME NEW h \in Heads(stack) PROVE h \in Heads(s)
    <2>1. PICK i \in 1 .. n : h \in stack[i].unread \ stack[i].unsure
      BY <1>1, <1>5 DEF Heads
    <2>2. i # n
      BY <2>1 DEF Last, n
    <2>3. i \in 1 .. n - 1
      BY <1>1, <2>1, <2>2
    <2> QED
      BY <1>2, <1>3, <2>1, <2>3 DEF Heads
  <1> QED
    BY <1>2, <1>4, <1>5 DEF s, n

(***************************************************************************)
(* The walk.                                                               *)
(***************************************************************************)
Found(f) == f \in Range(list) \/ \E e \in Heads(stack) : IsPrefix(e, f)

ListedInv == \A f \in Range(list) : f \in seen /\ ~Matches(f)

FoundInv == \A f \in steady \cap Files : Visible(f) => Found(f)

ScanInv ==
    /\ there \subseteq Entries /\ Closed(there) /\ steady \subseteq there
    /\ stack \in Seq(Frame) /\ list \in Seq(Files)
    /\ scan = "off" => stack = <<>> /\ list = <<>>
    /\ scan = "on" => stack # <<>>
    /\ scan = "done" => stack = <<>>
    /\ scan # "off" => there \subseteq seen /\ pc \in {"scan", "ready", "exited", "crashed"}
    /\ ListedInv
    /\ scan \in {"on", "done"} => FoundInv

LEMMA ScanStart == Init => ScanInv
  <1> SUFFICES ASSUME Init PROVE ScanInv
    OBVIOUS
  <1>1. /\ there \subseteq Entries /\ Closed(there) /\ steady = {}
        /\ stack = <<>> /\ list = <<>> /\ scan = "off"
    BY DEF Init, ScanInit
  <1>2. stack \in Seq(Frame) /\ list \in Seq(Files)
    BY <1>1
  <1>3. Range(list) = {}
    BY <1>1 DEF Range
  <1> QED
    BY <1>1, <1>2, <1>3 DEF ScanInv, ListedInv

\* Nothing that main does before the walk, or after it, is about the walk.
LEMMA Elsewhere ==
    ASSUME ScanInv, UNCHANGED <<walk, tree>>,
           \/ pc \notin {"scan", "ready", "exited", "crashed"}
           \/ UNCHANGED filter /\ pc' \in {"scan", "ready", "exited", "crashed"}
    PROVE  ScanInv'
  <1> USE DEF walk, tree
  <1>1. CASE scan = "off"
    <2>1. Range(list') = {}
      BY <1>1 DEF ScanInv, Range
    <2> QED
      BY <1>1, <2>1 DEF ScanInv, ListedInv, Closed
  <1>2. CASE scan # "off"
    <2>1. UNCHANGED filter /\ pc' \in {"scan", "ready", "exited", "crashed"}
      BY <1>2 DEF ScanInv
    <2> QED
      BY <2>1 DEF ScanInv, ListedInv, FoundInv, Found, Visible, Matches, Closed, filter
  <1> QED
    BY <1>1, <1>2

\* A directory that is opened keeps in sight what is below it.
LEMMA Opened ==
    ASSUME there \subseteq Entries, Closed(there), NEW d \in Dirs, NEW s \in Seq(Frame), Descend(d, s)
    PROVE  /\ stack' \in Seq(Frame)
           /\ \/ scan' = "crashed"
              \/ /\ scan' = "on" /\ stack' # <<>>
                 /\ Heads(s) \subseteq Heads(stack')
                 /\ \A f \in there \cap Files :
                       IsPrefix(d, f) => \E e \in Heads(stack') : IsPrefix(e, f)
  <1>1. CASE ~CanOpen(d)
    <2>1. stack' = <<>> /\ scan' = "crashed"
      BY <1>1 DEF Descend
    <2> QED
      BY <2>1
  <1>2. CASE CanOpen(d)
    <2> DEFINE t == [dir |-> d, unread |-> In(d), unsure |-> {}]
    <2>1. stack' = Append(s, t) /\ scan' = "on"
      BY <1>2 DEF Descend
    <2>2. t \in Frame /\ t.unread = In(d) /\ t.unsure = {}
      BY DEF Frame, In
    <2> HIDE DEF t
    <2>3. stack' \in Seq(Frame) /\ stack' # <<>> /\ Heads(s) \cup In(d) \subseteq Heads(stack')
      BY <2>1, <2>2, PushHeads
    <2> QED
      BY <2>1, <2>3, EntryOnTheWay
  <1> QED
    BY <1>1, <1>2

LEMMA StartsScan ==
    ASSUME ScanInv, StartScan, pc = "scan", pc' = pc
    PROVE  ScanInv'
  <1>1. /\ scan = "off" /\ Descend(<<>>, <<>>)
        /\ steady' = there /\ seen' = there /\ there' = there /\ list' = list
    BY DEF StartScan
  <1>2. list' = <<>> /\ Range(list') = {}
    BY <1>1 DEF ScanInv, Range
  <1>3. there' \subseteq Entries /\ Closed(there)' /\ steady' \subseteq there' /\ there' \subseteq seen'
    BY <1>1 DEF ScanInv, Closed
  <1>4. <<>> \in Dirs /\ <<>> \in Seq(Frame)
    BY TreeAssumption
  <1>5. /\ stack' \in Seq(Frame)
        /\ \/ scan' = "crashed"
           \/ /\ scan' = "on" /\ stack' # <<>>
              /\ \A f \in there \cap Files :
                    IsPrefix(<<>>, f) => \E e \in Heads(stack') : IsPrefix(e, f)
    <2> HIDE DEF Descend
    <2> QED
      BY <1>1, <1>4, Opened DEF ScanInv
  <1>6. \A f \in Files : IsPrefix(<<>>, f)
    <2> SUFFICES ASSUME NEW f \in Files PROVE IsPrefix(<<>>, f)
      OBVIOUS
    <2>1. f \in Seq(Names) /\ <<>> \in Seq(Names) /\ Len(<<>>) = 0
      BY Paths DEF Entries
    <2>2. Len(f) \in Nat /\ SubSeq(<<>>, 1, 0) = <<>> /\ SubSeq(f, 1, 0) = <<>>
      BY <2>1, SubSeqEmpty
    <2> QED
      BY <2>1, <2>2 DEF IsPrefix
  <1>7. scan' = "on" => FoundInv'
    BY <1>1, <1>5, <1>6 DEF FoundInv, Found
  <1>8. list' \in Seq(Files)
    BY <1>2
  <1> QED
    BY <1>2, <1>3, <1>5, <1>7, <1>8 DEF ScanInv, ListedInv

LEMMA ReadsFile ==
    ASSUME ScanInv, NEW g \in Files, ReadFile(g), UNCHANGED pc
    PROVE  ScanInv'
  <1>1. /\ scan = "on" /\ scan' = scan /\ stack # <<>> /\ stack \in Seq(Frame) /\ stack' = Without(g)
        /\ UNCHANGED <<filter, tree>>
    BY DEF ReadFile, Reads, ScanInv
  <1>2. stack' \in Seq(Frame) /\ stack' # <<>> /\ Heads(stack) \ {g} \subseteq Heads(stack')
    BY <1>1, WithoutHeads
  <1>3. \/ (g \notin there \/ Matches(g)) /\ list' = list
        \/ g \in there /\ ~Matches(g) /\ list' = Append(list, g)
    BY DEF ReadFile, Add
  <1>4. /\ list' \in Seq(Files) /\ Range(list) \subseteq Range(list') /\ Range(list') \subseteq Range(list) \cup {g}
        /\ g \in there /\ ~Matches(g) => g \in Range(list')
    <2>1. CASE list' = list
      BY <1>3, <2>1 DEF ScanInv
    <2>2. CASE g \in there /\ ~Matches(g) /\ list' = Append(list, g)
      <3>1. /\ list \in Seq(Files) /\ list' \in Seq(Files) /\ Len(list) \in Nat
            /\ DOMAIN list = 1 .. Len(list) /\ DOMAIN list' = 1 .. Len(list) + 1
            /\ \A i \in 1 .. Len(list) : list'[i] = list[i]
            /\ list'[Len(list) + 1] = g
        BY <2>2 DEF ScanInv
      <3> QED
        BY <3>1 DEF Range
    <2> QED
      BY <1>3, <2>1, <2>2
  <1>5. ListedInv'
    <2> SUFFICES ASSUME NEW f \in Range(list') PROVE f \in seen /\ ~Matches(f)
      BY <1>1 DEF ListedInv, Matches, filter, tree
    <2> QED
      BY <1>1, <1>3, <1>4 DEF ScanInv, ListedInv
  <1>6. FoundInv'
    <2> SUFFICES ASSUME NEW f \in steady \cap Files, Visible(f) PROVE Found(f)'
      BY <1>1 DEF FoundInv, Visible, Matches, filter, tree
    <2>1. f \in there /\ ~Matches(f) /\ Found(f)
      BY <1>1 DEF ScanInv, FoundInv, Visible
    <2>2. CASE f = g
      BY <1>4, <2>1, <2>2 DEF Found
    <2>3. CASE f # g
      <3>1. ~IsPrefix(g, f)
        BY <2>3, AboveIsDir, TreeAssumption DEF Entries
      <3> QED
        BY <1>2, <1>4, <2>1, <3>1 DEF Found
    <2> QED
      BY <2>2, <2>3
  <1> QED
    BY <1>1, <1>2, <1>4, <1>5, <1>6 DEF ScanInv, Closed, tree

LEMMA ReadsDir ==
    ASSUME ScanInv, NEW d \in Dirs, ReadDir(d), UNCHANGED pc
    PROVE  ScanInv'
  <1>1. /\ scan = "on" /\ stack # <<>> /\ stack \in Seq(Frame) /\ Descend(d, Without(d))
        /\ UNCHANGED <<list, filter, tree>>
    BY DEF ReadDir, Reads, ScanInv
  <1>2. Without(d) \in Seq(Frame) /\ Heads(stack) \ {d} \subseteq Heads(Without(d))
    BY <1>1, WithoutHeads
  <1>3. /\ stack' \in Seq(Frame)
        /\ \/ scan' = "crashed"
           \/ /\ scan' = "on" /\ stack' # <<>>
              /\ Heads(stack) \ {d} \subseteq Heads(stack')
              /\ \A f \in there \cap Files : IsPrefix(d, f) => \E e \in Heads(stack') : IsPrefix(e, f)
    <2>1. there \subseteq Entries /\ Closed(there)
      BY DEF ScanInv
    <2> QED
      BY <1>1, <1>2, <2>1, Opened
  <1>4. ASSUME scan' = "on" PROVE FoundInv'
    <2> SUFFICES ASSUME NEW f \in steady \cap Files, Visible(f) PROVE Found(f)'
      BY <1>1 DEF FoundInv, Visible, Matches, filter, tree
    <2>1. f \in there /\ Found(f)
      BY <1>1 DEF ScanInv, FoundInv
    <2> QED
      BY <1>1, <1>3, <1>4, <2>1 DEF Found
  <1> QED
    BY <1>1, <1>3, <1>4 DEF ScanInv, ListedInv, Matches, Closed, filter, tree

LEMMA ReadsOther ==
    ASSUME ScanInv, NEW e \in Opaque, ReadOther(e), UNCHANGED pc
    PROVE  ScanInv'
  <1>1. /\ scan = "on" /\ scan' = scan /\ stack # <<>> /\ stack \in Seq(Frame) /\ stack' = Without(e)
        /\ UNCHANGED <<list, filter, tree>>
    BY DEF ReadOther, Reads, ScanInv
  <1>2. stack' \in Seq(Frame) /\ stack' # <<>> /\ Heads(stack) \ {e} \subseteq Heads(stack')
    BY <1>1, WithoutHeads
  <1>3. FoundInv'
    <2> SUFFICES ASSUME NEW f \in steady \cap Files, Visible(f) PROVE Found(f)'
      BY <1>1 DEF FoundInv, Visible, Matches, filter, tree
    <2>1. Found(f) /\ ~IsPrefix(e, f)
      BY <1>1 DEF ScanInv, FoundInv, Visible
    <2> QED
      BY <1>1, <1>2, <2>1 DEF Found
  <1> QED
    BY <1>1, <1>2, <1>3 DEF ScanInv, ListedInv, Matches, Closed, filter, tree

LEMMA Ascends ==
    ASSUME ScanInv, Ascend, UNCHANGED pc
    PROVE  ScanInv'
  <1>1. /\ scan = "on" /\ stack # <<>> /\ stack \in Seq(Frame) /\ stack' = Front(stack)
        /\ Last(stack).unread \subseteq Last(stack).unsure
        /\ scan' = IF Len(stack) = 1 THEN "done" ELSE scan
        /\ UNCHANGED <<list, filter, tree>>
    BY DEF Ascend, ScanInv
  <1>2. stack' \in Seq(Frame) /\ (scan' = "done" <=> stack' = <<>>) /\ Heads(stack) \subseteq Heads(stack')
    BY <1>1, PopHeads
  <1>3. FoundInv'
    <2> SUFFICES ASSUME NEW f \in steady \cap Files, Visible(f) PROVE Found(f)'
      BY <1>1 DEF FoundInv, Visible, Matches, filter, tree
    <2> QED
      BY <1>1, <1>2 DEF ScanInv, FoundInv, Found
  <1> QED
    BY <1>1, <1>2, <1>3 DEF ScanInv, ListedInv, Matches, Closed, filter, tree

(***************************************************************************)
(* The user.                                                               *)
(***************************************************************************)
\* Putting something there takes nothing away from what is in sight.
LEMMA Creates ==
    ASSUME ScanInv, NEW e \in Entries, Create(e), UNCHANGED pc
    PROVE  ScanInv'
  <1> DEFINE After(d) == IF d.dir = Front(e)
                         THEN [d EXCEPT !.unread = @ \cup {e}, !.unsure = @ \cup {e}] ELSE d
  <1>1. /\ scan = "on" /\ scan' = scan /\ e # <<>> /\ e \notin there /\ Front(e) \in there
        /\ there' = there \cup {e} /\ seen' = seen \cup {e}
        /\ UNCHANGED <<list, filter, steady>>
        /\ stack' = [i \in DOMAIN stack |-> After(stack[i])]
    BY DEF Create, Edits
  <1>2. stack # <<>> /\ stack \in Seq(Frame) /\ DOMAIN stack = 1 .. Len(stack) /\ Len(stack) \in Nat
    BY <1>1, LenProperties DEF ScanInv
  <1>3. ASSUME NEW d \in Frame
        PROVE  After(d) \in Frame /\ (d.unread \ d.unsure) \ {e} \subseteq After(d).unread \ After(d).unsure
    BY DEF Frame
  <1> HIDE DEF After
  <1>4. /\ stack' \in Seq(Frame) /\ stack' # <<>> /\ DOMAIN stack' = DOMAIN stack
        /\ \A i \in DOMAIN stack : stack'[i] = After(stack[i])
    <2>1. \A i \in 1 .. Len(stack) : stack[i] \in Frame
      BY <1>2, ElementOfSeq
    <2>2. stack' = [i \in 1 .. Len(stack) |-> After(stack[i])]
      BY <1>1, <1>2
    <2>3. stack' \in [1 .. Len(stack) -> Frame]
      BY <1>3, <2>1, <2>2
    <2>4. stack' \in Seq(Frame) /\ Len(stack') = Len(stack)
      BY <1>2, <2>2, <2>3
    <2> QED
      BY <1>2, <2>2, <2>4, EmptySeq
  <1>5. Heads(stack) \ {e} \subseteq Heads(stack')
    <2> SUFFICES ASSUME NEW h \in Heads(stack), h # e PROVE h \in Heads(stack')
      OBVIOUS
    <2>1. PICK i \in DOMAIN stack : h \in stack[i].unread \ stack[i].unsure
      BY DEF Heads
    <2>2. stack[i] \in Frame
      BY <1>2, <2>1, ElementOfSeq
    <2>3. h \in stack'[i].unread \ stack'[i].unsure
      BY <1>3, <1>4, <2>1, <2>2
    <2> QED
      BY <1>4, <2>3 DEF Heads
  <1>6. Closed(there')
    <2> SUFFICES ASSUME NEW f \in there', NEW n \in 0 .. Len(f) PROVE SubSeq(f, 1, n) \in there'
      BY DEF Closed
    <2>1. CASE f \in there
      BY <1>1, <2>1 DEF ScanInv, Closed
    <2>2. CASE f = e
      <3>1. e \in Seq(Names) /\ Len(e) \in Nat /\ SubSeq(e, 1, Len(e)) = e
        BY Paths, LenProperties, SubSeqFull
      <3>2. CASE n = Len(e)
        BY <1>1, <2>2, <3>1, <3>2
      <3>3. CASE n # Len(e)
        <4>1. n \in 0 .. Len(e) - 1
          <5>1. n \in 0 .. Len(e)
            BY <2>2
          <5>2. Len(e) \in Nat
            BY <3>1
          <5> QED
            BY <3>3, <5>1, <5>2
        <4>2. Len(Front(e)) = Len(e) - 1 /\ SubSeq(Front(e), 1, n) = SubSeq(e, 1, n)
          BY <1>1, <3>1, <4>1, FrontCuts
        <4>3. SubSeq(Front(e), 1, n) \in there
          BY <1>1, <4>1, <4>2 DEF ScanInv, Closed
        <4> QED
          BY <1>1, <2>2, <4>2, <4>3
      <3> QED
        BY <3>2, <3>3
    <2> QED
      BY <1>1, <2>1, <2>2
  <1>7. FoundInv'
    <2> SUFFICES ASSUME NEW f \in steady \cap Files, Visible(f) PROVE Found(f)'
      BY <1>1 DEF FoundInv, Visible, Matches, filter
    <2>1. f \in there /\ Found(f)
      BY <1>1 DEF ScanInv, FoundInv
    <2>2. ~IsPrefix(e, f)
      BY <1>1, <2>1, ClosedPrefix DEF ScanInv
    <2> QED
      BY <1>1, <1>5, <2>1, <2>2 DEF Found
  <1>8. ListedInv'
    BY <1>1 DEF ScanInv, ListedInv, Matches, filter
  <1> QED
    BY <1>1, <1>4, <1>6, <1>7, <1>8 DEF ScanInv

\* What is removed takes from sight only what is below it.
LEMMA Unlinks ==
    ASSUME ScanInv, NEW e \in Entries, Unlink(e), UNCHANGED pc
    PROVE  ScanInv'
  <1> DEFINE After(d) == [d EXCEPT !.unsure = @ \cup (d.unread \cap Under(e))]
  <1>1. /\ scan = "on" /\ scan' = scan
        /\ there' = there \ Under(e) /\ steady' = steady \ Under(e)
        /\ UNCHANGED <<list, filter, seen>>
        /\ stack' = [i \in DOMAIN stack |-> After(stack[i])]
    BY DEF Unlink, Edits
  <1>2. stack # <<>> /\ stack \in Seq(Frame) /\ DOMAIN stack = 1 .. Len(stack) /\ Len(stack) \in Nat
    BY <1>1, LenProperties DEF ScanInv
  <1>3. ASSUME NEW d \in Frame
        PROVE  After(d) \in Frame /\ (d.unread \ d.unsure) \ Under(e) \subseteq After(d).unread \ After(d).unsure
    BY DEF Frame
  <1> HIDE DEF After
  <1>4. /\ stack' \in Seq(Frame) /\ stack' # <<>> /\ DOMAIN stack' = DOMAIN stack
        /\ \A i \in DOMAIN stack : stack'[i] = After(stack[i])
    <2>1. \A i \in 1 .. Len(stack) : stack[i] \in Frame
      BY <1>2, ElementOfSeq
    <2>2. stack' = [i \in 1 .. Len(stack) |-> After(stack[i])]
      BY <1>1, <1>2
    <2>3. stack' \in [1 .. Len(stack) -> Frame]
      BY <1>3, <2>1, <2>2
    <2>4. stack' \in Seq(Frame) /\ Len(stack') = Len(stack)
      BY <1>2, <2>2, <2>3
    <2> QED
      BY <1>2, <2>2, <2>4, EmptySeq
  <1>5. Heads(stack) \ Under(e) \subseteq Heads(stack')
    <2> SUFFICES ASSUME NEW h \in Heads(stack), h \notin Under(e) PROVE h \in Heads(stack')
      OBVIOUS
    <2>1. PICK i \in DOMAIN stack : h \in stack[i].unread \ stack[i].unsure
      BY DEF Heads
    <2>2. stack[i] \in Frame
      BY <1>2, <2>1, ElementOfSeq
    <2>3. h \in stack'[i].unread \ stack'[i].unsure
      BY <1>3, <1>4, <2>1, <2>2
    <2> QED
      BY <1>4, <2>3 DEF Heads
  <1>6. \A f \in there', p \in Entries : IsPrefix(p, f) => ~IsPrefix(e, p)
    <2> SUFFICES ASSUME NEW f \in there', NEW p \in Entries, IsPrefix(p, f), IsPrefix(e, p) PROVE FALSE
      OBVIOUS
    <2>1. f \in there /\ f \notin Under(e) /\ f \in Entries
      BY <1>1 DEF ScanInv
    <2>2. IsPrefix(e, f)
      BY <2>1, Paths, PrefixTransitive
    <2> QED
      BY <2>1, <2>2 DEF Under
  <1>7. Closed(there')
    <2> SUFFICES ASSUME NEW f \in there', NEW n \in 0 .. Len(f) PROVE SubSeq(f, 1, n) \in there'
      BY DEF Closed
    <2>1. f \in there /\ f \in Entries /\ SubSeq(f, 1, n) \in there
      BY <1>1 DEF ScanInv, Closed
    <2>2. SubSeq(f, 1, n) \in Entries /\ IsPrefix(SubSeq(f, 1, n), f)
      BY <2>1, Paths, Cut DEF ScanInv
    <2>3. SubSeq(f, 1, n) \notin Under(e)
      BY <1>6, <2>2 DEF Under
    <2> QED
      BY <1>1, <2>1, <2>3
  <1>8. FoundInv'
    <2> SUFFICES ASSUME NEW f \in steady' \cap Files, Visible(f) PROVE Found(f)'
      BY <1>1 DEF FoundInv, Visible, Matches, filter
    <2>1. f \in steady /\ f \in there' /\ Found(f)
      BY <1>1 DEF ScanInv, FoundInv, Under
    <2>2. CASE f \in Range(list)
      BY <1>1, <2>2 DEF Found
    <2>3. ASSUME NEW h \in Heads(stack), IsPrefix(h, f) PROVE Found(f)'
      <3>1. h \in Entries
        <4>1. PICK i \in DOMAIN stack : h \in stack[i].unread
          BY <2>3 DEF Heads
        <4>2. stack[i] \in Frame
          BY <1>2, <4>1, ElementOfSeq
        <4> QED
          BY <4>1, <4>2 DEF Frame
      <3>2. h \notin Under(e)
        BY <1>6, <2>1, <2>3, <3>1 DEF Under
      <3> QED
        BY <1>5, <2>3, <3>2 DEF Found
    <2> QED
      BY <2>1, <2>2, <2>3 DEF Found
  <1>9. ListedInv'
    BY <1>1 DEF ScanInv, ListedInv, Matches, filter
  <1> QED
    BY <1>1, <1>4, <1>7, <1>8, <1>9 DEF ScanInv

(***************************************************************************)
(* The theorem.                                                            *)
(***************************************************************************)
LEMMA ScanStep == ScanInv /\ [Next]_vars => ScanInv'
  <1> SUFFICES ASSUME ScanInv, [Next]_vars PROVE ScanInv'
    OBVIOUS
  <1> DEFINE Late == {"scan", "ready", "exited", "crashed"}
  <1>1. CASE UNCHANGED vars
    <2>1. pc' = pc /\ UNCHANGED <<walk, tree>> /\ UNCHANGED filter
      BY <1>1 DEF vars, own
    <2> QED
      BY <2>1, Elsewhere
  <1>2. CASE ReadOption \/ Check \/ VerifySource \/ CheckAuth \/ CreateBucket \/ OpenStorage \/ Rebuild \/ AddDatabase \/ Taken
    <2>1. pc \notin Late
      BY <1>2 DEF ReadOption, Check, VerifySource, CheckAuth, CreateBucket, Created, NotCreated,
         CreateElsewhere, OpenStorage, Statement, Rebuild, AddDatabase, Taken
    <2>2. UNCHANGED <<walk, tree>>
      BY <1>2 DEF ReadOption, Check, VerifySource, CheckAuth, CreateBucket, Created, NotCreated,
         CreateElsewhere, OpenStorage, Statement, Rebuild, AddDatabase, Taken, Local, Outside
    <2> QED
      BY <2>1, <2>2, Elsewhere
  <1>3. CASE Scan
    <2>1. pc = "scan"
      BY <1>3 DEF Scan
    <2>2. CASE StartScan /\ UNCHANGED own
      BY <2>1, <2>2, StartsScan DEF own
    <2>3. CASE Walk /\ UNCHANGED own
      BY <2>3, ReadsFile, ReadsDir, ReadsOther, Ascends DEF Walk, own
    <2>4. CASE pc' \in Late /\ Local
      BY <2>4, Elsewhere DEF Local, Outside
    <2> QED
      BY <1>3, <2>2, <2>3, <2>4 DEF Scan, Goes
  <1>4. CASE User /\ UNCHANGED own
    BY <1>4, Creates, Unlinks DEF User, own
  <1> QED
    BY <1>1, <1>2, <1>3, <1>4 DEF Next, Main

\* recurseIn and add: for any tree, any patterns and any number of changes while
\* clarc reads it, the list has every visible file that was there all the time,
\* and nothing that never was there or is excluded.
THEOREM ScanExact == FairSpec => []ScanIsExact
  <1>1. ScanInv => ScanIsExact
    <2> SUFFICES ASSUME ScanInv, scan = "done" PROVE ScanIsExact
      BY DEF ScanIsExact
    <2>1. stack = <<>> /\ FoundInv /\ ListedInv
      BY DEF ScanInv
    <2>2. Heads(stack) = {}
      BY <2>1 DEF Heads
    <2> QED
      BY <2>1, <2>2 DEF ScanIsExact, FoundInv, ListedInv, Found
  <1> QED
    BY <1>1, ScanStart, ScanStep, PTL DEF FairSpec

(***************************************************************************)
(* What is listed twice.                                                   *)
(***************************************************************************)
\* Neither e nor a directory above it was put there during the walk.
Clean(e) == \A m \in made : ~IsPrefix(m, e)

\* The open directories are one below the other, and each has unread what is
\* directly in it.
ChainInv ==
    /\ \A i \in DOMAIN stack : Len(stack[i].dir) = i - 1
    /\ \A i \in DOMAIN stack : \A e \in stack[i].unread : e # <<>> /\ Front(e) = stack[i].dir

\* Of a clean entry that is unread nothing has been read: no directory below it is
\* open, and nothing below it is listed.
UnreadInv ==
    \A i \in DOMAIN stack : \A e \in stack[i].unread :
        Clean(e) => /\ \A k \in DOMAIN stack : ~IsPrefix(e, stack[k].dir)
                    /\ \A f \in Range(list) : ~IsPrefix(e, f)

TwiceInv ==
    /\ ChainInv /\ UnreadInv
    /\ made \subseteq Entries
    /\ scan = "off" => made = {}
    /\ TwiceOnlyIfMade

LEMMA TwiceStart == Init => TwiceInv
  <1> SUFFICES ASSUME Init PROVE TwiceInv
    OBVIOUS
  <1>1. stack = <<>> /\ list = <<>> /\ made = {}
    BY DEF Init, ScanInit
  <1> QED
    BY <1>1 DEF TwiceInv, ChainInv, UnreadInv, TwiceOnlyIfMade

\* The frames of the walk are pairs of a directory and what is unread of it.
LEMMA FrameParts ==
    ASSUME stack \in Seq(Frame)
    PROVE  /\ DOMAIN stack = 1 .. Len(stack) /\ Len(stack) \in Nat
           /\ \A i \in DOMAIN stack :
                 /\ stack[i] \in Frame
                 /\ stack[i].dir \in Dirs /\ stack[i].dir \in Seq(Names) /\ stack[i].dir \in Entries
                 /\ stack[i].unread \subseteq Entries
  <1>1. DOMAIN stack = 1 .. Len(stack) /\ Len(stack) \in Nat
    BY LenProperties
  <1>2. ASSUME NEW i \in DOMAIN stack
        PROVE  /\ stack[i] \in Frame /\ stack[i].dir \in Dirs /\ stack[i].unread \subseteq Entries
    <2>1. stack[i] \in Frame
      BY <1>1, <1>2, ElementOfSeq
    <2> QED
      BY <2>1 DEF Frame
  <1> QED
    BY <1>1, <1>2, Paths DEF Entries

\* An entry that is unread, clean, and above what is read next is what is read next.
LEMMA OnlyItself ==
    ASSUME stack \in Seq(Frame), stack # <<>>, ChainInv, UnreadInv,
           NEW g \in Last(stack).unread, NEW i \in DOMAIN stack, NEW e \in stack[i].unread,
           Clean(e), IsPrefix(e, g)
    PROVE  e = g /\ i = Len(stack)
  <1> DEFINE n == Len(stack)
  <1>1. n \in DOMAIN stack /\ Last(stack) = stack[n]
    BY FrameParts, EmptySeq DEF Last
  <1>2. g \in Entries /\ e \in Entries /\ g \in Seq(Names) /\ e \in Seq(Names)
    BY <1>1, FrameParts, Paths
  <1>3. g # <<>> /\ Front(g) = stack[n].dir /\ Front(e) = stack[i].dir /\ e # <<>>
    BY <1>1 DEF ChainInv
  <1>4. ASSUME e # g PROVE FALSE
    <2>1. Len(e) \in Nat /\ Len(g) \in Nat \ {0} /\ Len(e) <= Len(g) /\ e = SubSeq(g, 1, Len(e))
      BY <1>2, <1>3, PrefixIsSubSeq, EmptySeq, LenProperties
    <2>2. Len(e) # Len(g)
      BY <1>2, <1>4, <2>1, SubSeqFull
    <2>3. Len(e) \in 0 .. Len(g) - 1
      BY <2>1, <2>2
    <2>4. Len(Front(g)) = Len(g) - 1 /\ SubSeq(Front(g), 1, Len(e)) = SubSeq(g, 1, Len(e))
      BY <1>2, <1>3, <2>3, FrontCuts
    <2>5. Len(e) <= Len(stack[n].dir) /\ e = SubSeq(stack[n].dir, 1, Len(e))
      BY <1>3, <2>1, <2>3, <2>4
    <2>6. stack[n].dir \in Seq(Names)
      BY <1>1, FrameParts
    <2>7. IsPrefix(e, stack[n].dir)
      BY <1>2, <2>5, <2>6, PrefixIsSubSeq
    <2> QED
      BY <1>1, <2>7 DEF UnreadInv
  <1>5. i = n
    <2>1. stack[i].dir = stack[n].dir
      BY <1>3, <1>4
    <2>2. Len(stack[i].dir) = i - 1 /\ Len(stack[n].dir) = n - 1
      BY <1>1 DEF ChainInv
    <2>3. i \in 1 .. n /\ n \in Nat
      BY FrameParts
    <2> QED
      BY <2>1, <2>2, <2>3
  <1> QED
    BY <1>4, <1>5

\* The stack without what has just been read.
LEMMA WithoutChain ==
    ASSUME stack \in Seq(Frame), stack # <<>>, ChainInv, UnreadInv, NEW g \in Last(stack).unread
    PROVE  /\ Without(g) \in Seq(Frame) /\ Len(Without(g)) = Len(stack)
           /\ \A i \in DOMAIN stack :
                 /\ Without(g)[i].dir = stack[i].dir
                 /\ Without(g)[i].unread \subseteq stack[i].unread
                 /\ \A e \in Without(g)[i].unread : Clean(e) => ~IsPrefix(e, g)
  <1> DEFINE n == Len(stack)
             t == Past(stack[n], g)
             s == [stack EXCEPT ![n] = t]
  <1>1. n \in 1 .. Len(stack) /\ DOMAIN stack = 1 .. n /\ stack[n] \in Frame
    <2>1. n \in Nat \ {0}
      BY EmptySeq
    <2> QED
      BY <2>1, FrameParts
  <1>2. t \in Frame /\ t.dir = stack[n].dir /\ t.unread = stack[n].unread \ {g}
    BY <1>1 DEF Frame, Past
  <1>3. Without(g) = s
    BY DEF Without
  <1> HIDE DEF t
  <1>4. /\ s \in Seq(Frame) /\ Len(s) = n
        /\ \A j \in 1 .. n : s[j] = IF j = n THEN t ELSE stack[j]
    BY <1>1, <1>2, ExceptSeq
  <1> HIDE DEF s
  <1>5. ASSUME NEW i \in DOMAIN stack
        PROVE  /\ s[i].dir = stack[i].dir /\ s[i].unread \subseteq stack[i].unread
               /\ i = n => g \notin s[i].unread
    BY <1>1, <1>2, <1>4
  <1>6. ASSUME NEW i \in DOMAIN stack, NEW e \in s[i].unread, Clean(e), IsPrefix(e, g) PROVE FALSE
    <2>1. e = g /\ i = n
      BY <1>5, <1>6, OnlyItself
    <2> QED
      BY <1>5, <1>6, <2>1
  <1> QED
    BY <1>3, <1>4, <1>5, <1>6

LEMMA SelfPrefix == \A e \in Entries : IsPrefix(e, e)
  <1> SUFFICES ASSUME NEW e \in Entries PROVE IsPrefix(e, e)
    OBVIOUS
  <1>1. e \in Seq(Names)
    BY Paths
  <1> QED
    BY <1>1, PrefixElements

LEMMA Appended ==
    ASSUME NEW S, NEW s \in Seq(S), NEW e \in S
    PROVE  /\ DOMAIN s = 1 .. Len(s) /\ Len(s) \in Nat
           /\ \A i \in DOMAIN Append(s, e) :
                 \/ i \in DOMAIN s /\ Append(s, e)[i] = s[i]
                 \/ i = Len(s) + 1 /\ Append(s, e)[i] = e
  <1> DEFINE a == Append(s, e)
  <1>1. /\ a \in Seq(S) /\ Len(a) = Len(s) + 1 /\ a[Len(s) + 1] = e
        /\ \A i \in 1 .. Len(s) : a[i] = s[i]
    BY AppendProperties
  <1>2. DOMAIN s = 1 .. Len(s) /\ Len(s) \in Nat
    BY LenProperties
  <1>3. DOMAIN a = 1 .. Len(a)
    BY <1>1, LenProperties
  <1> HIDE DEF a
  <1>4. \A i \in DOMAIN a : i \in 1 .. Len(s) \/ i = Len(s) + 1
    BY <1>1, <1>2, <1>3
  <1> QED
    BY <1>1, <1>2, <1>4 DEF a

\* An entry is taken from the unread ones; what is listed stays, or it is listed.
LEMMA ReadsTwice ==
    ASSUME ScanInv, TwiceInv, scan = "on", scan' = scan, made' = made,
           NEW g \in Last(stack).unread, stack' = Without(g), list' \in Seq(Files),
           list' = list \/ (g \in Files /\ list' = Append(list, g))
    PROVE  TwiceInv'
  <1>1. stack \in Seq(Frame) /\ stack # <<>> /\ ChainInv /\ UnreadInv /\ list \in Seq(Files)
    BY DEF ScanInv, TwiceInv
  <1>2. /\ stack' \in Seq(Frame) /\ Len(stack') = Len(stack)
        /\ \A i \in DOMAIN stack :
              /\ stack'[i].dir = stack[i].dir
              /\ stack'[i].unread \subseteq stack[i].unread
              /\ \A e \in stack'[i].unread : Clean(e) => ~IsPrefix(e, g)
    BY <1>1, WithoutChain
  <1>3. DOMAIN stack' = DOMAIN stack
    BY <1>1, <1>2, LenProperties
  <1>4. ChainInv'
    BY <1>1, <1>2, <1>3 DEF ChainInv
  <1>5. /\ DOMAIN list = 1 .. Len(list) /\ Len(list) \in Nat
        /\ \A i \in DOMAIN list' :
              \/ i \in DOMAIN list /\ list'[i] = list[i]
              \/ i = Len(list) + 1 /\ list'[i] = g
    <2>1. CASE g \in Files /\ list' = Append(list, g)
      BY <1>1, <2>1, Appended
    <2>2. CASE list' = list
      <3>1. DOMAIN list = 1 .. Len(list) /\ Len(list) \in Nat
        BY <1>1, LenProperties
      <3> QED
        BY <2>2, <3>1
    <2> QED
      BY <2>1, <2>2
  <1>6. UnreadInv'
    <2> SUFFICES ASSUME NEW i \in DOMAIN stack, NEW e \in stack'[i].unread, Clean(e)
                 PROVE  /\ \A k \in DOMAIN stack : ~IsPrefix(e, stack'[k].dir)
                        /\ \A f \in Range(list') : ~IsPrefix(e, f)
      BY <1>3 DEF UnreadInv, Clean
    <2>1. e \in stack[i].unread /\ ~IsPrefix(e, g)
      BY <1>2
    <2>2. Range(list') \subseteq Range(list) \cup {g}
      BY <1>5 DEF Range
    <2> QED
      BY <1>1, <1>2, <2>1, <2>2 DEF UnreadInv
  <1>7. g \in Range(list) => \E m \in made : IsPrefix(m, g)
    <2>1. Len(stack) \in DOMAIN stack /\ g \in stack[Len(stack)].unread /\ g \in Entries
      BY <1>1, FrameParts, EmptySeq DEF Last
    <2>2. Clean(g) => g \notin Range(list)
      BY <1>1, <2>1, SelfPrefix DEF UnreadInv
    <2> QED
      BY <2>2 DEF Clean
  <1>8. TwiceOnlyIfMade'
    <2> SUFFICES ASSUME NEW i \in DOMAIN list', NEW j \in DOMAIN list', i # j, list'[i] = list'[j]
                 PROVE  \E m \in made : IsPrefix(m, list'[i])
      BY DEF TwiceOnlyIfMade
    <2>1. CASE i \in DOMAIN list /\ list'[i] = list[i] /\ j \in DOMAIN list /\ list'[j] = list[j]
      BY <2>1 DEF TwiceInv, TwiceOnlyIfMade
    <2>2. CASE \/ list'[i] = g /\ j \in DOMAIN list /\ list'[j] = list[j]
               \/ list'[j] = g /\ i \in DOMAIN list /\ list'[i] = list[i]
      BY <1>7, <2>2 DEF Range
    <2>3. \/ i \in DOMAIN list /\ list'[i] = list[i]
          \/ i = Len(list) + 1 /\ list'[i] = g
      BY <1>5
    <2>4. \/ j \in DOMAIN list /\ list'[j] = list[j]
          \/ j = Len(list) + 1 /\ list'[j] = g
      BY <1>5
    <2> QED
      BY <2>1, <2>2, <2>3, <2>4
  <1> QED
    BY <1>4, <1>6, <1>8 DEF TwiceInv

\* Nothing in a directory that is opened has been read, if its entry was clean.
LEMMA OpensTwice ==
    ASSUME ScanInv, TwiceInv, scan = "on", made' = made, list' = list,
           NEW d \in Dirs, d \in Last(stack).unread, Descend(d, Without(d))
    PROVE  TwiceInv'
  <1> DEFINE n == Len(stack)
  <1>1. stack \in Seq(Frame) /\ stack # <<>> /\ ChainInv /\ UnreadInv
    BY DEF ScanInv, TwiceInv
  <1>2. TwiceOnlyIfMade'
    BY DEF TwiceInv, TwiceOnlyIfMade
  <1>3. CASE ~CanOpen(d)
    <2>1. stack' = <<>> /\ scan' = "crashed"
      BY <1>3 DEF Descend
    <2> QED
      BY <1>2, <2>1 DEF TwiceInv, ChainInv, UnreadInv
  <1>4. CASE CanOpen(d)
    <2> DEFINE s == Without(d)
               t == [dir |-> d, unread |-> In(d), unsure |-> {}]
    <2>1. stack' = Append(s, t) /\ scan' = "on"
      BY <1>4 DEF Descend
    <2>2. /\ s \in Seq(Frame) /\ Len(s) = n
          /\ \A i \in DOMAIN stack :
                /\ s[i].dir = stack[i].dir
                /\ s[i].unread \subseteq stack[i].unread
                /\ \A e \in s[i].unread : Clean(e) => ~IsPrefix(e, d)
      BY <1>1, WithoutChain
    <2>3. /\ n \in Nat \ {0} /\ DOMAIN stack = 1 .. n /\ n \in DOMAIN stack
          /\ d \in stack[n].unread /\ d \in Seq(Names)
      BY <1>1, FrameParts, EmptySeq, Paths DEF Last, Entries
    <2>4. t.dir = d /\ t.unread = In(d) /\ t \in Frame
      BY DEF Frame, In, ScanInv
    <2> HIDE DEF s, t, n
    <2>5. /\ DOMAIN stack' = 1 .. n + 1 /\ stack'[n + 1] = t
          /\ \A i \in 1 .. n : stack'[i] = s[i]
      BY <2>1, <2>2, <2>3, <2>4
    <2>6. Len(d) = n
      <3>1. d # <<>> /\ Front(d) = stack[n].dir /\ Len(stack[n].dir) = n - 1
        BY <1>1, <2>3 DEF ChainInv
      <3>2. 0 \in 0 .. Len(d) - 1 /\ Len(d) \in Nat
        BY <2>3, <3>1, EmptySeq
      <3>3. Len(Front(d)) = Len(d) - 1
        BY <2>3, <3>1, <3>2, FrontCuts
      <3> QED
        BY <2>3, <3>1, <3>2, <3>3
    <2>7. ChainInv'
      <3>1. ASSUME NEW i \in DOMAIN stack' PROVE Len(stack'[i].dir) = i - 1
        BY <1>1, <2>2, <2>3, <2>4, <2>5, <2>6 DEF ChainInv
      <3>2. ASSUME NEW i \in DOMAIN stack', NEW e \in stack'[i].unread
            PROVE  e # <<>> /\ Front(e) = stack'[i].dir
        BY <1>1, <2>2, <2>3, <2>4, <2>5 DEF ChainInv, In
      <3> QED
        BY <3>1, <3>2 DEF ChainInv
    <2>8. UnreadInv'
      <3>1. ASSUME NEW i \in 1 .. n, NEW e \in s[i].unread, Clean(e)
            PROVE  /\ \A k \in DOMAIN stack' : ~IsPrefix(e, stack'[k].dir)
                   /\ \A f \in Range(list) : ~IsPrefix(e, f)
        BY <1>1, <2>2, <2>3, <2>4, <2>5, <3>1 DEF UnreadInv
      <3>2. ASSUME NEW c \in In(d), Clean(c)
            PROVE  /\ \A k \in DOMAIN stack' : ~IsPrefix(c, stack'[k].dir)
                   /\ \A f \in Range(list) : ~IsPrefix(c, f)
        <4>1. c \in Entries /\ c \in Seq(Names) /\ c # <<>> /\ Front(c) = d
          BY Paths DEF In, ScanInv
        <4>2. Len(c) = n + 1 /\ IsPrefix(d, c)
          <5>1. 0 \in 0 .. Len(c) - 1 /\ Len(c) \in Nat
            BY <4>1, EmptySeq
          <5>2. Len(d) = Len(c) - 1
            BY <4>1, <5>1, FrontCuts
          <5>3. Len(c) - 1 \in 0 .. Len(c)
            BY <5>1
          <5>4. Len(c) = n + 1
            BY <2>6, <5>1, <5>2
          <5>5. IsPrefix(SubSeq(c, 1, Len(c) - 1), c)
            BY <4>1, <5>3, Cut
          <5>6. SubSeq(c, 1, Len(c) - 1) = d
            BY <4>1 DEF Front
          <5> QED
            BY <5>4, <5>5, <5>6
        <4>3. ASSUME NEW k \in DOMAIN stack' PROVE ~IsPrefix(c, stack'[k].dir)
          <5>1. stack'[k].dir \in Seq(Names) /\ Len(stack'[k].dir) < n + 1
            <6>1. CASE k = n + 1
              BY <2>3, <2>4, <2>5, <2>6, <6>1
            <6>2. CASE k \in 1 .. n
              BY <1>1, <2>2, <2>3, <2>5, <6>2, FrameParts DEF ChainInv
            <6> QED
              BY <2>3, <2>5, <6>1, <6>2
          <5>2. Len(stack'[k].dir) \in Nat
            BY <5>1
          <5> QED
            BY <2>3, <4>1, <4>2, <5>1, <5>2, PrefixElements
        <4>4. Clean(d)
          <5> SUFFICES ASSUME NEW m \in made, IsPrefix(m, d) PROVE FALSE
            BY DEF Clean
          <5>1. m \in Seq(Names)
            BY Paths DEF TwiceInv
          <5>2. IsPrefix(m, c)
            BY <2>3, <4>1, <4>2, <5>1, PrefixTransitive
          <5> QED
            BY <3>2, <5>2 DEF Clean
        <4>5. ASSUME NEW f \in Range(list), IsPrefix(c, f) PROVE FALSE
          <5>1. f \in Seq(Names)
            BY Paths DEF ScanInv, Range, Entries
          <5>2. IsPrefix(d, f)
            BY <2>3, <4>1, <4>2, <4>5, <5>1, PrefixTransitive
          <5> QED
            BY <1>1, <2>3, <4>4, <4>5, <5>2 DEF UnreadInv
        <4> QED
          BY <4>3, <4>5
      <3> QED
        BY <2>3, <2>4, <2>5, <3>1, <3>2 DEF UnreadInv, Clean
    <2> QED
      BY <1>2, <2>1, <2>7, <2>8 DEF TwiceInv
  <1> QED
    BY <1>3, <1>4

\* The end of a directory closes it.
LEMMA AscendsTwice ==
    ASSUME ScanInv, TwiceInv, Ascend
    PROVE  TwiceInv'
  <1> DEFINE n == Len(stack)
  <1>1. /\ stack \in Seq(Frame) /\ stack # <<>> /\ stack' = Front(stack)
        /\ UNCHANGED <<list, made>> /\ scan' # "off"
    BY DEF Ascend, ScanInv, tree
  <1>2. n \in Nat \ {0} /\ DOMAIN stack = 1 .. n
    BY <1>1, EmptySeq, LenProperties
  <1>3. stack' \in Seq(Frame) /\ Len(stack') = n - 1 /\ \A i \in 1 .. n - 1 : stack'[i] = stack[i]
    <2>1. n - 1 \in 0 .. Len(stack)
      BY <1>2
    <2> QED
      BY <1>1, <2>1, Cut DEF Front
  <1>4. DOMAIN stack' = 1 .. n - 1
    BY <1>3, LenProperties
  <1>5. DOMAIN stack' \subseteq DOMAIN stack /\ \A i \in DOMAIN stack' : stack'[i] = stack[i]
    BY <1>2, <1>3, <1>4
  <1> QED
    BY <1>1, <1>5 DEF TwiceInv, ChainInv, UnreadInv, TwiceOnlyIfMade, Clean

\* What is unread when the walk begins is directly in SOURCE.
LEMMA StartsTwice ==
    ASSUME ScanInv, TwiceInv, StartScan
    PROVE  TwiceInv'
  <1>1. /\ scan = "off" /\ Descend(<<>>, <<>>) /\ made' = {} /\ list' = <<>>
    BY DEF StartScan, ScanInv, TwiceInv
  <1>2. TwiceOnlyIfMade'
    BY <1>1 DEF TwiceOnlyIfMade
  <1>3. CASE ~CanOpen(<<>>)
    <2>1. stack' = <<>>
      BY <1>1, <1>3 DEF Descend
    <2> QED
      BY <1>1, <1>2, <2>1 DEF TwiceInv, ChainInv, UnreadInv
  <1>4. CASE CanOpen(<<>>)
    <2> DEFINE t == [dir |-> <<>>, unread |-> In(<<>>), unsure |-> {}]
    <2>1. stack' = Append(<<>>, t)
      BY <1>1, <1>4 DEF Descend
    <2>2. t.dir = <<>> /\ t.unread = In(<<>>)
      OBVIOUS
    <2> HIDE DEF t
    <2>3. DOMAIN stack' = {1} /\ stack'[1] = t
      BY <2>1
    <2>4. \A e \in In(<<>>) : e \in Seq(Names) /\ e # <<>> /\ Front(e) = <<>>
      BY Paths DEF In, ScanInv
    <2>5. ChainInv'
      BY <2>2, <2>3, <2>4 DEF ChainInv
    <2>6. \A e \in In(<<>>) : ~IsPrefix(e, <<>>)
      <3> SUFFICES ASSUME NEW e \in In(<<>>), IsPrefix(e, <<>>) PROVE FALSE
        OBVIOUS
      <3> DEFINE root == <<>>
      <3>1. Len(e) \in Nat \ {0} /\ e \in Seq(Names)
        BY <2>4, EmptySeq
      <3>2. root \in Seq(Names) /\ Len(root) = 0 /\ IsPrefix(e, root)
        OBVIOUS
      <3> HIDE DEF root
      <3>3. Len(e) <= Len(root)
        BY <3>1, <3>2, PrefixElements
      <3> QED
        BY <3>1, <3>2, <3>3
    <2>7. UnreadInv'
      BY <1>1, <2>2, <2>3, <2>6 DEF UnreadInv, Range
    <2> QED
      BY <1>1, <1>2, <2>5, <2>7 DEF TwiceInv
  <1> QED
    BY <1>3, <1>4

\* The user makes paths unclean, never clean, and opens no directory.
LEMMA UserTwice ==
    ASSUME ScanInv, TwiceInv, NEW e \in Entries, Create(e) \/ Unlink(e)
    PROVE  TwiceInv'
  <1>1. stack \in Seq(Frame)
    BY DEF ScanInv
  <1>2. /\ UNCHANGED <<scan, list>> /\ scan = "on"
        /\ made \subseteq made' /\ made' \subseteq made \cup {e}
    BY DEF Create, Unlink, Edits
  <1>3. /\ DOMAIN stack' = DOMAIN stack
        /\ \A i \in DOMAIN stack :
              /\ stack'[i].dir = stack[i].dir
              /\ \A u \in stack'[i].unread :
                    \/ u \in stack[i].unread
                    \/ u = e /\ e # <<>> /\ Front(e) = stack[i].dir /\ e \in made'
    <2>1. CASE Unlink(e)
      <3> DEFINE After(d) == [d EXCEPT !.unsure = @ \cup (d.unread \cap Under(e))]
      <3>1. stack' = [i \in DOMAIN stack |-> After(stack[i])]
        BY <2>1 DEF Unlink
      <3>2. \A d \in Frame : After(d).dir = d.dir /\ After(d).unread = d.unread
        BY DEF Frame
      <3> HIDE DEF After
      <3> QED
        BY <1>1, <3>1, <3>2, FrameParts
    <2>2. CASE Create(e)
      <3> DEFINE After(d) == IF d.dir = Front(e)
                             THEN [d EXCEPT !.unread = @ \cup {e}, !.unsure = @ \cup {e}] ELSE d
      <3>1. /\ stack' = [i \in DOMAIN stack |-> After(stack[i])]
            /\ e # <<>> /\ e \in made'
        BY <2>2 DEF Create
      <3>2. \A d \in Frame :
               /\ After(d).dir = d.dir
               /\ \A u \in After(d).unread : u \in d.unread \/ (u = e /\ Front(e) = d.dir)
        BY DEF Frame
      <3> HIDE DEF After
      <3> QED
        BY <1>1, <3>1, <3>2, FrameParts
    <2> QED
      BY <2>1, <2>2
  <1>4. ChainInv'
    BY <1>3 DEF TwiceInv, ChainInv
  <1>5. \A u : Clean(u)' => Clean(u)
    BY <1>2 DEF Clean
  <1>6. e \in made' => ~Clean(e)'
    BY SelfPrefix DEF Clean
  <1>7. UnreadInv'
    BY <1>2, <1>3, <1>5, <1>6 DEF TwiceInv, UnreadInv
  <1>8. TwiceOnlyIfMade'
    BY <1>2 DEF TwiceInv, TwiceOnlyIfMade
  <1> QED
    BY <1>2, <1>4, <1>7, <1>8 DEF TwiceInv

LEMMA WalkTwice == ScanInv /\ TwiceInv /\ Walk => TwiceInv'
  <1> SUFFICES ASSUME ScanInv, TwiceInv, Walk PROVE TwiceInv'
    OBVIOUS
  <1>1. ASSUME NEW f \in Files, ReadFile(f) PROVE TwiceInv'
    <2>1. /\ scan = "on" /\ scan' = scan /\ made' = made
          /\ f \in Last(stack).unread /\ stack' = Without(f)
          /\ list' = list \/ list' = Append(list, f)
      BY <1>1 DEF ReadFile, Reads, Add, tree
    <2>2. list' \in Seq(Files)
      BY <2>1, AppendProperties DEF ScanInv
    <2> QED
      BY <2>1, <2>2, ReadsTwice
  <1>2. ASSUME NEW d \in Dirs, ReadDir(d) PROVE TwiceInv'
    BY <1>2, OpensTwice DEF ReadDir, Reads, tree
  <1>3. ASSUME NEW e \in Opaque, ReadOther(e) PROVE TwiceInv'
    BY <1>3, ReadsTwice DEF ReadOther, Reads, tree, ScanInv
  <1>4. CASE Ascend
    BY <1>4, AscendsTwice
  <1> QED
    BY <1>1, <1>2, <1>3, <1>4 DEF Walk

LEMMA TwiceStep == ScanInv /\ TwiceInv /\ [Next]_vars => TwiceInv'
  <1> SUFFICES ASSUME ScanInv, TwiceInv, [Next]_vars PROVE TwiceInv'
    OBVIOUS
  <1>1. CASE StartScan
    BY <1>1, StartsTwice
  <1>2. CASE Walk
    BY <1>2, WalkTwice
  <1>3. CASE User
    BY <1>3, UserTwice DEF User
  <1>4. CASE ~StartScan /\ ~Walk /\ ~User
    <2>1. UNCHANGED <<walk, tree>>
      BY <1>4 DEF Next, Main, ReadOption, Check, VerifySource, CheckAuth, CreateBucket, Created, NotCreated,
         CreateElsewhere, OpenStorage, Statement, Rebuild, AddDatabase, Scan, Taken, Local, Outside, vars
    <2> QED
      BY <2>1 DEF TwiceInv, ChainInv, UnreadInv, TwiceOnlyIfMade, Clean, walk, tree
  <1> QED
    BY <1>1, <1>2, <1>3, <1>4

\* recurseIn and add: a path is twice in the list, where it breaks the primary key
\* of calculateListOfFilesToDelete, only if the user put it or a directory above it
\* there while clarc was reading.
THEOREM TwiceIfMade == FairSpec => []TwiceOnlyIfMade
  <1>1. TwiceInv => TwiceOnlyIfMade
    BY DEF TwiceInv
  <1> QED
    BY <1>1, ScanStart, ScanStep, TwiceStart, TwiceStep, PTL DEF FairSpec

(***************************************************************************)
(* The types, the arrays among them.                                       *)
(***************************************************************************)
\* What the variables of main hold.
OwnInv ==
    /\ pc \in Steps
    /\ [options |-> line, source |-> kind, dest |-> given] \in CommandLines
    /\ opts.number \in [DOMAIN Limit -> Nat]
    /\ \A n \in DOMAIN Limit : opts.number[n] < Limit[n]
    /\ opts.region \in Regions \cup {None}
    /\ bucket \in {"none", "ours", "others"}
    /\ region \in Regions \cup {None}
    /\ redirects \in 0 .. MaxRedirects
    /\ tables \subseteq {"files", "meta"}

\* What those of the walk hold; each array has room for its elements.
ArrayInv ==
    /\ scan \in {"off", "on", "done", "crashed"}
    /\ allocCount \in Nat /\ Len(list) < allocCount
    /\ patterns \in Seq(SUBSET Files) /\ size \in Nat /\ Len(patterns) <= size
    /\ Len(stack) <= MaxOpen
    /\ seen \subseteq Entries /\ made \subseteq seen /\ steady \subseteq seen
    /\ edits \in 0 .. MaxEdits

LEMMA Limits == DOMAIN Limit = {"uploadThreads", "connectTimeout", "networkTimeout", "logLevel"}
                /\ \A n \in DOMAIN Limit : Limit[n] \in Nat \ {0}
  BY DEF Limit

LEMMA TypesStart == Init => OwnInv /\ ArrayInv
  <1> SUFFICES ASSUME Init PROVE OwnInv /\ ArrayInv
    OBVIOUS
  <1>1. [options |-> line, source |-> kind, dest |-> given] \in CommandLines
    BY CommandLinesAssumption DEF Init
  <1>2. opts.number = [n \in DOMAIN Limit |-> 0] /\ opts.region = None
    BY DEF Init
  <1>3. pc \in Steps /\ bucket \in {"none", "ours", "others"} /\ region = None /\ redirects = 0
        /\ tables \subseteq {"files", "meta"}
    BY DEF Init, Steps
  <1>4. OwnInv
    BY <1>1, <1>2, <1>3, Limits, CommandLinesAssumption DEF OwnInv
  <1>5. /\ scan = "off" /\ list = <<>> /\ stack = <<>> /\ patterns = <<>> /\ allocCount = Grow /\ size = Grow
        /\ seen = {} /\ made = {} /\ steady = {} /\ edits = 0
    BY DEF Init, ScanInit
  <1>6. ArrayInv
    BY <1>5, SizesAssumption DEF ArrayInv
  <1> QED
    BY <1>4, <1>6

\* An option that does not end the process stores what fits.
LEMMA OptionTypes ==
    ASSUME OwnInv, ReadInv, ArrayInv, ReadOption
    PROVE  OwnInv' /\ ArrayInv'
  <1> DEFINE o == line[optind + 1]
             c == [options |-> line, source |-> kind, dest |-> given]
  <1>1. optind + 1 \in DOMAIN line
    BY DEF ReadInv, ReadOption
  <1>2. Option(o)
    <2>1. c \in CommandLines /\ c.options = line
      BY DEF OwnInv
    <2> QED
      BY <1>1, <2>1, CommandLinesAssumption
  <1>3. /\ UNCHANGED <<line, given, kind, destination, cloud, tables, walk, tree>>
        /\ \/ pc' = "exited" /\ UNCHANGED <<opts, filter>>
           \/ ~Ends(o) /\ o.name = "exclude" /\ AddPatterns(o.matches) /\ UNCHANGED <<pc, opts>>
           \/ ~Ends(o) /\ o.name # "exclude" /\ opts' = Stores(o) /\ UNCHANGED <<pc, filter>>
    BY DEF ReadOption, Goes, Outside
  <1> HIDE DEF o
  <1>4. /\ opts'.number \in [DOMAIN Limit -> Nat]
        /\ \A n \in DOMAIN Limit : opts'.number[n] < Limit[n]
        /\ opts'.region \in Regions \cup {None}
    <2>1. CASE UNCHANGED opts
      BY <2>1 DEF OwnInv
    <2>2. CASE ~Ends(o) /\ opts' = Stores(o)
      <3>1. /\ opts'.region = IF o.name = "create" THEN o.region ELSE opts.region
            /\ opts'.number = IF o.name \in DOMAIN Limit
                              THEN [opts.number EXCEPT ![o.name] = o.number] ELSE opts.number
        BY <2>2, Stored DEF ReadInv
      <3>2. o.name = "create" => o.region \in Regions
        BY <2>2 DEF Ends
      <3>3. ASSUME o.name \in DOMAIN Limit PROVE o.number \in Nat /\ o.number < Limit[o.name]
        <4>1. o.number \in Int
          BY <1>2, <3>3, Limits DEF Option
        <4>2. o.number > 0 /\ o.number < Limit[o.name]
          BY <2>2, <3>3 DEF Ends, Fits
        <4> QED
          BY <4>1, <4>2
      <3> QED
        BY <3>1, <3>2, <3>3 DEF OwnInv
    <2> QED
      BY <1>3, <2>1, <2>2
  <1>5. patterns' \in Seq(SUBSET Files) /\ size' \in Nat /\ Len(patterns') <= size'
    <2>1. CASE UNCHANGED filter
      BY <2>1 DEF filter, ArrayInv
    <2>2. CASE o.name = "exclude" /\ AddPatterns(o.matches)
      <3>1. o.matches \in Seq(SUBSET Files)
        BY <1>2, <2>2, Limits DEF Option
      <3> DEFINE r == WithPatterns(patterns, size, o.matches)
      <3>2. r.patterns \in Seq(SUBSET Files) /\ r.size \in Nat /\ Len(r.patterns) <= r.size
        BY <3>1, Room DEF ArrayInv
      <3>3. patterns' = r.patterns /\ size' = r.size
        BY <2>2 DEF AddPatterns
      <3> QED
        BY <3>2, <3>3
    <2> QED
      BY <1>3, <2>1, <2>2
  <1>6. pc' \in Steps
    BY <1>3 DEF OwnInv, Steps
  <1>7. OwnInv'
    BY <1>3, <1>4, <1>6 DEF OwnInv, cloud
  <1>8. ArrayInv'
    BY <1>3, <1>5 DEF ArrayInv, walk, tree
  <1> QED
    BY <1>7, <1>8

\* Main sets what is its own to what its steps and the answers can be.
LEMMA MainTypes ==
    ASSUME OwnInv, StartInv, Check \/ VerifySource \/ CheckAuth \/ CreateBucket \/ OpenStorage
                   \/ Rebuild \/ AddDatabase \/ Scan \/ Taken
    PROVE  OwnInv'
  <1> USE DEF OwnInv, Local, Goes, Steps, input, cloud, own
  <1>1. CASE Check
    BY <1>1 DEF Check
  <1>2. CASE VerifySource
    BY <1>2 DEF VerifySource
  <1>3. CASE CheckAuth
    BY <1>3 DEF CheckAuth
  <1>4. CASE Created \/ NotCreated
    BY <1>4 DEF Created, NotCreated
  <1>5. CASE CreateElsewhere
    BY <1>5, CommandLinesAssumption DEF CreateElsewhere
  <1>6. CASE OpenStorage
    BY <1>6 DEF OpenStorage, Statement
  <1>7. CASE Rebuild
    BY <1>7 DEF Rebuild
  <1>8. CASE AddDatabase
    BY <1>8 DEF AddDatabase
  <1>9. CASE Scan
    BY <1>9 DEF Scan
  <1>10. CASE Taken
    BY <1>10 DEF Taken
  <1> QED
    BY <1>1, <1>2, <1>3, <1>4, <1>5, <1>6, <1>7, <1>8, <1>9, <1>10 DEF CreateBucket

LEMMA SameLen ==
    ASSUME NEW S, NEW s \in Seq(S), NEW t \in Seq(S), DOMAIN s = DOMAIN t
    PROVE  Len(s) = Len(t)
  <1> DEFINE m == Len(s)
             n == Len(t)
  <1>1. DOMAIN s = 1 .. m /\ DOMAIN t = 1 .. n /\ m \in Nat /\ n \in Nat
    BY LenProperties
  <1>2. 1 .. m = 1 .. n
    BY <1>1, Zenon
  <1> HIDE DEF m, n
  <1>3. m = n
    BY <1>1, <1>2
  <1> QED
    BY <1>3 DEF m, n

\* A directory is opened only if the process may open one more.
LEMMA OpenedRoom ==
    ASSUME NEW d, NEW s \in Seq(Frame), Len(s) = Len(stack), stack \in Seq(Frame), d \in Dirs,
           there \subseteq Entries, Len(stack) <= MaxOpen, Descend(d, s)
    PROVE  Len(stack') <= MaxOpen /\ scan' \in {"on", "crashed"}
  <1>1. CASE CanOpen(d)
    <2> DEFINE t == [dir |-> d, unread |-> In(d), unsure |-> {}]
    <2>1. stack' = Append(s, t) /\ scan' = "on" /\ Len(stack) < MaxOpen
      BY <1>1 DEF Descend, CanOpen
    <2>2. t \in Frame
      BY DEF Frame, In
    <2> HIDE DEF t
    <2>3. Len(stack') = Len(s) + 1 /\ Len(s) \in Nat
      BY <2>1, <2>2, AppendProperties
    <2> QED
      BY <2>1, <2>3, SizesAssumption
  <1>2. CASE ~CanOpen(d)
    BY <1>2, SizesAssumption DEF Descend
  <1> QED
    BY <1>1, <1>2

\* add: the array of the paths has grown before it is full.
LEMMA AddedRoom ==
    ASSUME ScanInv, ArrayInv, NEW f \in Files,
           Add(f) \/ UNCHANGED <<list, allocCount>>
    PROVE  allocCount' \in Nat /\ Len(list') < allocCount'
  <1>1. CASE UNCHANGED <<list, allocCount>>
    BY <1>1 DEF ArrayInv
  <1>2. CASE list' = Append(list, f) /\ allocCount' = IF Len(list') >= allocCount THEN allocCount + Grow ELSE allocCount
    <2>1. Len(list') = Len(list) + 1 /\ Len(list) \in Nat
      BY <1>2, AppendProperties DEF ScanInv
    <2> QED
      BY <1>2, <2>1, SizesAssumption DEF ArrayInv
  <1> QED
    BY <1>1, <1>2 DEF Add

LEMMA WalkTypes ==
    ASSUME ScanInv, TwiceInv, ArrayInv, Walk
    PROVE  ArrayInv'
  <1>1. stack \in Seq(Frame) /\ stack # <<>> /\ ChainInv /\ UnreadInv /\ scan = "on"
        /\ UNCHANGED <<filter, tree>>
    BY DEF ScanInv, TwiceInv, Walk, ReadFile, ReadDir, ReadOther, Ascend, Reads
  <1>2. \A g \in Last(stack).unread : Without(g) \in Seq(Frame) /\ Len(Without(g)) = Len(stack)
    BY <1>1, WithoutChain
  <1>3. allocCount' \in Nat /\ Len(list') < allocCount'
    <2>1. ASSUME NEW f \in Files, ReadFile(f) PROVE allocCount' \in Nat /\ Len(list') < allocCount'
      BY <2>1, AddedRoom DEF ReadFile
    <2>2. CASE UNCHANGED <<list, allocCount>>
      BY <2>2 DEF ArrayInv
    <2> QED
      BY <2>1, <2>2 DEF Walk, ReadDir, ReadOther, Ascend
  <1>4. Len(stack') <= MaxOpen /\ scan' \in {"off", "on", "done", "crashed"}
    <2>1. ASSUME NEW f \in Files, ReadFile(f) PROVE Len(stack') <= MaxOpen /\ scan' = scan
      BY <1>2, <2>1 DEF ReadFile, Reads, ArrayInv
    <2>2. ASSUME NEW d \in Dirs, ReadDir(d) PROVE Len(stack') <= MaxOpen /\ scan' \in {"on", "crashed"}
      <3>1. d \in Last(stack).unread /\ Descend(d, Without(d))
        BY <2>2 DEF ReadDir, Reads
      <3> QED
        BY <1>1, <1>2, <3>1, OpenedRoom DEF ArrayInv, ScanInv
    <2>3. ASSUME NEW e \in Opaque, ReadOther(e) PROVE Len(stack') <= MaxOpen /\ scan' = scan
      BY <1>2, <2>3 DEF ReadOther, Reads, ArrayInv
    <2>4. CASE Ascend
      <3>1. stack' = Front(stack) /\ scan' \in {"on", "done"}
        BY <1>1, <2>4 DEF Ascend
      <3>2. Len(stack) \in Nat \ {0}
        BY <1>1, EmptySeq
      <3>3. Len(stack) - 1 \in 0 .. Len(stack)
        BY <3>2
      <3>4. Len(Front(stack)) = Len(stack) - 1
        BY <1>1, <3>3, Cut DEF Front
      <3> QED
        BY <3>1, <3>2, <3>4, SizesAssumption DEF ArrayInv
    <2> QED
      BY <1>1, <2>1, <2>2, <2>3, <2>4 DEF Walk
  <1> QED
    BY <1>1, <1>3, <1>4 DEF ArrayInv, filter, tree

LEMMA OthersTypes ==
    ASSUME ScanInv, ScanInv', TwiceInv, ArrayInv, StartScan \/ User \/ AddDatabase
    PROVE  ArrayInv'
  <1>1. CASE StartScan
    <2> DEFINE root == <<>>
    <2>1. /\ stack = root /\ root \in Seq(Frame) /\ root \in Dirs /\ Descend(root, root)
          /\ UNCHANGED <<list, allocCount, filter, made, edits>> /\ seen' = there /\ steady' = there /\ made = {}
      BY <1>1, TreeAssumption DEF StartScan, ScanInv, TwiceInv
    <2> HIDE DEF root
    <2>2. Len(stack') <= MaxOpen /\ scan' \in {"on", "crashed"}
      BY <2>1, OpenedRoom DEF ScanInv, ArrayInv
    <2> QED
      BY <2>1, <2>2 DEF ArrayInv, ScanInv, filter
  <1>2. CASE User
    <2>1. PICK e \in Entries : Create(e) \/ Unlink(e)
      BY <1>2 DEF User
    <2>2. DOMAIN stack' = DOMAIN stack /\ UNCHANGED <<scan, list, allocCount, filter>>
      BY <2>1 DEF Create, Unlink, Edits
    <2>3. Len(stack') = Len(stack)
      <3>1. stack \in Seq(Frame) /\ stack' \in Seq(Frame)
        BY DEF ScanInv
      <3>2. DOMAIN stack = DOMAIN stack'
        BY <2>2
      <3> QED
        BY <3>1, <3>2, SameLen, Zenon
    <2>4. /\ edits' \in 0 .. MaxEdits
          /\ seen' \subseteq Entries /\ made' \subseteq seen' /\ steady' \subseteq seen'
      <3>1. edits < MaxEdits /\ edits' = edits + 1
        BY <2>1 DEF Create, Unlink, Edits
      <3>2. edits' \in 0 .. MaxEdits
        BY <3>1, SizesAssumption DEF ArrayInv
      <3>3. /\ seen' = seen \/ seen' = seen \cup {e}
            /\ \/ made' = made
               \/ made' = made \cup {e} /\ e \in seen'
            /\ seen \subseteq seen' /\ steady' \subseteq steady
        BY <2>1 DEF Create, Unlink
      <3>4. seen' \subseteq Entries
        BY <3>3 DEF ArrayInv
      <3>5. made' \subseteq seen' /\ steady' \subseteq seen'
        BY <3>3 DEF ArrayInv
      <3> QED
        BY <3>2, <3>4, <3>5
    <2> QED
      BY <2>2, <2>3, <2>4 DEF ArrayInv, filter
  <1>3. CASE AddDatabase
    <2> DEFINE r == WithPatterns(patterns, size, DatabasePatterns)
    <2>1. DatabasePatterns \in Seq(SUBSET Files)
      <3>1. DOMAIN DatabaseNames = 1 .. Len(DatabaseNames) /\ Len(DatabaseNames) \in Nat
        BY TreeAssumption, LenProperties
      <3> QED
        BY <3>1 DEF DatabasePatterns
    <2>2. r.patterns \in Seq(SUBSET Files) /\ r.size \in Nat /\ Len(r.patterns) <= r.size
      BY <2>1, Room DEF ArrayInv
    <2>3. patterns' = r.patterns /\ size' = r.size /\ UNCHANGED <<walk, tree>>
      BY <1>3 DEF AddDatabase, AddPatterns, Outside
    <2> QED
      BY <2>2, <2>3 DEF ArrayInv, walk, tree
  <1> QED
    BY <1>1, <1>2, <1>3

\* Whatever options, patterns and trees clarc is given, its arrays have room for
\* what it puts into them, no more directories are open than a process may have,
\* and the numbers of the options are below their limits.
THEOREM StartupTyped == FairSpec => []TypeOK
  <1> DEFINE I == StartInv /\ ScanInv /\ TwiceInv /\ OwnInv /\ ArrayInv
  <1>1. Init => I
    BY StartInit, ScanStart, TwiceStart, TypesStart
  <1>2. I /\ [Next]_vars => I'
    <2> SUFFICES ASSUME I, [Next]_vars PROVE I'
      OBVIOUS
    <2>1. StartInv' /\ ScanInv' /\ TwiceInv'
      BY StartStep, ScanStep, TwiceStep
    <2>2. OwnInv'
      <3>1. CASE ReadOption
        BY <3>1, OptionTypes DEF StartInv
      <3>2. CASE UNCHANGED own
        BY <3>2 DEF own, input, cloud, OwnInv
      <3>3. CASE Check \/ VerifySource \/ CheckAuth \/ CreateBucket \/ OpenStorage \/ Rebuild
                 \/ AddDatabase \/ Scan \/ Taken
        BY <3>3, MainTypes
      <3> QED
        BY <3>1, <3>2, <3>3 DEF Next, Main, vars
    <2>3. ArrayInv'
      <3>1. CASE ReadOption
        BY <3>1, OptionTypes DEF StartInv
      <3>2. CASE StartScan \/ User \/ AddDatabase
        BY <2>1, <3>2, OthersTypes
      <3>3. CASE Walk
        BY <3>3, WalkTypes
      <3>4. CASE ~ReadOption /\ ~StartScan /\ ~User /\ ~AddDatabase /\ ~Walk
        <4>1. UNCHANGED <<walk, filter, tree>>
          BY <3>4 DEF Next, Main, Check, VerifySource, CheckAuth, CreateBucket, Created, NotCreated,
             CreateElsewhere, OpenStorage, Statement, Rebuild, Scan, Taken, Local, Outside, vars
        <4> QED
          BY <4>1 DEF ArrayInv, walk, filter, tree
      <3> QED
        BY <3>1, <3>2, <3>3, <3>4
    <2> QED
      BY <2>1, <2>2, <2>3
  <1>3. I => TypeOK
    <2> SUFFICES ASSUME I PROVE TypeOK
      OBVIOUS
    <2>1. ScanTypeOK
      BY DEF ScanTypeOK, ScanInv, ArrayInv
    <2>2. \A n \in DOMAIN Limit : opts.number[n] \in 0 .. Limit[n] - 1
      BY Limits DEF OwnInv
    <2>3. opts.number["uploadThreads"] < MAX_THREADS
      BY Limits DEF OwnInv, Limit, MAX_THREADS
    <2>4. optind \in 0 .. Len(line)
      BY DEF StartInv, ReadInv
    <2> QED
      BY <2>1, <2>2, <2>3, <2>4 DEF TypeOK, OwnInv
  <1> QED
    BY <1>1, <1>2, <1>3, PTL DEF FairSpec
=============================================================================

-------------------------- MODULE UploadRetryProofs --------------------------
(***************************************************************************)
(* What the retries of one upload keep, for any number of versions,        *)
(* redirects and tries, and whatever the network answers.                  *)
(***************************************************************************)
EXTENDS UploadRetry, Integers, TLAPS

USE BoundsAssumption DEF Versions

(***************************************************************************)
(* Types.                                                                  *)
(***************************************************************************)
LEMMA CountedTyped == ASSUME TypeOK PROVE Counted \in 0 .. RetryFailAfter + 1
  BY DEF TypeOK, Counted

\* Whatever an attempt returns, the loop keeps its own variables in range.
LEMMA AfterTyped ==
    ASSUME TypeOK, pc = "attempt", NEW res, NEW s \in {0, 200, 307, 403},
           NEW text \in {"none", "location", "text"}, After(res, s, text)
    PROVE  /\ pc' \in {"attempt", "store", "failed"} /\ url' \in {"none", "location", "text"}
           /\ status' = s /\ cUploads' \in 0 .. RetryFailAfter - 1
  BY DEF TypeOK, After

LEMMA AttemptTyped == TypeOK /\ Attempt => TypeOK'
  <1> SUFFICES ASSUME TypeOK, Attempt PROVE TypeOK'
    OBVIOUS
  <1> USE CountedTyped, AfterTyped DEF TypeOK, user, bucket
  <1>1. CASE CannotOpen
    BY <1>1 DEF CannotOpen
  <1>2. CASE BadUrl
    BY <1>2 DEF BadUrl
  <1>3. CASE Accepted
    BY <1>3 DEF Accepted, Sending
  <1>4. CASE Refused
    BY <1>4 DEF Refused, Sending
  <1>5. CASE Redirected
    BY <1>5 DEF Redirected, Sending
  <1>6. CASE Broken
    <2>1. PICK s \in {0, 200} : After("retry", s, "none")
      BY <1>6 DEF Broken
    <2>2. pc = "attempt" /\ md5' = 0 /\ tries' = Counted /\ UNCHANGED <<user, row, redirects>>
      BY <1>6 DEF Broken, Sending
    <2>3. \/ UNCHANGED bucket
          \/ remote' = version /\ UNCHANGED <<late, abandoned>>
          \/ UNCHANGED remote /\ late' = late \cup {version} /\ abandoned' = abandoned \cup {version}
      BY <1>6 DEF Broken
    <2>4. remote' \in 0 .. MaxVersion /\ late' \subseteq abandoned' /\ abandoned' \subseteq Versions
      <3>1. CASE UNCHANGED bucket
        BY <3>1
      <3>2. CASE remote' = version /\ UNCHANGED <<late, abandoned>>
        BY <3>2
      <3>3. CASE UNCHANGED remote /\ late' = late \cup {version} /\ abandoned' = abandoned \cup {version}
        <4>1. version \in Versions /\ late \subseteq abandoned /\ abandoned \subseteq Versions
          OBVIOUS
        <4>2. late' \subseteq abandoned' /\ abandoned' \subseteq Versions
          BY <3>3, <4>1
        <4> QED
          BY <3>3, <4>2
      <3> QED
        BY <2>3, <3>1, <3>2, <3>3
    <2>5. /\ pc' \in {"attempt", "store", "failed"} /\ url' \in {"none", "location", "text"}
          /\ status' \in {0, 200, 307, 403} /\ cUploads' \in 0 .. RetryFailAfter - 1
      BY <2>1, <2>2
    <2> QED
      BY <2>2, <2>4, <2>5
  <1> QED
    BY <1>1, <1>2, <1>3, <1>4, <1>5, <1>6 DEF Attempt

\* Every variable keeps its type and the retry counter stays below its limit,
\* for any bounds.
THEOREM RetryTyped == Spec => []TypeOK
  <1>1. Init => TypeOK
    BY DEF Init, TypeOK
  <1>2. TypeOK /\ [Next]_vars => TypeOK'
    <2> SUFFICES ASSUME TypeOK, [Next]_vars PROVE TypeOK'
      OBVIOUS
    <2> USE DEF TypeOK, user, bucket, loop
    <2>1. CASE Edit
      BY <2>1 DEF Edit
    <2>2. CASE Vanish
      <3>1. exists' \in BOOLEAN
        BY <2>2, Zenon DEF Vanish
      <3>2. UNCHANGED <<version, remote, late, abandoned, row, pc, url, status, md5, cUploads, redirects, tries>>
        BY <2>2 DEF Vanish
      <3> QED
        BY <3>1, <3>2
    <2>3. CASE \E v \in late : Arrive(v)
      <3>1. PICK v \in late : remote' = v /\ late' = late \ {v}
        BY <2>3 DEF Arrive
      <3>2. UNCHANGED <<abandoned, version, exists, row, pc, url, status, md5, cUploads, redirects, tries>>
        BY <2>3 DEF Arrive
      <3> QED
        BY <3>1, <3>2
    <2>4. CASE Attempt
      BY <2>4, AttemptTyped
    <2>5. CASE Store
      BY <2>5 DEF Store
    <2>6. CASE UNCHANGED vars
      BY <2>6 DEF vars
    <2> QED
      BY <2>1, <2>2, <2>3, <2>4, <2>5, <2>6 DEF Next
  <1> QED
    BY <1>1, <1>2, PTL DEF Spec

(***************************************************************************)
(* The row and the object.                                                 *)
(***************************************************************************)
\* No attempt sent a version the file did not have yet; once an answer with an
\* ETag came, no later version is on its way to the bucket.
RowInv ==
    /\ \A v \in abandoned : v <= version
    /\ row # 0 => pc = "success" /\ row = md5
    /\ pc \in {"store", "success"} /\ md5 # 0 =>
          /\ \A v \in abandoned : v <= md5
          /\ remote \in {md5} \cup abandoned

LEMMA RowStep == TypeOK /\ RowInv /\ [Next]_vars => RowInv'
  <1> SUFFICES ASSUME TypeOK, RowInv, [Next]_vars PROVE RowInv'
    OBVIOUS
  <1> USE DEF TypeOK, RowInv, user, bucket, loop
  <1>1. CASE Edit
    BY <1>1 DEF Edit
  <1>2. CASE Vanish
    BY <1>2 DEF Vanish
  <1>3. CASE \E v \in late : Arrive(v)
    <2>1. PICK v \in late : remote' = v
      BY <1>3 DEF Arrive
    <2>2. UNCHANGED <<abandoned, version, row, pc, md5>>
      BY <1>3 DEF Arrive
    <2> QED
      BY <2>1, <2>2
  <1>4. CASE Attempt
    <2>1. pc = "attempt" /\ row' = row /\ row = 0 /\ version' = version
      BY <1>4 DEF Attempt, CannotOpen, BadUrl, Accepted, Refused, Redirected, Broken, Sending
    <2>2. pc' \in {"attempt", "store", "failed"}
      BY <1>4, <2>1 DEF Attempt, CannotOpen, BadUrl, Accepted, Refused, Redirected, Broken, After
    <2>3. CASE Accepted
      BY <2>1, <2>2, <2>3 DEF Accepted
    <2>4. CASE CannotOpen
      <3>1. pc' # "store" /\ UNCHANGED bucket
        BY <2>1, <2>4 DEF CannotOpen, After
      <3> QED
        BY <2>1, <2>2, <3>1
    <2>5. CASE BadUrl \/ Refused \/ Redirected \/ Broken
      <3>1. md5' = 0 /\ abandoned' \in {abandoned, abandoned \cup {version}}
        BY <2>5 DEF BadUrl, Refused, Redirected, Broken
      <3> QED
        BY <2>1, <2>2, <3>1
    <2> QED
      BY <1>4, <2>3, <2>4, <2>5 DEF Attempt
  <1>5. CASE Store
    BY <1>5 DEF Store
  <1>6. CASE UNCHANGED vars
    BY <1>6 DEF vars
  <1> QED
    BY <1>1, <1>2, <1>3, <1>4, <1>5, <1>6 DEF Next

\* uploadFileWithRetryAndStore: the row has the md5 of the object, or of a later
\* version than the object has when an attempt that was given up overtook the
\* last one, for any number of tries, redirects, versions and late requests.
THEOREM RowHolds == Spec => []RowIsObject
  <1>1. Init => RowInv
    BY DEF Init, RowInv
  <1>2. TypeOK /\ RowInv => RowIsObject
    BY DEF TypeOK, RowInv, RowIsObject
  <1> QED
    BY <1>1, <1>2, RowStep, RetryTyped, PTL DEF Spec

(***************************************************************************)
(* The number of tries.                                                    *)
(***************************************************************************)
\* cUploads counts every try since the last answer 307, but for those that did
\* not get as far as to send anything after one.
TriesInv ==
    \/ StaleRedirect
    \/ tries <= IF pc = "attempt" THEN cUploads ELSE RetryFailAfter

\* A try is counted, or it is the last.
LEMMA AfterCounts ==
    ASSUME TypeOK, pc = "attempt", tries <= cUploads, NEW res, NEW s, NEW text,
           After(res, s, text), s # 307, tries' = Counted
    PROVE  tries' <= IF pc' = "attempt" THEN cUploads' ELSE RetryFailAfter
  BY DEF TypeOK, After, Counted

LEMMA TriesStep == TypeOK /\ TriesInv /\ [Next]_vars => TriesInv'
  <1> SUFFICES ASSUME TypeOK, TriesInv, [Next]_vars PROVE TriesInv'
    OBVIOUS
  <1> USE DEF TriesInv, StaleRedirect, user, bucket, loop
  <1>1. CASE Edit
    BY <1>1 DEF Edit
  <1>2. CASE Vanish
    BY <1>2 DEF Vanish
  <1>3. CASE \E v \in late : Arrive(v)
    BY <1>3 DEF Arrive
  <1>4. CASE CannotOpen
    <2>1. /\ pc = "attempt" /\ ~exists /\ ~exists' /\ status' = status /\ tries' = Counted
          /\ After("fail", status, "text")
      BY <1>4 DEF CannotOpen, After
    <2>2. CASE status = 307
      BY <2>1, <2>2
    <2>3. CASE status # 307
      BY <2>1, <2>3, AfterCounts
    <2> QED
      BY <2>2, <2>3
  <1>5. CASE BadUrl \/ Accepted \/ Refused \/ Broken
    <2>1. pc = "attempt" /\ exists /\ tries' = Counted
      BY <1>5 DEF BadUrl, Accepted, Refused, Broken, Sending
    <2>2. PICK res \in {"ok", "retry", "fail"}, s \in {0, 200, 403}, text \in {"none", "text"} :
              After(res, s, text)
      BY <1>5 DEF BadUrl, Accepted, Refused, Broken
    <2> QED
      BY <2>1, <2>2, AfterCounts
  <1>6. CASE Redirected
    <2>1. pc = "attempt" /\ tries' = 0 /\ pc' = pc /\ cUploads' = 0
      BY <1>6 DEF Redirected, Sending, After
    <2> QED
      BY <2>1
  <1>7. CASE Store
    BY <1>7 DEF Store, TypeOK
  <1>8. CASE UNCHANGED vars
    BY <1>8 DEF vars
  <1> QED
    BY <1>1, <1>2, <1>3, <1>4, <1>5, <1>6, <1>7, <1>8 DEF Next, Attempt

\* RETRY_FAIL_AFTER is kept, whatever redirects, broken redirects, errors and
\* edits follow each other, unless a file disappears right after an answer 307.
THEOREM LimitKept == Spec => []LimitHolds
  <1>1. Init => TriesInv
    BY DEF Init, TriesInv
  <1>2. TypeOK /\ TriesInv => LimitHolds
    BY DEF TypeOK, TriesInv, LimitHolds
  <1> QED
    BY <1>1, <1>2, TriesStep, RetryTyped, PTL DEF Spec

\* Without a user who removes the file no try is left uncounted: what the comment
\* of RETRY_FAIL_AFTER says holds for any answers of the network.
THEOREM TriesBounded == "vanish" \notin Edits => (Spec => []TriesAreBounded)
  <1> SUFFICES ASSUME "vanish" \notin Edits PROVE Spec => []TriesAreBounded
    OBVIOUS
  <1>1. Init => exists = TRUE
    BY DEF Init
  <1>2. exists = TRUE /\ [Next]_vars => (exists = TRUE)'
    BY DEF Next, vars, user, Edit, Vanish, Arrive, Attempt, CannotOpen, BadUrl, Accepted,
           Refused, Redirected, Broken, Sending, Store
  <1>3. TypeOK /\ LimitHolds /\ exists = TRUE => TriesAreBounded
    BY DEF TypeOK, LimitHolds, StaleRedirect, TriesAreBounded
  <1> QED
    BY <1>1, <1>2, <1>3, RetryTyped, LimitKept, PTL DEF Spec

(***************************************************************************)
(* Why a call ends.                                                        *)
(***************************************************************************)
\* The attempts that redirects and tries leave for the rest of the call.
TriesLeft == IF pc = "attempt" THEN RetryFailAfter - cUploads ELSE 0
Left == (MaxRedirects - redirects) * RetryFailAfter + TriesLeft

LEMMA LeftIsNat == TypeOK => Left \in Nat
  <1> SUFFICES ASSUME TypeOK PROVE Left \in Nat
    OBVIOUS
  <1>1. MaxRedirects - redirects \in Nat /\ RetryFailAfter \in Nat /\ TriesLeft \in Nat
    BY DEF TypeOK, TriesLeft
  <1>2. \A a, b \in Nat : a * b \in Nat
    OBVIOUS
  <1> QED
    BY <1>1, <1>2 DEF Left

LEMMA LeftTyped ==
    ASSUME TypeOK, TypeOK'
    PROVE  Left \in Nat /\ Left' \in Nat
  <1>1. Left \in Nat
    BY LeftIsNat
  <1>2. (TypeOK => Left \in Nat)'
    BY LeftIsNat, PTL
  <1> QED
    BY <1>1, <1>2

\* As long as the redirects stay as many, Left goes as TriesLeft goes.
LEMMA LeftGoesAsTries ==
    ASSUME TypeOK, TypeOK', redirects' = redirects
    PROVE  /\ TriesLeft' < TriesLeft => Left' < Left
           /\ TriesLeft' = TriesLeft => Left' = Left
  <1>1. PICK r \in Int : r = (MaxRedirects - redirects) * RetryFailAfter
    BY DEF TypeOK
  <1>2. TriesLeft \in Int /\ TriesLeft' \in Int
    BY DEF TypeOK, TriesLeft
  <1>3. Left = r + TriesLeft /\ Left' = r + TriesLeft'
    BY <1>1 DEF Left
  <1> QED
    BY <1>1, <1>2, <1>3

\* A redirect gives all tries back but takes as many of them away.
LEMMA LeftAfterRedirect ==
    ASSUME TypeOK, TypeOK', pc = "attempt", redirects' = redirects + 1
    PROVE  Left' < Left
  <1>1. PICK n \in Int : n = MaxRedirects - redirects
    BY DEF TypeOK
  <1>2. MaxRedirects - redirects' = n - 1
    BY <1>1 DEF TypeOK
  <1>3. Left = n * RetryFailAfter + TriesLeft /\ Left' = (n - 1) * RetryFailAfter + TriesLeft'
    BY <1>1, <1>2 DEF Left
  <1>4. (n - 1) * RetryFailAfter = n * RetryFailAfter - RetryFailAfter /\ n * RetryFailAfter \in Int
    BY <1>1
  <1>5. cUploads \in 0 .. RetryFailAfter - 1 /\ cUploads' \in 0 .. RetryFailAfter - 1
    BY DEF TypeOK
  <1>6. TriesLeft \in 1 .. RetryFailAfter
    BY <1>5 DEF TriesLeft
  <1>7. TriesLeft' \in 0 .. RetryFailAfter
    <2>1. CASE pc' = "attempt"
      <3>1. TriesLeft' = RetryFailAfter - cUploads'
        BY <2>1 DEF TriesLeft
      <3>2. \A c \in 0 .. RetryFailAfter - 1 : RetryFailAfter - c \in 0 .. RetryFailAfter
        OBVIOUS
      <3> QED
        BY <1>5, <3>1, <3>2
    <2>2. CASE pc' # "attempt"
      BY <2>2 DEF TriesLeft
    <2> QED
      BY <2>1, <2>2
  <1> QED
    BY <1>1, <1>3, <1>4, <1>6, <1>7

\* An answer 307 resets the count, and whatever counts has another status.
RedirectResets == status = 307 => cUploads = 0

LEMMA RedirectResetsStep == RedirectResets /\ [Next]_vars => RedirectResets'
  <1> SUFFICES ASSUME RedirectResets, [Next]_vars PROVE RedirectResets'
    OBVIOUS
  <1>1. CASE Attempt
    <2>1. PICK res, s, text : After(res, s, text)
      BY <1>1 DEF Attempt, CannotOpen, BadUrl, Accepted, Refused, Redirected, Broken
    <2> QED
      BY <1>1, <2>1 DEF RedirectResets, After
  <1>2. CASE UNCHANGED loop
    BY <1>2 DEF RedirectResets, loop
  <1> QED
    BY <1>1, <1>2 DEF Next, Edit, Vanish, Arrive, Store, vars

LEMMA AttemptsCount ==
    ASSUME TypeOK, TypeOK', RedirectResets, Attempt
    PROVE  /\ Left' <= Left
           /\ Left' < Left \/ StaleRedirect'
  <1>0. Left \in Nat /\ Left' \in Nat
    BY LeftTyped
  <1>1. CASE CannotOpen
    <2>1. /\ pc = "attempt" /\ ~exists' /\ status' = status /\ redirects' = redirects
          /\ status = 307 \/ pc' = "failed"
      BY <1>1 DEF CannotOpen, After, user
    <2>2. CASE status = 307
      <3>1. cUploads = 0 /\ cUploads' = 0 /\ pc' = pc
        BY <1>1, <2>2 DEF RedirectResets, CannotOpen, After
      <3> QED
        BY <2>1, <2>2, <3>1, LeftGoesAsTries, <1>0 DEF StaleRedirect, TriesLeft
    <2>3. CASE pc' = "failed"
      BY <2>1, <2>3, LeftGoesAsTries, <1>0 DEF TypeOK, TriesLeft
    <2> QED
      BY <2>1, <2>2, <2>3
  <1>2. CASE BadUrl \/ Accepted \/ Refused \/ Broken
    <2>1. pc = "attempt" /\ redirects' = redirects
      BY <1>2 DEF BadUrl, Accepted, Refused, Broken, Sending
    <2>2. PICK res \in {"ok", "retry", "fail"}, s \in {0, 200, 403}, text \in {"none", "text"} :
              After(res, s, text)
      BY <1>2 DEF BadUrl, Accepted, Refused, Broken
    <2>3. TriesLeft' < TriesLeft
      <3>1. cUploads \in 0 .. RetryFailAfter - 1
        BY DEF TypeOK
      <3>2. \/ pc' \in {"store", "failed"}
            \/ pc' = pc /\ cUploads' = cUploads + 1
        BY <2>2 DEF After
      <3> QED
        BY <2>1, <3>1, <3>2 DEF TriesLeft
    <2> QED
      BY <2>1, <2>3, LeftGoesAsTries, <1>0
  <1>3. CASE Redirected
    BY <1>3, LeftAfterRedirect, <1>0 DEF Redirected, Sending
  <1> QED
    BY <1>1, <1>2, <1>3 DEF Attempt

\* Every attempt of uploadFileWithRetry uses up one of finitely many, and nothing
\* gives one back; only where a file disappeared after an answer 307 it uses none.
\* It is the reason why the loop ends in all other cases, for any bounds.
THEOREM AttemptsRunOut ==
    Spec => [](Left \in Nat) /\ [][/\ Left' <= Left
                                  /\ Attempt => Left' < Left \/ StaleRedirect']_vars
  <1>1. Init => RedirectResets
    BY DEF Init, RedirectResets
  <1>2. ASSUME TypeOK, TypeOK', RedirectResets, [Next]_vars
        PROVE  [/\ Left' <= Left
                /\ Attempt => Left' < Left \/ StaleRedirect']_vars
    <2>1. CASE Attempt
      BY <1>2, <2>1, AttemptsCount
    <2>2. CASE ~Attempt /\ Next
      <3>1. redirects' = redirects /\ TriesLeft' = TriesLeft
        BY <2>2 DEF Next, Edit, Vanish, Arrive, Store, loop, TriesLeft
      <3> QED
        BY <1>2, <2>2, <3>1, LeftGoesAsTries, LeftTyped
    <2> QED
      BY <1>2, <2>1, <2>2
  <1> QED
    BY <1>1, <1>2, RedirectResetsStep, LeftIsNat, RetryTyped, PTL DEF Spec
=============================================================================

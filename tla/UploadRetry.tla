----------------------------- MODULE UploadRetry -----------------------------
(***************************************************************************)
(* One call of uploadFileWithRetryAndStore (upload.cc): the attempts to    *)
(* put one file, the redirects, the retries, and the row that is stored in *)
(* the end.  Every attempt opens the file anew, so it sends the version    *)
(* the file has by then; an attempt that timed out may still reach the     *)
(* bucket later.  httpStatus and errorResult outlive an attempt: the code  *)
(* reads the status before the result, and one that could not open the     *)
(* file leaves in it what the previous attempt put there.                  *)
(***************************************************************************)
EXTENDS Naturals, FiniteSets

CONSTANTS
    Edits,          \* what the user may do meanwhile: "edit", "vanish"
    Answers,        \* what the network may do: see Attempt
    MaxVersion,     \* bound: versions of the file
    MaxRedirects,   \* bound: redirects Amazon asks for
    RetryFailAfter  \* RETRY_FAIL_AFTER

ASSUME BoundsAssumption ==
    MaxVersion \in Nat \ {0} /\ MaxRedirects \in Nat /\ RetryFailAfter \in Nat \ {0}

VARIABLES
    version,    \* of the file, and
    exists,     \* whether it is there
    remote,     \* the version the bucket holds, 0 for none
    late,       \* versions of attempts given up that may still be applied
    abandoned,  \* history: all versions that were ever in late
    row,        \* the version whose md5 is stored, 0 for none
    pc,         \* "attempt", "store", "success", "failed"
    url,        \* "none", the "location" of a redirect, or some "text"
    status,     \* *httpStatusCode
    md5,        \* the version whose ETag was read, 0 for none
    cUploads,   \* of uploadFileWithRetry
    redirects,  \* answers 307 so far
    tries       \* history: attempts since the last answer 307

user == <<version, exists>>
bucket == <<remote, late, abandoned>>
loop == <<url, status, md5, cUploads, redirects, tries>>
vars == <<user, bucket, row, pc, loop>>

Versions == 1 .. MaxVersion

\* Every variable holds a value of the kind the code gives it, and the retry
\* counter stays below its limit.
TypeOK ==
    /\ version \in Versions /\ exists \in BOOLEAN
    /\ remote \in 0 .. MaxVersion /\ late \subseteq abandoned /\ abandoned \subseteq Versions
    /\ row \in 0 .. MaxVersion
    /\ pc \in {"attempt", "store", "success", "failed"}
    /\ url \in {"none", "location", "text"}
    /\ status \in {0, 200, 307, 403}
    /\ md5 \in 0 .. MaxVersion
    /\ cUploads \in 0 .. RetryFailAfter - 1
    /\ redirects \in 0 .. MaxRedirects
    /\ tries \in 0 .. RetryFailAfter + 1

Init ==
    /\ version = 1 /\ exists = TRUE
    /\ remote = 0 /\ late = {} /\ abandoned = {} /\ row = 0
    /\ pc = "attempt"
    /\ url = "none" /\ status = 0 /\ md5 = 0 /\ cUploads = 0
    /\ redirects = 0 /\ tries = 0

(***************************************************************************)
(* The user and the network.                                               *)
(***************************************************************************)
Edit ==
    /\ "edit" \in Edits /\ exists /\ version < MaxVersion
    /\ version' = version + 1
    /\ UNCHANGED <<exists, bucket, row, pc, loop>>

Vanish ==
    /\ "vanish" \in Edits /\ exists
    /\ exists' = FALSE
    /\ UNCHANGED <<version, bucket, row, pc, loop>>

\* The bucket applies an attempt that clarc has given up.
Arrive(v) ==
    /\ v \in late
    /\ remote' = v /\ late' = late \ {v}
    /\ UNCHANGED <<abandoned, user, row, pc, loop>>

(***************************************************************************)
(* uploadFileWithRetry.                                                    *)
(***************************************************************************)
\* One more attempt; the history stops counting when the limit is exceeded.
Counted == IF tries > RetryFailAfter THEN tries ELSE tries + 1

\* Mutants: one try more than the limit; failed tries are not counted.
After_OneMore(res, s, text) ==
    /\ status' = s
    /\ IF s = 307
       THEN pc' = pc /\ url' = text /\ cUploads' = 0
       ELSE /\ url' = "none"
            /\ \/ res = "ok" /\ pc' = "store" /\ UNCHANGED cUploads
               \/ /\ res = "retry" /\ cUploads + 1 <= RetryFailAfter
                  /\ cUploads' = cUploads + 1 /\ pc' = pc
               \/ /\ res = "retry" /\ cUploads = RetryFailAfter
                  /\ pc' = "failed" /\ UNCHANGED cUploads
               \/ res = "fail" /\ pc' = "failed" /\ UNCHANGED cUploads

After_Forever(res, s, text) ==
    /\ status' = s
    /\ IF s = 307
       THEN pc' = pc /\ url' = text /\ cUploads' = 0
       ELSE /\ url' = "none" /\ UNCHANGED cUploads
            /\ pc' = CASE res = "ok" -> "store" [] res = "retry" -> pc [] OTHER -> "failed"

\* What the loop does with the result of uploadFile, the status it left and the
\* text that errorResult holds.
After(res, s, text) ==
    /\ status' = s
    /\ IF s = 307
       THEN pc' = pc /\ url' = text /\ cUploads' = 0
       ELSE /\ url' = "none"
            /\ \/ res = "ok" /\ pc' = "store" /\ UNCHANGED cUploads
               \/ /\ res = "retry" /\ cUploads + 1 < RetryFailAfter
                  /\ cUploads' = cUploads + 1 /\ pc' = pc
               \/ /\ res = "retry" /\ cUploads + 1 = RetryFailAfter
                  /\ pc' = "failed" /\ UNCHANGED cUploads
               \/ res = "fail" /\ pc' = "failed" /\ UNCHANGED cUploads

\* fopen fails: the function returns before it touches *httpStatusCode.
CannotOpen ==
    /\ pc = "attempt" /\ ~exists
    /\ After("fail", status, "text")
    /\ tries' = Counted
    /\ UNCHANGED <<user, bucket, row, md5, redirects>>

\* Curl cannot use a url that is not one; some errors it retries.
BadUrl ==
    /\ pc = "attempt" /\ exists /\ url = "text"
    /\ \E res \in {"retry", "fail"} : After(res, 0, "text")
    /\ tries' = Counted /\ md5' = 0
    /\ UNCHANGED <<user, bucket, row, redirects>>

Sending == pc = "attempt" /\ exists /\ url # "text" /\ UNCHANGED <<user, row>>

\* 200 with an ETag, or without one.
Accepted ==
    /\ Sending
    /\ remote' = version
    /\ md5' \in {version} \cup (IF "noEtag" \in Answers THEN {0} ELSE {})
    /\ After("ok", 200, "none")
    /\ tries' = Counted
    /\ UNCHANGED <<late, abandoned, redirects>>

\* Another status, or an error that is not retried, such as an answer that never
\* came to a request that may have been performed.
Refused ==
    /\ Sending /\ "refused" \in Answers
    /\ \/ After("ok", 403, "none") /\ UNCHANGED remote
       \/ After("fail", 0, "none") /\ remote' \in {remote, version}
    /\ md5' = 0 /\ tries' = Counted
    /\ UNCHANGED <<late, abandoned, redirects>>

\* 307; its location is read only if the transfer came to an end without error.
Redirected ==
    /\ Sending /\ redirects < MaxRedirects
    /\ \/ After("ok", 307, "location")
       \/ "brokenRedirect" \in Answers /\ After("retry", 307, "text")
    /\ redirects' = redirects + 1 /\ tries' = 0 /\ md5' = 0
    /\ UNCHANGED bucket

\* An error that is retried: the request was lost, was performed (with status
\* 200 if the answer began to arrive), or is still on its way.
Broken ==
    /\ Sending /\ "broken" \in Answers
    /\ \/ After("retry", 0, "none") /\ UNCHANGED bucket
       \/ \E s \in {0, 200} : After("retry", s, "none") /\ remote' = version /\ UNCHANGED <<late, abandoned>>
       \/ /\ After("retry", 0, "none") /\ UNCHANGED remote
          /\ late' = late \cup {version} /\ abandoned' = abandoned \cup {version}
    /\ md5' = 0 /\ tries' = Counted
    /\ UNCHANGED redirects

Attempt == CannotOpen \/ BadUrl \/ Accepted \/ Refused \/ Redirected \/ Broken

\* Mutant: stores the md5 of the file as it is now.
Store_LocalMd5 ==
    /\ pc = "store"
    /\ IF status = 200 /\ md5 # 0
       THEN row' = version /\ pc' = "success"
       ELSE pc' = "failed" /\ UNCHANGED row
    /\ UNCHANGED <<user, bucket, loop>>

\* uploadFileWithRetryAndStore after the loop; the database may refuse.
Store ==
    /\ pc = "store"
    /\ \/ status = 200 /\ md5 # 0 /\ row' = md5 /\ pc' = "success"
       \/ pc' = "failed" /\ UNCHANGED row
    /\ UNCHANGED <<user, bucket, loop>>

(***************************************************************************)
(* The specification.                                                      *)
(***************************************************************************)
Next == Edit \/ Vanish \/ (\E v \in late : Arrive(v)) \/ Attempt \/ Store

Spec == Init /\ [][Next]_vars

\* The worker runs, and curl's timeouts end every attempt.
FairSpec == Spec /\ WF_vars(Attempt \/ Store)

(***************************************************************************)
(* Properties.                                                             *)
(***************************************************************************)
\* The stored md5 is that of the object, though attempts were repeated, sent
\* different versions and were answered by errors after they were performed;
\* only an older version, of an attempt that was given up before, can overtake
\* the last one.
RowIsObject == row # 0 => remote \in {row} \cup {v \in abandoned : v < row}

\* "how many tries to perform on failed upload": as long as Amazon does not ask
\* for another place, no more than RETRY_FAIL_AFTER attempts are made.
TriesAreBounded == tries <= RetryFailAfter

\* A file that cannot be opened leaves the status 307 of the attempt before.
StaleRedirect == ~exists /\ status = 307

\* There is no other way past the limit, through any mixture of redirects, broken
\* redirects, errors, edits and a file that is removed.
LimitHolds == tries > RetryFailAfter => StaleRedirect

\* The call returns, unless it is caught in the same way.
CallReturns == <>(pc \in {"success", "failed"}) \/ <>[]StaleRedirect
=============================================================================

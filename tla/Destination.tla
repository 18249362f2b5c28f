----------------------------- MODULE Destination -----------------------------
(***************************************************************************)
(* Reading DEST, s3://BUCKET[.ENDPOINT]/[FOLDER] (destination.cc).  Text   *)
(* is a sequence of tokens: the prefix, the name of an endpoint, or one    *)
(* character.  No endpoint's name contains another's, and they have no     *)
(* slash, so that what strstr and strchr find is a token.                  *)
(***************************************************************************)
EXTENDS Naturals, Sequences, SequencesExt

Prefix == "s3://"

EndPoints == {"s3.amazonaws.com", "s3-us-west-2.amazonaws.com", "s3-us-west-1.amazonaws.com",
              "s3-eu-west-1.amazonaws.com", "s3-ap-southeast-1.amazonaws.com",
              "s3-ap-northeast-1.amazonaws.com", "s3-sa-east-1.amazonaws.com"}

DefaultEndPoint == "s3.amazonaws.com"

\* strstr, strchr: the place of the first t, 0 if there is none.
FirstAt(text, t) == SelectInSeq(text, LAMBDA u : u = t)

\* Of BUCKET.ENDPOINT and FOLDER what precedes the first slash and what follows.
Host(text) ==
    LET slash == FirstAt(text, "/") IN
    IF slash = 0 THEN text ELSE SubSeq(text, 1, slash - 1)

\* Mutant: keeps the slash that ends the folder.
FolderOf_KeepsSlash(text) ==
    LET slash == FirstAt(text, "/") IN
    IF slash = 0 THEN <<>> ELSE SubSeq(text, slash + 1, Len(text))

\* One slash at the end is dropped.
FolderOf(text) ==
    LET slash == FirstAt(text, "/")
        rest == IF slash = 0 THEN <<>> ELSE SubSeq(text, slash + 1, Len(text))
    IN  IF rest # <<>> /\ Last(rest) = "/" THEN Front(rest) ELSE rest

\* The endpoint has to be what ends the text where it occurs first.
NamesEndPoint(host) ==
    host # <<>> /\ Last(host) \in EndPoints /\ FirstAt(host, Last(host)) = Len(host)

\* The character before the endpoint is overwritten, whichever it is; if there is
\* none then the byte that is lost is not one of the text.
BucketOf(host) ==
    IF NamesEndPoint(host) /\ Len(host) > 1 THEN SubSeq(host, 1, Len(host) - 2) ELSE host

EndPointOf(host) == IF NamesEndPoint(host) THEN Last(host) ELSE DefaultEndPoint

\* Folders of more than one level are refused, and so is a bucket without name.
IsValid(text) ==
    /\ text # <<>> /\ Head(text) = Prefix
    /\ FirstAt(FolderOf(Tail(text)), "/") = 0
    /\ BucketOf(Host(Tail(text))) # <<>>

Parse(text) ==
    LET host == Host(Tail(text)) IN
    [bucket |-> BucketOf(host), endPoint |-> EndPointOf(host), folder |-> FolderOf(Tail(text))]

AbsoluteString(d) ==
    <<Prefix>> \o d.bucket \o <<".", d.endPoint, "/">>
        \o (IF d.folder = <<>> THEN <<>> ELSE d.folder \o <<"/">>)
=============================================================================

------------------------------- MODULE Startup -------------------------------
(***************************************************************************)
(* From the command line to the list of files to upload (main.cc, with     *)
(* checkAuth and createBucket of remoteListOfFiles.cc, the constructor of  *)
(* FileListStorage, LocalScan and Destination): what an invocation checks, *)
(* creates and refuses before it uploads anything.  The rebuild of the     *)
(* database is one step here, see Rebuild.                                 *)
(***************************************************************************)
EXTENDS LocalScan, Destination

CONSTANTS
    CommandLines,   \* the options, SOURCE and DEST of each
    Buckets,        \* names of buckets, and
    Folders,        \* of folders in them, as texts of Destination
    Answers,        \* what the network may do: "redirect", "error", "status"
    MaxRedirects,   \* bound: redirects Amazon asks for
    None            \* no destination, no region

\* A number has to be below its limit, and above 0.
Limit == [uploadThreads |-> 100, connectTimeout |-> 600, networkTimeout |-> 600, logLevel |-> 6]

MAX_THREADS == 100

Kinds == {"none", "directory", "file", "symlink", "socket", "missing", "/"}

\* s3://BUCKET[.ENDPOINT]/[FOLDER], perhaps with a slash at the end.
Written(b, e, f) ==
    {<<Prefix>> \o b \o (IF e = None THEN <<>> ELSE <<".", e>>) \o <<"/">> \o f \o s :
        s \in IF f = <<>> THEN {<<>>} ELSE {<<>>, <<"/">>}}

Regions == {"us-east-2", "us-east-1", "us-west-2", "us-west-1", "ca-central-1", "ap-south-1",
            "ap-northeast-2", "ap-northeast-3", "ap-southeast-1", "ap-southeast-2",
            "ap-northeast-1", "cn-north-1", "eu-central-1", "eu-west-1", "eu-west-2",
            "eu-west-3", "sa-east-1"}

Option(o) ==
    \/ o.name \in {"delete", "rebuild", "rebuildOnly", "dryRun", "keys", "help", "unknown"}
    \/ o.name = "create" /\ o.region \in STRING
    \/ o.name \in DOMAIN Limit /\ o.number \in Int
    \/ /\ o.name = "exclude"     \* --exclude, or the lines of --excludeFromFile
       /\ o.good \in BOOLEAN /\ o.matches \in Seq(SUBSET Files)

ASSUME CommandLinesAssumption ==
    /\ \A c \in CommandLines :
          /\ c = [options |-> c.options, source |-> c.source, dest |-> c.dest]
          /\ c.options \in Seq(Range(c.options))
          /\ \A i \in DOMAIN c.options : Option(c.options[i])
          /\ c.source \in Kinds /\ c.dest \in Seq(STRING)
    /\ MaxRedirects \in Nat

\* The name of a bucket does not spell an endpoint, and a folder is one level deep.
ASSUME NamesAssumption ==
    /\ None \notin EndPoints
    /\ \A b \in Buckets : b \in Seq(STRING) /\ Range(b) \cap (EndPoints \cup {"/"}) = {}
    /\ \A f \in Folders : f \in Seq(STRING) /\ "/" \notin Range(f)

VARIABLES
    pc,         \* where main is
    line,       \* the options of its command line, and
    optind,     \* how many of them it has read
    given,      \* DEST
    kind,       \* what SOURCE is
    opts,       \* the static variables
    destination, \* what Check made of DEST
    bucket,     \* "none", "ours", "others"
    region,     \* where the bucket was created
    redirects,  \* answers 307 so far
    tables      \* the tables of the database: "files", "meta"

input == <<line, optind, given, kind>>
cloud == <<bucket, region, redirects>>
own == <<pc, input, opts, destination, cloud, tables>>
vars == <<own, walk, filter, tree>>

Steps == {"options", "verify", "auth", "create", "open", "files", "meta",
          "rebuild", "filter", "scan", "ready", "exited", "crashed"}

\* Every variable holds a value of the kind the code gives it.
TypeOK ==
    /\ ScanTypeOK
    /\ pc \in Steps
    /\ [options |-> line, source |-> kind, dest |-> given] \in CommandLines
    /\ optind \in 0 .. Len(line)
    /\ \A n \in DOMAIN Limit : opts.number[n] \in 0 .. Limit[n] - 1
    /\ opts.number["uploadThreads"] < MAX_THREADS
    /\ opts.region \in Regions \cup {None}
    /\ bucket \in {"none", "ours", "others"}
    /\ region \in Regions \cup {None}
    /\ redirects \in 0 .. MaxRedirects
    /\ tables \subseteq {"files", "meta"}

\* A database of an earlier invocation, which may have died while it made it.
Init ==
    /\ ScanInit
    /\ pc = "options"
    /\ \E c \in CommandLines : line = c.options /\ kind = c.source /\ given = c.dest
    /\ optind = 0
    /\ opts = [number |-> [n \in DOMAIN Limit |-> 0], region |-> None, upload |-> TRUE,
               delete |-> FALSE, rebuild |-> FALSE, dryRun |-> FALSE, keys |-> FALSE]
    /\ destination = None
    /\ bucket \in {"none", "ours", "others"} /\ region = None /\ redirects = 0
    /\ tables \in {{}, {"files"}, {"files", "meta"}}

(***************************************************************************)
(* parseCommandline.                                                       *)
(***************************************************************************)
Goes(step) == pc' = step
Outside == UNCHANGED <<walk, tree>>

Fits(o) == o.number > 0 /\ o.number < Limit[o.name]

\* What an option stores; getopt_long complains about one it does not know, and
\* parseCommandline goes on without it.
Stores(o) ==
    CASE o.name = "create" -> [opts EXCEPT !.region = o.region]
      [] o.name \in DOMAIN Limit -> [opts EXCEPT !.number[o.name] = o.number]
      [] o.name = "delete" -> [opts EXCEPT !.delete = TRUE]
      [] o.name = "rebuild" -> [opts EXCEPT !.rebuild = TRUE]
      [] o.name = "rebuildOnly" -> [opts EXCEPT !.rebuild = TRUE, !.upload = FALSE]
      [] o.name = "dryRun" -> [opts EXCEPT !.dryRun = TRUE]
      [] o.name = "keys" -> [opts EXCEPT !.keys = TRUE]
      [] OTHER -> opts

\* Help and version end the process as well, before any other option is looked at.
Ends(o) ==
    \/ o.name = "help"
    \/ o.name = "create" /\ o.region \notin Regions
    \/ o.name \in DOMAIN Limit /\ ~Fits(o)
    \/ o.name = "exclude" /\ ~o.good

ReadOption ==
    /\ pc = "options" /\ optind < Len(line)
    /\ optind' = optind + 1
    /\ LET o == line[optind + 1] IN
       \/ Ends(o) /\ Goes("exited") /\ UNCHANGED <<opts, filter>>
       \/ ~Ends(o) /\ o.name = "exclude" /\ AddPatterns(o.matches) /\ UNCHANGED <<pc, opts>>
       \/ ~Ends(o) /\ o.name # "exclude" /\ opts' = Stores(o) /\ UNCHANGED <<pc, filter>>
    /\ UNCHANGED <<line, given, kind, destination, cloud, tables>> /\ Outside

\* realpath tells that a relative SOURCE is missing, verifySource that another is.
Refused ==
    \/ kind = "none" \/ ~IsValid(given) \/ ~opts.keys
    \/ opts.delete /\ ~opts.upload

Check ==
    /\ pc = "options" /\ optind = Len(line)
    /\ destination' = (IF kind # "none" /\ IsValid(given) THEN Parse(given) ELSE None)
    /\ \/ (Refused \/ kind = "missing") /\ Goes("exited")
       \/ ~Refused /\ Goes("verify")
    /\ UNCHANGED <<input, opts, cloud, tables, filter>> /\ Outside

\* The root becomes an empty path when its slash is dropped.  The mode of a socket
\* has the bit that the mode of a directory is tested for.
VerifySource ==
    /\ pc = "verify"
    /\ Goes(IF kind \in {"directory", "socket"} THEN "auth" ELSE "exited")
    /\ UNCHANGED <<input, opts, destination, cloud, tables, filter>> /\ Outside

(***************************************************************************)
(* The bucket.                                                             *)
(***************************************************************************)
Local == UNCHANGED <<input, opts, destination, tables, filter>> /\ Outside

\* Mutant: a dry run looks at the bucket like another.
CheckAuth_Always ==
    /\ pc = "auth"
    /\ \/ bucket = "ours" /\ Goes("open")
       \/ bucket = "none" /\ Goes(IF opts.region # None THEN "create" ELSE "exited")
       \/ bucket = "others" /\ Goes("exited")
    /\ UNCHANGED cloud /\ Local

\* 200, 404, or anything else, a redirect among it; a redirect without location is
\* read through a null pointer.
CheckAuth ==
    /\ pc = "auth"
    /\ \/ opts.dryRun /\ Goes("open")
       \/ ~opts.dryRun /\ bucket = "ours" /\ Goes("open")
       \/ ~opts.dryRun /\ bucket = "none" /\ Goes(IF opts.region # None THEN "create" ELSE "exited")
       \/ ~opts.dryRun /\ (bucket = "others" \/ "status" \in Answers) /\ Goes("exited")
       \/ ~opts.dryRun /\ "error" \in Answers /\ Goes("exited")
       \/ ~opts.dryRun /\ "redirect" \in Answers /\ Goes("crashed")
    /\ UNCHANGED cloud /\ Local

\* performPutOnBucket is answered 200 if the name is free.
Created ==
    /\ pc = "create" /\ bucket = "none"
    /\ bucket' = "ours" /\ region' = opts.region
    /\ \/ Goes("open")
       \/ "error" \in Answers /\ Goes("exited")    \* the answer is lost
    /\ UNCHANGED redirects /\ Local

\* Another status, such as 409 for a name that is taken, or no connection.
NotCreated ==
    /\ pc = "create"
    /\ bucket # "none" \/ Answers \cap {"status", "error"} # {}
    /\ Goes("exited")
    /\ UNCHANGED cloud /\ Local

\* Mutant: takes the redirect for the answer.
CreateElsewhere_Enough ==
    /\ pc = "create" /\ "redirect" \in Answers /\ redirects < MaxRedirects
    /\ redirects' = redirects + 1
    /\ Goes("open")
    /\ UNCHANGED <<bucket, region>> /\ Local

\* createBucket repeats the request for as long as it is redirected.
CreateElsewhere ==
    /\ pc = "create" /\ "redirect" \in Answers /\ redirects < MaxRedirects
    /\ redirects' = redirects + 1
    /\ pc' \in {"create", "crashed"}
    /\ UNCHANGED <<bucket, region>> /\ Local

CreateBucket == Created \/ NotCreated \/ CreateElsewhere

\* Somebody else takes the name between the check and the request.
Taken ==
    /\ pc = "create" /\ bucket = "none"
    /\ bucket' = "others"
    /\ UNCHANGED <<pc, region, redirects>> /\ Local

(***************************************************************************)
(* The database, the rebuild and the scan.                                 *)
(***************************************************************************)
Statement(from, adds, to) ==
    /\ pc = from
    /\ \/ tables' = tables \cup adds /\ Goes(to)
       \/ UNCHANGED tables /\ Goes("exited")
    /\ UNCHANGED <<input, opts, destination, cloud, filter>> /\ Outside

\* The row with the version is left out: nobody reads it, and whether it could be
\* inserted is not looked at.
OpenStorage ==
    \/ Statement("open", {}, "files")
    \/ Statement("files", {"files"}, "meta")
    \/ Statement("meta", {"meta"}, "rebuild")

Rebuild ==
    /\ pc = "rebuild"
    /\ \/ Goes(IF opts.upload THEN "filter" ELSE "exited")
       \/ opts.rebuild /\ Goes("exited")
    /\ UNCHANGED cloud /\ Local

AddDatabase ==
    /\ pc = "filter"
    /\ AddPatterns(DatabasePatterns)
    /\ Goes("scan")
    /\ UNCHANGED <<input, opts, destination, cloud, tables>> /\ Outside

Scan ==
    /\ pc = "scan"
    /\ \/ kind = "directory" /\ StartScan /\ UNCHANGED own
       \/ kind # "directory" /\ Goes("crashed") /\ UNCHANGED cloud /\ Local
       \/ Walk /\ UNCHANGED own
       \/ scan = "done" /\ Goes("ready") /\ UNCHANGED cloud /\ Local

(***************************************************************************)
(* The specification.                                                      *)
(***************************************************************************)
Main ==
    \/ ReadOption \/ Check \/ VerifySource \/ CheckAuth \/ CreateBucket
    \/ OpenStorage \/ Rebuild \/ AddDatabase \/ Scan

Next == Main \/ Taken \/ (User /\ UNCHANGED own)

\* The scheduler runs the process, and every request and system call returns.
FairSpec == Init /\ [][Next]_vars /\ WF_vars(Main)

(***************************************************************************)
(* Properties.                                                             *)
(***************************************************************************)
Given(name) == \E i \in DOMAIN line : line[i].name = name

\* main, createBucket: a bucket is made only if the command line says --create and
\* not --dryRun, and in the region of the last --create; redirects, refusals, lost
\* answers and a name that somebody else takes meanwhile lead to no other.
CreatedOnlyIfAsked ==
    [][bucket # "ours" /\ bucket' = "ours" =>
        /\ ~Given("dryRun")
        /\ \E i \in DOMAIN line :
              /\ line[i].name = "create" /\ line[i].region = region'
              /\ \A j \in DOMAIN line : j > i => line[j].name # "create"]_vars

\* What the upload relies on when it begins, whatever was refused, lost or left
\* half done before: the tables are there, the bucket is the user's unless nothing
\* is going to be sent, and the list is finished.
ReadyIsPrepared ==
    pc = "ready" =>
        /\ {"files", "meta"} \subseteq tables
        /\ bucket = "ours" \/ Given("dryRun")
        /\ scan = "done"

\* s3://BUCKET[.ENDPOINT]/[FOLDER] is read as clarc.1 describes it, and the text
\* that clarc logs for a destination is read as the same destination.
DestinationIsRead ==
    pc = "verify" =>
        /\ Range(destination.bucket) \cap EndPoints = {} =>
              Parse(AbsoluteString(destination)) = destination
        /\ \A b \in Buckets, e \in EndPoints \cup {None}, f \in Folders :
              given \in Written(b, e, f) =>
                  destination = [bucket |-> b, folder |-> f,
                                 endPoint |-> IF e = None THEN DefaultEndPoint ELSE e]

\* Every start comes to its end, whatever is in the way.
StartupEnds == <>(pc \in {"ready", "exited", "crashed"} \/ scan = "crashed")
=============================================================================

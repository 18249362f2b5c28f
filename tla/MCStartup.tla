------------------------------ MODULE MCStartup ------------------------------
(***************************************************************************)
(* A small tree, buckets, folders and command lines for Startup.           *)
(***************************************************************************)
EXTENDS Startup

\* SOURCE with a database, a file and a directory of another file, a socket and a
\* directory that is one too deep.
DirsValue == {<<>>, <<"d">>, <<"d", "z">>}
FilesValue == {<<"db">>, <<"x">>, <<"d", "y">>, <<"d", "s">>}
OpaqueValue == {<<"d", "s">>}
NamesValue == <<{"db"}, {"db-journal"}>>

BucketsValue == {<<"b">>, <<"b", ".", "c">>}
FoldersValue == {<<>>, <<"f">>}
\* No prefix, no bucket, two levels, and endpoints where none is expected.
MalformedValue ==
    {<<>>, <<"b">>, <<Prefix>>, <<Prefix, "/", "f">>, <<Prefix, "b", "/", "f", "/", "g">>,
     <<Prefix, "s3.amazonaws.com">>,
     <<Prefix, "s3.amazonaws.com", ".", "s3.amazonaws.com", "/">>,
     <<Prefix, "b", "s3-eu-west-1.amazonaws.com", "/">>}

Flag(n) == [name |-> n]
Number(n, v) == [name |-> n, number |-> v]
CreateIn(r) == [name |-> "create", region |-> r]
Exclude(g, ms) == [name |-> "exclude", good |-> g, matches |-> ms]
Keys == Flag("keys")

Invocation(o, s, d) == [options |-> o, source |-> s, dest |-> d]
Somewhere == <<Prefix, "b", "/">>

Lines ==
    {<<>>, <<Flag("help")>>,
     <<Keys, Number("uploadThreads", 100)>>, <<Keys, Number("networkTimeout", 0)>>,
     <<Keys, CreateIn("US")>>, <<Keys, CreateIn("eu-west-1"), CreateIn("us-west-2")>>,
     <<Keys, CreateIn("eu-west-1"), Flag("dryRun")>>,
     <<Keys, Flag("rebuildOnly"), Flag("delete")>>,
     <<Keys, Exclude(FALSE, <<>>)>>,
     <<Keys, Flag("delete"), Flag("rebuild"), Flag("unknown"),
       Number("uploadThreads", 99), Exclude(TRUE, <<{<<"x">>}>>)>>}

Documented == UNION {Written(b, e, f) : b \in BucketsValue, e \in EndPoints \cup {None}, f \in FoldersValue}

\* Every list of options with a good SOURCE and DEST, every other
\* SOURCE, and every DEST.
CommandLinesValue ==
    {Invocation(o, "directory", Somewhere) : o \in Lines}
        \cup {Invocation(<<Keys>>, s, Somewhere) : s \in Kinds \ {"directory"}}
        \cup {Invocation(<<Keys, Flag("rebuildOnly")>>, "directory", d) : d \in MalformedValue \cup Documented}
=============================================================================

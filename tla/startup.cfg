\* Command lines, sources and destinations of every kind, with a user who changes
\* the tree while it is scanned.
SPECIFICATION FairSpec
CONSTANTS
    None = None
    Dirs <- DirsValue
    Files <- FilesValue
    Opaque <- OpaqueValue
    Locked = {}
    DatabaseNames <- NamesValue
    MaxOpen = 2
    Grow = 2
    MaxEdits = 2
    CommandLines <- CommandLinesValue
    Buckets <- BucketsValue
    Folders <- FoldersValue
    Answers = {"redirect", "error", "status"}
    MaxRedirects = 2
INVARIANTS
    TypeOK
    ReadyIsPrepared
    DestinationIsRead
    ScanIsExact
    TwiceOnlyIfMade
PROPERTIES
    CreatedOnlyIfAsked
    StartupEnds
CHECK_DEADLOCK FALSE

\* Failing requests and statements, redirects of later requests, and crashes.
SPECIFICATION FairSpec
CONSTANTS
    NumKeys = 4
    PageSize = 2
    ChunkSize = 3
    N = 2
    RetryFailAfter = 3
    InUrl = {}
    Redirected = {"next", "head"}
    Fallible = {"get", "head", "database"}
    MaxRedirects = 2
    MaxStarts = 1
    MaxListed = 5
INVARIANTS
    TypeOK
    DoneIsComplete
    OldOrTrue
    ListIsPrefix
PROPERTIES
    ChangesAreInformed
    RebuildEnds
CHECK_DEADLOCK FALSE

\* Amazon redirects the first page.
SPECIFICATION Spec
CONSTANTS
    NumKeys = 2
    PageSize = 2
    ChunkSize = 2
    N = 1
    RetryFailAfter = 3
    InUrl = {}
    Redirected = {"first"}
    Fallible = {}
    MaxRedirects = 1
    MaxStarts = 0
    MaxListed = 3
INVARIANTS
    DoneIsComplete
CHECK_DEADLOCK FALSE

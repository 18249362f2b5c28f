\* Liveness: every process ends, and repeated plain runs catch up.
SPECIFICATION RepeatedSpec
CONSTANTS
    a = a
    b = b
    s1 = s1
    s2 = s2
    None = None
    Database = Database
    Files <- FilesValue
    Slots <- SlotsValue
    Symlinks = {}
    Huge = {}
    Folder = ""
    Invocations <- ConvergingRuns
    Edits <- CarefulEdits
    Faults <- AllFaults
    StartMtimes = {1}
    MaxClock = 2
    MaxFaults = 1
    RetryFailAfter = 3
    MtimeModulus = 100
    BatchSize = 1
    ChunkSize = 1
PROPERTIES
    RunTerminates
    Converges
    DatabaseReturns

\* Every kind of edit and fault, deleting and dry runs, next to a huge file.
SPECIFICATION Spec
CONSTANTS
    a = a
    b = b
    s1 = s1
    s2 = s2
    None = None
    Database = Database
    Files <- FilesValue
    Slots <- SlotsValue
    Symlinks = {}
    Huge = {b}
    Folder = ""
    Invocations <- HostileRuns
    Edits <- AllEdits
    Faults <- AllFaults
    StartMtimes = {1}
    MaxClock = 3
    MaxFaults = 1
    RetryFailAfter = 3
    MtimeModulus = 2
    BatchSize = 1
    ChunkSize = 1
SYMMETRY Symmetry
INVARIANTS
    TailAfterCleanDrain
PROPERTIES
    DryRunChangesNothing

\* No faults: between runs the database is what a rebuild would make of it.
SPECIFICATION Spec
CONSTANTS
    a = a
    b = b
    s1 = s1
    s2 = s2
    None = None
    Database = Database
    Files <- FilesValue
    Slots <- SlotsValue
    Symlinks = {b}
    Huge = {}
    Folder = "f"
    Invocations <- FaultFreeRuns
    Edits <- GrowingEdits
    Faults <- NoFaults
    StartMtimes = {1}
    MaxClock = 3
    MaxFaults = 0
    RetryFailAfter = 3
    MtimeModulus = 100
    BatchSize = 1
    ChunkSize = 1
SYMMETRY Symmetry
INVARIANTS
    RebuildIsNoOp

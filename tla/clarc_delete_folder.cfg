\* --delete with a destination folder erases objects of files that still exist.
SPECIFICATION Spec
CONSTANTS
    a = a
    b = b
    s1 = s1
    s2 = s2
    None = None
    Database = Database
    Files <- OneFile
    Slots <- OneSlot
    Symlinks = {}
    Huge = {}
    Folder = "f"
    Invocations <- DeleteRuns
    Edits <- NoEdits
    Faults <- NoFaults
    StartMtimes = {1}
    MaxClock = 1
    MaxFaults = 0
    RetryFailAfter = 3
    MtimeModulus = 100
    BatchSize = 1
    ChunkSize = 1
PROPERTIES
    DeletesOnlyLocallyDeleted

\* Two files and two workers; edits that always get a new mtime, one fault.
SPECIFICATION Spec
CONSTANTS
    a = a
    b = b
    s1 = s1
    s2 = s2
    None = None
    Database = Database
    Files <- FilesValue
    Slots <- SlotsValue
    Symlinks = {}
    Huge = {}
    Folder = ""
    Invocations <- CarefulRuns
    Edits <- CarefulEdits
    Faults <- AllFaults
    StartMtimes = {0, 1}
    MaxClock = 2
    MaxFaults = 1
    RetryFailAfter = 3
    MtimeModulus = 100
    BatchSize = 1
    ChunkSize = 1
SYMMETRY FullSymmetry
INVARIANTS
    TypeOK
    SkipIsSound
    KnownIsSynced
    CleanRunSyncs
    UploadsOnlyChanged
    CarefulInv
PROPERTIES
    DeletesOnlyLocallyDeleted
    ImplementsMirror

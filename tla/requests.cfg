\* Two uploads at a time, each with one retry, and an owner who may have no name.
SPECIFICATION Spec
CONSTANTS
    a = a
    b = b
    None = None
    Files <- FilesValue
    Stored = {a, b}
    Owner <- OwnerValue
    Group <- GroupValue
    Nameless = {3}
    Size = 2
    MaxTries = 2
INVARIANTS
    TypeOK
    OwnersAreRight
    RefusalIsNoticed
CHECK_DEADLOCK FALSE

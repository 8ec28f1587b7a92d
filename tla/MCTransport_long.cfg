SPECIFICATION Spec
CONSTANTS
    Calls <- ArchivedErrors
    Idle = 2
    Lifetime = 8
    ErrorCap = 1
    MaxPieces = 4
    MemoryLimit = 1
INVARIANTS
    LongBodyIsClassified

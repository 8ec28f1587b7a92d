SPECIFICATION Spec
CONSTANTS
    Calls <- MCCalls
    Idle = 2
    Lifetime = 8
    ErrorCap = 1
    MaxPieces = 4
    MemoryLimit = 1
INVARIANTS
    TimeoutIsNotDisconnect
    CutNeverClean
    IdleIsSilence
    WaitsAreBounded
    ArchiveIsHonest

SPECIFICATION Spec
CONSTANTS
    Event <- MCEvent
    WireInits <- MCWires
    Buffered <- WiresBuffered
    Live <- WiresLive
    ReplayBuffered <- WiresReplay
    ReplayPrefix <- WiresReplayPrefix
    CompleteOnEOF <- WiresCompleteOnEOF
    Forwardable <- WiresForwardable
    EarlyCommit = FALSE
    ProgressGated = TRUE
    Keepalives = TRUE
    MaxResponse = 4
    MaxBufferMem = 1
    MaxChunks = 2
    MaxPerChunk = 2
    MaxEvents = 4
    ValidateJSON = TRUE
    NormalizeToolJSON = TRUE
    InterceptRefusal = TRUE
    MaxGroup = 2
    CandidateCount = 2
INVARIANTS
    CommitPrompt
    SpoolFaithful
    RefusalIntercepted
    GatedClientSeesProgress

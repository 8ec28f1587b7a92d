SPECIFICATION Spec
CONSTANTS
    Event <- MCEvent
    WireInits <- MCWires
    Buffered <- WiresBuffered
    Live <- WiresLive
    ReplayBuffered <- WiresReplay
    ReplayPrefix <- WiresReplayPrefix
    CompleteOnEOF <- WiresCompleteOnEOF
    Forwardable <- WiresForwardable
    EarlyCommit = TRUE
    ProgressGated = FALSE
    Keepalives = FALSE
    MaxResponse = 2
    MaxBufferMem = 1
    MaxChunks = 2
    MaxPerChunk = 2
    MaxEvents = 3
    ValidateJSON = TRUE
    NormalizeToolJSON = TRUE
    InterceptRefusal = TRUE
    MaxGroup = 2
    CandidateCount = 2
INVARIANTS
    TypeOK
    ReturnContract
    SpoolReleased
    ResponsesSuccessIsComplete
    LiveIsCurrent
    FinishedOnlyIfSuccess

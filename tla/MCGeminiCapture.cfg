SPECIFICATION FairSpec
CONSTANTS
    Event <- MCEvent
    WireInits <- MCWires
    Buffered <- WiresBuffered
    Live <- WiresLive
    ReplayBuffered <- WiresReplay
    ReplayPrefix <- WiresReplayPrefix
    CompleteOnEOF <- WiresCompleteOnEOF
    Forwardable <- WiresForwardable
    EarlyCommit = FALSE
    ProgressGated = FALSE
    Keepalives = TRUE
    MaxResponse = 2
    MaxBufferMem = 1
    MaxChunks = 2
    MaxPerChunk = 1
    MaxEvents = 2
    ValidateJSON = TRUE
    NormalizeToolJSON = TRUE
    InterceptRefusal = TRUE
    MaxGroup = 2
    CandidateCount = 2
INVARIANTS
    GeminiSuccessIsComplete
PROPERTIES
    CaptureReturns
    ReaderExits
    ImplementsStream

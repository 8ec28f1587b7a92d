SPECIFICATION WiresSpec
CONSTANTS
    Event <- MCEvent
    WireInits <- AllWires
    Buffered <- WiresBuffered
    Live <- WiresLive
    ReplayBuffered <- WiresReplay
    ReplayPrefix <- WiresReplayPrefix
    CompleteOnEOF <- WiresCompleteOnEOF
    Forwardable <- WiresForwardable
    MaxEvents = 8
    ValidateJSON = TRUE
    NormalizeToolJSON = TRUE
    InterceptRefusal = FALSE
    MaxGroup = 2
    CandidateCount = 2
INVARIANTS
    SuccessKeepsContent
    NeverAhead
    NoGarbledTool
    BufferIsDeliverable
    TextIsKept
    AnswerIsComplete
    OnlyValidForwarded

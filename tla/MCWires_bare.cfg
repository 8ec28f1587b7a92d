SPECIFICATION BareSpec
CONSTANTS
    Event <- MCEvent
    WireInits <- RawWire
    Buffered <- WiresBuffered
    Live <- WiresLive
    ReplayBuffered <- WiresReplay
    ReplayPrefix <- WiresReplayPrefix
    CompleteOnEOF <- WiresCompleteOnEOF
    Forwardable <- WiresForwardable
    MaxEvents = 7
    ValidateJSON = TRUE
    NormalizeToolJSON = TRUE
    InterceptRefusal = FALSE
    MaxGroup = 2
    CandidateCount = 2
INVARIANTS
    DoneIsDeliverable

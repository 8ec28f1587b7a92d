SPECIFICATION MCSpec
CONSTANTS
    FirstModel = "original"
    Fallbacks <- FallbackModels
    TxLocalRetries = 1
    SDKRetryCap = 1
    Windows = {0, 3}
    MaxRequestDur = 4
    Replies <- UpstreamReplies
    InBandErrors <- StreamErrors
    EngineFailures <- StreamFailures
    Second = 2
    FastWait = 1
    BackoffCap = 1
    WiresOf <- MCWiresOf
    EventsOf <- MCEventsOf
    MaxEvents = 3
    Buffered <- MCBuffered
    Live <- MCLive
    ReplayBuffered <- MCReplayBuffered
    ReplayPrefix <- MCReplayPrefix
    CompleteOnEOF <- MCCompleteOnEOF
    Forwardable <- MCForwardable
INVARIANTS
    ClientSeesOneAnswer

SPECIFICATION ArchiveSpec
CONSTANTS
    FirstModel = "original"
    Fallbacks <- FallbackModels
    TxLocalRetries = 0
    SDKRetryCap = 1
    Windows = {0, 4}
    MaxRequestDur = 6
    Replies <- UpstreamReplies
    InBandErrors <- StreamErrors
    EngineFailures <- OtherFailures
    Second = 2
    FastWait = 1
    BackoffCap = 2
INVARIANTS
    ArchiveExplainsAttempts
    OutcomeDescribesAnswer
    ChainNeverRestarts
    SpoolsReleased
    OfferIsHeeded
PROPERTIES
    ImplementsChain
    AccountErrorEndsChain

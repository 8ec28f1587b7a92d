SPECIFICATION FairSpec
CONSTANTS
    FirstModel = "original"
    Fallbacks <- FallbackModels
    TxLocalRetries = 1
    SDKRetryCap = 1
    Windows = {0, 4}
    MaxRequestDur = 7
    Replies <- FewReplies
    InBandErrors <- StreamErrors
    EngineFailures <- OtherFailures
    Second = 2
    FastWait = 1
    BackoffCap = 2
INVARIANTS
    ErrorsReadAlike
    RetriesBounded
    WaitFits
PROPERTIES
    HandlerReturns

SPECIFICATION FairSpec
CONSTANTS
    RequiredSamples = 1
    TriggerSteps = 1
    MaxRequiredSamples = 2
    MaxConcurrentSamples = 2
    TotalRolloutSteps = 5
    PendingQueueSize = 2
    TestFreq = 2
    MayFail = TRUE
    PromptLoop = FALSE
    None = None
INVARIANTS
    TypeOK
    StalenessCovers
    OutstandingBounded
    ConcurrencyBounded
    PausedMeansQuiet
    EndSignalIsLast
    SamplesAccounted
PROPERTIES
    FailureStopsTrainer

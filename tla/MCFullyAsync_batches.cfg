SPECIFICATION FairSpec
CONSTANTS
    RequiredSamples = 2
    TriggerSteps = 2
    MaxRequiredSamples = 5
    MaxConcurrentSamples = 1
    TotalRolloutSteps = 7
    PendingQueueSize = 2
    TestFreq = 2
    MayFail = FALSE
    PromptLoop = FALSE
    None = None
INVARIANTS
    SyncEveryTrigger
    NothingForgotten
PROPERTIES
    Terminates

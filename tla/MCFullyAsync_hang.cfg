SPECIFICATION FairSpec
CONSTANTS
    RequiredSamples = 1
    TriggerSteps = 1
    MaxRequiredSamples = 2
    MaxConcurrentSamples = 2
    TotalRolloutSteps = 2
    PendingQueueSize = 2
    TestFreq = 2
    MayFail = TRUE
    PromptLoop = TRUE
    None = None
PROPERTIES
    FailureEndsFit

SPECIFICATION FairSpec
CONSTANTS
    RequiredSamples = 2
    TriggerSteps = 1
    MaxRequiredSamples = 3
    MaxConcurrentSamples = 2
    TotalRolloutSteps = 5
    PendingQueueSize = 2
    TestFreq = 2
    MayFail = FALSE
    PromptLoop = TRUE
    None = None
PROPERTIES
    Terminates

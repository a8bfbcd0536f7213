SPECIFICATION FairSpec
CONSTANTS
    RequiredSamples = 2
    TriggerSteps = 1
    MaxRequiredSamples = 2
    MaxConcurrentSamples = 2
    TotalRolloutSteps = 4
    PendingQueueSize = 2
    TestFreq = 2
    MayFail = FALSE
    PromptLoop = FALSE
    None = None
PROPERTIES
    TrainerServed

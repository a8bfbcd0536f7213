SPECIFICATION Spec
CONSTANTS
    RequiredSamples = 1
    TriggerSteps = 1
    MaxRequiredSamples = 3
    MaxConcurrentSamples = 1
    TotalRolloutSteps = 5
    PendingQueueSize = 2
    TestFreq = 2
    MayFail = FALSE
    PromptLoop = TRUE
    None = None
INVARIANTS
    RolloutBudget

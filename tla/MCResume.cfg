CONSTANTS
    UseCritic = TRUE
    MaxCkptToKeep = 2
    TotalRolloutSteps = 7
    RequiredSamples = 1
    TriggerSteps = 2
    SaveFreq = 2
    MayExpire = TRUE
    MaxInFlight = 2
    MaxRestarts = 2
SPECIFICATION FairSpec
CHECK_DEADLOCK FALSE
INVARIANTS TypeOK TrackedWhole NoSampleTwice WithinBudget WorkAtRisk LossBounded
PROPERTIES TrackerForward RunsEnd

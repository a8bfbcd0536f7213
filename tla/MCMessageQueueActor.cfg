SPECIFICATION FairSpec
CONSTANTS
    MaxQueueSize = 2
    Consumers = {c1, c2}
    MaxProduced = 4
    MaxValidate = 1
INVARIANTS
    TypeOK
    NoLostNotification
    StatisticsConsistent
PROPERTIES
    ImplementsStream
    ShutdownReleases

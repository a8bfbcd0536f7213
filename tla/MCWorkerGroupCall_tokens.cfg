SPECIFICATION Spec
CONSTANTS
    WorldSize = 4
    SpSize = 2
    NumRows = 8
    Batches <- MCBatches
    ShortLengths = {1, 2, 3, 4}
    LongLengths = {5, 7}
    InferMaxTokenLen = 3
    TrainMaxTokenLen = 2
    MiniBatchSize = 4
    Epochs = 1
    Shuffle <- MCShuffle
CHECK_DEADLOCK FALSE
INVARIANTS
    TokenBudget

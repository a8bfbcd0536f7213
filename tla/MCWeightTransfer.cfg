CONSTANTS
    NumTensors = 4
    BucketSize = 2
    Receivers = {r1, r2}
    r1 = r1
    r2 = r2
SPECIFICATION FairSpec
CHECK_DEADLOCK FALSE
INVARIANT TypeOK
PROPERTIES Copies Terminates

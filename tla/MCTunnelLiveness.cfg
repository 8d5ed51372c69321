CONSTANTS
    InitWindow = 2
    MaxData = 2
    MaxStreamId = 1
    MaxBytes <- LivenessBytes
    FairIds = {0}
SPECIFICATION FairSpec
PROPERTIES
    BothEndsClose
    WindowReopens
    PipesDeliver
CHECK_DEADLOCK FALSE

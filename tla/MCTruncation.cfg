CONSTANTS
    InitWindow = 4
    MaxData = 3
    MaxStreamId = 0
    MaxBytes <- OneTunnelBytes
    FairIds = {}
SPECIFICATION Spec
PROPERTY
    NoTruncation
CHECK_DEADLOCK FALSE

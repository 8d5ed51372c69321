CONSTANTS
    InitWindow = 2
    MaxData = 2
    MaxStreamId = 1
    MaxBytes <- TwoTunnelBytes
    FairIds = {0, 1}
SPECIFICATION Spec
INVARIANTS
    TypeOK
    QueueHasReader
    FreshOpen
    NoOrphan
CHECK_DEADLOCK FALSE

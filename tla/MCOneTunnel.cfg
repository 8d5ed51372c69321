CONSTANTS
    InitWindow = 4
    MaxData = 3
    MaxStreamId = 0
    MaxBytes <- OneTunnelBytes
    FairIds = {0}
SPECIFICATION Spec
INVARIANTS
    DataInOrder
    CreditConserved
    FlowControl
PROPERTY
    PipesSafe
CHECK_DEADLOCK FALSE

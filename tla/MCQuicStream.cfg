CONSTANTS
    a = a
    b = b
    Stream <- MCStream
    Local <- MCLocal
    SendLimit = 2
    ConnSendLimit = 2
    StreamWindow = 1
    ConnWindow = 2
    MaxSegments = 2
    Plans <- MCPlans
SPECIFICATION Spec
INVARIANTS TypeOK SendBuffers CreditExact ReceiptsHonest WaitersBlocked SentOnce
PROPERTIES Flushed
CHECK_DEADLOCK FALSE

CONSTANTS
    x = x
    y = y
    Conn <- MCConn
    Horizon = 2
    Plans <- MCPlans
SPECIFICATION Spec
INVARIANTS TypeOK NothingUnserved TimerCovers AcceptOnce RaceLeavesOne PeerTold
PROPERTIES StopEnds CloseEnds
CHECK_DEADLOCK FALSE

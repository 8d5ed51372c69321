CONSTANTS
    port = port
    x = x
    y = y
    r1 = r1
    r2 = r2
    c1 = c1
    c2 = c2
    None = None
    Port <- MCPort
    Name <- MCName
    Target <- MCTarget
    Rule <- MCRule
    Conn <- MCConn
SPECIFICATION FairSpec
INVARIANTS CountersExact ListedListens SessionOutlives
PROPERTIES RemovedEnds
CHECK_DEADLOCK FALSE

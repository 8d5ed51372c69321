CONSTANTS
    a = a
    b = b
    Client = {a, b}
    Name = {n}
    NameOf <- SameName
    Transport <- OneOfEach
    MaxSlot = 3
    Faults = {"cut", "slow", "connect", "forward", "context"}
    MaxFaults = 1
SPECIFICATION FairSpec
PROPERTIES
    StaleForgotten
    NameServed
    Reconnects
CHECK_DEADLOCK FALSE

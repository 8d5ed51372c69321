CONSTANTS
    a = a
    b = b
    Client = {a}
    Name = {n}
    NameOf <- SameName
    Transport <- AllTcp
    MaxSlot = 2
    Faults = {"cut"}
    MaxFaults = 1
SPECIFICATION FairSpec
PROPERTY
    KeepsTrying
CHECK_DEADLOCK FALSE

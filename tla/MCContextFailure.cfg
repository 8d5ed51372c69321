CONSTANTS
    a = a
    b = b
    Client = {a}
    Name = {n}
    NameOf <- SameName
    Transport <- AllAuto
    MaxSlot = 2
    Faults = {"context"}
    MaxFaults = 1
SPECIFICATION FairSpec
PROPERTY
    KeepsTrying
CHECK_DEADLOCK FALSE

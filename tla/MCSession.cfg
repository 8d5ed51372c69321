CONSTANTS
    a = a
    b = b
    Client = {a, b}
    Name = {n}
    NameOf <- SameName
    Transport <- AutoAndTcp
    MaxSlot = 3
    Faults = {"cut", "slow", "context"}
    MaxFaults = 2
SPECIFICATION Spec
INVARIANTS
    TypeOK
    AckMeansRegistered
    PongAnswersPing
PROPERTY
    RegistrySafe
CHECK_DEADLOCK FALSE

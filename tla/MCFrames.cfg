CONSTANTS
    Classes <- MCClasses
    U8 = 1
    U16 = 1
    U32 = 1
    U64 = 2
    MaxFrame = 4
    ControlSize = 10
    Control <- MCControl
    Ids <- MCIds
    Payloads <- MCPayloads
    Foreign <- MCForeign
    MaxOut = 1
    MaxWire = 1
    MaxHeld = 2
SPECIFICATION Spec
INVARIANTS RoundTrip AssertsHold PoolsSound
CHECK_DEADLOCK FALSE

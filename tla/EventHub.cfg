SPECIFICATION Spec
CONSTANTS
    Clients = {c1, c2}
    Default = Default
    NotLoaded = NotLoaded
    MaxEvents = 3
    MaxRegs = 2
INVARIANTS
    FrontOfNonEmpty
    NoLostWakeup
    RegisteredPairUsed
PROPERTIES
    EventuallyDelivered
    JoinReturnsOutsideWindow
    ImplementsChannel
CHECK_DEADLOCK FALSE

SPECIFICATION Spec
CONSTANTS
    Clients = {c1, c2}
    Default = Default
    NotLoaded = NotLoaded
    MaxEvents = 1
    MaxRegs = 0
PROPERTY
    FreeReturns
CHECK_DEADLOCK FALSE

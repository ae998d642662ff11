SPECIFICATION Spec
CONSTANTS
    MaxUtt = 2
    MaxPrep = 2
    MaxQueue = 2
INVARIANTS
    CloseRespected
    ResultsAreRead
    AudioToItsSession
PROPERTIES
    ClosedByItsOwn
    SessionFreed

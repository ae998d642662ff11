SPECIFICATION Spec
CONSTANTS
    Frm = 2
    TooLong = 4
    Resume = 1
    Lens = {0, 1, 3}
    MaxIn = 6
INVARIANTS
    TypeOK
    PausedIffCanceled
    NoGapNoRepeat
PROPERTIES
    EndIsComplete
    SleepSilences
    SleepClosesSession
    ImplementsSession

SPECIFICATION Spec
CONSTANTS
    N = 9
    W = 7
    B = 3
    Skip = 1
    Off = 1
    Pad = 1
    CfLag = 1
    Extra = 2
    Wait = 2
    RightOff = 2
    MaxBack = 3
    MaxChunk = 4
    MaxTotal = 21
INVARIANTS
    EngineBehind
    RingHoldsLast
    BeamAudioCurrent
    WindowsRight

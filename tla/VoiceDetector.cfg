SPECIFICATION Spec
CONSTANTS
    MaxFrames = 12
    PreFrames = 1
    MinVoc = 2
    VocPct = 50
    MinSpeech = 6
    MaxSpeech = 8
    ShortSil = 3
    LongSil = 10
    SilPct = 60
    Keep = 2
    PitchLag = 1
    MaxInput = 8
    MaxSilence = 12
INVARIANTS
    NeverFull
    NeverDeaf
    SegmentIntact
    EndWindowInBuffer
PROPERTIES
    SegmentComplete
    SegmentEnds
    ImplementsReport

SPECIFICATION Spec
CONSTANTS
    Words = {d, a, b}
    RightSil = {}
    Default = d
    NoWord = NoWord
    Wait = 1
    MaxLen = 2
    Threads = {t1, t2}
    Free = Free
PROPERTY
    RemoveReturns

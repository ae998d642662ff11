SPECIFICATION EngineSpec
CONSTANTS
    Words = {d, a, r}
    RightSil = {r}
    Default = d
    NoWord = NoWord
    Wait = 2
    MaxLen = 2
INVARIANT
    SecSlFindsIdleBuffer

SPECIFICATION EngineSpec
CONSTANTS
    Words = {d, a, r}
    RightSil = {r}
    Default = d
    NoWord = NoWord
    Wait = 2
    MaxLen = 2
INVARIANTS
    NeverWordless
    FreshUnlessPending
    WorkingMatchesCurrent
    SecSlFailsFirst
    OnlyHastyChangesHarm
PROPERTIES
    LookupRightUnlessPending
    BufferIsReleased

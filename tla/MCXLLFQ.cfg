SPECIFICATION ListSpec
CONSTANTS
    Items = {a, b}
    Freed = Freed
    mMaxSize = 2
    MaxPushes = 5
INVARIANTS
    ListTypeOK
    ReaderNodeLive
    RejectOnlyWhenFull
PROPERTY
    ImplementsFifo

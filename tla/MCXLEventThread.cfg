SPECIFICATION FairSpec
CONSTANTS
    mMaxSize = 2
    MaxPuts = 3
    MaxStops = 2
    MaxLives = 2
INVARIANTS
    TypeOK
    QueueOutlivesThread
    ExitIsLast
PROPERTIES
    DestroyReturnsUnless
    EventHandledUnless
\* The owner may destroy a thread that waits in Get, or leave it there.
CHECK_DEADLOCK FALSE

\* The queue of a thread pool: XLThreadPool.cpp:89.
SPECIFICATION FairSpec
CONSTANTS
    Writers = {w1, w2}
    Readers = {r1, r2}
    MultiWriter = TRUE
    MultiReader = TRUE
    mMaxSize = 2
    NoThread = NoThread
    MaxPuts = 4
INVARIANTS
    TypeOK
    TokensMatch
    ExactlyOnce
PROPERTIES
    ImplementsFifo
    EveryEventRead
\* Readers may wait for events that no writer will put.
CHECK_DEADLOCK FALSE

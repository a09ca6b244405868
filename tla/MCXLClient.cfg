SPECIFICATION FairSpec
CONSTANTS
    mMaxSize = 2
    MaxMessages = 3
    MaxLives = 2
INVARIANTS
    TypeOK
    OnlyBlankEvents
    ReturnsOnlyIfGone
PROPERTY ListenerJoinedUnless
\* Start waits for ever, and the threads wait for the server.
CHECK_DEADLOCK FALSE

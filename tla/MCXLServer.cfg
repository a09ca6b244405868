SPECIFICATION FairSpec
CONSTANTS
    mMaxSize = 2
    NConnection = 2
    MaxBroadcasts = 2
    MaxConnects = 2
INVARIANTS
    TypeOK
    AcceptsMatchSockets
PROPERTIES
    ImplementsBroadcasting
    ServedUnless
    StopEndsUnless
\* The program ends, or its threads wait for events and for clients.
CHECK_DEADLOCK FALSE

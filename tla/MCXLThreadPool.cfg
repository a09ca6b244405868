SPECIFICATION FairSpec
CONSTANTS
    m_iNumMaxThread = 2
    mMaxSize = 2
    Clients = {c1, c2}
    Nobody = Nobody
    MaxJobs = 3
    MaxWorkers = 2
INVARIANTS
    TypeOK
    SizeBounded
    DestroyLeavesNothing
PROPERTIES
    DestroyReturnsUnless
    JobRuns
\* The program ends, after Destroy or by a crash.
CHECK_DEADLOCK FALSE

SPECIFICATION FairSpec
CONSTANTS
    m_iNumMaxThread = 2
    mMaxSize = 4
    Clients = {c1}
    Nobody = Nobody
    MaxJobs = 1
    MaxWorkers = 2
PROPERTY
    DestroyReturns
\* The program ends, after Destroy or by a crash.
CHECK_DEADLOCK FALSE

SPECIFICATION FairSpec
CONSTANTS
    m_iNumMaxThread = 2
    mMaxSize = 2
    Clients = {c1, c2}
    Nobody = Nobody
    MaxJobs = 2
    MaxWorkers = 4
PROPERTY JobRuns
\* The program ends, after Destroy or by a crash.
CHECK_DEADLOCK FALSE

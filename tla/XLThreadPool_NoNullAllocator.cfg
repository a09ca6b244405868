SPECIFICATION Spec
CONSTANTS
    m_iNumMaxThread = 2
    mMaxSize = 2
    Clients = {c1}
    Nobody = Nobody
    MaxJobs = 1
    MaxWorkers = 2
INVARIANT
    NoNullAllocator
\* The program ends, after Destroy or by a crash.
CHECK_DEADLOCK FALSE

SPECIFICATION FairSpec
CONSTANTS
    mMaxSize = 2
    MaxThreads = 3
    MaxLives = 3
    MaxJobs = 2
INVARIANTS
    TypeOK
    AlarmNeverHandled
PROPERTY ResetTerminatesUnless
\* SetAlarm waits for ever, and the threads wait for events.
CHECK_DEADLOCK FALSE

SPECIFICATION FairSpec
CONSTANTS
    Threads = {t1, t2, t3, t4}
    NoThread = NoThread
    Creations <- MCCreations
    MaxPermits = 3
INVARIANTS
    TypeOK
    NoLostWakeup
PROPERTIES
    WakeupDelivered
    ImplementsSemaphore
\* Every thread may be asleep with no permit left: the program really blocks.
CHECK_DEADLOCK FALSE

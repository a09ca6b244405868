SPECIFICATION Spec
CONSTANTS
    Threads = {t1, t2}
    Ptrs = {p1, p2, p3}
    Objects = {o1}
    Counters = {c1, c2}
    None = None
    MaxCopies = 4
SYMMETRY Symmetry
INVARIANTS
    TypeOK
    CountExact
    OwnedTogether
    CrashNeedsCause
\* The program may end in a crash, or run out of copies and counters.
CHECK_DEADLOCK FALSE

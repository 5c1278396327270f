SPECIFICATION Spec
CONSTANTS
    Threads = {t1, t2, t3}
    Objects = {o1, o2, o3}
    NoThread = NoThread
    NoObject = NoObject
SYMMETRY Symmetry
INVARIANTS TableSound ClosesWhatItFound
PROPERTY ClosedOnce
CHECK_DEADLOCK FALSE

SPECIFICATION LockSpec
CONSTANTS
    Procs = {p1, p2, p3}
    NoProc = NoProc
    Overlap = FALSE
INVARIANT LockTypeOK
INVARIANT OneScheduler
INVARIANT LockInv
SYMMETRY Symmetry

CONSTANTS
    p1 = p1
    p2 = p2
    p3 = p3
    Proc = {p1, p2, p3}
    Lock = {1, 2, 3}
    NoLock = 0
    MaxClass = 3
    MaxHeld = 2
SPECIFICATION OSpec
INVARIANT OrderInv
INVARIANT NoWaitCycle
PROPERTY HighestReleased
PROPERTY SpinProgress

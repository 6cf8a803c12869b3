CONSTANTS
    l1 = l1
    l2 = l2
    v1 = v1
    v2 = v2
    NoDesc = NoDesc
    Lba <- MCLba
    Val <- MCVal
    MaxRec = 2
SPECIFICATION JFairSpec
INVARIANT JInv
PROPERTY ImplementsAtomicDisk
PROPERTY CallReturns

SPECIFICATION FFairSpec
CONSTANTS
    Lba <- HomeLba
    Val <- FsBlock
    MaxRec = 4
    NoDesc = NoDesc
    Name = {a, b, bad}
    BadName = {bad}
    Bytes <- MCBytes
    Data <- MCData
    BlockSize = 1
    NumBlocks = 17
    NumInodes = 4
    TableBlocks = 2
    NumSlots = 2
    ZeroBytes = z
    NoFile = NoFile
    NoCall = NoCall
    NoEntry = NoEntry
    NoInode = NoInode
    MaxCuts = 1
    z = z
    x = x
    a = a
    b = b
    bad = bad
INVARIANTS
    DiskInv
    LeakBounded
PROPERTIES
    ImplementsFileStore
    FsCallReturns

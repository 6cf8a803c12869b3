CONSTANTS
    a = a
    b = b
    c = c
    BadName = BadName
    Relative = Relative
    TooLong = TooLong
    Name <- MCName
    Byte = {0, 1}
    MaxNodes = 4
    MaxOpen = 2
    DataBytes = 4
    FileCap = 2
    IntMax = 2
    MaxOffset = 3
    AddrSpace = 8
    Regions <- MCRegions
    MaxPath = 4
    MaxSerial = 3
    NrMax = 10
    Opens <- MCOpens
    Buffers <- MCBuffers
    ReadLens = {1, 4}
    FdRegs = {0, 2, 5, 7}
    Seeks <- MCSeeks
    Seeds <- MCSeeds
    Ptrs = {0, 3}
SPECIFICATION Spec
INVARIANT VfsInv
PROPERTY FailedHarmless
PROPERTY UserAccess
PROPERTY ImplementsFiles

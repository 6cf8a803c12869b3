SPECIFICATION KSpec
CONSTANTS
    AddrSpace = 64
    Align = 2
    Header = 6
    MinSplit = 4
    Arenas <- MCArenas
    Size = {0, 1, 4, 7, 12, 36, 63}
    Count = {0, 2, 33}
    Ptr <- MCPtr
INVARIANT KmemInv
PROPERTY ImplementsHeap

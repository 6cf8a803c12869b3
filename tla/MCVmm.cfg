CONSTANTS
    AddrSpace = 32
    PageSize = 4
    FrameCount = 6
    Maps <- MCMaps
    Ranges <- MCRanges
    Addrs <- MCAddrs
    NoFrame = NoFrame
    Fan = 2
    Upper = 2
    PhysSize = 16
    VAddrs <- MCVAddrs
    Targets = {0, 24, 3}
    FlagSets <- MCFlagSets
SPECIFICATION Spec
INVARIANT PmmInv
INVARIANT OwnedAreUsable
INVARIANT TableTree
PROPERTY AllocFailsOnlyWhenFull
PROPERTY ImplementsAddressSpace

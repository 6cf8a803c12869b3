SPECIFICATION Spec
CONSTANTS
    Name = {a, b, bad}
    NameError <- MCNameError
    LongName = {}
    Value = {x, y}
    Content <- MCContent
    Zero = Zero
    PerBlock = 2
    TableBlocks = 2
    NumBlocks = 9
    NumSlots = 2
    DirectBlocks = 3
    MaxCuts = 1
    NoName = NoName
    NoCall = NoCall
    a = a
    b = b
    bad = bad
    x = x
    y = y
INVARIANTS
    DiskInv
    NothingLeaksQuietly
PROPERTIES
    OthersUntouched
    OkMeansDone
    MountsWhole

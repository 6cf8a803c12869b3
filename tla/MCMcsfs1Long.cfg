SPECIFICATION Spec
CONSTANTS
    Name = {a, b, bad}
    NameError <- MCNameError
    LongName = {a}
    Value = {x, y}
    Content <- MCContent
    Zero = Zero
    PerBlock = 2
    TableBlocks = 2
    NumBlocks = 9
    NumSlots = 3
    DirectBlocks = 3
    MaxCuts = 0
    NoName = NoName
    NoCall = NoCall
    a = a
    b = b
    bad = bad
    x = x
    y = y
INVARIANT NoTwins

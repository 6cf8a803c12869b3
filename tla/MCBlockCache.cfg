CONSTANTS
    ram = ram
    disk = disk
    usb = usb
    Dev = {ram, disk, usb}
    Ram = ram
    Flaky = {ram}
    NumDev = 2
    NumEntry = 2
    Lba = {0, 1, 2}
    Blocks <- MCBlocks
    Val = {zero, x}
    Zero = zero
    NoDev = NoDev
    NoEntry = NoEntry
SYMMETRY MCSymmetry
SPECIFICATION BSpec
INVARIANT BlockInv
PROPERTY FlushDurable

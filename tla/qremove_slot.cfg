SPECIFICATION Spec_
CONSTANTS
    x = x
    y = y
    Names = {x, y}
    Values = {1, 2}
    Junk = Junk
    Sources <- MCSources
    MinRoom = 2
    MaxItems <- MCItems
    MaxCap <- MCCap
    SizeMod = 16
    PastEnd = FALSE
    ReadSlot = TRUE
    ShrinkReserve = FALSE
    Tables <- MCTables
    IndexSnapshots = FALSE
    WordBits = 3
    MaxBits = 8
    SetAllCleared = FALSE
VIEW View
PROPERTIES Implements

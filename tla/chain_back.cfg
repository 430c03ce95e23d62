SPECIFICATION Spec_
CONSTANTS
    NULL = NULL
    one = one
    three = three
    five = five
    cinq = cinq
    Keys = {zero, one, three, five, cinq}
    Values = {v, w}
    Hash <- MCHash
    InitialCap = 2
    Load = 1
    SetCopies = 2
    LastAddress = 6
    AddressHash <- MCAddressHash
    FirstRoom = 2
    FullBin = 3
    MaxCap = 8
    BackSteps = 6
    LongBins = FALSE
    SplitFails = FALSE
VIEW View
INVARIANT IteratorsAgree

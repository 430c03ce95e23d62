\* raw_ddeque with chunks of 3 elements
CONSTANTS
    Values = {a, b}
    a = a
    b = b
    Junk = Junk
    nChunkSize = 3
    MaxChunks = 3
    MaxBulk = 5
    MaxReserve = 7
    ExactFit = FALSE
    ReuseCleared = FALSE
    LongFront = FALSE
SPECIFICATION Spec
VIEW View
INVARIANT TypeOK
INVARIANT CountersAgree
INVARIANT NoGaps
INVARIANT NoFault
INVARIANT IndexingAgrees
INVARIANT IteratorsAgree
PROPERTY Implements

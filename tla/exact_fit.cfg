\* raw_ddeque with chunks of 2 elements
CONSTANTS
    Values = {a, b}
    a = a
    b = b
    Junk = Junk
    nChunkSize = 2
    MaxChunks = 4
    MaxBulk = 4
    MaxReserve = 7
    ExactFit = TRUE
    ReuseCleared = FALSE
    LongFront = FALSE
SPECIFICATION Spec
VIEW View
INVARIANT NoFault
CHECK_DEADLOCK FALSE

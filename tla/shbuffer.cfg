SPECIFICATION FairSpec
CONSTANTS
    NULL = NULL
    Handles = {h1, h2, h3}
    Buffers = {b1, b2}
    Data = {d1, d2}
    MaxReferences = 5
INVARIANTS TypeOK CountIsExact NoDangling DeletedOnce MappedAlive NothingForgotten
PROPERTIES KeepsPromise BufferIsFreed

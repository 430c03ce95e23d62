SPECIFICATION PairSpec
CONSTANTS
    NULL = NULL
    p1 = p1
    p2 = p2
    r = r
    Threads = {p1, p2, r}
    Objects = {1, 2, 3, 4}
    Pushers = {p1, p2}
    Setters = {}
    Pullers = {}
    Getters = {r}
    Collectors = {p2}
    Observers = {r}
    NullDeleter = FALSE
    MaxPublished = 4
    MaxSet = 3
INVARIANTS TypeOK OneOwner NoDoubleDelete NoLeak ReaderPointerAlive UnionIsTagged
PROPERTIES StateMovesForward KeepsPromise PendingIsTaken RefusedSetIsAccepted

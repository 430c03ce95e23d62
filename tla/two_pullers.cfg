SPECIFICATION OrderedSpec
CONSTANTS
    NULL = NULL
    Threads = {p, r1, r2}
    Objects = {1, 2, 3, 4}
    Pushers = {p}
    Setters = {}
    Pullers = {r1, r2}
    Getters = {}
    Collectors = {}
    Observers = {}
    NullDeleter = FALSE
    MaxPublished = 4
PROPERTIES StateMovesForward

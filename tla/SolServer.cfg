SPECIFICATION FairSpec
CONSTANTS
    d1 = d1
    d2 = d2
    w1 = w1
    w2 = w2
    r1 = r1
    r2 = r2
    r3 = r3
    r4 = r4
    root = root
    index = index
    a = a
    b = b
    Dispatchers = {d1, d2}
    Workers = {w1, w2}
    Requests = {r1, r2, r3, r4}
    Null = Null
    Exit = Exit
    Names = {root, index, a, b}
    Root = root
    Index = index
    Garbled = Garbled
    Present <- FilesPresent
    Length <- NameLength
    Longer <- OneMore
    Bad = Bad
    Other = Other
    Silent = Silent
    Starts <- SmallStarts
    MAX_THREADS = 2
    MAX_QLEN = 2
    MAX_CE = 2
INVARIANTS
    TypeOK
    CacheHoldsTheNewest
PROPERTIES
    ImplementsQueue
    ImplementsService
    RequestsAnswered
    ServerExits
CHECK_DEADLOCK FALSE

\* Two threads of each kind that can race, a queue of one, first come first served.
CONSTANTS
    d1 = d1 d2 = d2 w1 = w1 w2 = w2 p1 = p1
    r1 = r1 r2 = r2 r3 = r3 r4 = r4 f1 = f1 f2 = f2
    Null = Null
    Dispatchers = {d1, d2}
    Workers = {w1, w2}
    Prefetchers = {p1}
    Requests = {r1, r2, r3}
    Files = {f1, f2}
    Hash <- PerfectHash
    MaxCache = 2
    MaxQueue = 1
    MaxPrefetch = 1
    Mode = "FCFS"
    Guesses = {f2}
    Trees <- FullTree
    NoExtension = {}
    LogAsserts = FALSE
    Spurious = TRUE
    MaxChanges = 0
SPECIFICATION Spec
SYMMETRY Interchangeable
INVARIANTS
    TypeOK
    Custody
    NoLostGet
    NoLostPut
    PrefetchBound
    RestsOnlyWhenDone
    EntryPinned
    WorkersNeverChain
PROPERTY ImplementsService
CHECK_DEADLOCK FALSE

\* Two workers, smallest file first, a request queue with room to spare.
CONSTANTS
    d1 = d1 d2 = d2 w1 = w1 w2 = w2 p1 = p1
    r1 = r1 r2 = r2 r3 = r3 r4 = r4 f1 = f1 f2 = f2
    Null = Null
    Dispatchers = {d1}
    Workers = {w1, w2}
    Prefetchers = {p1}
    Requests = {r1, r2}
    Files = {f1, f2}
    Hash <- PerfectHash
    MaxCache = 2
    MaxQueue = 2
    MaxPrefetch = 1
    Mode = "SFF"
    Guesses = {f2}
    Trees <- FullTree
    NoExtension = {}
    LogAsserts = FALSE
    Spurious = FALSE
    MaxChanges = 0
SPECIFICATION Spec
INVARIANT AnsweredOnce
CHECK_DEADLOCK FALSE

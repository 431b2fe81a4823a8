\* One thread of each kind and the end of the input, every thread scheduled fairly.
CONSTANTS
    d1 = d1 d2 = d2 w1 = w1 w2 = w2 p1 = p1
    r1 = r1 r2 = r2 r3 = r3 r4 = r4 f1 = f1 f2 = f2
    Null = Null
    Dispatchers = {d1}
    Workers = {w1}
    Prefetchers = {p1}
    Requests = {r1}
    Files = {f1, f2}
    Hash <- PerfectHash
    MaxCache = 2
    MaxQueue = 1
    MaxPrefetch = 1
    Mode = "FCFS"
    Guesses = {f2}
    Trees <- FullTree
    NoExtension = {}
    LogAsserts = FALSE
    Spurious = FALSE
    MaxChanges = 0
SPECIFICATION FairSpec
PROPERTY ExitsCleanly
CHECK_DEADLOCK FALSE

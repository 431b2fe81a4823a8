\* One thread of each kind, scheduled fairly, cached requests first, a file that may be
\* missing, and a cache that never fills up.
CONSTANTS
    d1 = d1 d2 = d2 w1 = w1 w2 = w2 p1 = p1
    r1 = r1 r2 = r2 r3 = r3 r4 = r4 f1 = f1 f2 = f2
    Null = Null
    Dispatchers = {d1}
    Workers = {w1}
    Prefetchers = {p1}
    Requests = {r1, r2, r3}
    Files = {f1, f2}
    Hash <- PerfectHash
    MaxCache = 6
    MaxQueue = 2
    MaxPrefetch = 1
    Mode = "CRF"
    Guesses = {f2}
    Trees <- ComesAndGoes
    NoExtension = {}
    LogAsserts = FALSE
    Spurious = FALSE
    MaxChanges = 0
SPECIFICATION FairSpec
INVARIANT NoFault
PROPERTY EventuallyAnswered
CHECK_DEADLOCK FALSE

\* Two dispatchers, one worker and a queue of one, with spurious wakeups, and a file that
\* comes or goes: four requests are one more than the queue may come to hold.
CONSTANTS
    d1 = d1 d2 = d2 w1 = w1 w2 = w2 p1 = p1
    r1 = r1 r2 = r2 r3 = r3 r4 = r4 f1 = f1 f2 = f2
    Null = Null
    Dispatchers = {d1, d2}
    Workers = {w1}
    Prefetchers = {p1}
    Requests = {r1, r2, r3, r4}
    Files = {f1, f2}
    Hash <- PerfectHash
    MaxCache = 2
    MaxQueue = 1
    MaxPrefetch = 1
    Mode = "FCFS"
    Guesses = {f2}
    Trees <- ComesAndGoes
    NoExtension = {}
    LogAsserts = FALSE
    Spurious = TRUE
    MaxChanges = 1
SPECIFICATION Spec
SYMMETRY Interchangeable
INVARIANTS
    QueueBound
    LogFollowsReply
CHECK_DEADLOCK FALSE

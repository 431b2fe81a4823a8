\* The cache as in HashCacheSearch.cfg, its cells and the requests' alike.
CONSTANTS
    f1 = f1 f2 = f2 f3 = f3
    Null = Null
    Sentinel = Sentinel
    Cells = {c1, c2, c3, c4}
    Files = {f1, f2, f3}
    Hash <- TwoBuckets
    MaxCache = 3
    Requests = {r1, r2}
    queue_sentinel = queue_sentinel
    prefetch_sentinel = prefetch_sentinel
SPECIFICATION ServerSpec
SYMMETRY AnyMemory
INVARIANTS
    ServerTypeOK
    CacheIntact
    ListsIntact
PROPERTIES
    ImplementsCacheService
    ImplementsQueues
    PicksFirstCached
CHECK_DEADLOCK FALSE

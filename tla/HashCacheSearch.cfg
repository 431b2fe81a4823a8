\* Two names in one bucket.
CONSTANTS
    f1 = f1 f2 = f2 f3 = f3
    Null = Null
    Sentinel = Sentinel
    Cells = {c1, c2, c3, c4}
    Files = {f1, f2, f3}
    Hash <- TwoBuckets
    MaxCache = 3
SPECIFICATION Spec
SYMMETRY AnyCell
INVARIANT FindsTheEntry
CHECK_DEADLOCK FALSE

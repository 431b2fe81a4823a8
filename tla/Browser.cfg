SPECIFICATION FairSpec
CONSTANTS
    UNRECLAIMED_TAB_COUNTER = 2
    Capacity = 2
    MaxClicks = 3
    MaxUris = 2
    MayCrash = TRUE
INVARIANTS
    TypeOK
    AliveIsRight
    BrokenOnlyByDeath
    TabsWereAskedFor
PROPERTIES
    UrisInOrder
    UriArrives
    ControllerTakesAll
CHECK_DEADLOCK FALSE

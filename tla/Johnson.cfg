SPECIFICATION Spec
CONSTANTS
    Infinity = 1000
    MaxWeight = 5
    Null = Null
    Inputs <- SmallFiles
INVARIANTS
    TypeOK
    FinalIsRight
    PathLeadsBack
PROPERTIES
    ExtractedIsFinal
CHECK_DEADLOCK FALSE

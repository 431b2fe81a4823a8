SPECIFICATION FairSpec
CONSTANTS
    Size = 45
    NULL = NULL
    DataSize = 2
    MaxPackets = 6
    NumMessages = 5
    MaxAlarms = 1
    Fills <- SomeFills
INVARIANTS
    TypeOK
    MessagesWhole
PROPERTIES
    ImplementsHeap
    Ends
CHECK_DEADLOCK FALSE

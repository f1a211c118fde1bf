\* Five bytes through FIFOs of one to three.
CONSTANTS
    MaxTyped = 5
    TapCap = 3
    OutCap = 2
    InputCap = 2
    PrintCap = 1
SPECIFICATION FairSpec
INVARIANTS
    TypeOK
    NothingLost
    ByteAnnounced
PROPERTIES
    TypedIsRead
CHECK_DEADLOCK FALSE

\* Two bytes, four slots and two turns of the cursors.
CONSTANTS
    Bytes = {0, 1}
    Size = 4
    MaxGiven = 8
SPECIFICATION FairSpec
INVARIANTS
    FifoInv
PROPERTIES
    IsChannel
CHECK_DEADLOCK FALSE

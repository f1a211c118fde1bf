\* Four packets, one fault, and a receiver up to two bytes behind.
CONSTANTS
    Payloads <- MCPayloads
    MaxFrames = 4
    MaxFaults = 1
    LineCap = 2
SPECIFICATION FairSpec
INVARIANTS
    TypeOK
    ReceivedWereSent
    FaultCost
PROPERTIES
    PacketsArrive
CHECK_DEADLOCK FALSE

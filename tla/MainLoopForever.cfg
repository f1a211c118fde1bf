\* Liveness over several turns of the counter: dragonfruit with HB_FOREVER, and nodes
\* that are renamed between two power-ups.
CONSTANTS
    ClockMod = 8
    IntHalf = 4
    Gen = "dragonfruit"
    HbForever = TRUE
    HbWindow = 5
    SampleWait = 3
    HbWait = 2
    MaxPass = 1
    AgeCap = 8
    Addresses = {7, 9}
SPECIFICATION FairSpec
INVARIANTS
    AddressCurrent
PROPERTIES
    SamplesKeepComing
    HeartbeatsKeepComing
    HbForeverHonoured
CHECK_DEADLOCK FALSE

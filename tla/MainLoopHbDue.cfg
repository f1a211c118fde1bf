\* A stay in command mode that an int cannot hold.
CONSTANTS
    ClockMod = 32
    IntHalf = 8
    Gen = "guava"
    HbForever = FALSE
    HbWindow = 23
    SampleWait = 5
    HbWait = 2
    MaxPass = 1
    AgeCap = 32
    Addresses = {7}
SPECIFICATION Spec
PROPERTIES
    HeartbeatAlwaysDue
CHECK_DEADLOCK FALSE

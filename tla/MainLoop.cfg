\* One turn of the counter and more, eight-valued ints: cranberry, heartbeats
\* limited to their window.
CONSTANTS
    ClockMod = 16
    IntHalf = 4
    Gen = "cranberry"
    HbForever = FALSE
    HbWindow = 11
    SampleWait = 3
    HbWait = 2
    MaxPass = 1
    AgeCap = 16
    Addresses = {7}
SPECIFICATION Spec
INVARIANTS
    TypeOK
    SampleTimely
    UptimeFresh
    HeartbeatsInWindow
PROPERTIES
    SamplePacing
    HeartbeatPacing
    SampleDueSeen
    HeartbeatDueSeen
CHECK_DEADLOCK FALSE

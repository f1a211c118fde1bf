\* Cranberry, built with HB_FOREVER.
CONSTANTS
    ClockMod = 16
    IntHalf = 8
    Gen = "cranberry"
    HbForever = TRUE
    HbWindow = 10
    SampleWait = 5
    HbWait = 2
    MaxPass = 1
    AgeCap = 16
    Addresses = {7}
SPECIFICATION Spec
PROPERTIES
    HbForeverHonoured
CHECK_DEADLOCK FALSE

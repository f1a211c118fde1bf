\* A self-test in the dark.
CONSTANTS
    MaxPasses = 1
    MaxEvents = 0
    MaxTries = 1
SPECIFICATION Spec
INVARIANTS
    IrradianceInReference
CHECK_DEADLOCK FALSE

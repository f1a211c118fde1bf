\* Every generation: a self-test and one more pass, two mishaps.
CONSTANTS
    MaxPasses = 2
    MaxEvents = 2
    MaxTries = 2
SPECIFICATION FairSpec
INVARIANTS
    TypeOK
    FieldsCurrent
    ComplaintsRight
PROPERTIES
    HygrometerRepeats
    PassEnds
CHECK_DEADLOCK FALSE

\* Three runs of the emulator, whichever shell starts them.
CONSTANTS
    MaxStarts = 3
SPECIFICATION FairSpec
INVARIANTS
    TypeOK
    StoppedIsStopping
    FreshOnline
    StopReachesModel
PROPERTIES
    WaitEnds
CHECK_DEADLOCK FALSE

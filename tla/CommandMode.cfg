\* Three bytes of buffer, so that typing ahead overflows it, during the self-test
\* and in the menu of cranberry.
CONSTANTS
    RxCap = 3
    MaxTyped = 8
    MenuBytes = {"nl", "E", "S", "1"}
    PlainBytes = {"nl", "E", "P", "T"}
SPECIFICATION FairSpec
INVARIANTS
    TypeOK
    LinesObeyed
    LineAligned
PROPERTIES
    NoLineLeft
CHECK_DEADLOCK FALSE

\* Nines make numbers of one and of two bytes; anything may be on the stack.
CONSTANTS
    Digits = {9}
    MaxBurns = 2
    Stale <- DirtyStack
SPECIFICATION Spec
INVARIANTS
    TypeOK
    NodeNamedAsConfirmed
    TornOneWay
    NumberOfLine
CHECK_DEADLOCK FALSE

CONSTANTS
    N = 3
    MaxAttempts = 2
SPECIFICATION Spec
INVARIANTS
    RecordsTellStanding
    ReverseOrder
    AllOrNothing
CHECK_DEADLOCK FALSE

CONSTANTS
    Workers = {w1, w2}
    MaxInvocations = 3
    MaxRetries = 1
    MaxCalls = 4
SPECIFICATION Spec
INVARIANTS
    BudgetHolds
    AttemptsPerCall
    EventsTellAttempts
PROPERTY RefusalIsFinal
CHECK_DEADLOCK FALSE
SYMMETRY MCSymmetry

CONSTANTS
    Sagas = {s1, s2}
    SessionIDs = {c1, c2, c3}
    NoSession = nil
    Local = {"reserve"}
    External = {"charge"}
    NoName = "-"
    Plans <- MCPlans
    MaxAttempts = 2
SPECIFICATION Spec
INVARIANTS
    SucceedsOnlyWhole
    OutcomeComplete
    PausesAreLogged
    LogTellsEnd
CHECK_DEADLOCK FALSE
SYMMETRY MCSymmetry

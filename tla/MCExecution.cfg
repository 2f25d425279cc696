CONSTANTS
    Runner = runner
    Callers = {c1, c2}
    Principals = {alice}
    NoPrincipal = none
    Capabilities = {}
    FailureCodes <- Codes
    NoFailure = nil
    Values <- MCValues
    Encodable <- MCValues
    Hashes <- MCHashes
    NoHash = 0
    Hash <- MCHash
    MaxChunks = 2
    MaxEvidence = 1
    MaxInvocations = 1
    MaxFaults = 2
SPECIFICATION FairSpec
INVARIANTS
    RunsAtMostOnce
    ApprovalBeforeEffect
    NoLateWork
    AbandonedOnlyAfterError
    NoEventTwice
    DeliveredAtRest
    DeliveredInOrder
PROPERTIES
    AsyncSettles
    ApprovedFinishes
    GatedSpec
CHECK_DEADLOCK FALSE

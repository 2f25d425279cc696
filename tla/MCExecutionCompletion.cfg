CONSTANTS
    Runner = runner
    Callers = {c1, c2}
    Principals = {alice}
    NoPrincipal = none
    Capabilities = {}
    FailureCodes <- Codes
    NoFailure = nil
    Values <- MCValues
    Encodable <- MCValues
    Hashes <- MCHashes
    NoHash = 0
    Hash <- MCHash
    MaxChunks = 1
    MaxEvidence = 1
    MaxInvocations = 1
    MaxFaults = 0
SPECIFICATION Spec
INVARIANT CompletionReachesSubscribers
CHECK_DEADLOCK FALSE

CONSTANTS
    Principals = {alice, bob}
    NoPrincipal = none
    Capabilities = {cap}
    FailureCodes = {EXECUTION_ERROR}
    NoFailure = nil
    Values <- MCValues
    Encodable <- MCEncodable
    Hashes <- MCHashes
    NoHash = 0
    Hash <- MCHash
    MaxChunks = 2
    MaxEvidence = 2
SPECIFICATION SessionSpec
INVARIANTS
    StatusTellsOutcome
    CompletedExactlyOnce
    ChunkTrailRebuilds
    EvidenceVerifies
PROPERTIES
    SettledIsFinal
CHECK_DEADLOCK FALSE

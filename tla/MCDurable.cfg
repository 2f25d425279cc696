CONSTANTS
    Runner = runner
    Callers = {c1, c2}
    Nobody = nobody
    Principals = {alice}
    NoPrincipal = none
    Values <- MCValues
    Encodable <- MCEncodable
    Hashes <- MCHashes
    NoHash = 0
    Hash <- MCHash
    Reloaded <- MCReloaded
    MaxEvidence = 1
    MaxDecisions = 2
    MaxCrashes = 2
SPECIFICATION FairSpec
INVARIANTS
    SignedBeforeEffect
    RepeatedRunExplained
    AnswersStay
    PauseSurvives
PROPERTY OutcomeReachesStore
CHECK_DEADLOCK FALSE

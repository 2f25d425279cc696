CONSTANTS
    Threads = {t1, t2}
    Ids = {"mail", "chat", "relay"}
    ActionNames = {"send"}
    CapabilityNames = {"smtp", "dns"}
    Refs = {"r1", "r2"}
    Packages <- MCPackages
    None = None
    MaxCalls = 3
    FieldNames = {"cc", "body"}
    NoMap = NoMap
    Clients = {u1}
    Needs <- MCNeeds
    Binding <- MCBinding
    Gated <- MCGated
    InputContract <- MCContract
    Requests <- MCRequests
SPECIFICATION SSpec
INVARIANTS
    RunsWhatWasGated
    EntersWithValidInput
PROPERTIES
    RegisteredResolves
    ReplacedOnlyWhenGone
CHECK_DEADLOCK FALSE

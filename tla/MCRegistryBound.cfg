CONSTANTS
    Threads = {t1, t2}
    Ids = {"mail", "chat"}
    ActionNames = {"send", "post"}
    CapabilityNames = {"smtp"}
    Refs = {"r1", "r2", "r3"}
    Packages <- MCPackages
    None = None
    MaxCalls = 3
SPECIFICATION Spec
INVARIANT BoundWhileListed
CHECK_DEADLOCK FALSE

SPECIFICATION FairSpec
CONSTANTS
    Requests = {r1, r2}
    Clients = {c1}
INVARIANTS
    CompletedIsEarned
    NoOrphanIsLeft
PROPERTIES
    BootstrapSettles
CHECK_DEADLOCK FALSE

SPECIFICATION Spec
CONSTANTS
    Requests = {r1, r2}
    Clients = {c1}
PROPERTY HealsOnlyStuckNodes
CHECK_DEADLOCK FALSE

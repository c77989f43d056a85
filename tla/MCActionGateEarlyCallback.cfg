SPECIFICATION Spec
CONSTANTS
    Destructive = {stop}
    Immediate = {}
    Protected = {}
    Requests = {r1, r2, r3}
    MaxLosses = 0
INVARIANTS
    CompletionIsRecorded
CHECK_DEADLOCK FALSE

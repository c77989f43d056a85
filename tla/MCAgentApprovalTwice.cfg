SPECIFICATION Spec
CONSTANTS
    Actions = {restart}
    Users = {ada, bob, oli}
    Admins = {ada, bob}
    NoOne = NoOne
    Requests = {r1, r2}
    TargetCounts = {8, 9}
    CoSignThreshold = 8
INVARIANTS
    ExecutedOnce
CHECK_DEADLOCK FALSE

SPECIFICATION Spec
CONSTANTS
    Actions = {restart}
    Users = {ada, bob, oli}
    Admins = {ada, bob}
    NoOne = NoOne
    Requests = {r1, r2, r3}
    TargetCounts = {8, 9}
    CoSignThreshold = 8
SYMMETRY RequestSymmetry
INVARIANTS
    RunsAreSigned
    SignaturesDiffer
PROPERTIES
    ImplementsContract
CHECK_DEADLOCK FALSE

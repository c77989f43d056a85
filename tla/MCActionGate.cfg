SPECIFICATION MCSpec
CONSTANTS
    Destructive = {stop}
    Immediate = {start}
    Protected = {}
    Requests = {r1, r2, r3}
    MaxLosses = 1
INVARIANTS
    RerunsOnlyAfterLoss
    OnlyApprovedRuns
    ExecutedWasAnswered
PROPERTIES
    ImplementsContract
    RowsSettle
CHECK_DEADLOCK FALSE

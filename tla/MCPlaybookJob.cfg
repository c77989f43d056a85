SPECIFICATION FairSpec
CONSTANTS
    Jobs = {j1, j2}
    Cancels = {c1}
    TargetOf <- SameTarget
    PlaybookOf <- SamePlaybook
    MaxDeliveries <- OneThrice
    Workloads <- FourWorkloads
INVARIANTS
    OneRunPerKey
    CompletedSucceeded
PROPERTIES
    LockIsFreed
    OrphanIsReaped
CHECK_DEADLOCK FALSE

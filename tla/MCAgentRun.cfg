SPECIFICATION FairSpec
CONSTANTS
    a = a
    b = b
    c = c
    Runs = {a, b, c}
    Endpoints = {mini, cloud}
    Planner = {mini}
    General = {}
    Cloud = {cloud}
    Paid = {cloud}
    Default = {cloud}
    DailyCap = 1
    MaxIterations = 2
    Calls <- AllCalls
    Workloads <- Workloads1
INVARIANTS
    CapHolds
    AwaitingHasAction
PROPERTIES
    RunSettles
CHECK_DEADLOCK FALSE

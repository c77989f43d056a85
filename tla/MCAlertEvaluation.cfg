SPECIFICATION FairAlertSpec
CONSTANTS
    offline = offline
    drifted = drifted
    web = web
    db = db
    Rules = {offline, drifted}
    Subjects = {web, db}
    RuleOf <- MCRuleOf
    Evaluations = {e1, e2, e3}
    MaxOverlaps = 1
    MaxFailures = 1
INVARIANTS
    AlertedOnce
PROPERTY DueIsReported
CHECK_DEADLOCK FALSE

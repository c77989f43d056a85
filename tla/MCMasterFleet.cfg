SPECIFICATION FairSpec
CONSTANTS
    n1 = n1
    q1 = q1
    q2 = q2
    s1 = s1
    s2 = s2
    a1 = a1
    g1 = g1
    p1 = p1
    p2 = p2
    t1 = t1
    v1 = v1
    v2 = v2
    NoMaster = none
    Masters = {1, 2, 3}
    Nodes = {n1}
    Requests = {q1, q2}
    Sweeps = {s1, s2}
    Attachments = {a1}
    Reports = {g1}
    Pollers = {p1, p2}
    Tests = {t1}
    Provisions = {v1, v2}
    Bodies <- SomeBodies
    Conditions <- Conditions1
    Workloads <- AllWorkloads
INVARIANTS
PROPERTIES
    RegistryStaysUsable
    PresenceFollows
    HealthFollows
    ProvisioningEnds
CHECK_DEADLOCK FALSE

SPECIFICATION FairSpec
CONSTANTS
    s1 = s1
    s2 = s2
    s3 = s3
    v1 = v1
    c1 = c1
    b1 = b1
    h1 = h1
    r1 = r1
    r2 = r2
    r3 = r3
    w1 = w1
    w2 = w2
    w3 = w3
    w4 = w4
    w5 = w5
    w6 = w6
    i1 = i1
    i2 = i2
    site = site
    repo = repo
    y1 = y1
    y2 = y2
    n1 = n1
    p1 = p1
    d1 = d1
    fixed = fixed
    best = best
    new = new
    newer = newer
    m1 = m1
    m2 = m2
    q0 = q0
    q1 = q1
    q2 = q2
    q3 = q3
    q4 = q4
    q5 = q5
    k1 = k1
    k2 = k2
    k3 = k3
    k4 = k4
    k5 = k5
    Shells = {s1, s2, s3}
    Screens = {v1}
    Credential <- CredentialOf
    SshKeys = {"key"}
    MaxCached = 1
    None = none
    Collections = {c1}
    Bootstraps = {b1}
    Heartbeats = {h1}
    Returns = {r1, r2, r3}
    Jid <- JidOf
    Grain <- GrainOf
    Unknown = unknown
    RateLimit = 2
    Registered = registered
    NodeScopes = {"node"}
    GroupScopes = {"ml", "web"}
    SecretKeys = {"user", "password"}
    Writers = {w1, w2, w3, w4, w5, w6}
    Change <- ChangeOf
    Block = block
    Absent = absent
    Old = old
    Docs = {1, 2}
    Hashes = {before, after}
    Gone = gone
    Indexers = {i1, i2}
    PageSize = 1
    MaxEdits = 1
    MaxErrors = 1
    Order <- Listed
    Locals = {site}
    Files = {deploy, patch}
    Syncs = {y1, y2}
    BulkEnables = {n1}
    Enables = {p1}
    Disables = {d1}
    Wanted <- WantedOf
    MaxChanges = 2
    Places = {fixed, best, new, newer}
    FirstDefault = best
    Models = {m1, m2}
    ModelOf <- Serves
    AutoModel = auto
    Questions = {q0, q1, q2, q3, q4, q5}
    Streamed = {q3, q4}
    AskedOf <- Names
    TheDefault = default
    Prompts <- Asks
    Changes = {k1, k2, k3, k4, k5}
    ChangeTo <- Changed
    MaxTurns = 1
    Workloads <- AllWorkloads
INVARIANTS
    ConnectionsAreKept
    RefusalHasACause
    RowFollowsFacts
    AcknowledgedOnce
    PillarFollows
    OneRowSet
    AutoDisabledIsGone
    PromptFits
    LogIsTrue
    OneDefault
PROPERTIES
    SessionIsEnded
    IndexFollows
CHECK_DEADLOCK FALSE

SPECIFICATION FairSpec
CONSTANTS
    Requests = {r1, r2}
    Grains <- MCGrains
    DesiredStates <- MCDesiredStates
    MaxRetries = 1
    MaxLosses = 1
    MaxEdits = 1
INVARIANTS
    ScoreIsNewest
    QuietScoreIsCurrent
    ZeroMeansConforming
PROPERTIES
    NeverOlder
CHECK_DEADLOCK FALSE

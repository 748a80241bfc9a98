SPECIFICATION FairSpec
CONSTANTS
    s1 = s1
    s2 = s2
    s3 = s3
    Session <- ThreeSessions
    Primary = 1
    Backup = 1
    Weight <- Weights
    MaxConns <- Conns
    MaxFails <- Fails
    FailTimeout <- Timeouts
    Down <- NoneDown
    NextUpstream = TRUE
    NextTries = 0
    Epoch = 2
    MaxLag = 1
    MaxTime = 0

INVARIANTS Exclusion
PROPERTIES Settles

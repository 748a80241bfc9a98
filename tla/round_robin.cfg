SPECIFICATION Spec
CONSTANTS
    s1 = s1
    s2 = s2
    s3 = s3
    Session <- ThreeSessions
    Primary = 2
    Backup = 0
    Weight <- Weights
    MaxConns <- Conns
    MaxFails <- Fails
    FailTimeout <- Timeouts
    Down <- NoneDown
    NextUpstream = TRUE
    NextTries = 0
    Epoch = 2
    MaxLag = 1
    MaxTime = 4
VIEW RRView
SYMMETRY SessionSymmetry
INVARIANTS TypeOK ConnsAccurate MaxConnsKept WeightsBalanced OneProbe
PROPERTIES NoRetrySame

SPECIFICATION Spec
CONSTANTS
    BufSize = 2
    SockBuf = 1
    MaxBytes <- ThreeUpOneDown
    MaxBufs = 10
    MaxTime = 0
    Rate <- NoLimit
    HalfClose = FALSE
    RetryUpstream = TRUE
    Tries = 1
    UseResolver = FALSE
    Deferred = TRUE
    Expiring = {"cr", "cw", "ur", "uw"}
    Failures = {}
INVARIANTS RelayFIFO NothingLost NoLostEvent

SPECIFICATION FairSpec
CONSTANTS
    BufSize = 2
    SockBuf = 1
    MaxBytes <- TwoUp
    MaxBufs = 10
    MaxTime = 2
    Rate <- UpLimit
    HalfClose = TRUE
    RetryUpstream = TRUE
    Tries = 1
    UseResolver = FALSE
    Deferred = TRUE
    Expiring = {"cr", "ur"}
    Failures = {"alloc"}
INVARIANTS RateBound
PROPERTIES Delivery Termination

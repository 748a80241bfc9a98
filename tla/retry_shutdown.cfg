SPECIFICATION FairSpec
CONSTANTS
    BufSize = 2
    SockBuf = 1
    MaxBytes <- TwoUp
    MaxBufs = 10
    MaxTime = 0
    Rate <- NoLimit
    HalfClose = TRUE
    RetryUpstream = TRUE
    Tries = 2
    UseResolver = TRUE
    Deferred = FALSE
    Expiring = {"cr", "ur", "uw"}
    Failures = {"reset", "connect", "deadline", "shutdown"}
INVARIANTS TimerGuards FlushedAtClose
PROPERTIES ImplementsRelay ShutdownEnds HalfCloseAfterFlush

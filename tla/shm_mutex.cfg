SPECIFICATION FairSpec
CONSTANTS
    w1 = w1
    w2 = w2
    w3 = w3
    Worker <- ThreeWorkers
    Master = master
    NoPid = nopid
    Semaphore = TRUE
    MaxCrashes = 2
INVARIANTS MutualExclusion WaitAccounting NoLostWakeup
PROPERTIES Progress Recovery

\* The smallest instance: one worker, three slots, no deaths.
CONSTANTS
    WorkerProcesses = 1
    MaxProcesses = 3
    MaxSignals = 4
    MaxCrashes = 0
    MaxFatals = 0
    MaxForkFails = 0
SPECIFICATION Spec
INVARIANTS
    MasterExitsLast
CHECK_DEADLOCK FALSE

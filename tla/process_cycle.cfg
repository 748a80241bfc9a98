\* One worker, so that three signals fit: an upgrade and its rollback (USR2,
\* WINCH, HUP), reloads on reloads, a shutdown during either.  Four slots are
\* what three reloads with slow workers fill.
CONSTANTS
    WorkerProcesses = 1
    MaxProcesses = 4
    MaxSignals = 3
    MaxCrashes = 2
    MaxFatals = 1
    MaxForkFails = 1
SPECIFICATION Spec
INVARIANTS
    ProcessTable
    OldWorkersRetired
    NobodyElseTold
    EnoughWorkers
PROPERTIES
    ShutdownEnds
    WorkersReplaced
CHECK_DEADLOCK FALSE

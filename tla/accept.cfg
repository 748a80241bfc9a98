CONSTANTS
    ConnectionN = 3
    Reserve = 2
    Peers = 2
    Configurations <- MCConfigurations
SPECIFICATION Spec
INVARIANTS
    PoolIntact
    StaleCaught
    HeldIffListening
    ConnCounted
PROPERTIES
    PendingServed
CHECK_DEADLOCK FALSE

CONSTANTS
    c1 = c1
    c2 = c2
    Clients <- TwoClients
    Sizes = {0, 2}
    BufSize = 3
    ConnectionN = 4
    MaxDatagrams = 4
    MaxReplies = 2
    Unlimited = unlimited
    Configurations <- MCConfigurations
SPECIFICATION Spec
INVARIANTS
    RequestsAccounted
    NoneLingers
CHECK_DEADLOCK FALSE

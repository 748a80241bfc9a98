SPECIFICATION Spec
CONSTANTS
    N = 4
    PageSize = 12
    Slots = {3, 4, 6}
    ExactSize = 4
    Requests = {2, 4, 5, 20}
    Clients = {c1, c2, c3, c4, c5}
SYMMETRY Symmetric
INVARIANTS BlocksDisjoint FailsOnlyWhenFull NeverRefused

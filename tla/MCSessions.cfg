CONSTANTS
    Requests = {r1, r2}
    Kinds = {"login", "refresh", "logout", "changePassword", "setPassword",
             "lock", "unlock", "revoke", "delete"}
    LockAt = 3
    MaxPairs = 3
    MaxOps = 4
    MaxClock = 2
    MaxFaults = 1
SPECIFICATION Spec
INVARIANTS SingleUse RevocationEndsSessions FailuresLock
PROPERTIES LockEnds
SYMMETRY RequestSymmetry
CHECK_DEADLOCK FALSE

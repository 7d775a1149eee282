CONSTANTS
    u1 = u1
    u2 = u2
    Groups <- TwoThenOne
    Weight <- LastHeaviest
    Strategies = {"weighted", "round_robin", "failover"}
    HealthFailsToDown = 1
    Callers = {c1}
    RRMod = 3
    Null = Null
SPECIFICATION UpFairSpec
INVARIANTS
    UpTypeOK
    ErrorMeansAllTried
PROPERTIES
    RecoveredReturns

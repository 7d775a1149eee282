CONSTANTS
    Domains <- Names
    QueryHandlers = {h1}
    Workers = {w1}
    Exact = {}
    Wildcard <- Below
    HasAPI = TRUE
    QueueSize = 2
    MaxUpsets = 1
    None = None
SPECIFICATION IntelFairSpec
INVARIANTS NoFalseAlarm OnlyUnwaitedPanics
PROPERTIES QueuedIsBlocked
CHECK_DEADLOCK FALSE

CONSTANTS
    n1 = n1  n2 = n2
    t1 = t1  t2 = t2
    r1 = r1  r2 = r2  r3 = r3
    Names = {n1, n2}
    Tenants = {t1, t2}
    Pinned = {t2}
    Lists <- RegexLists
    Queries = {q1, q2}
    Reloads = {w1}
    None = None
SPECIFICATION FairSpec
PROPERTIES LookupsReturn
CHECK_DEADLOCK FALSE

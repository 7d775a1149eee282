CONSTANTS
    Tenants = {t1, t2}
    Prefixes = {p1, p2}
    Domains = {d1}
    Readers = {r1}
    Handlers = {h1}
    Kinds = {"create", "update", "flags", "dot", "delete"}
    MaxOps = 3
    MaxGone = 1
    Null = Null
SPECIFICATION TenantFairSpec
INVARIANTS TenantTypeOK PurgedAfterWrite
PROPERTIES EventuallyFresh

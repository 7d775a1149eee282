CONSTANTS
    Handlers = {h1, h2}
    Nodes = {n1}
    Hots <- TwoHots
    Edited = {"rules", "hots", "tenants"}
    Left = {0}
    MaxOps = 2
    MaxFails = 2
SPECIFICATION FairSpec
INVARIANTS LoadedCoversVersion
PROPERTIES Converges HotListed
CHECK_DEADLOCK FALSE

CONSTANTS
    Domains = {d1}
    Handlers = {h1}
    Loop = Loop
    Scanners = {s1}
    HasAliyunKey = FALSE
    Methods = {"http01", "dns01"}
    MaxRequests = 2
    MaxSerial = 9
    MaxAges = 1
    MaxFaults = 2
    None = None
SPECIFICATION FairSpec
INVARIANTS PairsMatch ServesWholePairs
PROPERTIES EventuallySecured
CHECK_DEADLOCK FALSE

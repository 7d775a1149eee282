CONSTANTS
    W4 = 2
    W6 = 3
    DefaultSource = 1
    ScopeMax = 1
    Options <- ClientOptions
    Asked <- AskedSubnets
    MaxEntries = 1
    NAT64 <- Prefixes
    Index <- Indexes
    CSV <- CSVs
    Files <- BindingFiles
    Rows <- BindingRows
    HasAPI = TRUE
    DeriveMask = 2
    StrictCity = TRUE
    None = None
SPECIFICATION Spec
INVARIANTS TypeAll AnswersFit BindingChosen DerivedElseDefault ExtractsAfterPrefix

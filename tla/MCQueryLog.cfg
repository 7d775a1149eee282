CONSTANTS
    Producers = {p1, p2}
    Cap = 2
    BatchMax = 2
    MaxRows = 5
    Stdout = FALSE
SPECIFICATION FairSpec
INVARIANTS
    LossCounted
PROPERTIES
    ImplementsLossyLog
    WriteNeverBlocks
    RowsSettle
CHECK_DEADLOCK FALSE

CONSTANTS
    Writers = {w1, w2, w3}
    Details = {"none", "scalar", "object"}
    OldRows = 2
    MaxRows = 6
    None = None
SPECIFICATION Spec
INVARIANTS
    ChainLinear
    VerifyReports
    BackfillRepairs
SYMMETRY WriterSymmetry
CHECK_DEADLOCK FALSE

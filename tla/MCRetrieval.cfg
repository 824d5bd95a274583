\* Five documents, the three best asked for.
CONSTANTS
    Docs = {d1, d2, d3, d4, d5}
    TopK = 3
    Constant = 60
SPECIFICATION Spec
SYMMETRY MCSymmetry
INVARIANTS ResultsWereFound AgreedOrder FirstHitKept
CHECK_DEADLOCK FALSE

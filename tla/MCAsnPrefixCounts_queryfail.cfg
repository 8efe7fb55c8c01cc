\* Does a failing worker query end the run?
CONSTANTS
    ASNS <- MCAsnsFull
    Counts <- MCCountsFull
    W = 2
    B = 2
    QueryMayFail = TRUE
SPECIFICATION Spec
INVARIANTS
    QueryFailureNotFatal

\* Spec section 8 scenario: is ASN 300, alone in the last batch, ever sent?
CONSTANTS
    ASNS <- MCAsnsSpec
    Counts <- MCCountsSpec
    W = 2
    B = 2
    QueryMayFail = FALSE
SPECIFICATION Spec
INVARIANTS
    AllAsnsDispatched

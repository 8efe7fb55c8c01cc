\* Both passes over nine eligible ASNs, four full batches and a partial one
\* never sent, on two connections,
\* with worker queries that may fail.
CONSTANTS
    ASNS <- MCAsnsFull
    Counts <- MCCountsFull
    W = 2
    B = 2
    QueryMayFail = TRUE
SPECIFICATION Spec
INVARIANTS
    TypeOK
    DistinctConnections
    BatchesInOrder
    MergeMatchesData
PROPERTIES
    Terminates

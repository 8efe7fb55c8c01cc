\* Three inits over three ASNs whose activity changes twice, with two
\* faults: the schema, mark and delete statements may fail, and the
\* process may be killed between any two statements.
CONSTANTS
    a1 = a1
    a2 = a2
    a3 = a3
    Asns <- MCAsns
    NumInits = 3
    MaxChurn = 2
    MaxFaults = 2
    FailingStatements = {"create", "mark", "delete"}
SYMMETRY MCSymmetry
SPECIFICATION Spec
INVARIANTS
    TypeOK
    SeededKept
    InitExact

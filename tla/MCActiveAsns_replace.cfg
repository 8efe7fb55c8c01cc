\* Two inits; the REPLACE of one of them fails.
CONSTANTS
    a1 = a1
    a2 = a2
    a3 = a3
    Asns <- MCAsns
    NumInits = 2
    MaxChurn = 0
    MaxFaults = 1
    FailingStatements = {"replace"}
SYMMETRY MCSymmetry
SPECIFICATION Spec
INVARIANT SeededKept

\* Two runs after an init whose CREATE TRIGGER failed: no
\* ins_gen_asn_stats; counts may stay the same from one run to the next.
CONSTANTS
    a1 = a1
    a2 = a2
    Asns <- MCAsns
    Choices <- MCChoices
    NumRuns = 2
    Window = 2
    RunTime = 1
    Overlap = FALSE
    MaxClock = 3
    InsertMayFail = FALSE
    TriggerInPlace = FALSE
SYMMETRY MCSymmetry
SPECIFICATION Spec
INVARIANT NoRepeatedPoint

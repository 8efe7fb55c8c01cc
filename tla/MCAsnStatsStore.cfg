\* Three runs one at a time, each shorter than the refresh window, with a
\* bulk statement that may fail.  A tick is 4 minutes: the 8-minute window
\* is 2 ticks.
CONSTANTS
    a1 = a1
    a2 = a2
    Asns <- MCAsns
    Choices <- MCChoices
    NumRuns = 3
    Window = 2
    RunTime = 1
    Overlap = FALSE
    MaxClock = 6
    InsertMayFail = TRUE
    TriggerInPlace = TRUE
SYMMETRY MCSymmetry
SPECIFICATION Spec
INVARIANTS
    TypeOK
    RatioOfPredecessor
    LatestIsCurrent
PROPERTY
    ImplementsSnapshotSeries

\* One run that takes longer than the 8-minute window (3 ticks against 2):
\* its rows carry the start timestamp and fall out of the refresh window.
\* A single run, so no second run's rows can be in the window instead.
CONSTANTS
    a1 = a1
    a2 = a2
    Asns <- MCAsns
    Choices <- MCChoices
    NumRuns = 1
    Window = 2
    RunTime = 3
    Overlap = FALSE
    MaxClock = 3
    InsertMayFail = FALSE
    TriggerInPlace = TRUE
SYMMETRY MCSymmetry
SPECIFICATION Spec
INVARIANT LastStateCurrent

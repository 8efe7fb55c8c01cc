\* Three runs one hour (two ticks) apart or closer, each shorter than the
\* purge's hour; the fetch and every statement may fail.
CONSTANTS
    r1 = r1
    r2 = r2
    r3 = r3
    Roas <- MCRoas
    Exports <- MCExports
    MaxBulk = 2
    NumRuns = 3
    Hour = 2
    RunTime = 1
    MaxClock = 6
    FetchMayFail = TRUE
    QueryMayFail = TRUE
SPECIFICATION Spec
INVARIANTS
    TypeOK
    BulkCoversExport
    ExportSurvivesPurge

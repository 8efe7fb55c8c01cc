\* Three runs over five ASNs with two faults anywhere: a failed query, HTTP
\* call, REPLACE or download.
CONSTANTS
    nPlain = nPlain
    nRipe = nRipe
    nApnic = nApnic
    notFound = notFound
    NotFound = notFound
    Names <- MCNames
    RipeNames = {nRipe}
    ApnicNames = {nApnic}
    Quoted = {11}
    ArinName <- MCArinName
    StatsAsns <- MCStatsAsns
    ApnicFile <- MCApnicFile
    LoaderFiles <- MCLoaderFiles
    MaxRequests = 2
    NumRuns = 3
    MaxFailures = 2
    Private4Start = 1000000
SPECIFICATION Spec
INVARIANTS TypeOK LoadMatchesRecords
PROPERTIES EventuallyNamed

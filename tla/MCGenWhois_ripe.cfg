\* Two fault-free runs over an ASN ARIN names, one it refers to RIPE and one
\* it refers to APNIC.
CONSTANTS
    nPlain = nPlain
    nRipe = nRipe
    nApnic = nApnic
    notFound = notFound
    NotFound = notFound
    Names <- MCNames
    RipeNames = {nRipe}
    ApnicNames = {nApnic}
    Quoted = {}
    ArinName <- MCArinReferred
    StatsAsns <- MCStatsReferred
    ApnicFile <- MCApnicFile
    LoaderFiles <- MCLoaderFiles
    MaxRequests = 2
    NumRuns = 2
    MaxFailures = 0
    Private4Start = 1000000
SPECIFICATION Spec
PROPERTIES EveryPublicAsnNamed

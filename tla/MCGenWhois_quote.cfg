\* Two runs with no transient fault over one ASN that ARIN names, with an
\* apostrophe in its record.
CONSTANTS
    nPlain = nPlain
    nRipe = nRipe
    nApnic = nApnic
    notFound = notFound
    NotFound = notFound
    Names <- MCNames
    RipeNames = {nRipe}
    ApnicNames = {nApnic}
    Quoted = {11}
    ArinName <- MCArinQuoted
    StatsAsns <- MCStatsQuoted
    ApnicFile <- MCApnicFile
    LoaderFiles <- MCLoaderFiles
    MaxRequests = 2
    NumRuns = 2
    MaxFailures = 0
    Private4Start = 1000000
SPECIFICATION Spec
PROPERTIES ArinAnswerStored

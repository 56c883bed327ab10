SPECIFICATION ServicesSpec

CONSTANTS
    P = 3
    SepLength <- MCSepLength
    SepOff <- MCSepOff
    SepWeight <- MCSepWeight
    SepTries = 2
    SepMaxFaults = 1

    GN = 2
    GLength <- MCGLength
    GOff <- MCGOff
    GWeight <- MCGWeight
    GTries = 2
    GReport = 2
    GMaxFaults = 1

    Updaters = {"u1", "u2"}
    Jobs <- MCJobs
    Waits = 2
    LMaxKills = 1
    Nobody = "nobody"

    Repositories <- MCRepositories
    Outside = {"o"}
    MaxAttempted = 4
    FMaxFaults = 1
    NoServer = "none"

    Issuers = {"k1", "k2"}
    IssuedItem <- MCItem
    Externals = {"k2"}
    Codes = {"a", "b"}
    Addresses = 1
    Attempts = 2
    KMaxFaults = 1
    NoItem = "none"

    Page = 2
    Word = 16
    LeastSeparate = 5
    Configured = 6
    ParallelSizes = {180, 181, 182, 197, 198, 199, 200, 215}
    SeparateSizes = {0, 5, 8, 9, 10, 11, 12, 17, 18, 24, 29, 30, 31}
    AskedSizes = {0, 5, 6, 7, 8, 18}

    FileSizes = {3, 49, 50, 53, 60, 1001, 1050, 2200}
    LeastServer = 50
    LeastClient = 53
    LeastRaw = 1000
    ParSize = 1049
    SepSize = 53
    LeastTiled = 4

    Connections = 3
    Reload = 2
    LastTick = 2
    NMaxFaults = 1

INVARIANTS
    ServicesTypeOK
    SepAcceptedIsWhole
    GetDeletesOnlyDelivered
    GetCleanSucceeds
    UpdatesAreKept
    FileIsMissedBriefly
    HomeServes
    SkippedAreRepeats
    KeywordMeansItsItem
    KeywordOutlivesDatabase
    ParallelTiles
    PagedSeparateTiles
    HolesAreCounted
    FormsAgree
    DeletionAsAsked
    TableIsRecent

PROPERTIES
    SepKeepsPromise
    SeparateSettles
    RetrievalSettles
    LocksEnd
    SearchEnds
    RequestsEnd

CHECK_DEADLOCK FALSE

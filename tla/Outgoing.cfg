SPECIFICATION FairSpec
CONSTANTS
    Protocol = {"sftp", "https"}
    Root = {r1}
    Fixed = Fixed
    Key = {k1, k2}
    NoKey = NoKey
    MaxFile = 2
    MaxVersion = 2
    MaxUploadMishaps = 1
    MaxTime = 4
    Window = 2
    Skew = 1
    Rewind = 1
    Offset = 2
    RowChunk = 2
    SecondLogger = TRUE
    Disowned = {2}
    Kinds = {"billing", "load_profile"}
    MaxBills = 1
    MaxDestMishaps = 1
    MaxDay = 3
    Bill = {1}
    ItemCap = 2
    Margin = 1
    MaxClock = 3
    MaxPushMishaps = 1
INVARIANTS ManifestTellsTruth NoHoleAtDestination NothingStranded
PROPERTIES UploadCatchesUp DestinationCatchesUp MirrorWindowHolds PushCatchesUp
CHECK_DEADLOCK FALSE

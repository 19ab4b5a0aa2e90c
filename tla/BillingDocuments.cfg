SPECIFICATION DocumentsSpec
CONSTANTS
    Manual = {readNow}
    Background = {scheduler}
    Ring = 3
    MaxPeriods = 4
    MaxDate = 3
    MaxClears = 2
    None = None
    Caller = {scheduler, request}
    PNG_ROWS = 2
    RING = 2
    MaxStamp = 2
    Paired = {1}
    MaxId = 3
    MaxTroubles = 1
    MaxMishaps = 1
INVARIANTS
    RowsAreMeterEntries
    MissingIsNoticed
    NothingIsLeftBehind
PROPERTIES
    EveryPeriodIsStored
    PictureShowsItsPeriods
    
CHECK_DEADLOCK FALSE

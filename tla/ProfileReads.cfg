SPECIFICATION ReadsSpec
CONSTANTS
    readNow = readNow
    cycle = cycle
    Manual = {readNow}
    Background = {cycle}
    Loggers = 2
    Ring = 3
    Window = 3
    Chunk = 2
    MaxGap = 2
    History = {1, 3}
    ClearMidway = FALSE
    None = None
    Model = {"smw110", "prometer100", "premier550", "smart_tcc"}
    Capacity = 6
    MaxNow = 8
    MaxDark = 2
    MaxCuts = 2
    MaxWindow = 1
INVARIANTS
    NoHoleBehindWatermark
    NothingHeldIsMissed
PROPERTIES
    NothingIsLost
CHECK_DEADLOCK FALSE

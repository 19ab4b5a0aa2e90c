SPECIFICATION FairSpec
CONSTANTS
    scheduler = scheduler
    saver = saver
    f1 = f1
    h1 = h1
    h2 = h2
    Folder = {f1}
    NoFolder = NoFolder
    Head = {h1, h2}
    MaxTime = 3
    Window = 1
    Skew = 1
    SecondLogger = TRUE
    Disowned = {2}
    MaxMishaps = 1
INVARIANTS
    NoRowTwice
    WatermarkIsCovered
PROPERTIES
    FileCatchesUp
CHECK_DEADLOCK FALSE

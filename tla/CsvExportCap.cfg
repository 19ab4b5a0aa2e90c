SPECIFICATION Spec
CONSTANTS
    scheduler = scheduler
    saver = saver
    f1 = f1
    h1 = h1
    h2 = h2
    Folder = {f1}
    NoFolder = NoFolder
    Head = {h1}
    MaxTime = 4
    Window = 1
    Skew = 1
    SecondLogger = TRUE
    Disowned = {}
    MaxMishaps = 0
INVARIANT WatermarkMatchesFile
CHECK_DEADLOCK FALSE

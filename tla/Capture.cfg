SPECIFICATION CaptureFairSpec
CONSTANTS
    request = request
    f1 = f1
    scheduler = scheduler
    Device = {1}
    Request = {request}
    Folder = {f1}
    NoFolder = NoFolder
    MaxId = 2
    MaxBill = 2
    MaxMishaps = 1
    NoRow = NoRow
INVARIANTS
    StampedHasDocument
PROPERTIES
    
    SaveAllEnds
CHECK_DEADLOCK FALSE

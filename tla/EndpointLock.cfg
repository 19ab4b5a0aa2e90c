SPECIFICATION FairSpec
CONSTANTS
    line = line
    tcp = tcp
    api1 = api1
    api2 = api2
    worker = worker
    scheduler = scheduler
    None = None
    Endpoint <- MCEndpoint
    ManualThread <- MCManual
    BackgroundThread <- MCBackground
    Lock = {L1, L2, L3}
INVARIANTS
    LockAgreesWithCallers
PROPERTIES
    PromiseKept
    FreedEndpointIsGranted

SPECIFICATION LicensedFairSpec
CONSTANTS
    d1 = d1
    q1 = q1
    eventLoop = eventLoop
    activation = activation
    jobThread = jobThread
    Device = {d1}
    Request = {q1}
    Listener <- MCListener
    Activator = {activation}
    JobThread = jobThread
    PromptDelivery = TRUE
    MaxRuns = 3
    Enabled = TRUE
    None = None
INVARIANTS
    OneWorkerGoesOn
    ListenersFollowState
PROPERTIES
    RotationIsPolled
    LapseStopsPolling
CHECK_DEADLOCK FALSE

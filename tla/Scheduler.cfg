SPECIFICATION SchedulerFairSpec
CONSTANTS
    o1 = o1
    o2 = o2
    MaxRuns = 2
    MaxJobs = 2
    MaxSize = 3
    OneShot = {o1, o2}
    Enabled = TRUE
INVARIANTS
    OnlyTheCurrentRunGoesOn
PROPERTIES
    OneShotRuns
    LastJobRecurs
CHECK_DEADLOCK FALSE

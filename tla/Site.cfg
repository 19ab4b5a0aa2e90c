SPECIFICATION FairSpec
CONSTANTS
    Thread = {t1, t2}
    None = None
    NoDay = NoDay
    MaxDevices = 2
    Line = {l1, l2}
    Password = {p1, p2}
    Serial = {s1, s2}
    max_meters = 1
    require_meter_activation = FALSE
    MaxWirings = 1
    MaxHolidays = 2
    MaxDay = 2
    LeapDay = 2
    MeterDays = {1}
    MaxUsers = 3
    Name = {n1, n2, n3}
    keep = 2
    MaxClock = 4
    MaxMishaps = 2
    RETENTION_DAYS = 2
    MaxHalf = 5
    MaxEdits = 1
INVARIANTS
    RowIsProvenUntilMixed
    CalendarIsAccountedFor
    StoredDayIsWhole
    AnAdminRemains
    LastBackupIsKept
PROPERTIES
    EnergyCatchesUp
CHECK_DEADLOCK FALSE

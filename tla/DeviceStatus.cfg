SPECIFICATION MCSpec
CONSTANTS
    w1 = w1
    read = read
    admin = admin
    Worker = {w1}
    Request = {read}
    Operator = {admin}
    OfflineAfter = 2
    BusyDatabase = TRUE
    NoRow = NoRow
INVARIANTS
    LogMatchesStatus
PROPERTIES
    SilentMeterEndsOffline
CHECK_DEADLOCK FALSE

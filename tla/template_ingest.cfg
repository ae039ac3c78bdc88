SPECIFICATION Spec
CONSTANTS
    h1 = h1
    h2 = h2
    d1 = d1
    d2 = d2
    x1 = x1
    x2 = x2
    None = None
    Names <- MCNames
    Logs <- MCLogs
    Shared = {TRUE, FALSE}
INVARIANTS TypeOK NoForeignTemplate HotelsAgree UsableRowsUsed BookingMatchesOrder
CHECK_DEADLOCK FALSE

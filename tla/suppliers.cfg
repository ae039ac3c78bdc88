SPECIFICATION Spec
CONSTANTS
    q1 = q1
    q2 = q2
    q3 = q3
    EXP = EXP
    OWN = OWN
    odis = odis
    None = None
    Requests = {q1, q2, q3}
    Threads = 2
    Kinds = {"lookup", "codes", "create", "update", "delete", "upload", "ingest", "map", "probe"}
    Suppliers <- MCSuppliers
    BuiltIn <- MCBuiltIn
    SeedConfig <- MCSeed
    BootConfig <- MCBoot
    Payloads <- MCPayloads
    Plugged = {EXP}
    PluginLogs <- MCPluginLogs
    LogTypes <- MCLogs
    Shipped <- MCShipped
    Restarts = 1
SYMMETRY MCSymmetry
INVARIANTS CacheFresh OneRowPerCode
PROPERTIES DeleteSparesUsers EditsKept ReadyBuilds
CHECK_DEADLOCK FALSE

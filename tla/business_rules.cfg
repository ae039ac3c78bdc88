SPECIFICATION Spec
CONSTANTS
    s1 = s1
    s2 = s2
    k1 = k1
    Scenarios = {s1, s2}
    ExistingKeys = {k1}
    NoKey = NoKey
    Refreshable = {s1}
    Others = Others
    Kids = 2
    Plans <- MCPlans
    OthersOn = {"static"}
    None = None
    MaxFailures = 2
INVARIANTS NothingLeftBehind AssignmentsFoundAgain
PROPERTIES SnapshotUntouched
CHECK_DEADLOCK FALSE

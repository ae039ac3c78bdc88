SPECIFICATION FairSpec
CONSTANTS
    r1 = r1
    u1 = u1
    Runs = {r1}
    UiRuns = {u1}
    Clients = {r1, u1}
    Null = Null
    Attempts = 2
    Failures = 2
INVARIANTS CompletedMeansRan OrdersAreNamed DeletedMeansGone CleanupHonoured
PROPERTIES RunAnswers
CHECK_DEADLOCK FALSE

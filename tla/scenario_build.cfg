SPECIFICATION Spec
CONSTANTS
    n1 = n1
    n2 = n2
    None = None
    Namespaces = {n1, n2}
    Requests <- MCRequests
    Fold <- MCSame
    Segment <- MCSame
    Gross = {"EXP"}
    GenericBoards <- MCBoards
    Captured = 89
    MaxIds = 5
INVARIANTS TypeOK FlowReachesOwnMocks OneBookingId QuoteAndOrderAgree OffersAsAsked GoneLeavesNothing
CHECK_DEADLOCK FALSE

SPECIFICATION Spec
CONSTANTS
    n1 = n1
    n2 = n2
    None = None
    Namespaces = {n1, n2}
    Requests <- MCExpedia
    Fold <- MCSame
    Segment <- MCSame
    Gross = {"EXP"}
    GenericBoards <- MCBoards
    Captured = 89
    MaxIds = 3
INVARIANT ContractsFollowRefresh
CHECK_DEADLOCK FALSE

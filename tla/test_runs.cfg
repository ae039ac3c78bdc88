SPECIFICATION Spec
CONSTANTS
    p1 = p1
    p2 = p2
    t1 = t1
    t2 = t2
    c1 = c1
    m1 = m1
    m2 = m2
    Posts = {p1, p2}
    StepPosts = {t1, t2}
    Completes = {c1}
    Methods = {m1, m2}
    Batches <- MCBatches
    None = None
    Threads = 2
INVARIANTS ResultsKept CountersAddUp StepsMerged
CHECK_DEADLOCK FALSE

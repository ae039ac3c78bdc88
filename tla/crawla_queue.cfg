SPECIFICATION Spec
CONSTANTS
    l1 = l1
    None = None
    Loops = {l1}
    Buckets = 2
    PollReady = 3
    PollTorn = 2
INVARIANT BucketsCleared
PROPERTY QueueEnds
CHECK_DEADLOCK FALSE

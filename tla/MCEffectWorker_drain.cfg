CONSTANTS
    i1 = i1
    i2 = i2
    i3 = i3
    w1 = w1
    w2 = w2
    None = None
    Invocations = {i1}
    Threads = {w1}
    ExecutionQueue = 1
    CancellationQueue = 1
    ClaimPage = 2
SPECIFICATION DrainSpec
INVARIANTS
    DrainFinishesWork
CHECK_DEADLOCK FALSE

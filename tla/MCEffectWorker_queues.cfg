CONSTANTS
    i1 = i1
    i2 = i2
    i3 = i3
    w1 = w1
    w2 = w2
    None = None
    Invocations = {i1, i2, i3}
    Threads = {w1, w2}
    ExecutionQueue = 1
    CancellationQueue = 1
    ClaimPage = 2
SPECIFICATION Spec
SYMMETRY Symmetric
INVARIANTS
    TypeOK
    NeverFull
    CleanIsQuiet
    RetainKeepsQueued
    PendingBacked
CHECK_DEADLOCK FALSE

CONSTANTS
    e1 = e1
    e2 = e2
    e3 = e3
    r1 = r1
    r2 = r2
    r3 = r3
    c1 = c1
    w1 = w1
    w2 = w2
    k1 = k1
    None = None
    Executions = {e1, e2, e3}
    Requests = {r1, r2, r3}
    Callers = {c1}
    Workers = {w1, w2}
    Cancels = {k1}
    RequestOf <- ThreeRequests
    CallerOf <- OneCaller
    MaximumActive <- TwoEach
    MaximumGlobalActive = 2
    MaximumDispatchQueue = 2
    MaximumHotTerminal = 2
    ArchiveBatch = 1
    RecoveryPage = 1
    MaxFaults = 1
    MaxStarts = 2
    MaxGeneration = 2
SPECIFICATION CasesSpec
SYMMETRY Symmetric
INVARIANTS
    TypeOK
    EnteredOnce
    FailedBeforeEntry
    AccountsAgree
    SettlementReserved
    RecoveryVerifies
    EnteredOwned
    CleanMeansIdle
PROPERTIES
    EvidenceKept
CHECK_DEADLOCK FALSE

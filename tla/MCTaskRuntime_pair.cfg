CONSTANTS
    t1 = t1
    t2 = t2
    t3 = t3
    NoTask = NoTask
    Tasks = {t1, t2}
    InitialDeps <- NoDeps
    Corrects <- NoCorrections
    Required = {t1, t2}
    Workers = 2
    MaxActive = 2
    RecoveryPage = 1
    MaxConcurrent = 2
    MaxFailures = 2
    MaxVersion = 1
    MaxReports = 1
    MaxCrashes = 1
    MaxFaults = 0
SPECIFICATION PairSpec
SYMMETRY Symmetric
INVARIANTS
    OneOwner
    AcceptedStartOwned
PROPERTIES
    ConcurrencyRespected

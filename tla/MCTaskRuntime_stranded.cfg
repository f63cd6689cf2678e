CONSTANTS
    t1 = t1
    t2 = t2
    t3 = t3
    NoTask = NoTask
    Tasks = {t1}
    InitialDeps <- NoDeps
    Corrects <- NoCorrections
    Required = {t1}
    Workers = 2
    MaxActive = 1
    RecoveryPage = 1
    MaxConcurrent = 1
    MaxFailures = 2
    MaxVersion = 1
    MaxReports = 1
    MaxCrashes = 1
    MaxFaults = 0
SPECIFICATION ServingSpec
PROPERTIES
    StartsNotStranded

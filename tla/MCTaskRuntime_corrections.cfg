CONSTANTS
    t1 = t1
    t2 = t2
    t3 = t3
    NoTask = NoTask
    Tasks = {t1, t2, t3}
    InitialDeps <- ChainDeps
    Corrects <- ChainCorrections
    Required = {t1, t3}
    Workers = 1
    MaxActive = 2
    RecoveryPage = 1
    MaxConcurrent = 2
    MaxFailures = 2
    MaxVersion = 2
    MaxReports = 1
    MaxCrashes = 0
    MaxFaults = 0
SPECIFICATION CorrectionSpec
INVARIANTS
    
    CompletionBacked
PROPERTIES
    SpentLineageBarsEntry

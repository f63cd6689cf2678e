CONSTANTS
    t1 = t1
    t2 = t2
    t3 = t3
    NoTask = NoTask
    Tasks = {t1}
    InitialDeps <- NoDeps
    Corrects <- NoCorrections
    Required = {t1}
    Workers = 1
    MaxActive = 1
    RecoveryPage = 1
    MaxConcurrent = 1
    MaxFailures = 1
    MaxVersion = 2
    MaxReports = 2
    MaxCrashes = 1
    MaxFaults = 1
SPECIFICATION Spec
INVARIANTS
    TypeOK
    EntersOnce
    SettledOnEvidence
    PathsHeldWhileOpen
    EntryInvariant
    PathsReleasedWhenSettled
    FrozenVersionExact
PROPERTIES
    SettledIsFinal

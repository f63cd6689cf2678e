CONSTANTS
    a = a
    d1 = d1
    d2 = d2
    r1 = r1
    r2 = r2
    r3 = r3
    c1 = c1
    i1 = i1
    i2 = i2
    None = None
    Capabilities = {a}
    Revisions = {1, 2, 3}
    Descriptors = {d1, d2}
    Registrars = {r1, r2, r3}
    Offers <- RacingOffers
    Closers = {c1}
    Invocations = {i1, i2}
    MaxRegistrations = 2
    MaxGenerations = 2
    PermitLimit = 1
SPECIFICATION Spec
SYMMETRY Symmetric
INVARIANTS
    TypeOK
    PermitsCounted
    OwnerIsExact
    GracefulStopsIdle
    ExactGeneration
    ShutdownLeavesNothing
    CurrentIsNewest
    RegistrationsBounded
CHECK_DEADLOCK FALSE

SPECIFICATION Spec
CONSTANTS
    Creators = {c1, c2}
    Reconcilers = {r1}
    Receivers = {h1, h2}
    Fingerprints = {f1, f2}
    Conns = {a, b, c}
    MaxAttempts = 3
    MaxFaults = 2
    None = None
SYMMETRY Symmetry
CHECK_DEADLOCK FALSE
INVARIANTS
    TypeOK
    SingleOwner
    NoDuplicateCharge
    FallbackOnlyAfterSafeFailure
    RecoveryIsEarned
    ProcessedMeansPaid
    OwnFailureLeavesNoCharge
PROPERTIES
    KeepsLifecycle
    RowsKeepPort

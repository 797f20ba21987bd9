SPECIFICATION Spec
CONSTANTS
    Creators = {c1}
    Reconcilers = {r1, r2}
    Receivers = {h1}
    Fingerprints = {f1}
    Conns = {a, b, c}
    MaxAttempts = 3
    MaxFaults = 1
    None = None
SYMMETRY Symmetry
CHECK_DEADLOCK FALSE
INVARIANTS
    NothingIsInvented
    ConnectionsDiffer
    AttemptSentOnce

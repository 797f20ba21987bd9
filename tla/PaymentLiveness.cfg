SPECIFICATION FairSpec
CONSTANTS
    Creators = {c1, c2}
    Reconcilers = {r1}
    Receivers = {h1, h2}
    Fingerprints = {f1}
    Conns = {a, b}
    MaxAttempts = 2
    MaxFaults = 2
    None = None
CHECK_DEADLOCK FALSE
PROPERTIES
    PaidChargeIsRecorded
    CreatedPaymentSettles

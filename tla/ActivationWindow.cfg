SPECIFICATION FairSpec
CONSTANTS
    Workers = {w1, w2}
    Admins = {a1}
    Events = {e1, e2}
    BatchSize = 1
    MaterializeLimit = 1
    MaxAttempts = 2
    MaxFaults = 1
    MaxChanges = 4
    None = None
PROPERTIES
    WindowResets
    EventIsSettled

SPECIFICATION Spec
CONSTANTS
    Workers = {w1}
    Admins = {a1, a2}
    Events = {e1}
    BatchSize = 1
    MaterializeLimit = 1
    MaxAttempts = 1
    MaxFaults = 0
    MaxChanges = 3
    None = None
PROPERTIES
    WindowResets

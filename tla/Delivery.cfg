SPECIFICATION FairSpec
CONSTANTS
    Workers = {w1, w2}
    Admins = {a1}
    Events = {e1, e2}
    BatchSize = 2
    MaterializeLimit = 1
    MaxAttempts = 2
    MaxFaults = 1
    MaxChanges = 1
    None = None
INVARIANTS
    TypeOK
    AttemptsTellTheStory
    HolderCanComplete
    AcceptedOnceUnlessLapsed
    BackoffIsBounded
PROPERTIES
    KeepsPromise
    EventIsSettled

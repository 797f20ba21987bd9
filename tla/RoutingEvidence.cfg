SPECIFICATION Spec
CONSTANTS
    Conns = {1, 2, 3}
    Priorities = {1, 2}
    Scores = {40}
    Failing <- SomeFailing
    MaxAttempts = 2
    None = None
CHECK_DEADLOCK FALSE
INVARIANT ExclusionsAreExplained

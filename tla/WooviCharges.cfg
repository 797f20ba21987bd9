SPECIFICATION Spec
CONSTANTS
    Workspaces = {u, v}
    Environments = {test, live}
    Accounts = {test, live}
    Home <- AccountHomes
    Requests = {p, q}
    Attempts = {a, b}
    None = None
SYMMETRY Symmetry
CHECK_DEADLOCK FALSE
INVARIANTS
    TypeOK
    SentAtHome
    RefusedCreateIsEmpty
PROPERTIES
    KeepsPort

SPECIFICATION Spec
CONSTANTS
    Handlers = {h1, h2}
    Keys = {j, k}
    Ttl = 2
    MaxTime = 4
    None = None
SYMMETRY Symmetry
INVARIANTS
    TypeOK
    TrustEnds
    RefusalEnds

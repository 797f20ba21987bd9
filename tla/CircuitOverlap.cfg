SPECIFICATION Spec
CONSTANTS
    Handlers = {h1, h2}
    MaxRequests = 2
    MaxTime = 4
    Window = 2
    Cooldown = 1
    MinimumSamples = 1
SYMMETRY Symmetry
INVARIANTS
    TypeOK
    OpensOnTwoSnapshots
    ClosesOnSuccess
PROPERTIES
    
    CircuitSteps

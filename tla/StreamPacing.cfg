SPECIFICATION Spec
CONSTANTS
    Idle = 2
    Horizon = 6
INVARIANTS
    IdleMeansNoBytes

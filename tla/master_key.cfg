SPECIFICATION Spec
CONSTANTS
    Values = {v1, v2, v3}
    MaxKey = 4
    MaxFaults = 4
SYMMETRY Symmetry
INVARIANTS
    TypeOK
    Recoverable

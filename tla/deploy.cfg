SPECIFICATION Spec
CONSTANTS
    Rows = {d1, d2}
    NoRow = NoRow
    CertBindings = {b1}
    CrlBindings = {b2}
    Batches = {s1}
    Requests = {r1}
    Hosts = {h1, h2}
    NoKey = NoKey
    MaxAttempts = 2
    MaxVersion = 2
    MaxFaults = 1
    MaxEdits = 2
INVARIANT TypeOK
INVARIANT OwedUntilDeployed
SYMMETRY Symmetry
CHECK_DEADLOCK FALSE

SPECIFICATION Spec
CONSTANTS
    Certs = {c1, c2}
    NoCert = NoCert
    MaxSerial = 2
    Workers = {w1}
    MaxCrl = 4
    Cdp = TRUE
    Delta = TRUE
    PurgeSerials = TRUE
    AutoDelete = TRUE
    Interruptible = TRUE
    EffectsFail = TRUE
    CommitFails = TRUE
    Crashes = TRUE
INVARIANT StatusInv
PROPERTY StatusPromise
CHECK_DEADLOCK FALSE
SYMMETRY Symmetry

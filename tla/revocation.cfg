SPECIFICATION Spec
CONSTANTS
    Certs = {c1, c2}
    NoCert = NoCert
    MaxSerial = 2
    Workers = {w1, w2}
    MaxCrl = 6
    Cdp = TRUE
    Delta = TRUE
    PurgeSerials = TRUE
    AutoDelete = TRUE
    Interruptible = FALSE
    EffectsFail = FALSE
    CommitFails = FALSE
    Crashes = FALSE
INVARIANT TypeOK
INVARIANT ServedCrlExact
INVARIANT CacheCoherent
INVARIANT StagedHoldIsOwned
PROPERTY StatusPromise
CHECK_DEADLOCK FALSE
SYMMETRY Symmetry

SPECIFICATION FairSpec
CONSTANTS
    Certs = {c1}
    NoCert = NoCert
    MaxSerial = 2
    Workers = {w1, w2}
    MaxCrl = 4
    Cdp = FALSE
    Delta = FALSE
    PurgeSerials = FALSE
    AutoDelete = FALSE
    Interruptible = TRUE
    EffectsFail = TRUE
    CommitFails = TRUE
    Crashes = TRUE
PROPERTY StaleGoodEnds
CHECK_DEADLOCK FALSE

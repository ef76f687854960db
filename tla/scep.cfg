SPECIFICATION Spec
CONSTANTS
    Txns = {t1, t2, t3}
    NoTxn = NoTxn
    Handlers = {h1, h2}
    MaxCert = 3
    MaxFaults = 1
INVARIANTS
    TypeOK
    RenewedOnce
    OneCertificate
    IntuneAgrees
PROPERTY
    AnswerIsFinal
SYMMETRY Symmetry
CHECK_DEADLOCK FALSE

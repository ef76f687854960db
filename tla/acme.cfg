SPECIFICATION Spec
CONSTANTS
    Orders = {o1, o2}
    NoOrder = none
    n1 = n1
    n2 = n2
    Names = {n1, n2}
    AutoApproved = {n2}
    Asked <- MCAsked
    Handlers = {h1, h2}
    MaxTicks = 2
    MaxAuthz = 3
    MaxAnswers = 2
    MaxFaults = 1
SYMMETRY Symmetry
CHECK_DEADLOCK FALSE
INVARIANTS
    TypeOK
    IssuedMeansProved
    IssuedOnce
    RelinquishedIsUnused
PROPERTY
    DeactivatedIsFinal

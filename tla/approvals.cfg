SPECIFICATION Spec
CONSTANTS
    Requests = {r1, r2}
    NoRequest = NoRequest
    Targets = {t1}
    Users = {u1, u2, u3}
    Admins = {u2, u3}
    NoUser = NoUser
    Handlers = {h1, h2}
    Required = {2}
    MaxSerial = 2
    MaxDone = 2
    MaxFaults = 1
INVARIANT TypeOK
INVARIANT ApprovedMeansPerformed
INVARIANT PerformedAsAsked
INVARIANT FourEyes
PROPERTY DecidedOnce
SYMMETRY Symmetry
CHECK_DEADLOCK FALSE
VIEW View

SPECIFICATION Spec
CONSTANTS
    Deliveries = {d1, d2}
    NoDelivery = NoDelivery
    Endpoints = {e1}
    NoEndpoint = NoEndpoint
    Senders = {s1, s2}
    Scheduler = s1
    Limit = 2
    Lease = 1
    BackoffBase = 1
    BackoffCap = 2
    MaxAttempts = 1
    MaxAge = 1
    MaxFaults = 1
    MaxRequeues = 1
INVARIANT TypeOK
INVARIANT LeaseInv
PROPERTY DeliveredIsFinal
PROPERTY LeaseRespected
SYMMETRY Symmetry

SPECIFICATION FairSpec
CONSTANTS
    Deliveries = {d1}
    NoDelivery = NoDelivery
    Endpoints = {e1}
    NoEndpoint = NoEndpoint
    Senders = {s1, s2}
    Scheduler = s1
    Limit = 1
    Lease = 1
    BackoffBase = 1
    BackoffCap = 3
    MaxAttempts = 2
    MaxAge = 2
    MaxFaults = 1
    MaxRequeues = 1
INVARIANT ExactlyOnceButFaults
PROPERTY EverySettles

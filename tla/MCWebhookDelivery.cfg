\* Two workers race over one delivery, with every kind of fault; no symmetry,
\* because liveness is checked too.
CONSTANTS
    Workers = {w1, w2}
    e1 = e1
    Endpoints = {e1}
    Deliveries = {d1}
    EndpointOf <- MCEndpointOf
    NoDelivery = NoDelivery
    BatchSize = 1
    MAX_ATTEMPTS = 2
    MaxRejections = 2
    MaxLost = 1
    MaxFailures = 1
    MaxCrashes = 1
    MaxExpiries = 1
    MaxRedeliveries = 2
    MaxRotations = 1
SPECIFICATION FairSpec
\* Once the endpoint is deleted nothing is left to do.
CHECK_DEADLOCK FALSE
INVARIANTS
    GivenUpOnlyWhenSpent
    DuplicatesHaveACause
PROPERTIES
    PendingIsSettled
    RedeliveryIsSent

\* Two workers race over one submission of a form whose list may name its
\* address twice, with any two faults; no symmetry, because liveness is checked.
CONSTANTS
    Workers = {w1, w2}
    f1 = f1
    Forms = {f1}
    Submissions = {s1}
    Endpoints = {e1}
    Recipients = {r1}
    MaxNotifyEmails = 2
    FormOf <- MCFormOf
    AnyForm = AnyForm
    NoEvent = NoEvent
    BatchSize = 1
    MaxFaults = 2
SPECIFICATION FairSpec
INVARIANTS
    TypeOK
    NoInterestIsDropped
    WatchersHaveDeliveries
    ListedAreMailed
    OneJobPerClaim
PROPERTIES
    SettledIsFinal
    OwedIsDispatched
    ImplementsNotification

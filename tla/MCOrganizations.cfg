\* Two requests race over the memberships of three accounts, two of which may
\* be deleted.
CONSTANTS
    Users = {u1, u2, u3}
    Requests = {r1, r2}
    NoRequest = NoRequest
    MaxAccountDeletes = 2
SPECIFICATION Spec
SYMMETRY MCSymmetry
INVARIANTS
    OwnerRemains
PROPERTY ReachIsCurrent

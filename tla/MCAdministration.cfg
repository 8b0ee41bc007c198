\* Two requests race over two accounts.  The instance may stop: both accounts
\* may have been deleted, and no identifier is given out again.
CONSTANTS
    Users = {u1, u2}
    Founder = u1
    Requests = {r1, r2}
    RequireVerification = TRUE
SPECIFICATION AdminSpec
SYMMETRY MCSymmetry
INVARIANT AdministratorRemains
CHECK_DEADLOCK FALSE

\* A re-encoded hash that overlaps a reset.
CONSTANTS
    Logins = {l1}
    Writers = {w1}
    Sessions = {s1}
    NoSession = NoSession
    MAX_ATTEMPTS = 2
    MaxPasswords = 1
    MaxExpiries = 0
SPECIFICATION Spec
SYMMETRY MCSymmetry
CHECK_DEADLOCK FALSE
INVARIANTS
    NewestPasswordRules

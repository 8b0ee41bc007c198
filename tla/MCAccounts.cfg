\* Two sign-ins race with each other and with two resets, changes or disables.
CONSTANTS
    Logins = {l1, l2}
    Writers = {w1, w2}
    Sessions = {s1, s2}
    NoSession = NoSession
    MAX_ATTEMPTS = 2
    MaxPasswords = 2
    MaxExpiries = 1
SPECIFICATION Spec
SYMMETRY MCSymmetry
\* Sessions and passwords are bounded.
CHECK_DEADLOCK FALSE
INVARIANTS
    OldSessionsEnd
    LockedAtThreshold

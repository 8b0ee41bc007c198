\* Two refreshes race in two sessions, one of which may end before its token.
CONSTANTS
    Sessions = {s1, s2}
    Tokens = {t1, t2, t3, t4}
    Requests = {r1, r2}
    Nobody = Nobody
    NoToken = NoToken
    TTL = 1
    MaxTime = 2
SPECIFICATION Spec
SYMMETRY Symmetry
\* Tokens and the clock are bounded.
CHECK_DEADLOCK FALSE
INVARIANTS
    OneLiveToken
    RedeemedInTime
PROPERTIES
    RevokedIsFinal

\* Two requests for a link at once.
CONSTANTS
    Tokens = {t1, t2, t3}
    Issuers = {i1, i2}
    Nobody = Nobody
SPECIFICATION Spec
SYMMETRY MCSymmetry
INVARIANTS
    RedeemedOnce
    OneLiveLink
    SupersededStaysDead
PROPERTY DisabledStaysDisabled

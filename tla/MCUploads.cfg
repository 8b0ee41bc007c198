\* Two submissions and the reaper race for uploads, with every kind of
\* fault; no symmetry, because liveness is checked too.
CONSTANTS
    Reapers = {w1}
    f1 = f1
    k1 = k1
    Forms = {f1}
    Fields = {k1}
    Uploads = {u1, u2}
    Submissions = {s1, s2}
    FormOf <- MCFormOf
    FieldOf <- MCFieldOf
    Nobody = Nobody
    NoUpload = NoUpload
    ReapBatch = 2
    MaxDbFailures = 1
    MaxStorageFailures = 1
    MaxReaperCrashes = 1
    MaxApiCrashes = 1
    MaxFormDeletes = 1
SPECIFICATION FairSpec
\* Every request may have ended and every object may be gone.
CHECK_DEADLOCK FALSE
INVARIANTS
    NoFileIsShared
    FreshClaimsKeepTheirFiles
    ObjectIsFindable
PROPERTIES
    RowOutlivesObject
    AbandonedIsCollected

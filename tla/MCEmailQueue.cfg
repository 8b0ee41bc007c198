\* Two messages and two workers; no symmetry, because liveness is checked too.
CONSTANTS
    Jobs = {j1, j2}
    Workers = {w1, w2}
    NoJob = NoJob
    ATTEMPTS = 2
    MaxFaults = 1
SPECIFICATION FairQueueSpec
\* Every message may be settled.
CHECK_DEADLOCK FALSE
INVARIANTS
    LossHasACause
    DuplicatesHaveACause
PROPERTY QueuedIsSettled

SPECIFICATION Spec
CONSTANTS
    Docs = {d1}
    Workers = {w1}
    Requests = {r1, r2}
    JobIds = {j1, j2, j3}
    Batches = {b1, b2, b3}
    None = None
    MaxIndexingRetries = 2
    MaxWorkerFaults = 1
    MaxRequestFaults = 1
CHECK_DEADLOCK FALSE
INVARIANTS
    TypeOK
    RetryBudget
    NoDuplicates
    IndexedIsSearchable
PROPERTIES
    DeletedStaysGone

SPECIFICATION Spec
CONSTANTS
    Docs = {d1}
    Workers = {w1, w2}
    Requests = {r1, r2}
    JobIds = {j1, j2}
    Batches = {b1, b2, b3, b4, b5}
    None = None
    MaxIndexingRetries = 2
    MaxWorkerFaults = 0
    MaxRequestFaults = 0
CHECK_DEADLOCK FALSE
INVARIANTS
    NoDocumentStranded
    ProgressIsReal
PROPERTIES
    EveryIngestSettles

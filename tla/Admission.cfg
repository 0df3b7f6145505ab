SPECIFICATION Spec
CONSTANTS
    user = user
    Requests = {r1, r2, r3}
    Users = {user}
    UserOf <- MCUserOf
    Global = global
    PerUserMaxInflight = 2
    GlobalMaxInflight = 1
    PerUserRequests = 1
    InflightTTL = 2
    MaxHold = 1
    MaxFaults = 1
SYMMETRY Symmetry
INVARIANTS
    WithinLimits
    NothingLeaks
    LeaksExpire
PROPERTIES
    SlotsAreSemaphores
    ExpiryNeverUnderRunning

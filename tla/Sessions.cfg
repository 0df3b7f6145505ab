SPECIFICATION Spec
CONSTANTS
    Requests = {r1, r2, r3}
    Admins = {a1, a2}
    None = None
    MaxFaults = 1
    MaxAged = 1
SYMMETRY Symmetry
CHECK_DEADLOCK FALSE
INVARIANTS
    RevocationEndsSessions
    RevokedTokensObtainNothing

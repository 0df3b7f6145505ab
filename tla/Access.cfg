SPECIFICATION Spec
CONSTANTS
    Users = {u1, u2}
    Departments = {x}
    Collections = {c1, c2}
    Docs = {d1, d2}
    CollOf <- MCCollOf
    Grantable = {c1}
    Readers = {r}
    None = None
    MaxChanges = 3
SYMMETRY Symmetry
CHECK_DEADLOCK FALSE
INVARIANTS
    OnlyReadableShown
    StandingGrantsServed

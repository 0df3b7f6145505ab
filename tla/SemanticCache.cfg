SPECIFICATION Spec
CONSTANTS
    Docs = {d1, d2}
    Collections = {c1}
    CollOf <- MCCollOf
    Turns = {t1}
    Handlers = {h1, h2}
    EntryIds = {e1}
    None = None
    MaxGeneration = 2
SYMMETRY Symmetry
CHECK_DEADLOCK FALSE
INVARIANTS
    OnlyRacersOutliveDeletion
PROPERTIES
    EvictsOnlyAffected

CONSTANTS
    Paths = {p1}
    Indexers = {a, b}
    MaxVersion = 2
    Budgets <- Disturbed
    None = None
    Damaged = Damaged
    Dead = Dead
SPECIFICATION Spec
CHECK_DEADLOCK FALSE
SYMMETRY Symmetry
INVARIANTS TypeOK SettledIsSound AcceptedIsSound NothingLost IdentityNamesContent

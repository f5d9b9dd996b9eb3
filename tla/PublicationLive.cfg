CONSTANTS
    Paths = {p1, p2}
    Indexers = {a}
    MaxVersion = 2
    Budgets <- OneOfEach
    None = None
    Damaged = Damaged
    Dead = Dead
SPECIFICATION FairSpec
CHECK_DEADLOCK FALSE
PROPERTY CatchesUp

CONSTANTS
    p = p
    q = q
    a = a
    b = b
    Paths = {p, q}
    Contents = {a, b}
    Budgets <- All
    Leased = TRUE
    None = None
SPECIFICATION FairSpec
INVARIANTS  SnapshotIsHonest
PROPERTIES ShowsTheWorktree Converges
CHECK_DEADLOCK FALSE

SPECIFICATION FairSpec
CONSTANTS
    Searches = {1, 2, 3}
    Ids = {i, j}
    MaxTombstones = 1
    MaxIdle = 2
    MaxIdlePerKey = 2
    Permits = 2
    Tombstone = Tombstone
    None = None
    Budgets <- Ordinary
INVARIANTS EarlyCancelWins FreshAnswers
PROPERTY CancelsReturn
CHECK_DEADLOCK FALSE

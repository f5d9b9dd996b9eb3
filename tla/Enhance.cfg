CONSTANTS
    v = v
    w = w
    Keys = {k1, k2}
    Workers = {v, w}
    Models = {m, n}
    Budgets <- Mixed
    None = None
    Indexer = Indexer
SPECIFICATION FairSpec
CHECK_DEADLOCK FALSE
INVARIANTS StaleIsJournalled HashComplete NeuralComplete ModelNamed
PROPERTY EventuallyEnhanced

SPECIFICATION FairSpec
CONSTANTS
    Requests = {1, 2, 3}
    Files = {f}
    Watcher = Watcher
    None = None
    Offered <- TwoOptions
    Budgets <- Ordinary
INVARIANTS AckCovers
PROPERTIES SkipIsJustified EveryoneAnswered
CHECK_DEADLOCK FALSE

CONSTANTS
    main = main
    tree = tree
    indexing = indexing
    enhancing = enhancing
    Indexes <- TwoIndexes
    BaseOf <- TreeReadsMain
    Runs = {indexing, enhancing}
    LockOf <- RunLocks
    Grace = 2
    ShortGrace = 1
    Budgets <- Mixed
SPECIFICATION FairSpec
INVARIANTS
    GraceIsWaited
    RunsKeepTheirIndex
    LiveOverlayKeepsBase
PROPERTY
    GoneIsCollected

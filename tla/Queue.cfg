CONSTANTS
    main = main
    linked = linked
    Workspaces = {main, linked}
    BaseOf <- OverlayOfMain
    Processes = {p1, p2}
    Places = 1
    Budgets <- SmallBudgets
    None = None
SPECIFICATION FairSpec
PROPERTIES RequestKept RequestServed QueuedNeuralRuns
CHECK_DEADLOCK FALSE

SPECIFICATION FairSpec
CONSTANTS
    Watches = {1, 2, 3}
    Files = {f, g}
    Rules = {{}, {f}}
    Searches = {s}
    Explicit = Explicit
    Supervisor = Supervisor
    None = None
    Budgets <- Ordinary
INVARIANTS NothingForgotten
PROPERTIES ReadyIsCaughtUp Settles
CHECK_DEADLOCK FALSE

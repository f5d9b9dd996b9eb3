CONSTANTS
    Runs = {r1, r2}
    Watches = {w1}
    Updaters = {heartbeat}
    MaxFaults = 1
    None = None
SPECIFICATION FairSpec
INVARIANTS NoPhantomRun TrustedIsReconciled
PROPERTY RunningWatcherShown
CHECK_DEADLOCK FALSE

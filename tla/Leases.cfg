CONSTANTS
    tracked = tracked
    all = all
    r1 = r1
    r2 = r2
    r3 = r3
    Requests = {r1, r2, r3}
    Workspaces = {1, 2}
    Modes = {tracked, all}
    Loads <- CrowdsAndPairs
    CpuPermits = 1
    BackgroundPermits = 1
    None = None
SPECIFICATION FairSpec
INVARIANTS Exclusion NoLostWakeup
PROPERTY EveryRequestEnds

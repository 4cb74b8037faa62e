SPECIFICATION FairSpec
CONSTANTS
    Apps = {a}
    Deployments = {1, 2}
    Timers = {t1, t2}
    Delay = 2
    MaxWait = 3
    MaxBatch = 3
    None = None
INVARIANTS
    CollectedInTime
PROPERTIES
    StartAnnounced
    NothingLeftBehind
CHECK_DEADLOCK FALSE

SPECIFICATION FairSpec
CONSTANTS
    Tunnels = {t1, t2}
    LocalSlots = 1
    MaxOpen = 1
INVARIANTS
    TypeOK
PROPERTIES
    EndsArrive
    ShutdownDrains
CHECK_DEADLOCK FALSE

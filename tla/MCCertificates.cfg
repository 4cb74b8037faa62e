SPECIFICATION FairSpec
CONSTANTS
    a = a
    b = b
    None = None
    Updater = Updater
    Domains = {a, b}
    Tables <- MCTables
    Slots = {s1, s2}
    Budget <- MCBudget
INVARIANTS
    StaleHasReload
PROPERTIES
    UpdatesReturn
    CertificatesConverge
    WantedFilesStay
CHECK_DEADLOCK FALSE

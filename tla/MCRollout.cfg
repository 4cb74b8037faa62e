SPECIFICATION FairSpec
CONSTANTS
    a = a
    b = b
    ha = ha
    hb = hb
    a1 = a1
    a2 = a2
    b1 = b1
    Main = Main
    None = None
    Apps = {a, b}
    Hosts = {ha, hb}
    Instances = {a1, a2, b1}
    Labels <- MCLabels
    Container <- MCContainer
    Workers = {Main, w1, w2}
    Monitoring = FALSE
    Maintenance = FALSE
    Fall = 1
    Rise = 1
    Faults = {"cert", "stop", "unfit"}
INVARIANTS
    RoutesFollowTables
PROPERTIES
    AppsStayRouted
    RoutesConverge
    UpdatesEnd
CHECK_DEADLOCK FALSE

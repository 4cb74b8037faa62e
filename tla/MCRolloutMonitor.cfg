SPECIFICATION Spec
CONSTANTS
    a = a
    b = b
    ha = ha
    hb = hb
    a1 = a1
    a2 = a2
    b1 = b1
    Main = Main
    None = None
    Apps = {a}
    Hosts = {ha, hb}
    Instances = {a1, a2}
    Labels <- MCLabels
    Container <- MCContainer
    Workers = {Main, w1}
    Monitoring = TRUE
    Maintenance = TRUE
    Fall = 1
    Rise = 2
    Faults = {"docker", "sick", "unfit", "push", "cert", "stop", "cleanup"}
INVARIANTS
    BackendsChecked
CHECK_DEADLOCK FALSE

SPECIFICATION TableSpec
CONSTANTS
    a = a
    b = b
    c = c
    w = w
    x = x
    y = y
    z = z
    a1 = a1
    a2 = a2
    a3 = a3
    b1 = b1
    b2 = b2
    c1 = c1
    c2 = c2
    Apps = {a, b, c}
    Hosts = {w, x, y, z}
    Instances <- MCInstances
    Labels <- MCLabels
    Container <- MCContainer
INVARIANTS
    TablesTyped
    
    
PROPERTIES
    RoutesKept
    FailedNeverCollide
    

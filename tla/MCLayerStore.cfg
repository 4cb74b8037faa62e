SPECIFICATION FairSpec
CONSTANTS
    a = a
    b = b
    o = o
    p = p
    c1 = c1
    c2 = c2
    None = None
    Main = Main
    Layers = {a, b, o, p}
    Clients = {c1, c2}
    Image <- MCImage
    Known = {c1}
    Uncompressed = {b}
    Stores = {{a}, {a, o, p}}
    Retries = 1
    Capacity = 9
    Reserve = 3
    Budget = 2
INVARIANTS
    TypeOK
    
PROPERTIES
    
    PushesEnd
CHECK_DEADLOCK FALSE

SPECIFICATION FairSpec
CONSTANTS
    r1 = r1
    r2 = r2
    a = a
    w = w
    api = api
    b1 = b1
    b2 = b2
    API = API
    None = None
    Requests = {r1, r2}
    Backends = {b1, b2}
    Snapshots <- MCSnapshots
    Queries <- MCQueries
    Wrap = 2
    Budget = 1
PROPERTIES
    RetryServesAlone
    RequestsEnd
    ShutdownDrains
CHECK_DEADLOCK FALSE

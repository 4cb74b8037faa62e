SPECIFICATION FairSpec
CONSTANTS
    NoSnapshot = NoSnapshot
    Seed = Seed
    s1 = s1
    s2 = s2
    bad = bad
    Snapshots <- MCSnapshots
    Valid <- MCValid
    Accepted <- MCSkewed
    Main = Main
    Monitor = Monitor
    Reconciler = Reconciler
    Nobody = Nobody
    Handlers = {h1, h2}
INVARIANTS
    TypeOK
    InFlightIsLatest
    BootConfigValid
PROPERTIES
    EmptyOnlyOnFreshInstall
    ImplementsStore
    Converges
    PushReturns

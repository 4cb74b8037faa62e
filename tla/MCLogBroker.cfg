CONSTANTS
    d1 = d1
    g = g
    h1 = h1
    h2 = h2
    None = None
    Deployments = {d1}
    General = {g}
    Streams <- MCStreams
    Capacity = 1
    MaxBuffer = 2
    MaxEntries = 3
SPECIFICATION FairLogSpec
INVARIANTS NoEntryLost
PROPERTIES StreamsEnd
\* Streams end and nothing is published any more.
CHECK_DEADLOCK FALSE

SPECIFICATION SessionsFairSpec
CONSTANTS
    Attempts = {c1, c2}
    Handles = {h1, h2}
    None = None
    MaxPending = 1
    Ttl = 2
    Deadline = 1
    MaxConnections = 2
INVARIANTS AttemptIsTerminal GrantIsOwn
PROPERTIES LiveIsKept BusyMeansFull WaitEnds

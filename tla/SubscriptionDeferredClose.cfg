CONSTANTS
    c1 = c1
    c2 = c2
    w1 = w1
    w2 = w2
    wk = wk
    MaxContinuations = 2
    Clients <- MCClients
    Workers <- MCWorkers
    Waker = wk
    Setups <- MCDeferred
    DemandMax = 4
    Quantum = 2
    MaxRequests = 2
    MaxWaits = 1
SPECIFICATION FairSpec
PROPERTY DeferredCloseDestroys
CHECK_DEADLOCK FALSE

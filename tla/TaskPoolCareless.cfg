\* One of the two clients takes no lock: pushes race with each other and with pops.
SPECIFICATION FairSpec
CONSTANTS
    Workers = {w1, w2}
    Clients = {c1, c2}
    Careful <- OneClient
    Tasks = {t1, t2}
    MaxCalls = 1
    None = None
    Garbage = Garbage
INVARIANTS RunOnce
PROPERTIES EarlyCallbackServed

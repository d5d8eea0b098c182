\* Every client brackets AddTask and OnValid with Lock / Unlock.
SPECIFICATION FairSpec
CONSTANTS
    Workers = {w1, w2}
    Clients = {c1, c2}
    Careful <- EveryClient
    Tasks = {t1, t2}
    MaxCalls = 2
    None = None
    Garbage = Garbage
INVARIANTS TypeOK QueueRaceFree CallbacksDelivered StopBarrier
PROPERTIES ImplementsService TaskServed DestructorEnds

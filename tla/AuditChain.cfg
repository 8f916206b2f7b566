CONSTANTS
    Worker = {w1, w2}
    Loop = Loop
    Sync = {s1}
    Buffered = {b1, b2}
    MaxBuffer = 2
    PoolSize = 2
    None = None
SPECIFICATION Spec
INVARIANTS
    ChainIntact
    AcceptedIsKept
    
PROPERTIES
    KeepsPromise
    CallsReturn
    EventsSettle

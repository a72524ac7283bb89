CONSTANTS
    Sessions = {s1}
    IoWorkers = {io1, io2}
    PoolWorkers = {w1}
    Acceptor = Acceptor
    Closers = {c1}
    NoSession = NoSession
    MaxConnections = 0
    FramePool = 1
    MaxFrames = 2
SPECIFICATION FairSpec
INVARIANTS
    HeldWhileUsed
PROPERTIES
    ClosedIsRemoved

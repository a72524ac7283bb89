CONSTANTS
    Sessions = {s1, s2}
    IoWorkers = {io1}
    PoolWorkers = {w1, w2}
    Acceptor = Acceptor
    Closers = {}
    NoSession = NoSession
    MaxConnections = 0
    FramePool = 1
    MaxFrames = 3
SPECIFICATION Spec
SYMMETRY Symmetry
INVARIANTS
    HeldWhileUsed
    FrameBuffersConserved
PROPERTIES
    CleanupOnce

CONSTANTS
    Villages = {v1, v2}
    Players = {p1, p2}
    Settled = {v1, v2}
    Drained = {v1}
    Capacity = 2
    ChunkMax = 1
    MaxLinks = 3
    MaxLogins = 2
    MaxTrouble = 1
    None = None
SPECIFICATION FairSpec
CHECK_DEADLOCK FALSE
INVARIANTS
    RegistrySound
    NoGhosts
PROPERTIES
    RevokesRefused
    KickedOff
    

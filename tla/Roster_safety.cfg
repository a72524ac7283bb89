CONSTANTS
    Players = {p1}
    NoPlayer = NoPlayer
    Sessions = {s1, s2}
    Zones = {z1}
    NoZone = NoZone
    NoEntry = NoEntry
    NoSeat = NoSeat
    Workers = 2
    Expiry = 1
    Overlap = TRUE
    Modes = {TRUE, FALSE}
    MaxFrames = 2
SPECIFICATION FairSpec
INVARIANTS
    RosterIsLive
PROPERTIES
    DrainEnds

CONSTANTS
    Sessions = {s1, s2}
    IdleLimit = 2
    Width = 4
    MaxTime = 6
SPECIFICATION FairSweep
PROPERTIES
    
    SilentIsClosed

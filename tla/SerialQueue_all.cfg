CONSTANTS
    Sessions = {s1, s2, s3}
    Jobs = {j1}
    Submitters = {io1, io2}
    Workers = {w1, w2}
    NoSession = NoSession
    NoJob = NoJob
    Batch = 1
    MaxPending = 2
SPECIFICATION FairSpec
INVARIANTS
    TypeOK
    OneRight
    NoLostJob
    HoldPerRight
PROPERTIES
    StopCompletes
    NoStarvation
    

CONSTANTS
    Senders = {a, b}
    IoWorkers = {io1, io2}
    MaxQueue = 2
    Limit = 2
    MaxSize = 2
    MaxMessages = 3
SPECIFICATION FairSpec
CHECK_DEADLOCK FALSE
INVARIANTS
    OneSendAtATime
    StreamWhole
    KickPerRun
PROPERTIES
    AllGetsOut

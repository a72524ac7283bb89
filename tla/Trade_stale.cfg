CONSTANTS
    Sessions = {s1, s2, s3}
    Leavers = {s1}
    Offers = {o0}
    NoOffer = o0
    MaxTrades = 2
    None = None
SPECIFICATION Spec
CHECK_DEADLOCK FALSE
INVARIANTS
    OneWindow

CONSTANTS
    Sessions = {s1, s2}
    Leavers = {s1}
    Offers = {o0, o1}
    NoOffer = o0
    MaxTrades = 1
    None = None
SPECIFICATION FairSpec
CHECK_DEADLOCK FALSE
INVARIANTS
    TypeOK
    SwapAsAgreed
    HoldsBalanced
    SwapOnce

    

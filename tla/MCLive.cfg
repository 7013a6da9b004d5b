SPECIFICATION FairSpec
CONSTANTS
    None = None
    Requesters = {p1, p2}
    Channels = {c1, c2, c3, c4, c5}
    Entering = Entering
    Nil = Nil
    b = b
    o = o
    s = s
    v1 = v1
    v2 = v2
INVARIANTS
    SendsAndClosesSafe
PROPERTIES
    PreConfirmedConverges
    RequestersReturn
    CatchesUp
    Converges
CHECK_DEADLOCK FALSE

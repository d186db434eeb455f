SPECIFICATION FairSpec
CONSTANTS
    e1 = e1
    e2 = e2
    d1 = d1
    d2 = d2
    StripeEvent = {e1, e2}
    d3 = d3
    Post = {d1, d2, d3}
    NoEvent = NoEvent
    MaxRepeat = 1
    MaxFault = 2
INVARIANTS
    TypeOK
    HandlerAtMostOnce
    LostOnlyByFault
PROPERTIES
    Implements
    RetriesEnd
CHECK_DEADLOCK FALSE

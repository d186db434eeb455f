SPECIFICATION FairSpec
CONSTANTS
    n1 = n1
    n2 = n2
    w1 = w1
    w2 = w2
    Delivery = {n1, n2}
    Worker = {w1, w2}
    NoDelivery = NoDelivery
    MaxAttempts = 2
    MaxBackoff = 1
    MaxFault = 1
INVARIANTS
    TypeOK
    DeliveredWasAcked
    AttemptsAreUsed
PROPERTIES
    EventuallySettled
    QueuedIsPosted
CHECK_DEADLOCK FALSE

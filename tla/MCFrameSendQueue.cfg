CONSTANTS
    Ids      <- MCIds
    BufLen   = 2
    Byte     <- MCByte
    Workers  <- MCWorkers
    Requests <- MCRequests
    MaxSends = 3
    None     = None
    w1 = w1
    w2 = w2
SPECIFICATION Spec
INVARIANTS TypeOK NeverPopsEmpty AcceptedInOrder
PROPERTIES EveryCallIsTaken
CHECK_DEADLOCK FALSE

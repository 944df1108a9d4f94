CONSTANTS
    Ids         <- MCIds
    BufLen      = 2
    Byte        <- MCByte
    Readers     <- NoReader
    Workers     <- OneWorker
    Requests    <- MCRequests
    BusFrames   <- MCFrames
    Config      <- MCConfig
    filter_list <- MCFilter
    invert      = TRUE
    MainThread  = MainThread
    None        = None
    MaxReceives = 2
    MaxSends    = 1
    MaxStores   = 3
    MaxErrors   = 1
    r1 = r1
    w1 = w1
SPECIFICATION RedisSpec
INVARIANTS TicksOrderFrames RedisAgreesWithRest NotifiedIsServed TickIsOfTheChange
PROPERTIES ReadsNeverGoBack QueuedIsSent

CONSTANTS
    Ids         <- BothIds
    BufLen      = 2
    Byte        <- SignByte
    Readers     <- OneReader
    Workers     <- OneWorker
    Requests    <- MCRequests
    BusFrames   <- SignFrames
    Config      <- MCConfig
    filter_list <- MCFilter
    invert      = TRUE
    MainThread  = MainThread
    None        = None
    MaxReceives = 1
    MaxSends    = 2
    Bodies      <- BothWays
    r1 = r1
    w1 = w1
    w2 = w2
SPECIFICATION RestSpec
INVARIANT ConversionIsBidirectional

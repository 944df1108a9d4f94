CONSTANTS
    Ids         <- MCIds
    BufLen      = 2
    Byte        <- MCByte
    Readers     <- OneReader
    Workers     <- TwoWorkers
    Requests    <- MCRequests
    BusFrames   <- MCFrames
    Config      <- MCConfig
    filter_list <- MCFilter
    invert      = TRUE
    MainThread  = MainThread
    None        = None
    MaxReceives = 1
    MaxSends    = 2
    Bodies      <- MCBodies
    r1 = r1
    w1 = w1
    w2 = w2
SPECIFICATION RestSpec
INVARIANTS TypeOK ShownAsSent HonestAnswers
PROPERTY PostedIsShown
SYMMETRY WorkerSymmetry

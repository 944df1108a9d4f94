CONSTANTS
    Ids      <- MCIds
    BufLen   = 2
    Byte     <- MCByte
    Callers  <- MCCallers
    Messages <- MCMessages
    Sends    <- MCSends
    Config   <- MCConfig
    None     = None
    main = main
    rest = rest
SPECIFICATION Spec
INVARIANT AutoRegisterApplies

CONSTANTS
    Text     <- MCText
    atoi     <- MCAtoi
    Key      <- MCKey
    Files    <- MCFiles
    None     = None
    MaxExits = 2
    MaxEdits = 2
SPECIFICATION Spec
INVARIANT OnlyListedAreProcessed
CHECK_DEADLOCK FALSE

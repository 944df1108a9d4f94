CONSTANTS
    Text     <- MCText
    atoi     <- MCAtoi
    Key      <- MCKey
    Files    <- MCFiles
    None     = None
    MaxExits = 2
    MaxEdits = 2
SPECIFICATION Spec
INVARIANTS TypeOK RunsAsConfigured OnlyTornIsNameless
PROPERTIES UsableFileIsKept 
CHECK_DEADLOCK FALSE

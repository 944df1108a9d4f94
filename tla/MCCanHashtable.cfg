CONSTANTS
    Ids     <- MCIds
    BufLen  = 2
    Byte    <- MCByte
    Frames  <- MCFrames
    Readers <- MCReaders
    Tick    <- OneTick
    None    = None
    r1 = r1
    r2 = r2
SPECIFICATION Spec
INVARIANTS TypeOK CheckedKeyStays PayloadIsLast
PROPERTIES ImplementsPromise

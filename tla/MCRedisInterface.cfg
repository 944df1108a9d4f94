CONSTANTS
    Fields    <- MCFields
    MaxStores = 3
    MaxErrors = 2
    f1 = f1
    f2 = f2
SPECIFICATION Spec
INVARIANTS TypeOK NotifiedIsReadable
PROPERTIES HashNeverGoesBack WaitingIsWritten
CHECK_DEADLOCK FALSE

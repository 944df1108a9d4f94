CONSTANTS
    Fields    <- OneField
    MaxStores = 3
    MaxErrors = 0
    f1 = f1
    f2 = f2
SPECIFICATION Spec
PROPERTY StoredReachesRedis
CHECK_DEADLOCK FALSE

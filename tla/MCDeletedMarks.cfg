SPECIFICATION ScanSpec
CONSTANTS
    Listable = {k1, k2, k3}
    Limit = 1
    MaxPages = 3
    MinTracked = 20
    Changes = 4
    Misses = 1
PROPERTY OnlyGoneIsDeleted
CHECK_DEADLOCK FALSE

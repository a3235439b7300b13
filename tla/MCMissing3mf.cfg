SPECIFICATION MCSpec
CONSTANTS
    a = a
    b = b
    i1 = i1
    i2 = i2
    Lacking = {a, b}
    OfCn = {a, b}
    Spot = {i1, i2}
    Turns = 2
INVARIANT MissingTypeOK
 
CHECK_DEADLOCK FALSE

CONSTANTS
    x = x
    b = b
    t1 = t1
    t2 = t2
    Temps <- MCTemps
    None = None
    Ids = {x, b}
    BoolIds = {b}
    Sources = {x, 1}
    Expressions <- Less
    Features <- Loops1
    MaxInstrs = 9
    MaxDepth = 4
    MaxItems = 2
    MaxTerms = 0
    MaxOps = 0
    MaxEvents = 4
SPECIFICATION Spec
INVARIANT AllForced
CHECK_DEADLOCK FALSE

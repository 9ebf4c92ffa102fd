CONSTANTS
    x = x
    b = b
    t1 = t1
    t2 = t2
    Temps <- MCTemps
    None = None
    Ids = {x, b}
    BoolIds = {b}
    Sources = {x, 1}
    Expressions <- Less
    Features <- Conditions1
    MaxInstrs = 7
    MaxDepth = 3
    MaxItems = 1
    MaxTerms = 0
    MaxOps = 0
    MaxEvents = 6
SPECIFICATION Spec
INVARIANTS
    TypeOK
    ListedOnce
    RunsAsWritten
PROPERTY PatchedOnce
CHECK_DEADLOCK FALSE

CONSTANTS
    x = x
    b = b
    t1 = t1
    t2 = t2
    Temps <- MCTemps
    None = None
    Ids = {x, b}
    BoolIds = {b}
    Sources = {x, 1}
    Expressions <- Sums
    Features <- Statements1
    MaxInstrs = 9
    MaxDepth = 5
    MaxItems = 2
    MaxTerms = 1
    MaxOps = 2
    MaxEvents = 6
SPECIFICATION Spec
INVARIANTS
    ListedOnce
    InnermostForced
    RunsAsWritten
CHECK_DEADLOCK FALSE

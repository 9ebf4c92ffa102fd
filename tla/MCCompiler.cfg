CONSTANTS
    x = x
    y = y
    t1 = t1
    t2 = t2
    t3 = t3
    t4 = t4
    t5 = t5
    t6 = t6
    t7 = t7
    t8 = t8
    Ids = {x, y}
    BoolIds = {}
    Temps <- MCTemps
    None = None
    Unset = Unset
    Sources = {y}
    Expressions <- MCExpressions
    Features <- MCFeatures
    MaxInstrs = 9
    MaxDepth = 3
    MaxItems = 5
    MaxTerms = 1
    MaxOps = 2
    Text <- MCText
    NumRegs = 2
    Vals <- MCVals
    Arith <- MCArith
    Junk <- MCJunk
    Declared <- MCDeclared
    MaxPrints = 3
    Fuel = 30
SPECIFICATION CompilerSpec
INVARIANTS Prints Accepts Honest
PROPERTY Halts
CHECK_DEADLOCK FALSE

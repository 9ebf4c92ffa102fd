CONSTANTS
    x = x
    y = y
    Ids = {x, y}
    NoId = NoId
    None = None
    Unset = Unset
    NumRegs = 2
    Vals <- MCVals
    Arith <- MCArith
    Programs <- MCPrograms
    MaxPrints = 2
SPECIFICATION Spec
INVARIANTS TypeOK Honest
PROPERTY Obeys
CHECK_DEADLOCK FALSE

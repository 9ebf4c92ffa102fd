CONSTANTS
    x = x
    y = y
    z = z
    Ids <- MCIds2
    NoId = NoId
    NumRegs = 2
    Vals <- MCVals
    Consts <- MCConsts
    Arith <- MCArith
    Unset = Unset
    Silent = Silent
    Tests <- MCTests
    LoopSets <- OneLoop
    MaxListed = 2
SPECIFICATION Spec
INVARIANTS
    Linked
    Agree
    AlwaysLegible
PROPERTIES
    StaleByConstantsOnly
    Implements
CHECK_DEADLOCK FALSE

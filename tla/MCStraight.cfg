CONSTANTS
    x = x
    y = y
    z = z
    Ids <- MCIds3
    NoId = NoId
    NumRegs = 2
    Vals <- MCVals
    Consts <- MCConsts
    Arith <- MCArith
    Unset = Unset
    Silent = Silent
    Tests <- MCTests
    LoopSets <- NoLoops
    MaxListed = 3
SPECIFICATION Spec
SYMMETRY Symmetry
INVARIANTS
    TypeOK
    ListedExactly
    Agree
    AlwaysLegible
    NoAbort
PROPERTY Implements

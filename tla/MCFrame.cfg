CONSTANTS
    a = a
    b = b
    c = c
    Ids = {a, b, c}
    Types = {"INTEGER", "CHAR", "DOUBLE"}
    NumRegs = 4
    Words = {1}
    Format = Format
    Garbage = Garbage
SPECIFICATION Spec
SYMMETRY Symmetry
INVARIANTS
    TypeOK
    SlotsKept
    PrintRestores
    NothingAbove
    RightArguments

SPECIFICATION Spec
CONSTANTS
    a = a
    aa = aa
    aaa = aaa
    t1 = t1
    t2 = t2
    t3 = t3
    t4 = t4
    t5 = t5
    t6 = t6
    t7 = t7
    t8 = t8
    None = None
    Ids <- MCIds
    Vars <- MCVars
    Temps <- MCTemps
    Text <- MCText
    Consts = {1}
    Operations = {"SUB"}
    MaxBlock = 4
INVARIANTS TypeOK OneHome DagFaithful SameEffectWhenOrdered
CHECK_DEADLOCK FALSE

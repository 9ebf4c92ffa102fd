----------------------------- MODULE MCCodegen -----------------------------
(* Instances of Codegen for TLC. *)
EXTENDS Codegen

CONSTANTS x, y

MCVals == 0 .. 1

\* See MCRegAlloc.
MCArith(a, b) == IF a = 1 /\ b = 0 THEN 0 ELSE 1

Instr(op, arg, arg2, result, target, F, R) ==
    [op |-> op, arg |-> arg, arg2 |-> arg2, result |-> result,
     target |-> target, forced |-> F, released |-> R]

Assign(id, arg)       == Instr("ASSIGN", arg, None, id, 0, {}, {})
Add(id, a, b)         == Instr("ADD", a, b, id, 0, {}, {})
Jump(op, a, b, k, F)  == Instr(op, a, b, None, k, F, {})
Goto(k)               == Instr("GOTO", None, None, None, k, {}, {})
Nop(R)                == Instr("NOP", None, None, None, 0, {}, R)
Output(id)            == Instr("PRINT", id, None, None, 0, {}, {})

\* Code in straight line, with a comparison that falls through or skips.
Straight ==
    {<< Assign(x, 0), i, j, Output(x), Output(y) >> :
        i \in {Assign(y, x), Assign(y, 1), Add(y, x, x)},
        j \in {Add(x, y, x), Add(x, 1, y), Assign(x, 1), Jump("GT", 1, 0, 5, {}),
               Jump("GT", 1, y, 5, {}), Jump("LT", x, y, 5, {x, y}),
               Jump("EQ", 1, y, 5, {}), Jump("NEQ", y, x, 5, {})}}

\* A loop around one instruction.  The comparison forces both identifiers, only
\* one of them, as after an inner loop, or none, as when the optimizer has lost
\* its actions.
Loops ==
    {<< Assign(x, 0), Assign(y, 1), test, body, Goto(3), Nop(test.forced), Output(id) >> :
        test \in {Jump("GEQ", x, y, 6, F) : F \in SUBSET {x, y}}
                   \cup {Jump("LEQ", y, x, 6, {x, y}), Jump("GEQ", x, 1, 6, {x, y})},
        body \in {Assign(x, y), Assign(y, x), Add(y, x, y), Add(x, x, 1), Assign(y, 0)},
        id \in Ids}

MCPrograms == Straight \cup Loops
=============================================================================

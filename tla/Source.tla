------------------------------- MODULE Source -------------------------------
(***************************************************************************)
(* What a straight-line program in intermediate code means, one step per   *)
(* instruction: the specification the assembly backend has to implement.   *)
(* instr names the instruction of a step.  It decides the step: of all     *)
(* behaviors with the same instructions there is only one.                 *)
(* An instruction assigns a constant or an identifier (ASSIGN), combines   *)
(* two operands (ADD, SUB, MULT), prints an identifier (PRINT) or compares *)
(* two operands and jumps (LT .. NEQ).                                     *)
(***************************************************************************)
EXTENDS Integers

CONSTANTS
    Ids,          \* identifiers of the program
    Vals,         \* machine words
    Consts,       \* constants of the program
    Unset,        \* a variable that was never assigned
    Silent,       \* what an instruction without visible effect shows
    Arith(_, _),  \* the arithmetic instruction
    Holds(_, _, _), \* Holds(op, a, b): the relation op of two words
    RelOps        \* the relations

VARIABLES
    store,        \* the value of every identifier
    instr,        \* the last instruction
    out           \* what it showed

vars == << store, instr, out >>

Defined == {id \in Ids : store[id] # Unset}
Args    == Consts \cup Defined
Value(arg) == IF arg \in Vals THEN arg ELSE store[arg]

Init ==
    /\ store = [id \in Ids |-> Unset]
    /\ instr = Silent
    /\ out = Silent

Assign(id, arg) ==
    /\ instr' = << "ASSIGN", id, arg >>
    /\ store' = [store EXCEPT ![id] = Value(arg)]
    /\ out' = Silent

Operate(id, a, b) ==
    /\ instr' = << "ARITH", id, a, b >>
    /\ store' = [store EXCEPT ![id] = Arith(Value(a), Value(b))]
    /\ out' = Silent

PrintIdent(id) ==
    /\ instr' = << "PRINT", id >>
    /\ out' = << "print", store[id] >>
    /\ UNCHANGED store

Test(op, a, b) ==
    /\ instr' = << op, a, b >>
    /\ out' = << "jump", Holds(op, Value(a), Value(b)) >>
    /\ UNCHANGED store

\* GOTO and NOP.
Skip(op) ==
    /\ instr' = << op >>
    /\ out' = Silent
    /\ UNCHANGED store

Next ==
    \/ \E id \in Ids, arg \in Args : Assign(id, arg)
    \/ \E id \in Ids, a, b \in Args : Operate(id, a, b)
    \/ \E id \in Defined : PrintIdent(id)
    \/ \E op \in RelOps, a, b \in Args : Test(op, a, b)
    \/ \E op \in {"GOTO", "NOP"} : Skip(op)

Spec == Init /\ [][Next]_vars
=============================================================================

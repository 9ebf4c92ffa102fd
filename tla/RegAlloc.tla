------------------------------ MODULE RegAlloc ------------------------------
(***************************************************************************)
(* The assembly backend compiling, and its output executing, a program in  *)
(* straight line: one step is one instruction of basic_compile's loop, with*)
(* its actions (perform_instr_actions) and all the `mov's it emits.  A jump*)
(* is compiled and evaluated, and falls through.                           *)
(*                                                                         *)
(* The program is not fixed: every step takes any instruction whose        *)
(* operands the program has assigned before.  The loops of the source      *)
(* appear as the sets of identifiers that the first instruction of a loop  *)
(* condition forces on the stack and that the NOP after the loop releases. *)
(***************************************************************************)
EXTENDS Allocator

CONSTANTS
    Consts,       \* constants of the program
    Unset,
    Silent,
    Tests,        \* relations the program uses, of RelOps
    LoopSets,     \* the identifiers each loop of the program uses
    MaxListed     \* bound: listings of an identifier, in a register or in
                  \* its own descriptor

ASSUME RegAllocAssumption ==
    /\ Consts \subseteq Vals
    /\ Unset \notin Vals
    /\ Tests \subseteq RelOps
    /\ LoopSets \subseteq SUBSET Ids
    /\ MaxListed \in Nat

VARIABLES
    st,           \* the allocator and the machine, see Allocator
    defined,      \* the identifiers assigned so far
    instr,        \* the last instruction that was compiled and executed
    out           \* what it showed

vars == << st, defined, instr, out >>

Operands == Ids \cup Consts

Instructions ==
    {Silent, << "GOTO" >>, << "NOP" >>}
    \cup ({"ASSIGN"} \X Ids \X Operands)
    \cup ({"ARITH"} \X Ids \X Operands \X Operands)
    \cup ({"PRINT"} \X Ids)
    \cup (Tests \X Operands \X Operands)

Outs == {Silent} \cup ({"print"} \X Vals) \cup ({"jump"} \X BOOLEAN)

TypeOK ==
    /\ st \in States
    /\ defined \subseteq Ids
    /\ instr \in Instructions
    /\ out \in Outs

Init ==
    /\ st \in InitStates
    /\ defined = {}
    /\ instr = Silent
    /\ out = Silent

Args == Consts \cup defined

\* FORCE_ID_STACK actions reach the backend on the first instruction of a
\* loop condition when that is a comparison or a jump: the optimizer builds
\* every other instruction anew, without its actions.
Forces == {{}} \cup LoopSets

Within(t) ==
    \A id \in Ids :
        /\ \A r \in Regs : t.held[r][id] =< MaxListed
        /\ Len(t.addr[id]) =< MaxListed

\* The compiler goes on with t, the code of instruction i, or one of its
\* asserts has failed on the way and it stops: nothing of t is executed then.
Continue(i, t, ids, shown) ==
    /\ ~st.aborted
    /\ IF t.aborted
       THEN /\ st' = [st EXCEPT !.aborted = TRUE]
            /\ UNCHANGED << defined, instr, out >>
       ELSE /\ Within(t)
            /\ st' = t
            /\ defined' = defined \cup ids
            /\ instr' = i
            /\ out' = shown

-----------------------------------------------------------------------------
AssignConst(id, c) ==
    Continue(<< "ASSIGN", id, c >>,
             IF st.force[id] THEN AssignForcedConst(st, id, c)
                             ELSE AssignFreeConst(st, id, c),
             {id}, Silent)

AssignIdent(id, y) ==
    Continue(<< "ASSIGN", id, y >>, AssignFromIdent(st, id, y), {id}, Silent)

Binary(id, a, b) ==
    Continue(<< "ARITH", id, a, b >>, BinaryOp(st, id, a, b), {id}, Silent)

PrintIdent(id) ==
    \E g \in [Regs -> Vals] :
        LET t == [CallPrintf(st, g) EXCEPT !.aborted = ~Legible(st, id)]
        IN  Continue(<< "PRINT", id >>, t, {}, << "print", Read(st, id) >>)

BothOnStack(s, a, b) ==
    ~IsConst(a) /\ ~IsConst(b) /\ s.onStack[a] /\ s.onStack[b]

\* compile_cond without a register of its own: at most one operand is
\* current on the stack, or one is a constant.  A constant on the left
\* changes sides.
CompareInPlace(op, a, b, F) ==
    LET s     == ForceAll(st, F)
        swap  == IsConst(a)
        left  == IF swap THEN b ELSE a
        right == IF swap THEN a ELSE b
        jump  == IF swap THEN Flip(op) ELSE op
        t     == [s EXCEPT !.aborted = \/ ~ArgLegible(s, left)
                                       \/ ~ArgLegible(s, right)]
    IN  /\ ~(IsConst(a) /\ IsConst(b))
        /\ ~BothOnStack(s, a, b)
        /\ Continue(<< op, a, b >>, t, {},
                    << "jump", Holds(jump, ArgValue(s, left), ArgValue(s, right)) >>)

\* compile_cond on two constants.
CompareConsts(op, a, b, F) ==
    /\ IsConst(a)
    /\ IsConst(b)
    /\ LET t == CondConsts(ForceAll(st, F), a)
       IN  Continue(<< op, a, b >>, t, {},
                    << "jump", Holds(op, t.reg[PickReg(ForceAll(st, F), NoId)], b) >>)

\* compile_cond on two identifiers that are both current on the stack.
CompareOnStack(op, a, b, F) ==
    LET s == ForceAll(st, F)
    IN  /\ BothOnStack(s, a, b)
        /\ LET t == CondOnStack(s, a)
           IN  Continue(<< op, a, b >>, t, {},
                        << "jump", Holds(op, t.reg[PickReg(s, a)], Read(t, b)) >>)

Goto(F) == Continue(<< "GOTO" >>, ForceAll(st, F), {}, Silent)

Nop(R) == Continue(<< "NOP" >>, ReleaseAll(st, R), {}, Silent)

-----------------------------------------------------------------------------
Next ==
    \/ \E id \in Ids, c \in Consts : AssignConst(id, c)
    \/ \E id \in Ids, y \in defined : AssignIdent(id, y)
    \/ \E id \in Ids, a, b \in Args : Binary(id, a, b)
    \/ \E id \in defined : PrintIdent(id)
    \/ \E op \in Tests, a, b \in Args, F \in Forces :
          CompareInPlace(op, a, b, F)
    \/ \E op \in Tests, a, b \in Consts, F \in Forces :
          CompareConsts(op, a, b, F)
    \/ \E F \in Forces : Goto(F)
    \/ \E R \in Forces : Nop(R)

Spec == Init /\ [][Next]_vars

\* With the remaining branch of compile_cond too.
NextAll ==
    \/ Next
    \/ \E op \in Tests, a, b \in defined, F \in Forces :
          CompareOnStack(op, a, b, F)

SpecAll == Init /\ [][NextAll]_vars

-----------------------------------------------------------------------------
(***************************************************************************)
(* Properties.                                                             *)
(***************************************************************************)

\* A register on the address descriptor of an identifier lists it among its
\* variables, and the descriptor names no register twice: what dump_reg
\* relies on when it decides whether a value has to be stored.  It holds of Spec,
\* with loops too; the comparison that SpecAll adds ends it.
LinkedIn(s) ==
    \A id \in Ids : \A i \in 1 .. Len(s.addr[id]) :
        /\ s.held[s.addr[id][i]][id] > 0
        /\ \A j \in 1 .. Len(s.addr[id]) :
               s.addr[id][i] = s.addr[id][j] => i = j

Linked == LinkedIn(st)

\* Every place said to have the current value of an identifier has the same
\* value: its registers ("if the ID is current in any", converter.c:277) and
\* its slot ("current value held in the stack", repr_utils.c:177).
AgreeIn(s) ==
    \A id \in Ids : \A i \in 1 .. Len(s.addr[id]) :
        /\ \A j \in 1 .. Len(s.addr[id]) :
               s.reg[s.addr[id][i]] = s.reg[s.addr[id][j]]
        /\ s.onStack[id] => s.mem[id] = s.reg[s.addr[id][i]]

Agree == AgreeIn(st)

\* An identifier the program has assigned can be read, also from the stack
\* while a loop forces it there: repr_ident's last assert does not fail.
AlwaysLegible == \A id \in defined : Legible(st, id)

\* No assert of the code generator fails ("Shouldn't be NULL... it's already
\* here!", converter.c:227).
NoAbort == ~st.aborted

\* A register lists an identifier as often as the descriptor of the identifier
\* names the register, which is once or never.
ExactlyListed(s, id) ==
    \A r \in Regs : s.held[r][id] = Occurrences(s.addr[id], r)

\* All three records of what is where say the same: true as long as no loop
\* forces an identifier and no comparison finds both of its identifiers on the
\* stack (converter.c:677).
ListedExactly == \A id \in Ids : ExactlyListed(st, id)

\* With loops there is one way for a listing to go stale, the assignment of a
\* constant to an identifier while it is forced: it resets the descriptor and
\* leaves the register its listing (converter.c:544).  And dump_reg's assert
\* ("Shouldn't be NULL... it's already here!", converter.c:227) fails only on
\* such a listing, however many instructions later.
StaleByConstantsOnly ==
    [][/\ \A id \in Ids : ExactlyListed(st, id) /\ ~ExactlyListed(st', id) =>
             st.force[id] /\ instr' \in {"ASSIGN"} \X {id} \X Consts
       /\ st'.aborted => st.aborted \/ ~ListedExactly]_vars

(***************************************************************************)
(* The compiled program does what the source says.  The instruction that   *)
(* was compiled and what it showed are the same in both; the store, which  *)
(* nobody sees, is what reading each identifier would find now.            *)
(***************************************************************************)
Abstract == INSTANCE Source WITH
    RelOps <- Tests,
    store <- [id \in Ids |-> IF id \in defined THEN Read(st, id) ELSE Unset]

\* Every step is the step that Source makes with the same instruction, or
\* none when the compiler aborts.  As Source is deterministic once its
\* instructions are given, every value printed and every jump taken is the one
\* that the instructions before it lead to, and an instruction changes what
\* reading finds for its result, to the value of its operands, and for nothing
\* else.
Implements == Abstract!Spec
=============================================================================

----------------------------- MODULE Allocator -----------------------------
(***************************************************************************)
(* The register allocator of the assembly backend: the code generator of   *)
(* converter.c and the descriptor helpers of register.c and repr_utils.c.  *)
(*                                                                         *)
(* This is the data module: operators on a record st that holds what the   *)
(* compiler knows and what the program it emits has done so far.  Every    *)
(* `mov' the compiler writes is applied to st.reg and st.mem at the moment *)
(* it is written, which is what straight-line code does.  RegAlloc is the  *)
(* state machine that executes one instruction of the intermediate code    *)
(* per step.                                                               *)
(*                                                                         *)
(*   held[r][id]   how often id is listed in r->variables_held: the order  *)
(*                 of that list is never observed, its duplicates are      *)
(*   addr[id]      id->address_descriptor, the list of the registers that  *)
(*                 hold id                                                 *)
(*   onStack[id]   id->on_stack: the stack slot of id is current           *)
(*   force[id]     id->force_on_stack                                      *)
(*   reg, mem      the machine: the registers and the stack slot of each   *)
(*                 identifier (Frame models where the slots lie)           *)
(*   aborted       an assert of the compiler has failed                    *)
(***************************************************************************)
EXTENDS Integers, Sequences, FiniteSets, SequencesExt

CONSTANTS
    Ids,          \* identifiers of the program: variables and temporaries
    NoId,         \* the NULL passed where an Identifier * is optional
    NumRegs,      \* NUM_REGISTERS (6: eax ebx ecx edx esi edi)
    Vals,         \* machine words
    Arith(_, _)   \* what the one arithmetic instruction considered computes

Regs == 0 .. NumRegs - 1

ASSUME AllocatorAssumption ==
    /\ IsFiniteSet(Ids)
    /\ NoId \notin Ids
    /\ NumRegs \in Nat \ {0}
    /\ Vals \subseteq Int
    /\ Ids \cap Int = {}
    /\ \A a, b \in Vals : Arith(a, b) \in Vals

States ==
    [held    : [Regs -> [Ids -> Nat]],
     addr    : [Ids -> Seq(Regs)],
     onStack : [Ids -> BOOLEAN],
     force   : [Ids -> BOOLEAN],
     reg     : [Regs -> Vals],
     mem     : [Ids -> Vals],
     aborted : BOOLEAN]

\* init_registers and init_stack_variables: nothing is held anywhere, and
\* registers and slots contain whatever was there before.
InitStates ==
    {[held    |-> [r \in Regs |-> [id \in Ids |-> 0]],
      addr    |-> [id \in Ids |-> << >>],
      onStack |-> [id \in Ids |-> FALSE],
      force   |-> [id \in Ids |-> FALSE],
      reg     |-> reg,
      mem     |-> mem,
      aborted |-> FALSE] : reg \in [Regs -> Vals], mem \in [Ids -> Vals]}

-----------------------------------------------------------------------------
(***************************************************************************)
(* Reading an operand                                                      *)
(***************************************************************************)

\* repr_ident finds a representation; otherwise its assert(false) fails.
Legible(s, id) ==
    \/ s.onStack[id]
    \/ ~s.force[id] /\ s.addr[id] # << >>

\* The value found where repr_ident says the identifier is: its first
\* register unless it is forced on the stack, otherwise its slot.
Read(s, id) ==
    IF ~s.force[id] /\ s.addr[id] # << >>
    THEN s.reg[Head(s.addr[id])]
    ELSE s.mem[id]

IsConst(arg) == arg \in Vals

\* repr_arg.
ArgLegible(s, arg) == IsConst(arg) \/ Legible(s, arg)
ArgValue(s, arg)   == IF IsConst(arg) THEN arg ELSE Read(s, arg)

-----------------------------------------------------------------------------
(***************************************************************************)
(* Choosing and emptying a register                                        *)
(***************************************************************************)

Occurrences(q, r) == Cardinality({i \in DOMAIN q : q[i] = r})

\* The stores that taking r costs: one for each listing in r of an
\* identifier that is in no other register, except the one overwritten.
Score(s, r, id) ==
    Cardinality(UNION {{x} \X (1 .. s.held[r][x]) :
                          x \in {y \in Ids \ {id} : Len(s.addr[y]) = 1}})

EmptyRegs(s) == {r \in Regs : \A x \in Ids : s.held[r][x] = 0}

CheapestRegs(s, id) ==
    {r \in Regs : \A q \in Regs : Score(s, r, id) =< Score(s, q, id)}

Candidates(s, id) ==
    IF id # NoId /\ s.addr[id] # << >> THEN {Head(s.addr[id])}
    ELSE IF id # NoId /\ EmptyRegs(s) # {} THEN EmptyRegs(s)
    ELSE CheapestRegs(s, id)

\* get_reg_for_arg(id, id, NULL, none reserved), the only form in which the
\* code generator calls it (NoId for the call that passes NULL throughout).
PickReg(s, id) ==
    CHOOSE r \in Candidates(s, id) : \A q \in Candidates(s, id) : r =< q

\* Faulty variants of Dump: the first forgets that the slot is current now,
\* the second keeps the register on the descriptor of what it has stored.
DumpForgetsSlot(s, r, keep) ==
    LET listed == {id \in Ids \ {keep} : s.held[r][id] > 0}
    IN  [s EXCEPT
          !.addr    = [id \in Ids |-> IF id \in listed
                                      THEN RemoveFirst(@[id], r)
                                      ELSE @[id]],
          !.held[r] = [id \in Ids |-> IF id = keep THEN 1 ELSE 0]]

DumpKeepsSole(s, r, keep) ==
    LET listed == {id \in Ids \ {keep} : s.held[r][id] > 0}
        sole   == {id \in listed : Len(s.addr[id]) = 1}
    IN  [s EXCEPT
          !.addr    = [id \in Ids |-> IF id \in listed \ sole
                                      THEN RemoveFirst(@[id], r)
                                      ELSE @[id]],
          !.mem     = [id \in Ids |-> IF id \in sole THEN s.reg[r] ELSE @[id]],
          !.onStack = [id \in Ids |-> @[id] \/ id \in sole],
          !.held[r] = [id \in Ids |-> IF id = keep THEN 1 ELSE 0]]

\* dump_reg_with_reserve(r, keep); dump_reg(r) is Dump(s, r, NoId).  An
\* identifier listed k times is visited k times and every visit removes r
\* once from its descriptor, so the code aborts when r occurs there fewer
\* than k times.  As no descriptor names a register twice (Linked in RegAlloc),
\* a listing with k > 1 aborts, and what is removed is the first occurrence.
Dump(s, r, keep) ==
    LET listed == {id \in Ids \ {keep} : s.held[r][id] > 0}
        sole   == {id \in listed : Len(s.addr[id]) = 1}
    IN  [s EXCEPT
          !.aborted = @ \/ \E id \in listed :
                              Occurrences(s.addr[id], r) < s.held[r][id],
          !.addr    = [id \in Ids |-> IF id \in listed
                                      THEN RemoveFirst(@[id], r)
                                      ELSE @[id]],
          !.mem     = [id \in Ids |-> IF id \in sole THEN s.reg[r] ELSE @[id]],
          !.onStack = [id \in Ids |-> @[id] \/ id \in sole],
          !.held[r] = [id \in Ids |-> IF id = keep THEN 1 ELSE 0]]

\* ensure_register(id, r).  The copy is taken from the last other register
\* of the descriptor, else from the slot, else r keeps what it contains.
Loaded(s, id, r) ==
    ~s.force[id] /\ Contains(s.addr[id], r)

Ensure(s, id, r) ==
    LET d      == Dump(s, r, NoId)
        loaded == IF ~s.force[id] /\ s.addr[id] # << >>
                  THEN d.reg[Last(s.addr[id])]
                  ELSE IF d.onStack[id] THEN d.mem[id] ELSE d.reg[r]
    IN  IF Loaded(s, id, r) THEN s
        ELSE [d EXCEPT !.held[r][id] = @ + 1,
                       !.addr[id]    = Cons(r, @),
                       !.reg[r]      = loaded]

\* A faulty variant: the listing is taken from every register.
RemoveFromAllRegs(s, id) ==
    [s EXCEPT !.held =
        [r \in Regs |->
            [s.held[r] EXCEPT ![id] = @ - Len(s.addr[id])]]]

\* remove_id_from_regs(id): one listing goes for every register of the
\* descriptor.  The descriptor itself is reset by the caller.
RemoveFromRegs(s, id) ==
    LET left(r) == IF Occurrences(s.addr[id], r) < s.held[r][id]
                   THEN s.held[r][id] - Occurrences(s.addr[id], r)
                   ELSE 0
    IN  [s EXCEPT !.held =
            [r \in Regs |-> [s.held[r] EXCEPT ![id] = left(r)]]]

\* A faulty variant of Settle: the slot stays marked as current.
SettleKeepsSlot(s, id, r) ==
    [s EXCEPT !.addr[id]    = << r >>,
              !.onStack[id] = @ \/ s.force[id],
              !.mem[id]     = IF s.force[id] THEN s.reg[r] ELSE @]

\* The result is now in r and nowhere else, and in its slot too when it is
\* forced on the stack (move_id_to_stack).
Settle(s, id, r) ==
    [s EXCEPT !.addr[id]    = << r >>,
              !.onStack[id] = s.force[id],
              !.mem[id]     = IF s.force[id] THEN s.reg[r] ELSE @]
-----------------------------------------------------------------------------
(***************************************************************************)
(* Compiling one instruction                                               *)
(***************************************************************************)

\* Faulty variants of ForceAll: nothing is stored, or only marked as stored.
ForceWithoutStore(s, F) ==
    [s EXCEPT !.force = [id \in Ids |-> @[id] \/ id \in F]]

ForceMarksOnly(s, F) ==
    [s EXCEPT !.force   = [id \in Ids |-> @[id] \/ id \in F],
              !.onStack = [id \in Ids |-> @[id] \/ id \in F]]

\* perform_instr_actions with a FORCE_ID_STACK action for each of F: the
\* current value is stored if the slot does not have it yet.
ForceAll(s, F) ==
    LET stored == {id \in F : ~s.onStack[id] /\ s.addr[id] # << >>}
    IN  [s EXCEPT
          !.force   = [id \in Ids |-> @[id] \/ id \in F],
          !.onStack = [id \in Ids |-> @[id] \/ id \in stored],
          !.mem     = [id \in Ids |-> IF id \in stored
                                      THEN s.reg[Head(s.addr[id])]
                                      ELSE @[id]]]

\* perform_instr_actions with a RELEASE_ID_STACK action for each of R.
ReleaseAll(s, R) ==
    [s EXCEPT !.force = [id \in Ids |-> @[id] /\ id \notin R]]

\* compile_unary, ASSIGN of a constant.
AssignForcedConst(s, id, c) ==
    [s EXCEPT !.addr[id] = << >>, !.onStack[id] = TRUE, !.mem[id] = c]

AssignFreeConst(s, id, c) ==
    LET r == PickReg(s, id)
        d == Dump(Ensure(s, id, r), r, id)
    IN  Settle([d EXCEPT !.reg[r] = c], id, r)

\* A faulty variant of AssignFromIdent: the other registers are not told that
\* they have lost id.
AssignLeavesListings(s, id, y) ==
    LET r == PickReg(s, y)
    IN  Settle([Ensure(s, y, r) EXCEPT !.held[r][id] = @ + 1], id, r)

\* compile_unary, ASSIGN of an identifier: no instruction copies the value,
\* id joins the register of y.
AssignFromIdent(s, id, y) ==
    LET r == PickReg(s, y)
        d == RemoveFromRegs(Ensure(s, y, r), id)
    IN  Settle([d EXCEPT !.held[r][id] = @ + 1], id, r)

\* A faulty variant of LoadFirst: the constant overwrites the register while
\* the descriptors still say the result is there.
LoadFirstInPlace(s, id, a, r) ==
    LET e == Ensure(s, id, r)
    IN  IF a = id THEN e
        ELSE IF IsConst(a) THEN [e EXCEPT !.reg[r] = a]
        ELSE Ensure(e, a, r)

\* compile_binary up to the choice of the second operand: the register of
\* the result holds the first operand.
LoadFirst(s, id, a, r) ==
    LET e == Ensure(s, id, r)
    IN  IF a = id THEN e
        ELSE IF IsConst(a) THEN [Dump(e, r, NoId) EXCEPT !.reg[r] = a]
        ELSE Ensure(e, a, r)

\* A faulty variant of BinaryOp: the second operand is read where it was before
\* the first one has been loaded.
BinaryOpEarly(s, id, a, b) ==
    LET r == PickReg(s, id)
        l == LoadFirst(s, id, a, r)
        d == Dump(l, r, id)
        w == ArgValue([s EXCEPT !.reg = d.reg, !.mem = d.mem], b)
        e == [d EXCEPT !.reg[r]  = Arith(@, w),
                       !.aborted = @ \/ ~ArgLegible(s, b)]
    IN  Settle(e, id, r)

\* compile_binary.  The text of the second operand is chosen before the
\* register is dumped; the operation runs after the stores of that dump.
BinaryOp(s, id, a, b) ==
    LET r == PickReg(s, id)
        l == LoadFirst(s, id, a, r)
        d == Dump(l, r, id)
        w == ArgValue([l EXCEPT !.mem = d.mem], b)
        e == [d EXCEPT !.reg[r]  = Arith(@, w),
                       !.aborted = @ \/ ~ArgLegible(l, b)]
    IN  Settle(e, id, r)

\* compile_cond, both operands constant: the first goes through a register.
CondConsts(s, a) ==
    LET r == PickReg(s, NoId)
    IN  [Dump(s, r, NoId) EXCEPT !.reg[r] = a]

\* compile_cond, both operands current on the stack: the first one is
\* loaded, and its register is added to its descriptor once more.
CondOnStack(s, a) ==
    LET r == PickReg(s, a)
        d == Dump(Ensure(s, a, r), r, a)
        e == [d EXCEPT !.addr[a] = Cons(r, @)]
    IN  [e EXCEPT !.reg[r] = Read(e, a)]

\* print_variable around the call of printf.  store_caller_regs pushes the
\* registers Saved and restore_caller_regs reloads them; the C calling
\* convention lets printf change Clobbered, to the values in g.
Saved     == {r \in Regs : r < 4}
Clobbered == {r \in Regs : r \in {0, 2, 3}}

CallPrintf(s, g) ==
    [s EXCEPT !.reg = [r \in Regs |-> IF r \in Clobbered \ Saved
                                      THEN g[r] ELSE @[r]]]

\* The condition of the jump that follows `cmp a, b'.
RelOps == {"LT", "GT", "LEQ", "GEQ", "EQ", "NEQ"}

Holds(op, a, b) ==
    CASE op = "LT"  -> a < b
      [] op = "GT"  -> a > b
      [] op = "LEQ" -> a =< b
      [] op = "GEQ" -> a >= b
      [] op = "EQ"  -> a = b
      [] op = "NEQ" -> a # b

\* A faulty variant of Flip: the operands are swapped, the jump is not.
FlipNothing(op) == op

\* The jump chosen when compile_cond swaps its operands.
Flip(op) ==
    CASE op = "LT"  -> "GT"
      [] op = "GT"  -> "LT"
      [] op = "LEQ" -> "GEQ"
      [] op = "GEQ" -> "LEQ"
      [] OTHER      -> op
=============================================================================

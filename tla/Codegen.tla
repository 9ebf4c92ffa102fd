------------------------------ MODULE Codegen ------------------------------
(***************************************************************************)
(* basic_compile on a whole program, and the machine running the result.   *)
(*                                                                         *)
(* The code is generated once, in program order, with what the descriptors *)
(* say at each instruction (desc); it runs along its jumps.  RegAlloc      *)
(* follows a program that never jumps; here a jump arrives where the       *)
(* descriptors were left by other code.  Beside the machine the program    *)
(* itself is executed, on a store.                                         *)
(***************************************************************************)
EXTENDS Allocator

CONSTANTS
    None,         \* no argument, no result
    Unset,        \* an identifier that was never assigned
    Programs,     \* programs in intermediate code, as IRGen builds them
    MaxPrints     \* bound: only the first so many prints are compared

\* is_relative_op.  The parser generates EQ and NEQ for == and != of conditions
\* only, with operands that compile_cond cannot read.
CondOps == RelOps

Args == Ids \cup Vals

Instructions ==
    [op : STRING, target : Nat, forced : SUBSET Ids, released : SUBSET Ids,
     arg : Args \cup {None}, arg2 : Args \cup {None}, result : Ids \cup {None}]

\* What main hands to compile: an instruction has the operands that its code
\* reads, every label stands on an instruction or at the end of the program,
\* and only assignments and arithmetic have a result.
WellFormed(p) ==
    /\ p \in Seq(Instructions)
    /\ \A i \in DOMAIN p :
          LET instr == p[i]
          IN  /\ instr.target =< Len(p) + 1
              /\ CASE instr.op = "PRINT"    -> instr.arg \in Ids /\ instr.result = None
                   [] instr.op \in CondOps -> /\ {instr.arg, instr.arg2} \subseteq Args
                                             /\ instr.target # 0 /\ instr.result = None
                   [] instr.op = "GOTO"    -> instr.target # 0 /\ instr.result = None
                   [] instr.op = "NOP"     -> instr.result = None
                   [] instr.op = "ASSIGN"  -> instr.arg \in Args /\ instr.result \in Ids
                   [] OTHER                -> /\ {instr.arg, instr.arg2} \subseteq Args
                                             /\ instr.result \in Ids

ASSUME CodegenAssumption ==
    /\ None \notin Args
    /\ Unset \notin Args
    /\ MaxPrints \in Nat
    /\ \A p \in Programs : WellFormed(p)

VARIABLES
    program,      \* the instructions, each with its actions
    live,         \* live[i]: identifiers read from i on before they are written
    desc,         \* desc[i]: the descriptors when the code of i is generated
    pc,           \* the machine: the next instruction,
    reg, mem,     \* its registers and stack slots,
    printed,      \* what it has printed, the first MaxPrints values
    store,        \* the program executed directly: the value of each identifier
    trusted,      \* no descriptor was wrong where nothing makes it right
    phase

vars == << program, live, desc, pc, reg, mem, printed, store, trusted, phase >>

Phases == {"compile", "run", "halted", "aborted"}

End == Len(program) + 1

\* The identifiers that an instruction reads; where it may go on.
Named(instr) == {instr.arg, instr.arg2} \cap Ids

Successors(i) ==
    (IF program[i].target = 0 THEN {} ELSE {program[i].target})
    \cup (IF program[i].op = "GOTO" THEN {} ELSE {i + 1})

\* A solution of the equations for live, and the least one.
Closed(L) ==
    \A i \in DOMAIN program :
        Named(program[i])
            \cup ((UNION {L[k] : k \in Successors(i)}) \ {program[i].result})
            \subseteq L[i]

LeastLive ==
    LET within[n \in 0 .. Len(program)] ==
          [i \in 1 .. End |->
              IF n = 0 \/ i = End THEN {}
              ELSE Named(program[i])
                     \cup ((UNION {within[n - 1][k] : k \in Successors(i)})
                             \ {program[i].result})]
    IN  within[Len(program)]

-----------------------------------------------------------------------------
(***************************************************************************)
(* Generating code                                                         *)
(***************************************************************************)

\* perform_instr_actions: what it emits comes before the label of k.
ActionsOf(instr, s) == ReleaseAll(ForceAll(s, instr.forced), instr.released)

Actions(k, s) == IF k = End THEN s ELSE ActionsOf(program[k], s)

BothConst(a, b)      == IsConst(a) /\ IsConst(b)
BothOnStack(s, a, b) == ~IsConst(a) /\ ~IsConst(b) /\ s.onStack[a] /\ s.onStack[b]

\* compile_cond up to the cmp.
Compared(s, a, b) ==
    IF BothConst(a, b) THEN CondConsts(s, a)
    ELSE IF BothOnStack(s, a, b) THEN CondOnStack(s, a)
    ELSE [s EXCEPT !.aborted = ~ArgLegible(s, a) \/ ~ArgLegible(s, b)]

\* A faulty variant: the jump is not mirrored for a constant on the left.
TakenUnflipped(op, s, t, a, b) ==
    IF BothConst(a, b) THEN Holds(op, t.reg[PickReg(s, NoId)], b)
    ELSE IF BothOnStack(s, a, b) THEN Holds(op, t.reg[PickReg(s, a)], Read(t, b))
    ELSE IF IsConst(a) THEN Holds(op, ArgValue(s, b), a)
    ELSE Holds(op, ArgValue(s, a), ArgValue(s, b))

\* Whether the conditional jump is taken; t is what Compared leaves.
Taken(op, s, t, a, b) ==
    IF BothConst(a, b) THEN Holds(op, t.reg[PickReg(s, NoId)], b)
    ELSE IF BothOnStack(s, a, b) THEN Holds(op, t.reg[PickReg(s, a)], Read(t, b))
    ELSE IF IsConst(a) THEN Holds(Flip(op), ArgValue(s, b), a)
    ELSE Holds(op, ArgValue(s, a), ArgValue(s, b))

\* The code of an instruction: what it does to descriptors and machine.
After(instr, s) ==
    CASE instr.op = "ASSIGN" /\ ~IsConst(instr.arg) ->
            AssignFromIdent(s, instr.result, instr.arg)
      [] instr.op = "ASSIGN" /\ IsConst(instr.arg) ->
            IF s.force[instr.result]
            THEN AssignForcedConst(s, instr.result, instr.arg)
            ELSE AssignFreeConst(s, instr.result, instr.arg)
      [] instr.op = "PRINT" ->
            [CallPrintf(s, s.reg) EXCEPT !.aborted = ~Legible(s, instr.arg)]
      [] instr.op \in CondOps -> Compared(s, instr.arg, instr.arg2)
      [] instr.op \in {"GOTO", "NOP"} -> s
      [] OTHER -> BinaryOp(s, instr.result, instr.arg, instr.arg2)

\* The compiler knows nothing of the machine: in desc it is as it was.
Known(s) == [s EXCEPT !.reg = desc[1].reg, !.mem = desc[1].mem]

Load(p, L, s) ==
    /\ program = p
    /\ live = L
    /\ desc = << s >>
    /\ pc = 1
    /\ reg = s.reg
    /\ mem = s.mem
    /\ printed = << >>
    /\ store = [id \in Ids |-> Unset]
    /\ trusted = TRUE
    /\ phase = "compile"

Init ==
    /\ program \in Programs
    /\ live \in [1 .. End -> SUBSET Ids]
    /\ Closed(live)
    /\ \E s \in InitStates : Load(program, live, Actions(1, s))

\* One turn of basic_compile's loop.
Compile ==
    LET k == Len(desc)
        t == After(program[k], desc[k])
    IN  /\ phase = "compile"
        /\ k # End
        /\ IF t.aborted
           THEN phase' = "aborted" /\ UNCHANGED desc
           ELSE phase' = phase /\ desc' = Append(desc, Known(Actions(k + 1, t)))
        /\ UNCHANGED << program, live, pc, reg, mem, printed, store, trusted >>

Start ==
    /\ phase = "compile"
    /\ Len(desc) = End
    /\ phase' = "run"
    /\ UNCHANGED << program, live, desc, pc, reg, mem, printed, store, trusted >>

-----------------------------------------------------------------------------
(***************************************************************************)
(* Running it                                                              *)
(***************************************************************************)
Value(arg) == IF IsConst(arg) THEN arg ELSE store[arg]

\* Nothing is known of a result that an identifier without a value went into.
Sum(a, b) ==
    IF Unset \in {Value(a), Value(b)} THEN Unset ELSE Arith(Value(a), Value(b))

\* Where the code of s looks for id: in its slot alone while it is forced.
Places(s, id) ==
    (IF s.onStack[id] THEN {s.mem[id]} ELSE {})
    \cup (IF s.force[id] THEN {} ELSE {s.reg[r] : r \in ToSet(s.addr[id])})

\* Every place where s looks for an identifier that is still read has its
\* value, and there is one.
HonestIn(s, ids, values) ==
    \A id \in ids :
        values[id] # Unset => Legible(s, id) /\ Places(s, id) = {values[id]}

\* Every register where s looks for one of ids lists it, and is listed once:
\* what dump_reg relies on when it removes the register from the descriptor.
ListedIn(s, ids) ==
    \A id \in ids : \A i \in 1 .. Len(s.addr[id]) :
        ~s.force[id] =>
            /\ s.held[s.addr[id][i]][id] > 0
            /\ \A j \in 1 .. Len(s.addr[id]) :
                   s.addr[id][i] = s.addr[id][j] => i = j

Machine(i) == [desc[i] EXCEPT !.reg = reg, !.mem = mem]

\* Where the compiler does not make sure that the descriptors are right: where
\* a jump arrives, where identifiers are released, and behind a comparison
\* that has put a register on a descriptor once more.
Unchecked(instr, k) ==
    \/ k = instr.target
    \/ k # End /\ program[k].released # {}
    \/ instr.op \in CondOps /\ BothOnStack(desc[pc], instr.arg, instr.arg2)

\* Nor does it know, when it dumps the register of a forced identifier into its
\* slot, that the slot has overtaken the register: the slot is overwritten, or
\* the old value comes back as the operand of an assignment to id itself.
Overtaken(instr, slots, id) ==
    /\ desc[pc].force[id]
    /\ desc[pc].onStack[id]
    /\ IF id = instr.result
       THEN /\ Len(desc[pc].addr[id]) = 1
            /\ reg[Head(desc[pc].addr[id])] # mem[id]
       ELSE slots[id] # mem[id]

\* The machine goes on at k.  trusted is whether the descriptors were right
\* wherever the compiler does not make them so.
Continue(instr, k, s, values) ==
    LET t == [desc[k] EXCEPT !.reg = reg', !.mem = mem']
    IN  /\ pc' = k
        /\ reg' = s.reg
        /\ mem' = s.mem
        /\ store' = values
        /\ trusted' = /\ trusted
                      /\ ~\E id \in live[pc] : Overtaken(instr, mem', id)
                      /\ Unchecked(instr, k) => /\ HonestIn(t, live[k], values)
                                                /\ ListedIn(t, live[k])
        /\ UNCHANGED << program, live, desc, phase >>

\* The store after instr.
Stored(instr) ==
    CASE instr.op = "ASSIGN" -> [store EXCEPT ![instr.result] = Value(instr.arg)]
      [] instr.op \in CondOps \cup {"PRINT", "GOTO", "NOP"} -> store
      [] OTHER -> [store EXCEPT ![instr.result] = Sum(instr.arg, instr.arg2)]

\* The actions of the next instruction are before its label: a jump to it does
\* not perform them.
Execute ==
    LET instr == program[pc]
        s     == Machine(pc)
        t     == After(instr, s)
        jumps == \/ instr.op = "GOTO"
                 \/ /\ instr.op \in CondOps
                    /\ Taken(instr.op, s, t, instr.arg, instr.arg2)
    IN  /\ phase = "run"
        /\ pc # End
        /\ IF jumps
           THEN Continue(instr, instr.target, t, Stored(instr))
           ELSE Continue(instr, pc + 1, Actions(pc + 1, t), Stored(instr))
        /\ printed' = IF instr.op = "PRINT" /\ Len(printed) < MaxPrints
                      THEN Append(printed, Read(s, instr.arg))
                      ELSE printed

\* write_exit.
Halt ==
    /\ phase = "run"
    /\ pc = End
    /\ phase' = "halted"
    /\ UNCHANGED << program, live, desc, pc, reg, mem, printed, store, trusted >>

Next == Compile \/ Start \/ Execute \/ Halt

Spec == Init /\ [][Next]_vars

-----------------------------------------------------------------------------
(***************************************************************************)
(* Properties.                                                             *)
(***************************************************************************)

\* The types; a program that runs has descriptors for every instruction.
TypeOK ==
    /\ program \in Programs
    /\ live \in [1 .. End -> SUBSET Ids]
    /\ desc \in Seq(States)
    /\ Len(desc) \in 1 .. End
    /\ pc \in 1 .. End
    /\ reg \in [Regs -> Vals]
    /\ mem \in [Ids -> Vals]
    /\ printed \in Seq(Vals)
    /\ store \in [Ids -> Vals \cup {Unset}]
    /\ trusted \in BOOLEAN
    /\ phase \in Phases
    /\ phase \in {"run", "halted"} => Len(desc) = End

\* As long as the descriptors were right at every arrival that the compiler
\* does not check, they are right everywhere: wherever the code looks for an
\* identifier that is still read, it finds its value.
Honest ==
    phase = "run" /\ trusted => HonestIn(Machine(pc), live[pc], store)

\* The code obeys the program: as long as the descriptors can be trusted it
\* jumps where the program jumps and prints what the program prints.
ObeysStep ==
    LET instr == program[pc]
        known == \A id \in Named(instr) : store[id] # Unset
    IN  phase = "run" /\ phase' = "run" /\ trusted' /\ known =>
            /\ instr.op \in CondOps =>
                  pc' = IF Holds(instr.op, Value(instr.arg), Value(instr.arg2))
                        THEN instr.target ELSE pc + 1
            /\ instr.op = "PRINT" =>
                  printed' = IF Len(printed) < MaxPrints
                             THEN Append(printed, Value(instr.arg))
                             ELSE printed

Obeys == [][ObeysStep]_vars

\* The same of every program: on_stack and address_descriptor say "Whether the
\* most current version is here" (symbol_table.h:36).
AlwaysHonest == phase = "run" => HonestIn(Machine(pc), live[pc], store)
=============================================================================

-------------------------------- MODULE Frame --------------------------------
(***************************************************************************)
(* The stack of the compiled program: the slots that init_stack_variables  *)
(* lays out, and the pushes and offsets around the call of printf.         *)
(*                                                                         *)
(* Allocator and Codegen take a slot to be a word of its own (mem), a read *)
(* of an identifier to find it, and a print to leave the saved registers   *)
(* as they were.  Here memory consists of bytes, a slot is an address      *)
(* relative to the stack pointer, and one step is one instruction of the   *)
(* assembly program: that is what has to come out.                         *)
(*                                                                         *)
(* CUR_STACK_OFFSET is a variable of the compiler and esp a register of    *)
(* the machine.  The call is generated in one piece, without a label, and  *)
(* begins and ends with CUR_STACK_OFFSET zero, so both can be followed     *)
(* side by side.                                                           *)
(***************************************************************************)
EXTENDS Integers, Sequences, FiniteSets, SequencesExt

CONSTANTS
    Ids,          \* the identifiers in the symbol table
    Types,        \* their types
    NumRegs,      \* NUM_REGISTERS
    Words,        \* machine words
    Format,       \* the address of num_print
    Garbage       \* what printf leaves behind, and what was there before

ASSUME FrameAssumption ==
    /\ IsFiniteSet(Ids)
    /\ Types \subseteq {"INTEGER", "LONG", "BOOL", "CHAR", "DOUBLE"}
    /\ NumRegs \in Nat /\ NumRegs >= 4
    /\ Garbage \notin Words \cup {Format}

Regs      == 0 .. NumRegs - 1
Saved     == 4                    \* store_caller_regs: the first four
Clobbered == {0, 2, 3}            \* eax, ecx, edx

Size == [INTEGER |-> 4, LONG |-> 4, BOOL |-> 4, CHAR |-> 1, DOUBLE |-> 8]

VARIABLES
    order,        \* the identifiers as get_all_identifiers lists them
    type,
    offset,       \* id->offset
    laid,         \* the identifiers of order that have their offset
    size,         \* stack_offset of init_stack_variables
    cur,          \* CUR_STACK_OFFSET
    esp,
    reg,
    mem,          \* the stack, byte by byte; a byte is a word and a position
    step,         \* "layout" first, then the next instruction of the call, or
                  \* "run" between calls
    done,         \* the registers saved or restored so far
    printing,     \* the identifier printed, and the register where repr_ident
                  \* finds it, if it does
    slot, kept    \* what the program stored last in every slot and register

vars == << order, type, offset, laid, size, cur, esp, reg, mem, step, done,
           printing, slot, kept >>

Steps == {"layout", "run", "save", "argument", "format", "call", "drop", "unwind", "restore"}

\* The stack pointer after init_stack_variables, relative to the one of
\* _start; everything below it is free.
Base      == -size
Depth     == 4 * Saved + 8
Addresses == -(8 * Cardinality(Ids) + Depth + 8) .. 7

Write(m, a, w) ==
    [b \in Addresses |-> IF b \in a .. a + 3 THEN << w, b - a >> ELSE m[b]]

\* The word at a, if its four bytes belong together.
WordAt(m, a) ==
    IF \A k \in 0 .. 3 : m[a + k] = << m[a][1], k >> THEN m[a][1] ELSE Garbage

Init ==
    /\ order \in {ids \in [1 .. Cardinality(Ids) -> Ids] : ToSet(ids) = Ids}
    /\ type \in [Ids -> Types]
    /\ offset = [id \in Ids |-> 0]
    /\ laid = 0
    /\ size = 0
    /\ cur = 0
    /\ esp = 0
    /\ reg = [r \in Regs |-> Garbage]
    /\ mem = [a \in Addresses |-> << Garbage, 0 >>]
    /\ step = "layout"
    /\ done = 0
    /\ printing = << >>
    /\ slot = [id \in Ids |-> Garbage]
    /\ kept = reg

-----------------------------------------------------------------------------
(***************************************************************************)
(* init_stack_variables: its loop over the identifiers, one by one, and    *)
(* the instruction that reserves their room.                               *)
(***************************************************************************)
UnchangedFrame == UNCHANGED << order, type, offset, laid, size >>
UnchangedMachine == UNCHANGED << cur, reg, mem, done, printing, slot, kept >>

\* Faulty variants of LayOut: the sizes are not added up; an identifier is
\* counted twice.
LayOutInPlace(id) ==
    /\ step = "layout" /\ laid < Len(order) /\ id = order[laid + 1]
    /\ offset' = [offset EXCEPT ![id] = Size[type[id]]]
    /\ size' = size + Size[type[id]]
    /\ laid' = laid + 1
    /\ UNCHANGED << order, type, esp, step >>
    /\ UnchangedMachine

LayOutTwice(id) ==
    /\ step = "layout" /\ laid < Len(order) /\ id = order[laid + 1]
    /\ offset' = [offset EXCEPT ![id] = size + 2 * Size[type[id]]]
    /\ size' = size + Size[type[id]]
    /\ laid' = laid + 1
    /\ UNCHANGED << order, type, esp, step >>
    /\ UnchangedMachine

\* The offset of an identifier: the sizes up to and including its own.
LayOut(id) ==
    /\ step = "layout"
    /\ laid < Len(order)
    /\ id = order[laid + 1]
    /\ size' = size + Size[type[id]]
    /\ offset' = [offset EXCEPT ![id] = size']
    /\ laid' = laid + 1
    /\ UNCHANGED << order, type, esp, step >>
    /\ UnchangedMachine

Reserve ==
    /\ step = "layout"
    /\ laid = Len(order)
    /\ esp' = esp - size
    /\ step' = "run"
    /\ UnchangedFrame
    /\ UnchangedMachine

-----------------------------------------------------------------------------
(***************************************************************************)
(* Between calls                                                           *)
(***************************************************************************)
UnchangedCall ==
    /\ UNCHANGED << cur, esp, step, done, printing >>
    /\ UnchangedFrame

\* The code computes something in a register.
SetReg(r, w) ==
    /\ step = "run"
    /\ reg' = [reg EXCEPT ![r] = w]
    /\ kept' = [kept EXCEPT ![r] = w]
    /\ UNCHANGED << mem, slot >>
    /\ UnchangedCall

\* move_id_to_stack and the store of dump_reg: without CUR_STACK_OFFSET.
Store(r, id) ==
    /\ step = "run"
    /\ mem' = Write(mem, esp + offset[id], reg[r])
    /\ slot' = [slot EXCEPT ![id] = kept[r]]
    /\ UNCHANGED << reg, kept >>
    /\ UnchangedCall

-----------------------------------------------------------------------------
(***************************************************************************)
(* print_variable                                                          *)
(***************************************************************************)
UnchangedProgram ==
    /\ UNCHANGED << slot, kept >>
    /\ UnchangedFrame

\* print_variable fails an assert for another type.  The identifier is in a
\* register, or in its slot when where is empty.
BeginPrint(id, where) ==
    /\ step = "run"
    /\ type[id] \in {"INTEGER", "BOOL"}
    /\ printing' = << id, where >>
    /\ step' = "save"
    /\ UNCHANGED << cur, esp, reg, mem, done >>
    /\ UnchangedProgram

Push(w) ==
    /\ esp' = esp - 4
    /\ mem' = Write(mem, esp - 4, w)

\* A faulty variant: the offsets do not follow the stack pointer.
SaveKeepsOffset ==
    /\ step = "save"
    /\ UNCHANGED cur
    /\ Push(reg[done])
    /\ done' = done + 1
    /\ step' = IF done' = Saved THEN "argument" ELSE "save"
    /\ UNCHANGED << reg, printing >>
    /\ UnchangedProgram

\* store_caller_regs, one register.
Save ==
    /\ step = "save"
    /\ cur' = cur + 4
    /\ Push(reg[done])
    /\ done' = done + 1
    /\ step' = IF done' = Saved THEN "argument" ELSE "save"
    /\ UNCHANGED << reg, printing >>
    /\ UnchangedProgram

\* repr_ident.
Operand ==
    IF printing[2] # << >> THEN reg[printing[2][1]]
    ELSE WordAt(mem, esp + offset[printing[1]] + cur)

PushArgument ==
    /\ step = "argument"
    /\ Push(Operand)
    /\ step' = "format"
    /\ UNCHANGED << cur, reg, done, printing >>
    /\ UnchangedProgram

PushFormat ==
    /\ step = "format"
    /\ Push(Format)
    /\ step' = "call"
    /\ UNCHANGED << cur, reg, done, printing >>
    /\ UnchangedProgram

\* printf may change three registers, its arguments and all that is below.
Call ==
    /\ step = "call"
    /\ reg' = [r \in Regs |-> IF r \in Clobbered THEN Garbage ELSE reg[r]]
    /\ mem' = [a \in Addresses |-> IF a < esp + 8 THEN << Garbage, 0 >> ELSE mem[a]]
    /\ step' = "drop"
    /\ UNCHANGED << cur, esp, done, printing >>
    /\ UnchangedProgram

\* The argument and the address of the format are dropped.
Drop ==
    /\ step = "drop"
    /\ esp' = esp + Size[type[printing[1]]] + 4
    /\ step' = "unwind"
    /\ UNCHANGED << cur, reg, mem, done, printing >>
    /\ UnchangedProgram

\* A faulty variant: the argument and the format are dropped once more.
UnwindTooFar ==
    /\ step = "unwind"
    /\ esp' = esp + 24
    /\ step' = "restore"
    /\ done' = 0
    /\ UNCHANGED << cur, reg, mem, printing >>
    /\ UnchangedProgram

\* restore_caller_regs: the stack pointer first, the registers after it.
Unwind ==
    /\ step = "unwind"
    /\ esp' = esp + 16
    /\ step' = "restore"
    /\ done' = 0
    /\ UNCHANGED << cur, reg, mem, printing >>
    /\ UnchangedProgram

\* A faulty variant: the registers come back in the order of a pop.
RestorePopped ==
    /\ step = "restore"
    /\ cur' = cur - 4
    /\ reg' = [reg EXCEPT ![done] = WordAt(mem, esp - 4 * (Saved - done))]
    /\ IF done + 1 = Saved
       THEN step' = "run" /\ done' = 0 /\ printing' = << >>
       ELSE step' = step /\ done' = done + 1 /\ printing' = printing
    /\ UNCHANGED << esp, mem >>
    /\ UnchangedProgram

Restore ==
    /\ step = "restore"
    /\ cur' = cur - 4
    /\ reg' = [reg EXCEPT ![done] = WordAt(mem, esp - 4 * (done + 1))]
    /\ IF done + 1 = Saved
       THEN step' = "run" /\ done' = 0 /\ printing' = << >>
       ELSE step' = step /\ done' = done + 1 /\ printing' = printing
    /\ UNCHANGED << esp, mem >>
    /\ UnchangedProgram

Next ==
    \/ \E id \in Ids : LayOut(id)
    \/ Reserve
    \/ \E r \in Regs, w \in Words : SetReg(r, w)
    \/ \E r \in Regs, id \in Ids : Store(r, id)
    \/ \E id \in Ids, where \in {<< >>} \cup {<< r >> : r \in Regs} : BeginPrint(id, where)
    \/ Save
    \/ PushArgument
    \/ PushFormat
    \/ Call
    \/ Drop
    \/ Unwind
    \/ Restore

Spec == Init /\ [][Next]_vars

-----------------------------------------------------------------------------
(***************************************************************************)
(* Properties.                                                             *)
(***************************************************************************)
Contents == Words \cup {Garbage, Format}

TypeOK ==
    /\ cur \in 0 .. 4 * Saved
    /\ laid \in 0 .. Cardinality(Ids)
    /\ size \in 0 .. 8 * Cardinality(Ids)
    /\ offset \in [Ids -> 0 .. size]
    /\ esp \in Base - Depth .. (IF step = "layout" THEN 0 ELSE Base)
    /\ reg \in [Regs -> Contents]
    /\ mem \in [Addresses -> Contents \X (0 .. 3)]
    /\ step \in Steps
    /\ done \in 0 .. Saved
    /\ printing \in {<< >>} \cup (Ids \X ({<< >>} \cup {<< r >> : r \in Regs}))
    /\ slot \in [Ids -> Contents]
    /\ kept \in [Regs -> Contents]

\* A char has one byte of the frame and its store writes four, so it shares
\* bytes with the identifier before it.
Alone(id) ==
    \A i \in DOMAIN order :
        order[i] = id =>
            /\ i = 1 \/ type[id] # "CHAR"
            /\ i = Len(order) \/ type[order[i + 1]] # "CHAR"

\* The slot of every identifier that shares no bytes with a char has what was
\* stored there last: no other store, push or call gets at it, although the
\* last slot lies above the room that init_stack_variables reserves.
SlotsKept ==
    \A id \in Ids : Alone(id) => WordAt(mem, Base + offset[id]) = slot[id]

\* The program owns nothing above its frame: of that it changes one word, the
\* last slot.
NothingAbove == \A a \in Addresses : a >= 4 => mem[a] = << Garbage, 0 >>

\* When a print is over, every register has what it had, the stack pointer is
\* where the offsets expect it (store_caller_regs and restore_caller_regs),
\* and so is what the compiler takes it to be.
PrintRestores == step = "run" => reg = kept /\ esp = Base /\ cur = 0

\* Wherever the printed identifier is, register or slot, printf gets its value
\* and the format, from a stack pointer that has moved since.
RightArguments ==
    step = "call" =>
        /\ WordAt(mem, esp) = Format
        /\ IF printing[2] # << >>
           THEN WordAt(mem, esp + 4) = kept[printing[2][1]]
           ELSE Alone(printing[1]) => WordAt(mem, esp + 4) = slot[printing[1]]
=============================================================================

# A verification project for the IndStudyCompilers compiler

The repository is a small compiler: it reads one statement of a C-like language
(ints, bools, `if`, `while`, `print`), generates three-address code, optimizes it
block by block and writes i386 assembly. This directory holds TLA+ models of all of
its passes and of the program it writes, the TLC configurations that check them and TLAPS proofs about them.

Paths below are relative to the repository: `converter.c` is
`AssemblyBackend/converter.c`, `C.y` is `ScanAndParse/C.y`, and so on.

## 1. Inventory

| part | source | state | operations |
|---|---|---|---|
| scanner | `C.lex` | none | one token at a time |
| parser and IR generation | `C.y`, `inter_code_gen.c` | `instr_list`, `num_instrs`, true/false lists on the parser's stack, actions on instructions | one semantic action per reduction; `back_patch`, `gen_bool_instrs`, `add_action_to_instr_range` |
| symbol table | `symbol_table.c` | hash table of identifiers, `temp_number` | declare, look up, new temporary |
| optimizer | `optimization.c` | blocks, a DAG per block, `most_recents`, `dag_table` | `make_blocks`, `generate_dag`, `compile_dag`, `combine_blocks` |
| register allocator and code generator | `converter.c`, `register.c`, `repr_utils.c` | `variables_held` per register; `address_descriptor`, `on_stack`, `force_on_stack` per identifier | `get_reg_for_arg`, `ensure_register`, `dump_reg`, one `compile_*` per kind of instruction, `perform_instr_actions` |
| stack frame, `printf` | `converter.c`, `repr_utils.c` | `CUR_STACK_OFFSET`, `offset` per identifier | `init_stack_variables`, `store_caller_regs`, `print_variable`, `restore_caller_regs` |
| deferred freeing | `gc.c` | a list of every allocation | `gc_add`, `gc_free` |

**How they interact.** The compiler is sequential, one pass after the other:
`yyparse` calls the semantic actions, which fill `instr_list`; `optimize` builds a
new list from it; `compile` walks that list once and writes assembly. They share
the identifiers: a parser `Identifier` carries the descriptor and flags that the
backend changes. The loop information travels from the parser to the backend as
*actions* on instructions (`FORCE_ID_STACK` on the first instruction of a loop
condition, `RELEASE_ID_STACK` on the NOP after the loop), through an optimizer
that rebuilds most instructions.

**What is hard.** Nothing runs concurrently, nothing is persisted and nothing is
retried. What is hard is *bookkeeping over a long sequence*: a compiler step
leaves a claim ("the value of x is in ebx and in its slot") that another step
relies on many instructions later, and the claim is about the execution of the
program that is being written, not about the compiler. Six places are dangerous:

1. descriptors against registers against slots (`variables_held`,
   `address_descriptor`, `on_stack` are three records of one fact);
2. identifiers that a loop forces on the stack, for which the rules differ in
   every branch;
3. jumps that get their target long after they are generated;
4. loops in loops, whose force and release actions overlap;
5. joins: code is generated in program order but runs along its jumps;
6. the optimizer, which reorders assignments within a block.

`PROJECT.json` lists each hazard at its line with the properties that cover it,
or why none does.

**What makes each part correct.**

- *Backend*: the output prints and tests what the instruction list says; copies of
  a value agree; every operand has a place it can be read from; no assert fails.
- *IR generation*: every jump gets exactly one target; the code has the traces of
  the source; a loop's identifiers are forced as long as the loop runs.
- *Optimizer*: a block has the same effect on every identifier as before.
- *Frame*: slots are disjoint and inside the reserved room; a print leaves
  registers, slots and the stack pointer alone.
- *Whole compiler*: the machine prints what the source program prints, and the
  compiled program ends when the source program does.

## 2. Modules

| module | models | kind |
|---|---|---|
| `Allocator` | the operators of the backend: choosing, dumping, loading a register, each kind of instruction | data module, no variables |
| `RegAlloc` | `basic_compile`: one step is one instruction, compiled and executed | variables `st`, `defined`, `instr`, `out` |
| `Source` | what the instruction list means | the abstract specification of `RegAlloc` |
| `Allocator_proofs` | lemmas about the helpers, for `RegAlloc` and `Codegen` alike | |
| `RegAlloc_proofs` | the theorems about `RegAlloc` | |
| `RegAllocListings_proofs` | what the registers list, and when an assert fails | |
| `SequenceLemmas` | sequences without repetitions, least numbers | lemmas |
| `MCRegAlloc` | instances for TLC | |
| `IRGen` | the semantic actions of `C.y`, backpatching, loop actions | variables `code`, `parse`, `val`, `next` |
| `IRGen_proofs` | the theorems about `IRGen` | |
| `IRMeaning` | traces of the generated code and of the source program | only for TLC: it recurses over programs |
| `MCIRGen` | instances for TLC | |
| `Dag` | the optimizer's graph of a block: building it, compiling it | data module, no variables |
| `Optimizer` | `generate_dag` and `compile_dag` on one block, one instruction per step | variables `dag`, `out`, and what the block means |
| `MCOptimizer` | instances for TLC | |
| `Optimizer_proofs` | the theorems about `Dag` and `Optimizer` | |
| `Codegen` | `basic_compile` on a whole program, then the program running along its jumps | variables `desc`, `pc`, `reg`, `mem`, `printed` |
| `Codegen_proofs` | the theorems about `Codegen` | |
| `MCCodegen` | instances for TLC | |
| `Compiler` | `main`: composes `IRGen`, `Dag` and `Codegen` | adds the source program's own run |
| `MCCompiler` | instances for TLC; recurses over programs, so no proofs here | |
| `Frame` | the slots in a memory of bytes, the call of `printf` instruction by instruction | variables `mem`, `esp`, `cur`, `offset`, ... |
| `Frame_proofs` | the theorems about `Frame` | |
| `MCFrame` | instances for TLC | |

How they compose: `IRGen` produces the programs, `Dag` rewrites each of their blocks,
`Allocator` (through `Codegen`) turns them into moves between registers and slots,
`Compiler` joins the three and compares the result with the source. `RegAlloc`
refines `Source`. `Frame` justifies what `Allocator` takes for granted about slots and
about a print: a slot is a word of its own, and the saved registers come back.

### Allocator and RegAlloc: the backend

`st` is a record of what the compiler knows and of the machine its output drives:

| field | code |
|---|---|
| `held[r][id]` | how often `id` is in `REGISTERS[r]->variables_held`; its order is never observed, its duplicates are |
| `addr[id]` | `id->address_descriptor`, in order: the first and the last entry are treated differently |
| `onStack[id]`, `force[id]` | `id->on_stack`, `id->force_on_stack` |
| `reg[r]`, `mem[id]` | the machine: registers and stack slots, with whatever they contain at the start |
| `aborted` | an assert has failed |

`defined` is the set of identifiers assigned so far (programs read only those, and
the parser rejects others); `instr` is the last instruction and `out` what it printed or
whether its jump is taken.

Each `mov` takes effect on `st.reg` and `st.mem` at the moment the compiler writes
it. So the two levels (what the compiler believes, what the machine does) can be
compared in every state. The program is not fixed: a step is any instruction over
the identifiers, so TLC explores all straight-line programs.

| action | code |
|---|---|
| `AssignConst` | `compile_unary`, constant; `AssignForcedConst` (lines 542-558) or `AssignFreeConst` |
| `AssignIdent` | `compile_unary`, identifier: no code, the result joins the operand's register |
| `Binary` | `compile_binary`; `LoadFirst` is the part before the second operand is chosen |
| `PrintIdent` | `print_variable`, with `printf` changing what the calling convention lets it change |
| `CompareInPlace`, `CompareConsts`, `CompareOnStack` | the branches of `compile_cond`, with the actions of the instruction first |
| `Goto`, `Nop` | `compile_goto`, `compile_nop`, with their actions |

`Continue` is the end of every action: either an assert has failed on the way and
the compiler stops, or the instruction is done. `Spec` leaves out `CompareOnStack`,
the one branch that breaks `Agree`; `SpecAll` has it.

**What `Implements` says.** `Source` executes the same instructions on a store, one value per
identifier. The refinement mapping gives `instr` and `out` by themselves and the store by what
reading each identifier would find. `Source!Next` has one successor for a given instruction, so
a step of `RegAlloc` with `instr' = <<"LT", a, b>>` must have the `out'` that comparing the values
of a and b gives, and one with `<<"ARITH", x, a, b>>` must leave for x the result of these two operands
and for everybody else what there was. By induction over the instructions all that is printed and
all jumps are determined by the instructions before them: a jump that is not mirrored or an
operand read in the wrong place is a step that `Source` does not have.

Actions on instructions: `LoopSets` gives the identifiers of each loop of the
program. A `FORCE_ID_STACK` action is performed with a comparison or a jump, the
only kinds of instruction that keep their actions through the optimizer, a
`RELEASE_ID_STACK` action with a NOP.

Abstractions: the order of `variables_held` (only counts matter to the code);
machine words are a small set and ADD, SUB and MULT one operator `Arith`, chosen
neither commutative nor idempotent so that swapped or lost operands show; labels
and text are left out.

### IRGen: the parser

| variable | code |
|---|---|
| `code` | `instr_list`; an instruction has `op`, `arg` (for `arg1` and `arg2`), `result`, `target` (0 while `goto_addr` is NULL), `forced`, `released` (its actions) |
| `parse` | the part of the parser's stack below the construct being reduced: the lists of finished conditions and left operands, the markers |
| `val` | the value (`true_list`, `false_list`, level of the grammar) of the construct just reduced, and the source it stands for |
| `terms` | the arithmetic operands reduced and not used yet: temporaries |
| `next` | whether a statement or an operand comes next, or one has just been reduced |

One action per reduction or marker: `FinishAnd` is the action of
`logical_and_expression`, `BeginAnd` its `goto_place_holder`, `EndIf`, `EndIfElse`,
`EndWhile` the actions of the statements, `AssignBool` is `gen_bool_instrs`. The
guards are the grammar: `BeginAnd` needs an operand of its level, a branch of `if`
is a compound statement. `Features` selects the constructs of the programs
considered; the reachable states of an instance are all prefixes of the parses of
all programs up to its bounds.

An arithmetic operation is a step of its own (`Operate`): its instruction comes
before that of the assignment or comparison that uses it, and its temporary waits in
`terms` meanwhile.

Left out: labels (`back_patch` gives one to the instruction it looks up, even when its
list is empty), types.

Indices are counted from 1, so `Here(code)` is `num_instrs`. The NULL result of
`get_instr` matters in one place, `EndIf`: there the model aborts as the assert in
`back_patch` does.

Two constructs need care. An identifier as a statement (`x;`, `Mention`) has no code; an
`if` whose branch is only that makes `back_patch` fail its assert, and the model goes to
`aborted`. An `==` (`BeginEquality`, `FinishEquality`) drops the lists of its operands, so their
jumps never get a target: `PatchedOnce` holds of such programs too, `ListedOnce` and
`RunsAsWritten` leave them out (`NoEquality`).

`IRMeaning` says what a program means, twice: `SourceTraces` over the source (work
lists, so that `&&`, `||` and loops read as definitions of short-circuit evaluation),
`CodeTraces` over the instructions. A trace is a sequence of prints, assignments,
comparisons with a free outcome, and returns to a loop's condition.

### Dag and Optimizer: one basic block

`Dag` has a record with the nodes in the order of their creation, `recent`
(`most_recents`), `table` (`dag_table`) and `roots` (`root_nodes`). `Assign` and `Binary` are
`dag_assign` and `dag_binary`, `CompileDag` is `traverse_dag` from every root that still has
identifiers. A hash is the text of operation and operands without anything between
(`Text` gives the characters of a name), so collisions happen as they do in the code.

`Optimizer` feeds it the blocks that the parser can produce: an operation stores
into a fresh temporary, and every temporary is read once. `store` has what each
identifier should contain, as a term over the values on entry; `sound` and `Ordered`
name the two things that the code does not establish:

- `sound`: a node found in `dag_table` has the value wanted. It may not, when texts
  collide (`1-11` and `11-1`; `a-aaa` and `aa-aa`), when one child is still the most
  recent and the other is not (`y=1; z=x-y; x=y; w=x-y`), or when a later read uses
  the node an identifier had before.
- `Ordered`: no instruction of the new block reads the initial value of an identifier
  after another has changed it.

### Codegen and Compiler: the whole program

`desc[i]` are the descriptors when the code of instruction i is generated; `pc`, `reg`,
`mem` and `printed` belong to the machine; `store` is the program executed directly on
variables. The stores of `FORCE_ID_STACK` come before the label of their instruction,
so a jump to it does not execute them: `Actions` belongs to the step that falls through.

`Compiler` runs the phases in order: `Parse` (any step of `IRGen`, after declarations of x
and y), `Optimize` (all blocks at once: `Leaders`, `Optimized`, `Combined`, `Relabelled`), `Generate` and
`Execute`. `expected` is what the source program prints, computed from the source
alone. Two ghost variables record where the compiler relies on luck:

- `same`: every new block has the effect of the old one, and the optimizer made no
  temporary of its own (one has no slot). `Optimizer` says when this fails.
- `trusted`: the descriptors were right wherever nothing makes them so. Two operators say
  where that is. `Unchecked`: where a jump arrives, where identifiers are released, and
  behind a comparison of two identifiers on the stack (which puts a register on a
  descriptor once more); there every identifier that is read later must have its value
  in every place the descriptors give (`HonestIn`), and these registers must list it, once
  (`ListedIn`). `Overtaken`: the slot of a forced identifier has a newer value than its
  register, and the instruction dumps that register into the slot, or uses the register
  for an operation whose result is the identifier.

`Prints`, `Honest`, `Halts` and `Obeys` are conditioned on these two, and nothing else.
`Overtaken` is there because TLC found `while (x<y) x=y;`: comparing two identifiers on the
stack loads x again and dumps the register it had before the loop over the slot that
the body has just stored to, in every turn; the compiled loop never ends.

`Honest` is a statement about places, `Obeys` (an action property) about what the code
does: it takes a conditional jump exactly when the program does, and prints the value
that the program prints. `live` is any solution of the equations for what is read later, and
`Programs` any set of programs that are `WellFormed`: instructions have the operands that
`basic_compile` reads without a test, and labels stand on instructions. `Accepts` says that
what the parser and the optimizer hand over is such a program.

### Frame: slots and the call of printf

Memory is bytes, `mem[a] = << w, k >>` is byte k of a word w, `WordAt` reads four bytes that
belong together. `order` is any order of the symbol table, `type` any types. One step
`LayOut` is one turn of the loop in `init_stack_variables`, `Reserve` the subtraction that follows
it; the program runs after that. `Save`,
`PushArgument`, `PushFormat`, `Call`, `Drop`, `Unwind`, `Restore` are one instruction of the
assembly program each. `cur` (`CUR_STACK_OFFSET`) changes with them, as the code of the
call has no label and is generated in that order. `slot` and `kept` remember what the
program stored last.

The slot of the last identifier lies above the room reserved (its offset includes its
own size): `NothingAbove` shows that this costs one word above the frame and no more.
A char takes one byte of the room and its store writes four, which overwrites the
neighbouring slot: `SlotsKept` leaves out the identifiers that share bytes with a
char (`Alone`) and shows that nobody else is touched.

## 3. Runs

| run | instance | result |
|---|---|---|
| `straight` | 3 identifiers, 2 registers, no loops | `TypeOK`, `ListedExactly`, `Agree`, `AlwaysLegible`, `NoAbort` hold and `RegAlloc` implements `Source` |
| `loops` | 2 identifiers, 2 registers, a loop that forces x, up to two listings | `Linked`, `Agree`, `AlwaysLegible`, `StaleByConstantsOnly` hold and `RegAlloc` implements `Source` |
| `statements` | all programs of up to 9 instructions of nested blocks, `if`, `else`, `while`, assignments, sums; 2 identifiers | `ListedOnce`, `InnermostForced`, `RunsAsWritten` hold |
| `conditions` | all conditions of up to 7 instructions, `==` among them, in `if`, `while`, boolean assignment | `TypeOK`, `ListedOnce`, `PatchedOnce`, `RunsAsWritten` hold |
| `blocks` | all blocks of up to 4 instructions over 3 names that collide when hashed | `TypeOK`, `OneHome`, `DagFaithful`, `SameEffectWhenOrdered` hold |
| `frame` | 3 identifiers of 3 sizes in every order, 4 registers | `TypeOK`, `SlotsKept`, `PrintRestores`, `NothingAbove`, `RightArguments` hold |
| `codegen` | straight code that a comparison may skip, and loops with code behind them, of 5 and 7 instructions; 2 identifiers, 2 registers, every content of registers and slots, every solution for `live` | `TypeOK`, `Honest`, `Obeys` hold |
| `compiler` | all programs of up to 9 instructions of blocks, `if`, `else`, `while`, assignments, sums, comparisons; 2 variables, 2 registers, 3-bit words | `Prints`, `Accepts`, `Honest`, `Halts` hold |
| `compare_on_stack` | `SpecAll` | **violated**: `Agree` |
| `nested_loops` | loops in loops | **violated**: `AllForced` |
| `join` | as `compiler` | **violated**: `AlwaysHonest` |
| `reorder` | as `blocks`, up to 3 instructions | **violated**: `SameEffect` |

**Bounds and why they suffice.** Two registers and three identifiers are the
smallest instance in which registers run out while two values share one register:
all branches of `get_reg_for_arg`, of the dump (stored, or kept elsewhere) and of
`ensure_register` (loaded from a register, from the slot, left as it is) occur. `loops` has
two identifiers, one forced and one not, which is enough for a stale listing to meet a
dump; the theorems cover any number. Two machine words are enough for "the same
value" to fail. `MaxListed` bounds how often an identifier is listed in one register,
which grows only by assigning an identifier to a forced one that has a stale listing there; two listings
make the duplicates. The bound is a guard: it stops the program from going on, it changes no step. Nine instructions are enough for an if-else in a while,
a while in either branch, a boolean assignment in a block in a branch; seven for
`a && b || c` in an `if` with a body; six events for a trace to pass through every jump
and return to a loop's condition. A block of four instructions has room for a value
that is computed, overwritten and computed again, for a node with two parents and for
roots that change places. Three identifiers are the fewest with one that has a
neighbour on both sides. The programs of `codegen` reach every branch of `After` and every
reason for which `trusted` is given up; loops force none, one or both of two identifiers that they
read. In `compiler` the nine instructions include the two
declarations, so a loop with up to three statements and sums in it or a statement
after it, an `if` with statements before and after it, and an if-else fit;
words have three bits and sums wrap; `Fuel` (30 steps of the
source) and `MaxPrints` (three prints) bound how far a program is compared: of one that
is not done by then the beginning is, and `Halts` leaves it out.

`straight` and `frame` are symmetric in their identifiers. The parse stops when the program
is complete, the compiler when it has aborted and the machine when it has halted,
hence `CHECK_DEADLOCK FALSE` in the runs where that happens; `straight` checks deadlock too,
as a straight-line program can always go on. `frame` checks it as well.

**Fairness.** The compiler itself is a sequence of loops over finite lists and nothing is
assumed about it: `CompilerSpec` lets the parse stop anywhere. The one assumption is
`WF_<<pc, phase>>(Advance)`: a processor that executes a program goes on to another
instruction. `Advance` is what `Execute` does to `pc` and `phase`, stated without the rest of the
step, so that TLC can evaluate whether it is enabled. With it, `Halts` says that a
source program that ends is compiled into a program that ends.

**The four violations** are disagreements between the code and its own comments,
asserts or tests:

- `compare_on_stack` (`converter.c:677`): the register of the first operand is put on
  its descriptor by `ensure_register` and once more by `compile_cond`. The dump then
  believes there is another copy; after two more assignments the descriptor names a
  register with another identifier's value.
- `nested_loops` (`C.y:129`): the NOP after the inner loop releases identifiers that
  the rest of the outer loop needs forced. `tests/double_loops.test` has this shape.
- `join` (`converter.c:870`): `while (x < x + 1) print(x)` begins with arithmetic, whose
  actions the optimizer drops (`optimization.c:407` and the binary case after it build the
  instructions anew). x stays in a register, x + 1 takes that register, and after the
  jump back the program finds x + 1 where the descriptors have x.
- `reorder` (`optimization.c:473`): in `a = a; c = b; b = a` the node made for the first
  assignment comes to hold b too and is emitted first, so c gets the new b. The same
  order turns the swap `t = x; x = y; y = t` into something else.

Met on the way, without a run of their own: `x = c` for a forced x frees the descriptor of
x and leaves x listed in its register (`converter.c:543`); when that register is needed, the dump
asserts that the descriptor is not NULL ("Shouldn't be NULL... it's already here!",
`converter.c:227`) and the compiler aborts. `loops` has states in which that has happened: `NoAbort`
holds without loops only. `StaleByConstantsOnly` says that this is the whole of it: in programs
with loops no other instruction leaves a listing stale, and no assert fails while none is
(comparisons of two identifiers on the stack excepted, as in all of `Spec`). An `if` whose branch has no code aborts in
`back_patch` (`C.y:74`); `==` leaves jumps without a target (`C.y:214`), which the optimizer and
`compile_goto` then dereference or skip.

## 4. Proofs

Each module of proofs has one inductive invariant, and every theorem about a property
that a run checks follows from it: the run shows the property on a small instance, the
theorem for every value of the constants. All of them are safety properties.

| module | theorem | statement |
|---|---|---|
| `RegAlloc_proofs` | `Invariance` | `Spec => []IInv` |
| | `TypeCorrect`, `DescriptorsLinked`, `PlacesAgree`, `OperandsLegible` | `Spec => []TypeOK`, `[]Linked`, `[]Agree`, `[]AlwaysLegible` |
| | `BackendImplementsSource` | `Spec => Implements` |
| `RegAllocListings_proofs` | `ListingsInvariance` | `Spec => []ListingsInv` |
| | `StaleByConstants` | `Spec => StaleByConstantsOnly`, an action property, loops or not |
| | `StraightInvariance` | `LoopSets = {}` and `Spec` give `[]StraightInv` |
| | `NothingAborts`, `DescriptorsExact` | the same for `[]NoAbort`, `[]ListedExactly` |
| `Codegen_proofs` | `Invariance` | `Spec => []IInv` |
| | `TypeCorrect`, `DescriptorsHonest` | `Spec => []TypeOK`, `[]Honest` |
| | `CodeObeys` | `Spec => Obeys`, an action property |
| `IRGen_proofs` | `Invariance` | `Spec => []IInv` |
| | `TypeCorrect`, `JumpsListedOnce`, `InnermostLoopsForced` | `Spec => []TypeOK`, `[]ListedOnce`, `[]InnermostForced` |
| | `JumpsPatchedOnce` | `Spec => PatchedOnce`, an action property |
| | `AcceptedIsComplete` | an accepted program without `==` has no jump without a target |
| `Optimizer_proofs` | `OrdinaryInvariance`, `MeaningInvariance` | `Spec => []Ordinary`, `Spec => [](Ordinary /\ Meaning)` |
| | `TypeCorrect`, `OneHomeEach`, `GraphMeansBlock` | `Spec => []TypeOK`, `[]OneHome`, `[]DagFaithful` |
| `Frame_proofs` | `Invariance` | `Spec => []IInv` |
| | `TypeCorrect`, `SlotsAreKept`, `CallerUntouched`, `PrintIsTransparent`, `ArgumentsAreRight` | `Spec => []TypeOK`, `[]SlotsKept`, `[]NothingAbove`, `[]PrintRestores`, `[]RightArguments` |

**Assumptions.** They are those of the modules, and TLC evaluates them on every instance.

- `AllocatorAssumption`, `RegAllocAssumption`: the typing of the constants; `Arith` maps words
  to words, identifiers are no words. All theorems about `RegAlloc` are about `Spec`: they
  exclude programs that compare two identifiers that are both on the stack at that moment,
  loops or not. That comparison puts a register on a descriptor twice, which is against `Linked`
  and `ListedExactly` at once and against `Agree` two assignments later.
- `CodegenAssumption`: the programs are `WellFormed`; `None` and `Unset` are no words and no
  identifiers. That the compiler only hands over such programs is what `Accepts` checks. The
  theorems about `Codegen` have the comparison of two identifiers on the stack.
- `IRGenAssumption`: the temporaries are a sequence and no identifiers; expressions have
  operators that the grammar has.
- `DagAssumption`, `OptimizerAssumption`: the temporaries are pairwise distinct and no variables
  (`get_temp_symbol` counts them), there are enough for the block and its own ones, no operation
  is called like the two kinds of node that are not operations. `Text` may be anything: the
  theorems hold however operations collide in `dag_table`.
- `FrameAssumption`: finitely many identifiers, at least the four registers that are saved, and a
  mark for what was never written that is no word.

### RegAlloc

**The invariant.** `Agree` is not inductive. A dump drops a register from a descriptor
when the descriptor has another entry; to know that the other entry is a copy, every
register on a descriptor must list the identifier and occur once (`Linked`). Loading a
forced identifier takes its slot although registers hold it; that is right only if
a forced identifier with a register is always current on the stack too (`ForcedOn`).
`IInv` is the conjunction: types, `Linked`, `Agree`, `ForcedOn` (together `Good`), and
`AlwaysLegible`. It says nothing about abort: a register may list an identifier that
does not name it (a constant assigned to a forced identifier leaves it so), and the proofs show that
until the assert fails such a listing does no harm.

**The argument.** Lemmas come in three layers. (1) On sequences: what removing one
register from a descriptor leaves (`RemoveFirstPresent`, `RemoveFirstDistinct`). (2) On the
helpers of the backend, what each keeps: `Keeps` says that every identifier but those
named can be read as before and has the same value, `DumpKeeps`, `EnsureKeeps`, `SettleKeeps`,
`LoadFirstKeeps` prove it of each helper. (3) On instructions: `Assigns` says that an
instruction changes one value to the one `Source` gives it and no other,
`Preserves` that it changes none. Each action then maps to a step of `Source`
(`AssignConstRefines` ... `CompareConstsRefines`), and `NextRefines` puts them together.
The refinement mapping reads each assigned identifier where the compiler would read
it next.

**Listings.** `RegAllocListings_proofs` follows one identifier at a time: `ExactAt` says that the
registers on its descriptor list it once and no others do. That is not inductive by itself:
`remove_id_from_regs` takes out one listing per register of the descriptor, which is enough only
because an identifier is in one register at most between two instructions (`Alone`, in `Neat`;
within `compile_binary` an operand may be in two). `Neat` holds with any loops. Each kind of
instruction keeps what was exact (`Tidies`), except `AssignForcedConst` for the identifier it
assigns, and the dump's assert holds where everything is exact, since then every register that lists
an identifier is on its descriptor. `StaleByConstants` says both. Without loops nothing is ever
forced (`Tidies` follows the flag too), hence nothing stale: `StraightInv`.

### Codegen

**The invariant.** `IInv` has two halves. One is about the compiler alone: `Generated` says that
`desc[i + 1]` is `desc[i]` after the code of instruction i and the actions of the next. The other,
under `trusted`, is about the machine: at `pc`, every identifier in `live[pc]` is `Right`, which is
`Honest` for one identifier plus what it takes to be inductive, `ListedAt`: each register on its
descriptor lists it, and is on it once. Without that a dump would not find the descriptor, or would
take a second entry for a second copy. `live` must solve its equations (`Closed`): what the next
instruction needs right is then right now or written by this one.

`RegAlloc` has `Agree`, `Linked` and `ForcedOn` for all identifiers, always. Here none of
that holds: after a join descriptors may be wrong about identifiers that are dead, and forced
identifiers may have old registers. So the lemmas are about one identifier at a time
(`DumpRight`, `EnsureOthers`, `SettleRight`, `BinaryRight`, ...: x is right afterwards if it was right
before), and about an identifier that is forced they need to know that dumping its register does
not change its slot (`InSync`).

**The argument.** (1) *Right*: those lemmas, for each helper and each kind of instruction. (2)
*Syncs*: an instruction that leaves the slot of a forced identifier as it was dumped no register
that the slot had overtaken (`DumpSyncs` ... `OnStackSyncs`); so `~Overtaken`, which compares
the slot before and after, gives the `InSync` that (1) needs. (3) *Alike*: what an instruction does to the
descriptors depends on the descriptors only. The compiler generates code for a machine it
does not see, `desc[i]`, and the code runs on another, `Machine(i)`; with `PickRegAlike`,
`DumpAlike`, ..., `AfterAlike` both have the same descriptors afterwards, so falling through to the next
instruction arrives exactly where `Generated` says. (4) `AfterRight` combines (1) and (2) for an
instruction, `ContinueRight` adds where the machine goes on: either `Unchecked` holds and `trusted'`
says that it is right there, or the machine falls through, nothing is released, and it is
right by `AfterRight` and, for the stores of `FORCE_ID_STACK`, `ForceRight`. `Obeys` follows as the operands
of the instruction at `pc` are live there, hence right.

**What the proof changed.** In its first form `trusted` looked at jumps, releases and dumps of
overtaken registers only, and TLC found `Honest` to hold on the programs of `compiler`. The proof
did not go through, for two reasons that are real: a comparison of two identifiers on the
stack doubles a register on the descriptor of an identifier that is not forced, and the next dump
takes the last copy (the flaw of `compare_on_stack`, in a program with jumps); and `x = x + 1` with x forced
reads the register when the slot has overtaken it. Both need more instructions than `compiler` has.
The definition now names both.

### IRGen

**The invariant.** `StateOK` relates the instructions, the stack of open constructs and the
construct reduced last. Every list names jumps without a target and no two lists share one,
the jump that skips an `else` counted; while there is no `==`, every jump without a target is on a
list (`Ledger`). Conditions nest as the grammar says (`Nested`), and the instructions at which
the parts of an open construct begin exist (`FrameOK`, `Written`): without this `back_patch` could be
given an index past the end. What the code between a jump back and its target reads is
forced at the target, and identifiers are released only right after a jump back
(`LoopsOK`), so nothing is released inside a loop that has no loop inside.

**The argument.** One lemma per operation on instructions (a new one, a back-patched list,
the actions of a loop) says which parts of the state it leaves alone; one lemma per reduction
of the grammar uses them. `PatchedOnce` follows since `back_patch` only gets lists, and lists have
jumps without a target. With `==` lists are dropped, which `Ledger` allows for: the
theorem about patching covers such programs too.

### Optimizer

**The invariant.** `Ordinary` is about the graph alone: a node comes after its children
(`Placed`), `dag_table` has operations (`Entries`), an identifier is on one interior node at
most, on the node of its latest value, and a variable nowhere but there (`Homes`), and a temporary
not made yet is nowhere (`Known`). The last is what makes `dag_binary` right although it does not
update `most_recents` when it finds a node: the identifier it adds is always a new
temporary, so it leaves no older node behind. `Meaning` relates the graph to the block: there is
a value for every node that agrees with the identifiers on it (`Faithful`), every temporary has
a node (`Computed`), and a node with an identifier is a root or an operand of an operation,
while an operation never loses the temporary it was made for (`Bound`). The last two
justify `dag_binary`'s removal of operands from the roots: a node is reached through the
operation above it only if that operation is compiled, hence if it keeps an identifier.

**The argument.** `Assign` has two outcomes and `Binary` three (`AssignStep`, `BinaryStep`). All but
the aborted one come down to two changes of a graph: a new node (`Appended`) and an identifier
that joins a node (`Joined`), each under the condition that the identifier is on no other
interior node than those it leaves. One lemma per change and part of the invariant
(`AppendedGraph`, `AppendedFaith`, `AppendedBound`, and the same for `Joined`). `NodeTerm` and
`Reached` are recursive functions: that they satisfy their equations is proved by giving a
solution (the value of the invariant; the least set closed under being above), that the equation
determines them by a least and a greatest counterexample.

### Frame

**The invariant.** How far the layout has come and that each offset exceeds those before it by
the size of the identifier (`Ascending`), from which slots are disjoint; where the stack pointer
and `CUR_STACK_OFFSET` are before each instruction of the call (`Pointer`); which registers
have a copy on the stack, and that every other register is as it was before the print
(`SavedKept`, `Registers`); that nothing is stored before there is room for it (`Untouched`); what
was pushed as the argument (`Pushed`). `SlotsKept` and `NothingAbove` are parts of it.

**The argument.** Two lemmas on a store of four bytes: it is read back, and a word that shares
no byte with it stays. The rest is arithmetic on where the slots, the saved registers and the
arguments are, one lemma per step of the call. A char breaks the disjointness, which is
why `SlotsKept` is about the identifiers that share no byte with one.

### Only model-checked

- `RunsAsWritten`, `Prints`: `IRMeaning` and `Compiler` recurse over programs with RECURSIVE
  operators, which the prover cannot take.
- `Halts`: liveness.
- `SameEffectWhenOrdered`: `Traverse` is a recursive function over the graph and the new
  block a fold over it; what it computes for every graph needs an induction over data.
  `DagFaithful`, the half of it about the graph that `Traverse` is given, is proved.
- `Accepts`, and with it the `Honest` of `Compiler`: `Compiler` reaches RECURSIVE operators too.
  `DescriptorsHonest` proves `Honest` for every program that satisfies `Accepts`.

## 5. Not modelled, and why

- The scanner (regular expressions), the assembly text, the assembler: no state, or I/O.
- `get_regs`, `basic_handle_arg`, `stack_compile` and what they call in `converter.c`:
  nothing calls them. `add_successors` in the optimizer: nobody reads the successors.
- Deferred freeing (`gc.c`) and the order of frees in the parser: the list is freed after
  the output is written, and no property of the compiled program depends on it. The
  double free of the operands of `&&` is listed as a hazard.
- What `==` means: the code of an operand that is itself a condition has no value. The
  model keeps its jumps and lists.
- Conditions used as statements and comparisons of comparisons; like `==` they drop
  lists of jumps.
- Errors in the source (undeclared or twice declared identifiers, wrong types): the
  parse fails and nothing is compiled. `IRGen` generates programs that are accepted.
- A program for which the optimizer makes a temporary: it has no slot and its
  descriptor is what malloc returned. `same` leaves it out.
- A variable with the name of a temporary (`t0`), which the symbol table would replace.
- The width of machine words: the backend copies words and the assembler's
  arithmetic wraps; `Arith` is any function on words (in `Compiler` a sum that wraps).
- Constants of type char, double and long: `hash_arg` asserts on them, and
  `print_variable` on identifiers other than int and bool. `Frame` has their slots.

## 6. Plan

What is left is proof:

1. **Optimizer**: parts of `SameEffectWhenOrdered` that need no induction over the graph, such as
   that the new block writes only identifiers that are on nodes.
2. **IRGen**: that what is accepted is `WellFormed`; `AcceptedIsComplete` is its half about
   targets.

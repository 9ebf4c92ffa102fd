------------------------------ MODULE Compiler ------------------------------
(***************************************************************************)
(* main: yyparse, optimize, compile - and the compiled program running.    *)
(*                                                                         *)
(* IRGen parses a program and generates its intermediate code; its basic   *)
(* blocks go through the graph of Dag one by one; Codegen generates code   *)
(* for the blocks put together again and executes it.  What the source     *)
(* program prints is computed from the source alone, and is what the       *)
(* machine has to print.                                                   *)
(***************************************************************************)
EXTENDS IRGen, Integers

CONSTANTS
    Text(_),      \* see Dag
    Unset,
    NumRegs,      \* see Allocator
    Vals,
    Arith(_, _),
    Junk,         \* what registers and slots may contain at the beginning
    Declared,     \* the declarations the program begins with
    MaxPrints,    \* bound: only the first so many prints are compared
    Fuel          \* bound on the steps of the source program

ASSUME CompilerAssumption ==
    /\ Vals \cap (AllIds \cup {None, Unset}) = {}
    /\ Unset \notin AllIds \cup {None}
    /\ Junk \subseteq Vals
    /\ Sources \subseteq Ids \cup Vals
    /\ Declared \in Seq(Ids \X Vals)
    /\ MaxPrints \in Nat
    /\ Fuel \in Nat

VARIABLES
    program, live, desc, pc, reg, mem, printed, store, trusted, phase,
                  \* see Codegen
    expected,     \* what the source program prints, and whether it ends
    same          \* every optimized block does what the block did

backend  == << program, live, desc, pc, reg, mem, printed, store, trusted, phase >>
compiler == << vars, backend, expected, same >>

Graph == INSTANCE Dag WITH Ids <- AllIds

Back == INSTANCE Codegen WITH
    Ids <- AllIds, NoId <- None, Programs <- {}

-----------------------------------------------------------------------------
(***************************************************************************)
(* The source program: what is left to do, and the value of each variable. *)
(***************************************************************************)
RECURSIVE ValueOf(_, _)
ValueOf(e, s) ==
    IF e[1] # "is" THEN Arith(ValueOf(e[2], s), ValueOf(e[3], s))
    ELSE IF e[2] \in Ids THEN s[e[2]]
    ELSE e[2]

RECURSIVE True2(_, _)
True2(c, s) ==
    CASE c[1] = "and" -> True2(c[2], s) /\ True2(c[3], s)
      [] c[1] = "or"  -> True2(c[2], s) \/ True2(c[3], s)
      [] OTHER        -> Back!Holds(c[2], ValueOf(c[3], s), ValueOf(c[4], s))

RECURSIVE Run(_, _, _, _)
Run(work, s, log, fuel) ==
    IF work = << >> THEN [log |-> log, done |-> TRUE]
    ELSE IF fuel = 0 THEN [log |-> log, done |-> FALSE]
    ELSE LET w    == Head(work)
             rest == Tail(work)
             go(todo) == Run(todo \o rest, s, log, fuel - 1)
         IN  CASE w[1] = "print" ->
                    Run(rest, s,
                        IF Len(log) < MaxPrints THEN Append(log, ValueOf(w[2], s))
                                                ELSE log,
                        fuel - 1)
               [] w[1] = "set" ->
                    Run(rest, [s EXCEPT ![w[2]] = ValueOf(w[3], s)], log, fuel - 1)
               [] w[1] = "seq"    -> go(w[2])
               [] w[1] = "if"     -> go(IF True2(w[2], s) THEN << w[3] >> ELSE << >>)
               [] w[1] = "ifelse" -> go(<< IF True2(w[2], s) THEN w[3] ELSE w[4] >>)
               [] w[1] = "while"  -> go(IF True2(w[2], s) THEN << w[3], w >> ELSE << >>)

-----------------------------------------------------------------------------
(***************************************************************************)
(* optimize: make_blocks, generate_dag and compile_dag for each block,     *)
(* combine_blocks.                                                         *)
(***************************************************************************)
Targets == {code[i].target : i \in DOMAIN code} \ {0}
Inner   == ArithOps \cup {"ASSIGN"}

\* make_blocks: the instructions that begin a block.  Every instruction that
\* has a label is the target of a jump, as long as no list that is patched is
\* empty: true without TRUE and FALSE.
Leaders == {i \in DOMAIN code : i = 1 \/ i \in Targets \/ code[i - 1].op \notin Inner}

\* The last instruction of the block that begins at i.
LastOf(i) ==
    CHOOSE j \in i .. Len(code) :
        /\ j = Len(code) \/ j + 1 \in Leaders
        /\ Leaders \cap (i + 1 .. j) = {}

\* generate_dag.
Extend(d, instr) ==
    CASE instr.op = "ASSIGN"   -> Graph!Assign(d, instr.result, instr.arg)
      [] instr.op \in ArithOps -> Graph!Binary(d, instr.op, instr.result,
                                               instr.arg, instr.arg2)
      [] OTHER                 -> d

\* compile_dag: an instruction that it builds has no actions, and only the
\* exit instruction is kept as it was.
Rebuilt(e) == Instr(e.op, e.arg, e.arg2, e.result)

Optimized(i, used) ==
    LET block == SubSeq(code, i, LastOf(i))
        new   == Graph!CompileDag(FoldLeft(Extend, Graph!EmptyDag, block), used)
        exit  == IF Last(block).op \in Inner THEN << >> ELSE << Last(block) >>
    IN  [code |-> [k \in DOMAIN new.code |-> Rebuilt(new.code[k])] \o exit,
         used |-> new.used]

\* combine_blocks; first[i] is where the block that began at i begins now.
Combined ==
    FoldLeft(LAMBDA acc, i :
                LET new == Optimized(i, acc.used)
                IN  [code  |-> acc.code \o new.code,
                     used  |-> new.used,
                     first |-> [acc.first EXCEPT ![i] = Len(acc.code) + 1]],
             [code |-> << >>, used |-> Made, first |-> [i \in Leaders |-> 0]],
             SelectSeq([i \in DOMAIN code |-> i], LAMBDA i : i \in Leaders))

\* A faulty variant: a label is put after the first instruction of its block.
RelabelledTooLate(c) ==
    [k \in DOMAIN c.code |->
        IF c.code[k].target = 0 THEN c.code[k]
        ELSE [c.code[k] EXCEPT !.target = c.first[@] + 1]]

\* A jump leads to a label, and the first instruction of a new block has the
\* label of the old one.
Relabelled(c) ==
    [k \in DOMAIN c.code |->
        IF c.code[k].target = 0 THEN c.code[k]
        ELSE [c.code[k] EXCEPT !.target = c.first[@]]]

\* What a sequence of instructions leaves in each identifier, as a term.
Effect(instrs) ==
    FoldLeft(LAMBDA s, i :
                LET term(arg) == IF arg \in AllIds THEN s[arg] ELSE << "is", arg >>
                IN  CASE i.op = "ASSIGN"   -> [s EXCEPT ![i.result] = term(i.arg)]
                      [] i.op \in ArithOps -> [s EXCEPT ![i.result] =
                                                << i.op, term(i.arg), term(i.arg2) >>]
                      [] OTHER             -> s,
             [id \in AllIds |-> << "is", id >>], instrs)

\* The new blocks have the effect of the old ones on the variables and on
\* what the exit reads, no operand was unknown (the assert in arg_is_valid),
\* and the symbol table has all temporaries: one of the optimizer would have
\* no slot.
KeepsEffects(c) ==
    /\ c.used = Made
    /\ \A i \in Leaders :
          LET block == SubSeq(code, i, LastOf(i))
              seen  == Ids \cup ({Last(block).arg, Last(block).arg2} \cap AllIds)
          IN  /\ ~FoldLeft(Extend, Graph!EmptyDag, block).aborted
              /\ \A id \in seen :
                    Effect(block)[id] = Effect(Optimized(i, Made).code)[id]

-----------------------------------------------------------------------------
(***************************************************************************)
(* The compiler and the machine.                                           *)
(***************************************************************************)
InitState(junk) ==
    [held    |-> [r \in Back!Regs |-> [id \in AllIds |-> 0]],
     addr    |-> [id \in AllIds |-> << >>],
     onStack |-> [id \in AllIds |-> FALSE],
     force   |-> [id \in AllIds |-> FALSE],
     reg     |-> [r \in Back!Regs |-> junk],
     mem     |-> [id \in AllIds |-> junk],
     aborted |-> FALSE]

\* The parser has read the declarations that open the program's block.
CompilerInit ==
    /\ code = [k \in DOMAIN Declared |-> Set(Declared[k][1], Declared[k][2])]
    /\ parse = << [Bare("block", 0, None) EXCEPT !.src =
                     [k \in DOMAIN Declared |->
                        << "set", Declared[k][1], << "is", Declared[k][2] >> >>]] >>
    /\ val = NoValue(<< >>)
    /\ terms = << >>
    /\ next = "statement"
    /\ \E junk \in Junk : Back!Load(<< >>, << >>, InitState(junk))
    /\ expected = [log |-> << >>, done |-> FALSE]
    /\ same = TRUE

Parsing == next # "accepted"

Parse ==
    /\ Next
    /\ UNCHANGED << backend, expected, same >>

Optimize ==
    LET c == Combined
    IN  /\ ~Parsing
        /\ program = << >>
        /\ program' = Relabelled(c)
        /\ live' = Back!LeastLive'
        /\ same' = KeepsEffects(c)
        /\ expected' = Run(<< val.src >>, [id \in Ids |-> Unset], << >>, Fuel)
        /\ desc' = << Back!ActionsOf(program'[1], desc[1]) >>
        /\ UNCHANGED << vars, pc, reg, mem, printed, store, trusted, phase >>

Generate ==
    /\ program # << >>
    /\ Back!Compile \/ Back!Start
    /\ UNCHANGED << vars, expected, same >>

Execute ==
    /\ Back!Execute \/ Back!Halt
    /\ UNCHANGED << vars, expected, same >>

CompilerNext == Parse \/ Optimize \/ Generate \/ Execute

\* The machine goes on to another instruction or halts.  That is what Execute
\* does and nothing else, and while the program runs Execute can always do it.
Advance ==
    /\ phase = "run"
    /\ pc' \in 1 .. Back!End
    /\ phase' \in {"run", "halted"}

\* A processor that executes a program goes on.  Nothing says that a program
\* is ever completed or compiled.
CompilerSpec ==
    /\ CompilerInit
    /\ [][CompilerNext]_compiler
    /\ WF_<< pc, phase >>(Advance)

-----------------------------------------------------------------------------
(***************************************************************************)
(* Properties.                                                             *)
(***************************************************************************)
Correct == same /\ trusted

\* What the machine prints is what the source program prints, in that order
\* and to the end: through the jumps patched by the parser, the blocks taken
\* apart and put together by the optimizer, and the registers.  Of a program
\* that goes on for longer than Fuel, the beginning is compared.
Prints ==
    /\ Correct /\ phase = "run" =>
          \/ IsPrefix(printed, expected.log)
          \/ ~expected.done /\ IsPrefix(expected.log, printed)
    /\ Correct /\ phase = "halted" => expected.done /\ printed = expected.log

\* What the optimizer hands to compile is what compile reads: the operands that
\* each case of basic_compile takes without a test are there, every label stands
\* on an instruction or at the end, and what is read later is known to be live.
Accepts ==
    program # << >> /\ phase = "compile" =>
        Back!WellFormed(program) /\ Back!Closed(live)

\* Wherever the code looks for a variable that is still read, it finds its
\* value, except after an arrival that nothing checks.
Honest == Back!Honest

\* The same always: "Whether the most current version is here"
\* (symbol_table.h:36).
AlwaysHonest == same => Back!AlwaysHonest

\* A program that ends does so when it is compiled, unless the compiler stops
\* at an assert or an arrival was wrong.
Halts ==
    phase = "run" /\ expected.done /\ same ~>
        phase = "halted" \/ ~trusted
=============================================================================

-------------------------------- MODULE IRGen --------------------------------
(***************************************************************************)
(* The parser generating intermediate code: the semantic actions of C.y    *)
(* with the helpers of inter_code_gen.c that build and backpatch jumps.    *)
(*                                                                         *)
(* A jump is generated before its target is known.  An expression carries  *)
(* two lists of such jumps: those to take when it is true and those to     *)
(* take when it is false.  Every construct patches the lists of its parts  *)
(* or hands them on.                                                       *)
(*                                                                         *)
(* One step is one reduction of the grammar (or one mid-rule marker:       *)
(* goto_place_holder, end_if_jump) in the order in which the parser makes  *)
(* them, for any source program.  Instructions are counted from 1: the     *)
(* index num_instrs of the code, that of the next one, is Here(code).      *)
(***************************************************************************)
EXTENDS Naturals, Sequences, FiniteSets, SequencesExt

ArithOps == {"ADD", "SUB", "MULT"}
RelOps   == {"LT", "GT", "LEQ", "GEQ"}

CONSTANTS
    Ids,          \* the variables of the program
    BoolIds,      \* those of type bool
    Temps,        \* the temporaries in the order get_temp_symbol makes them
    None,         \* a NULL argument or result, an unused identifier
    Sources,      \* the variables and constants that the program assigns
    Expressions,  \* the operations on variables and constants it uses
    Features,     \* the constructs the programs considered are made of
    MaxInstrs,    \* bound on the instructions of a program
    MaxDepth,     \* bound on the nesting of statements and conditions
    MaxItems,     \* bound on the items of a block
    MaxTerms,     \* bound on the operands an expression keeps waiting
    MaxOps        \* bound on the operations of a program

ASSUME IRGenAssumption ==
    /\ None \notin Ids
    /\ BoolIds \subseteq Ids
    /\ Temps \in Seq(ToSet(Temps))
    /\ ToSet(Temps) \cap (Ids \cup {None}) = {}
    /\ \A e \in Expressions : e[1] \in ArithOps \cup RelOps
    /\ Features \subseteq {"print", "set", "block", "if", "else", "while",
                           "assign", "true", "false", "rel", "and", "or",
                           "sum", "mention", "eq"}
    /\ MaxInstrs \in Nat
    /\ MaxDepth \in Nat
    /\ MaxItems \in Nat
    /\ MaxTerms \in Nat
    /\ MaxOps \in 0 .. Len(Temps)

VARIABLES
    code,         \* instr_list
    parse,        \* the constructs being parsed, the innermost last
    val,          \* the value of the construct just reduced
    terms,        \* the arithmetic operands reduced and not used yet
    next          \* what the parser has in front of it

vars == << code, parse, val, terms, next >>

Ops == {"ASSIGN", "PRINT", "EQ", "GOTO", "NOP"} \cup ArithOps \cup RelOps

\* target is 0 while goto_addr is NULL; forced and released are the
\* identifiers of the FORCE_ID_STACK and the RELEASE_ID_STACK actions.
Instr(op, arg, arg2, result) ==
    [op |-> op, arg |-> arg, arg2 |-> arg2, result |-> result, target |-> 0,
     forced |-> {}, released |-> {}]

Goto == Instr("GOTO", None, None, None)
Nop  == Instr("NOP", None, None, None)
Set(id, arg) == Instr("ASSIGN", arg, None, id)

CondOps == RelOps \cup {"EQ"}
Jumps   == CondOps \cup {"GOTO"}

True  == 1
False == 0

\* A construct whose parts are being parsed.  t and f are the lists of its
\* condition or of its left operand; enter and mark are the values of its
\* markers; src is what has been parsed of it so far.
Frame(kind, t, f, enter, mark, id, src) ==
    [kind |-> kind, t |-> t, f |-> f, enter |-> enter, mark |-> mark,
     id |-> id, src |-> src]

\* An expression: its lists, and the level of the grammar it belongs to.
Value(level, t, f, src) == [level |-> level, t |-> t, f |-> f, src |-> src]
NoValue(src) == Value("none", {}, {}, src)

\* An arithmetic operand: where it is, and what it stands for.
Term(place, src) == [place |-> place, src |-> src]

Kinds  == {"block", "ifcond", "then", "else", "whilecond", "body",
           "assign", "and", "or", "eq"}
Levels == {"none", "equality", "and", "or"}
Phases == {"statement", "operand", "value", "reduced", "accepted", "aborted"}

Here(c) == Len(c) + 1

\* back_patch, which asserts that the instruction idx exists.
BackPatch(c, list, idx) ==
    [i \in DOMAIN c |-> IF i \in list THEN [c[i] EXCEPT !.target = idx]
                                      ELSE c[i]]

\* The identifiers of the actions that add_action_to_instr_range makes.
AllIds == Ids \cup ToSet(Temps)
Uses(c, s, e) == AllIds \cap UNION {{c[i].arg, c[i].arg2} : i \in s .. e - 1}

Init ==
    /\ code = << >>
    /\ parse = << >>
    /\ val = NoValue(<< >>)
    /\ terms = << >>
    /\ next = "statement"

-----------------------------------------------------------------------------
Within(c, p) == Len(c) =< MaxInstrs /\ Len(p) =< MaxDepth

\* A reduction; it has used the operands that were waiting.
Go(c, p, v, n) ==
    /\ Within(c, p)
    /\ code' = c
    /\ parse' = p
    /\ val' = v
    /\ terms' = << >>
    /\ next' = n

Top  == Last(parse)
Outer == Front(parse)
Inside(kinds) == parse # << >> /\ Top.kind \in kinds

Reduced(c, p, src) == Go(c, p, NoValue(src), "reduced")

\* A construct begins; what follows is a statement or an operand.
Begin(frame, n) == Go(code, Append(parse, frame), NoValue(<< >>), n)

Bare(kind, mark, id) == Frame(kind, {}, {}, 0, mark, id, << >>)

-----------------------------------------------------------------------------
(***************************************************************************)
(* Arithmetic: an operation stores into a new temporary, which stands for  *)
(* it in the operation, assignment or comparison that uses it.             *)
(***************************************************************************)
Made    == Cardinality({i \in DOMAIN code : code[i].op \in ArithOps})
NewTemp == Temps[Made + 1]

Plain(arg) == Term(arg, << "is", arg >>)

\* The operands of an operation op, and what waits on after it: an operand is
\* in the program text or it is the one that was reduced last.
Pairs(op) ==
    LET written == {e \in Expressions : e[1] = op}
        waiting == Len(terms)
    IN  {[a |-> Plain(e[2]), b |-> Plain(e[3]), rest |-> terms] : e \in written}
        \cup {[a |-> Last(terms), b |-> Plain(e[3]), rest |-> Front(terms)] :
                 e \in {e \in written : waiting > 0}}
        \cup {[a |-> Plain(e[2]), b |-> Last(terms), rest |-> Front(terms)] :
                 e \in {e \in written : waiting > 0}}
        \cup {[a |-> terms[waiting - 1], b |-> Last(terms),
               rest |-> SubSeq(terms, 1, waiting - 2)] :
                 e \in {e \in written : waiting > 1}}

\* additive_expression '+' multiplicative_expression and the like.
Operate(op, pair) ==
    /\ "sum" \in Features
    /\ next \in {"statement", "operand"}
    /\ Len(code) < MaxInstrs
    /\ Made < MaxOps
    /\ Len(pair.rest) < MaxTerms
    /\ code'  = Append(code, Instr(op, pair.a.place, pair.b.place, NewTemp))
    /\ terms' = Append(pair.rest, Term(NewTemp, << op, pair.a.src, pair.b.src >>))
    /\ UNCHANGED << parse, val, next >>

\* What an assignment statement assigns.
Assigned ==
    IF terms = << >> THEN {Plain(arg) : arg \in Sources}
    ELSE {t \in {Last(terms)} : Len(terms) = 1}

-----------------------------------------------------------------------------
(***************************************************************************)
(* Statements without parts                                                *)
(***************************************************************************)

\* PRINT_TOKEN '(' id ')'
PrintIdent(id) ==
    /\ "print" \in Features
    /\ next = "statement"
    /\ terms = << >>
    /\ Reduced(Append(code, Instr("PRINT", id, None, None)), parse,
               << "print", << "is", id >> >>)

\* id ASSIGN_OP expression, and declaration, of another type than bool.
AssignTo(id, term) ==
    /\ "set" \in Features
    /\ next = "statement"
    /\ Reduced(Append(code, Set(id, term.place)), parse,
               << "set", id, term.src >>)

\* expression ';' when the expression is an identifier: no code.
Mention(id) ==
    /\ "mention" \in Features
    /\ next = "statement"
    /\ terms = << >>
    /\ Reduced(code, parse, << "seq", << >> >>)

(***************************************************************************)
(* Blocks                                                                  *)
(***************************************************************************)
OpenBlock ==
    /\ "block" \in Features
    /\ next = "statement"
    /\ terms = << >>
    /\ ~Inside({"block"})    \* a block in a block has no code of its own
    /\ Begin(Bare("block", 0, None), "statement")

\* The block item just reduced is followed by another one, or by '}'.
Items == Append(Top.src, val.src)

NextItem ==
    /\ next = "reduced"
    /\ Inside({"block"})
    /\ Len(Items) < MaxItems
    /\ Go(code, Append(Outer, [Top EXCEPT !.src = Items]), NoValue(<< >>),
            "statement")

CloseBlock ==
    /\ next = "reduced"
    /\ Inside({"block"})
    /\ Reduced(code, Outer, << "seq", Items >>)

-----------------------------------------------------------------------------
(***************************************************************************)
(* Conditions                                                              *)
(***************************************************************************)

\* TRUE_TOKEN and FALSE_TOKEN: a jump on one of the lists, the other is NULL.
TrueExpr ==
    /\ "true" \in Features
    /\ next = "operand"
    /\ terms = << >>
    /\ Go(Append(code, Goto), parse,
            Value("equality", {Here(code)}, {}, << "true" >>), "value")

FalseExpr ==
    /\ "false" \in Features
    /\ next = "operand"
    /\ terms = << >>
    /\ Go(Append(code, Goto), parse,
            Value("equality", {}, {Here(code)}, << "false" >>), "value")

\* secondary_rel_expression RELATIONAL_TOKEN additive_expression
Relational(op, pair) ==
    /\ "rel" \in Features
    /\ next = "operand"
    /\ pair.rest = << >>
    /\ Go(code \o << Instr(op, pair.a.place, pair.b.place, None), Goto >>, parse,
          Value("equality", {Here(code)}, {Here(code) + 1},
                << "rel", op, pair.a.src, pair.b.src >>),
          "value")

\* equality_expression EQUALITY_TOKEN relational_expression: the lists of the
\* operands go with the operands.
BeginEquality ==
    /\ "eq" \in Features
    /\ next = "value"
    /\ val.level = "equality"
    /\ ~Inside({"eq"})
    /\ Begin(Frame("eq", val.t, val.f, 0, 0, None, << val.src >>), "operand")

FinishEquality ==
    /\ next = "value"
    /\ Inside({"eq"})
    /\ Go(code \o << Instr("EQ", None, None, None), Goto >>,
            Outer,
            Value("equality", {Here(code)}, {Here(code) + 1},
                  << "eq", Top.src[1], val.src >>),
            "value")

\* The left operand of && or || is complete; goto_place_holder.
BeginAnd ==
    /\ "and" \in Features
    /\ next = "value"
    /\ val.level \in {"equality", "and"}
    /\ ~Inside({"and", "eq"})
    /\ Begin(Frame("and", val.t, val.f, Here(code), 0, None, << val.src >>),
             "operand")

\* A faulty variant: the jumps taken when the left operand is false enter the
\* right operand.
FinishAndPatchesFalse ==
    /\ next = "value"
    /\ Inside({"and"})
    /\ Go(BackPatch(code, Top.f, Top.enter), Outer,
            Value("and", Top.t \cup val.t, val.f,
                  << "and", Top.src[1], val.src >>), "value")

FinishAnd ==
    /\ next = "value"
    /\ Inside({"and"})
    /\ Go(BackPatch(code, Top.t, Top.enter), Outer,
            Value("and", val.t, Top.f \cup val.f,
                  << "and", Top.src[1], val.src >>), "value")

BeginOr ==
    /\ "or" \in Features
    /\ next = "value"
    /\ ~Inside({"and", "or", "eq"})
    /\ Begin(Frame("or", val.t, val.f, Here(code), 0, None, << val.src >>),
             "operand")

\* A faulty variant: the jumps of the left operand are handed on although
\* they are patched.
FinishOrKeepsList ==
    /\ next = "value"
    /\ Inside({"or"})
    /\ Go(BackPatch(code, Top.f, Top.enter), Outer,
            Value("or", Top.t \cup val.t, Top.f \cup val.f,
                  << "or", Top.src[1], val.src >>), "value")

FinishOr ==
    /\ next = "value"
    /\ Inside({"or"})
    /\ Go(BackPatch(code, Top.f, Top.enter), Outer,
            Value("or", Top.t \cup val.t, val.f,
                  << "or", Top.src[1], val.src >>), "value")

-----------------------------------------------------------------------------
(***************************************************************************)
(* Statements with a condition                                             *)
(***************************************************************************)
BeginIf ==
    /\ "if" \in Features
    /\ next = "statement"
    /\ terms = << >>
    /\ Begin(Bare("ifcond", 0, None), "operand")

\* goto_place_holder, before the condition.
BeginWhile ==
    /\ "while" \in Features
    /\ next = "statement"
    /\ terms = << >>
    /\ Begin(Bare("whilecond", Here(code), None), "operand")

BeginAssignBool(id) ==
    /\ "assign" \in Features
    /\ next = "statement"
    /\ terms = << >>
    /\ Begin(Bare("assign", 0, id), "operand")

\* The condition is complete; goto_place_holder before the branch, which is
\* a compound_statement.
EndIfCond ==
    /\ next = "value"
    /\ Inside({"ifcond"})
    /\ Go(code,
            Outer \o << Frame("then", val.t, val.f, Here(code), 0, None,
                              << val.src >>),
                       Bare("block", 0, None) >>,
            NoValue(<< >>), "statement")

EndWhileCond ==
    /\ next = "value"
    /\ Inside({"whilecond"})
    /\ Go(code,
            Append(Outer, Frame("body", val.t, val.f, Here(code), Top.mark,
                                None, << val.src >>)),
            NoValue(<< >>), "statement")

\* gen_bool_instrs: the two assignments, a jump over the second, a NOP.
AssignBool ==
    LET n == Len(code)
        c == code \o << Set(Top.id, True), Goto, Set(Top.id, False), Nop >>
        d == BackPatch(c, {n + 2}, n + 4)
    IN  /\ next = "value"
        /\ Inside({"assign"})
        /\ Reduced(BackPatch(BackPatch(d, val.t, n + 1), val.f, n + 3), Outer,
                   << "assign", Top.id, val.src >>)

\* Faulty variants of EndIf: the NOP is counted twice; the jumps of a false
\* condition are forgotten.
EndIfPastNop ==
    LET n == Len(code)
        c == Append(BackPatch(code, Top.t, Top.enter), Nop)
    IN  /\ next = "reduced"
        /\ Inside({"then"})
        /\ Reduced(BackPatch(c, Top.f, n + 2), Outer,
                   << "if", Top.src[1], val.src >>)

EndIfForgetsFalse ==
    LET c == Append(BackPatch(code, Top.t, Top.enter), Nop)
    IN  /\ next = "reduced"
        /\ Inside({"then"})
        /\ Reduced(c, Outer, << "if", Top.src[1], val.src >>)

\* selection_statement without ELSE.  When the branch has no code there is no
\* instruction yet for the true list, and back_patch's assert fails.
EndIf ==
    LET n == Len(code)
        c == Append(BackPatch(code, Top.t, Top.enter), Nop)
    IN  /\ next = "reduced"
        /\ Inside({"then"})
        /\ IF Top.enter \in DOMAIN code
           THEN Reduced(BackPatch(c, Top.f, n + 1), Outer,
                        << "if", Top.src[1], val.src >>)
           ELSE Go(code, parse, val, "aborted")

\* end_if_jump before ELSE_TOKEN.
BeginElse ==
    /\ "else" \in Features
    /\ next = "reduced"
    /\ Inside({"then"})
    /\ Go(Append(code, Goto),
            Outer \o << [Top EXCEPT !.kind = "else", !.mark = Here(code) + 1,
                                    !.src = Append(@, val.src)],
                       Bare("block", 0, None) >>,
            NoValue(<< >>), "statement")

\* A faulty variant: a false condition jumps to the jump over the else branch.
EndIfElseToJump ==
    LET n == Len(code)
        c == Append(BackPatch(code, Top.t, Top.enter), Nop)
        d == BackPatch(c, Top.f, Top.mark - 1)
    IN  /\ next = "reduced"
        /\ Inside({"else"})
        /\ Reduced(BackPatch(d, {Top.mark - 1}, n + 1), Outer,
                   << "ifelse", Top.src[1], Top.src[2], val.src >>)

EndIfElse ==
    LET n == Len(code)
        c == Append(BackPatch(code, Top.t, Top.enter), Nop)
        d == BackPatch(c, Top.f, Top.mark)
    IN  /\ next = "reduced"
        /\ Inside({"else"})
        /\ Reduced(BackPatch(d, {Top.mark - 1}, n + 1), Outer,
                   << "ifelse", Top.src[1], Top.src[2], val.src >>)

\* A faulty variant of Loop: the jump back leads to the body.
LoopRepeatsBody(forced) ==
    LET n == Len(code)
        c == BackPatch(Append(code, Goto), Top.t, Top.enter)
        d == BackPatch(Append(c, Nop), Top.f, n + 2)
        e == [d EXCEPT ![Top.mark].forced = @ \cup forced,
                       ![n + 2].released  = Uses(d, Top.mark, n + 2)]
    IN  /\ next = "reduced"
        /\ Inside({"body"})
        /\ Reduced(BackPatch(e, {n + 1}, Top.enter), Outer,
                   << "while", Top.src[1], val.src >>)

\* iteration_statement: end_if_jump, the jump back to the condition; the NOP
\* after the loop; the actions on the first instruction and on the NOP.
Loop(forced) ==
    LET n == Len(code)
        c == BackPatch(Append(code, Goto), Top.t, Top.enter)
        d == BackPatch(Append(c, Nop), Top.f, n + 2)
        e == [d EXCEPT ![Top.mark].forced = @ \cup forced,
                       ![n + 2].released  = Uses(d, Top.mark, n + 2)]
    IN  /\ next = "reduced"
        /\ Inside({"body"})
        /\ Reduced(BackPatch(e, {n + 1}, Top.mark), Outer,
                   << "while", Top.src[1], val.src >>)

\* A faulty variant: only what the body uses is forced on the stack.
EndWhileForcesBody == Loop(Uses(code, Top.enter, Here(code)))

EndWhile == Loop(Uses(code, Top.mark, Here(code)))

\* The statement just reduced is the whole program.
Accept ==
    /\ next = "reduced"
    /\ parse = << >>
    /\ Go(code, parse, val, "accepted")

-----------------------------------------------------------------------------
Conditions ==
    \/ TrueExpr
    \/ FalseExpr
    \/ \E op \in RelOps : \E pair \in Pairs(op) : Relational(op, pair)
    \/ BeginEquality
    \/ FinishEquality
    \/ BeginAnd
    \/ FinishAnd
    \/ BeginOr
    \/ FinishOr

Statements ==
    \/ \E id \in Ids : PrintIdent(id)
    \/ \E op \in ArithOps : \E pair \in Pairs(op) : Operate(op, pair)
    \/ \E id \in Ids \ BoolIds : \E term \in Assigned : AssignTo(id, term)
    \/ \E id \in Ids : Mention(id)
    \/ OpenBlock
    \/ NextItem
    \/ CloseBlock
    \/ BeginIf
    \/ EndIfCond
    \/ EndIf
    \/ BeginElse
    \/ EndIfElse
    \/ BeginWhile
    \/ EndWhileCond
    \/ EndWhile
    \/ \E id \in BoolIds : BeginAssignBool(id)
    \/ AssignBool
    \/ Accept

Next == Conditions \/ Statements

Spec == Init /\ [][Next]_vars

-----------------------------------------------------------------------------
(***************************************************************************)
(* Properties.                                                             *)
(***************************************************************************)
Indices == 1 .. MaxInstrs

TypeOK ==
    /\ Len(code) =< MaxInstrs
    /\ \A i \in DOMAIN code :
          /\ code[i].op \in Ops
          /\ code[i].target \in {0} \cup DOMAIN code
          /\ code[i].forced \cup code[i].released \subseteq AllIds
    /\ \A k \in DOMAIN parse :
          /\ parse[k].kind \in Kinds
          /\ parse[k].t \cup parse[k].f \subseteq DOMAIN code
          /\ {parse[k].enter, parse[k].mark} \subseteq 0 .. Here(code)
    /\ \A k \in DOMAIN terms : terms[k].place \in ToSet(Temps)
    /\ val.level \in Levels
    /\ val.t \cup val.f \subseteq DOMAIN code
    /\ next \in Phases

Open == {i \in DOMAIN code : code[i].op \in Jumps /\ code[i].target = 0}

\* The lists that hold the jump i: those of the constructs being parsed, the
\* jump over an else branch, those of the value just reduced.
Holders(i) ==
    (   ({k \in DOMAIN parse : i \in parse[k].t} \X {"true"})
     \cup ({k \in DOMAIN parse : i \in parse[k].f} \X {"false"})
     \cup ({k \in DOMAIN parse : parse[k].kind = "else" /\ i = parse[k].mark - 1}
              \X {"skip"})
     \cup ({0} \X {l \in {"true", "false"} :
                     i \in IF l = "true" THEN val.t ELSE val.f}))

\* equality_expression drops the lists of its operands.
NoEquality == \A i \in DOMAIN code : code[i].op # "EQ"

\* Every jump that has no target yet is on exactly one list, and a jump that
\* has one is on none: none is lost, none is patched twice (merge_lists,
\* back_patch).  Programs with == are the exception.
ListedOnce ==
    NoEquality =>
        \A i \in DOMAIN code :
            Cardinality(Holders(i)) = IF i \in Open THEN 1 ELSE 0

\* A jump that has a target keeps it.
PatchedOnce ==
    [][\A i \in DOMAIN code :
          code[i].target # 0 => code'[i].target = code[i].target]_vars

(***************************************************************************)
(* What the actions on loops are for: "when in a while loop all            *)
(* instructions should have their argument vars forced onto the stack"     *)
(* (inter_code_gen.c:163).  The backend handles the actions of the         *)
(* instructions one after the other, from the first to the last.           *)
(***************************************************************************)

\* The backend takes id to be forced on the stack at the instruction i.
ForcedAt(i, id) ==
    \E j \in 1 .. i :
        /\ id \in code[j].forced
        /\ \A k \in j .. i : id \notin code[k].released

\* The loops, by their jumps back.
BackJumps == {i \in DOMAIN code : code[i].op = "GOTO" /\ code[i].target \in 1 .. i}
Body(i)   == code[i].target .. i
Forced(i) ==
    \A j \in Body(i), id \in Uses(code, code[i].target, i + 1) : ForcedAt(j, id)

\* In a loop that contains no other loop, every identifier that the loop reads
\* is forced on the stack from its first instruction to its last.
InnermostForced ==
    next = "accepted" =>
        \A i \in BackJumps : BackJumps \cap Body(i) = {i} => Forced(i)

\* The same of every loop.
AllForced == next = "accepted" => \A i \in BackJumps : Forced(i)
=============================================================================

------------------------------ MODULE IRMeaning ------------------------------
(***************************************************************************)
(* What the generated code does, compared with what the source program     *)
(* says.  Both are given as sets of traces of at most MaxEvents events: a  *)
(* print, an assignment, a comparison with either outcome, a return to the *)
(* condition of a loop.  The outcome of a comparison is free: the shape of *)
(* the control flow is compared.  What is assigned or compared is the      *)
(* expression that it was computed from.                                   *)
(***************************************************************************)
EXTENDS IRGen

CONSTANT MaxEvents    \* bound on the length of a trace

ASSUME IRMeaningAssumption == MaxEvents \in Nat

Then(event, traces) == {<< event >> \o t : t \in traces}

(***************************************************************************)
(* The source: work is what is left to do, the next statement first.  The  *)
(* item << "cond", c, T, F >> evaluates c and goes on with T or with F.    *)
(***************************************************************************)
RECURSIVE SourceTraces(_, _)
SourceTraces(work, n) ==
    IF n = 0 THEN {<< >>}
    ELSE IF work = << >> THEN {<< << "end" >> >>}
    ELSE LET s    == Head(work)
             rest == Tail(work)
             branch(c, T, F) == SourceTraces(<< << "cond", c, T, F >> >>, n)
         IN  CASE s[1] \in {"print", "set", "again"} ->
                    Then(s, SourceTraces(rest, n - 1))
               [] s[1] = "seq" -> SourceTraces(s[2] \o rest, n)
               [] s[1] = "if" -> branch(s[2], << s[3] >> \o rest, rest)
               [] s[1] = "ifelse" ->
                    branch(s[2], << s[3] >> \o rest, << s[4] >> \o rest)
               [] s[1] = "while" ->
                    branch(s[2], << s[3], << "again" >>, s >> \o rest, rest)
               [] s[1] = "assign" ->
                    branch(s[3], << << "set", s[2], << "is", True >> >> >> \o rest,
                                 << << "set", s[2], << "is", False >> >> >> \o rest)
               [] s[1] = "cond" ->
                    LET c == s[2]
                    IN  CASE c[1] = "true"  -> SourceTraces(s[3], n)
                          [] c[1] = "false" -> SourceTraces(s[4], n)
                          [] c[1] = "rel" ->
                               Then(<< "holds", c[2], c[3], c[4] >>,
                                    SourceTraces(s[3], n - 1))
                               \cup
                               Then(<< "fails", c[2], c[3], c[4] >>,
                                    SourceTraces(s[4], n - 1))
                          [] c[1] = "and" ->
                               branch(c[2], << << "cond", c[3], s[3], s[4] >> >>,
                                      s[4])
                          [] c[1] = "or" ->
                               branch(c[2], s[3],
                                      << << "cond", c[3], s[3], s[4] >> >>)

(***************************************************************************)
(* The code from the instruction i on, as the machine executes it: a       *)
(* comparison jumps when it holds, GOTO always.  env has the expression    *)
(* that every temporary was computed from.                                 *)
(***************************************************************************)
Place(env, arg) == IF arg \in DOMAIN env THEN env[arg] ELSE << "is", arg >>

RECURSIVE CodeTraces(_, _, _)
CodeTraces(i, n, env) ==
    IF n = 0 THEN {<< >>}
    ELSE IF i = Here(code) THEN {<< << "end" >> >>}
    ELSE LET instr == code[i]
             left  == Place(env, instr.arg)
             right == Place(env, instr.arg2)
             jump(m) ==
                CASE m = 0                -> {<< >>}
                  [] instr.target = 0     -> {<< << "nowhere" >> >>}
                  [] instr.target \in 1..i -> Then(<< "again" >>,
                                                  CodeTraces(instr.target, m - 1, env))
                  [] OTHER                -> CodeTraces(instr.target, m, env)
         IN  CASE instr.op = "PRINT" ->
                    Then(<< "print", left >>, CodeTraces(i + 1, n - 1, env))
               [] instr.op = "ASSIGN" ->
                    Then(<< "set", instr.result, left >>, CodeTraces(i + 1, n - 1, env))
               [] instr.op \in ArithOps ->
                    CodeTraces(i + 1, n,
                               [env EXCEPT ![instr.result] = << instr.op, left, right >>])
               [] instr.op = "GOTO" -> jump(n)
               [] instr.op = "NOP"  -> CodeTraces(i + 1, n, env)
               [] OTHER ->
                    Then(<< "holds", instr.op, left, right >>, jump(n - 1))
                    \cup
                    Then(<< "fails", instr.op, left, right >>, CodeTraces(i + 1, n - 1, env))

Unset == [t \in ToSet(Temps) |-> << "unset" >>]

\* The code of a complete program has exactly the traces of its source: every
\* branch, loop and short-circuited condition goes where the program says,
\* through all the jumps that were patched after the fact, and every operand
\* has been computed before it is used.  Programs with == are the exception.
RunsAsWritten ==
    next = "accepted" /\ NoEquality =>
        CodeTraces(1, MaxEvents, Unset) = SourceTraces(<< val.src >>, MaxEvents)
=============================================================================

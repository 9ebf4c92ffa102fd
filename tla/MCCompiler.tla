----------------------------- MODULE MCCompiler -----------------------------
(* Instances of Compiler for TLC. *)
EXTENDS Compiler

CONSTANTS x, y, t1, t2, t3, t4, t5, t6, t7, t8

MCTemps    == << t1, t2, t3, t4, t5, t6, t7, t8 >>
MCDeclared == << << x, 0 >>, << y, 1 >> >>

MCText(arg) == << arg >>

\* Words of three bits, and their sum.
MCVals        == -4 .. 3
MCArith(a, b) == ((a + b + 4) % 8) - 4
MCJunk        == {3}

MCExpressions == {<< "LT", x, 2 >>, << "LT", x, y >>, << "ADD", x, 1 >>}
MCFeatures    == {"print", "set", "block", "if", "else", "while", "rel", "sum"}
=============================================================================

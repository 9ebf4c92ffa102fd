------------------------------ MODULE MCIRGen ------------------------------
(* Instances of IRGen for TLC. *)
EXTENDS IRMeaning

CONSTANTS x, b, t1, t2

MCTemps == << t1, t2 >>

\* One integer and one bool; one comparison, one sum.
Less == {<< "LT", x, 1 >>}
Sums == {<< "LT", x, 1 >>, << "SUB", x, 1 >>}

\* Statements of every kind, nested in each other, with simple conditions.
Statements1 == {"print", "set", "block", "if", "else", "while", "assign", "rel",
                "sum"}

\* Conditions of every kind, in statements of one part.
Conditions1 == {"print", "mention", "if", "while", "assign", "true", "false", "rel",
                "and", "or", "eq"}

\* Loops in loops.
Loops1 == {"print", "while", "rel"}
=============================================================================

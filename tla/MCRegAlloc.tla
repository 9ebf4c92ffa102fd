----------------------------- MODULE MCRegAlloc -----------------------------
(* Instances of RegAlloc for TLC. *)
EXTENDS RegAlloc

CONSTANTS x, y, z

MCVals      == 0 .. 1
MCIds2      == {x, y}
MCIds3      == {x, y, z}
MCConsts    == {0}
MCTests     == {"LT", "EQ"}
Symmetry    == Permutations(Ids)

\* Not commutative, and no operand can be left out: the position of an
\* operand and a lost update change the result.
MCArith(a, b) == IF a = 1 /\ b = 0 THEN 0 ELSE 1

NoLoops     == {}
OneLoop     == {{x}}
=============================================================================

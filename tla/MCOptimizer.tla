---------------------------- MODULE MCOptimizer ----------------------------
(* Instances of Optimizer for TLC. *)
EXTENDS Optimizer

CONSTANTS a, aa, aaa, t1, t2, t3, t4, t5, t6, t7, t8

MCTemps  == << t1, t2, t3, t4, t5, t6, t7, t8 >>
MCIds    == {a, aa, aaa} \cup ToSet(MCTemps)
MCVars   == {a, aa, aaa}

\* Names and numbers that are written with one character, so that some run
\* together to the same text.
MCText(arg) ==
    CASE arg = a   -> << "a" >>
      [] arg = aa  -> << "a", "a" >>
      [] arg = aaa -> << "a", "a", "a" >>
      [] arg = 1   -> << "1" >>
      [] arg = 11  -> << "1", "1" >>
      [] OTHER     -> << arg >>
=============================================================================

---------------------------- MODULE IRGen_proofs ----------------------------
(***************************************************************************)
(* Proofs about IRGen: the lists of jumps that wait for a target, and the  *)
(* actions on loops.                                                       *)
(***************************************************************************)
EXTENDS IRGen, FiniteSetTheorems, SequenceTheorems, TLAPS

-----------------------------------------------------------------------------
(***************************************************************************)
(* The invariant, stated of a list of instructions c, a stack p of the     *)
(* constructs being parsed, and the value v reduced last.                  *)
(***************************************************************************)
Args == Ids \cup ToSet(Temps) \cup Sources \cup {None, True, False}
            \cup {e[2] : e \in Expressions} \cup {e[3] : e \in Expressions}

Instrs == [op : Ops, arg : Args, arg2 : Args, result : Args, target : Nat,
           forced : SUBSET AllIds, released : SUBSET AllIds]

IsSeq(s) == s \in Seq(ToSet(s))

\* Instructions, each of whose targets exists.
Program(c) ==
    /\ c \in Seq(Instrs)
    /\ \A i \in DOMAIN c : c[i].target \in {0} \cup DOMAIN c

OpenIn(c) == {i \in DOMAIN c : c[i].op \in Jumps /\ c[i].target = 0}
NoEq(c)   == \A i \in DOMAIN c : c[i].op # "EQ"

CondKinds == {"ifcond", "whilecond", "assign", "and", "or", "eq"}
Infix     == {"and", "or", "eq"}

\* The jumps that a construct will patch or hand on.
Skip(fr)  == IF fr.kind = "else" THEN {fr.mark - 1} ELSE {}
Lists(fr) == fr.t \cup fr.f \cup Skip(fr)
Held(p)   == UNION {Lists(p[k]) : k \in DOMAIN p}

Distinct(fr) == fr.t \cap fr.f = {} /\ Skip(fr) \cap (fr.t \cup fr.f) = {}

\* No jump is on two lists.
Apart(p) ==
    /\ \A k \in DOMAIN p : Distinct(p[k])
    /\ \A j, k \in DOMAIN p : j # k => Lists(p[j]) \cap Lists(p[k]) = {}

\* The lists hold jumps that have no target, and without == all of them.
Ledger(c, p, v) ==
    /\ Apart(p)
    /\ v.t \cap v.f = {}
    /\ (v.t \cup v.f) \cap Held(p) = {}
    /\ Held(p) \cup v.t \cup v.f \subseteq OpenIn(c)
    /\ NoEq(c) => OpenIn(c) \subseteq Held(p) \cup v.t \cup v.f

\* Where the parts of a construct begin.
FrameOK(c, fr) ==
    /\ fr = Frame(fr.kind, fr.t, fr.f, fr.enter, fr.mark, fr.id, fr.src)
    /\ fr.kind \in Kinds
    /\ fr.enter \in 0 .. Here(c)
    /\ fr.mark \in 0 .. Here(c)
    /\ fr.kind \in {"block", "ifcond", "whilecond", "assign"} =>
          fr.t = {} /\ fr.f = {}
    /\ fr.kind \in {"and", "or", "then", "else", "body"} =>
          fr.enter > 0 /\ \A x \in fr.t \cup fr.f : x < fr.enter
    /\ fr.kind = "else" => fr.enter < fr.mark
    /\ fr.kind = "assign" => fr.id \in Ids
    /\ fr.kind \in {"whilecond", "body"} => fr.mark > 0
    /\ fr.kind = "body" => fr.mark \in DOMAIN c
    /\ fr.kind \in {"whilecond", "body"} =>
          (fr.mark \in DOMAIN c => c[fr.mark].op # "NOP")

FramesOK(c, p) == IsSeq(p) /\ \A k \in DOMAIN p : FrameOK(c, p[k])

\* Conditions are inside what they are conditions of, and nothing else is
\* inside them; n says whether one is being parsed.
Nested(p, n) ==
    /\ \A j, k \in DOMAIN p :
          j < k /\ p[j].kind \in CondKinds => p[k].kind \in Infix
    /\ \A k \in DOMAIN p :
          p[k].kind \in Infix => k > 1 /\ p[k - 1].kind \in CondKinds
    /\ n \in {"operand", "value"} <=> p # << >> /\ Last(p).kind \in CondKinds

\* A condition that is complete has code.
Written(c, p, n) ==
    n = "value" =>
        \A k \in DOMAIN p :
            /\ p[k].kind \in {"and", "or"} => p[k].enter \in DOMAIN c
            /\ p[k].kind = "whilecond" => p[k].mark \in DOMAIN c

ValueOK(v, n) ==
    /\ v.level \in Levels
    /\ n # "value" => v.t = {} /\ v.f = {}

Waiting(w) ==
    /\ IsSeq(w)
    /\ \A k \in DOMAIN w : w[k].place \in ToSet(Temps)

\* The jumps back of the loops that are complete: each leads to a first
\* instruction where what the loop reads is forced on the stack; identifiers
\* are released after it and nowhere else.
Backs(c) == {i \in DOMAIN c : c[i].op = "GOTO" /\ c[i].target \in 1 .. i}

LoopsOK(c) ==
    /\ \A i \in Backs(c) :
          /\ c[c[i].target].op # "NOP"
          /\ Uses(c, c[i].target, i + 1) \subseteq c[c[i].target].forced
    /\ \A k \in DOMAIN c :
          c[k].released # {} =>
              k > 1 /\ c[k].op = "NOP" /\ k - 1 \in Backs(c)

StateOK(c, p, v, n) ==
    /\ Program(c)
    /\ LoopsOK(c)
    /\ FramesOK(c, p)
    /\ Ledger(c, p, v)
    /\ Nested(p, n)
    /\ Written(c, p, n)
    /\ ValueOK(v, n)

IInv ==
    /\ StateOK(code, parse, val, next)
    /\ Len(code) =< MaxInstrs
    /\ next \in Phases
    /\ Waiting(terms)

-----------------------------------------------------------------------------
(***************************************************************************)
(* Sequences                                                               *)
(***************************************************************************)
LEMMA SeqFacts ==
    ASSUME NEW s, IsSeq(s)
    PROVE  Len(s) \in Nat /\ DOMAIN s = 1 .. Len(s) /\ (s = << >> <=> Len(s) = 0)
  BY DEF IsSeq

LEMMA SeqAppend ==
    ASSUME NEW s, NEW x, IsSeq(s)
    PROVE  /\ IsSeq(Append(s, x))
           /\ Len(Append(s, x)) = Len(s) + 1
           /\ \A i \in 1 .. Len(s) : Append(s, x)[i] = s[i]
           /\ Append(s, x)[Len(s) + 1] = x
           /\ Append(s, x) # << >>
           /\ Last(Append(s, x)) = x
<1>. DEFINE T == ToSet(s) \cup {x}
            q == Append(s, x)
<1>1. s \in Seq(T)
  BY DEF IsSeq
<1>2. q \in Seq(T) /\ Len(q) = Len(s) + 1
      /\ (\A i \in 1 .. Len(s) : q[i] = s[i]) /\ q[Len(s) + 1] = x
  BY <1>1
<1>3. Len(s) \in Nat /\ DOMAIN q = 1 .. Len(q)
  BY <1>1, <1>2
<1>4. q \in Seq(ToSet(q))
  <2>1. \A i \in 1 .. Len(q) : q[i] \in ToSet(q)
    BY <1>3 DEF ToSet
  <2>. QED  BY <1>2, <1>3, <2>1
<1>. QED  BY <1>2, <1>3, <1>4 DEF IsSeq, Last

LEMMA SeqFront ==
    ASSUME NEW s, IsSeq(s), s # << >>
    PROVE  /\ IsSeq(Front(s))
           /\ Len(s) > 0
           /\ Len(Front(s)) = Len(s) - 1
           /\ \A i \in 1 .. Len(s) - 1 : Front(s)[i] = s[i]
           /\ Last(s) = s[Len(s)]
<1>. DEFINE q == Front(s)
<1>1. s \in Seq(ToSet(s)) /\ Len(s) \in Nat /\ Len(s) > 0
  BY DEF IsSeq
<1>2. q \in Seq(ToSet(s)) /\ Len(q) = Len(s) - 1
      /\ (\A i \in 1 .. Len(s) - 1 : q[i] = s[i])
  <2>a. \A i \in 1 .. Len(s) : s[i] \in ToSet(s)
    BY <1>1
  <2>1. 1 \in Int /\ Len(s) - 1 \in Int /\ Len(s) - 1 - 1 + 1 = Len(s) - 1
        /\ (\A i \in 1 .. Len(s) - 1 : s[i] \in ToSet(s) /\ 1 + i - 1 = i)
        /\ (1 =< Len(s) - 1 \/ Len(s) - 1 = 0)
    <3>. HIDE DEF q
    <3>. QED  BY <1>1, <2>a
  <2>2. /\ q \in Seq(ToSet(s))
        /\ Len(q) = IF 1 =< Len(s) - 1 THEN Len(s) - 1 - 1 + 1 ELSE 0
        /\ \A i \in 1 .. Len(s) - 1 - 1 + 1 : q[i] = s[1 + i - 1]
    <3>. HIDE DEF q
    <3>1. q = SubSeq(s, 1, Len(s) - 1)
      BY DEF q, Front
    <3>. QED  BY ONLY <2>1, <3>1, SubSeqProperties
  <2>. QED  BY <2>1, <2>2
<1>3. DOMAIN q = 1 .. Len(q)
  BY <1>2
<1>4. q \in Seq(ToSet(q))
  <2>1. \A i \in 1 .. Len(q) : q[i] \in ToSet(q)
    BY <1>3 DEF ToSet
  <2>. QED  BY <1>1, <1>2, <1>3, <2>1
<1>. QED  BY <1>1, <1>2, <1>4 DEF IsSeq, Last

LEMMA AppendTwo ==
    ASSUME NEW s, NEW x, NEW y, IsSeq(s)
    PROVE  s \o << x, y >> = Append(Append(s, x), y)
<1>. DEFINE T == ToSet(s) \cup {x, y}
<1>1. s \in Seq(T) /\ x \in T /\ y \in T
  BY DEF IsSeq
<1>. QED  BY <1>1

LEMMA AppendFour ==
    ASSUME NEW s, NEW x, NEW y, NEW z, NEW w, IsSeq(s)
    PROVE  s \o << x, y, z, w >> = Append(Append(Append(Append(s, x), y), z), w)
<1>. DEFINE T == ToSet(s) \cup {x, y, z, w}
<1>1. s \in Seq(T) /\ x \in T /\ y \in T /\ z \in T /\ w \in T
  BY DEF IsSeq
<1>. QED  BY <1>1

-----------------------------------------------------------------------------
(***************************************************************************)
(* Instructions                                                            *)
(***************************************************************************)

\* What every step keeps of the instructions c.
Extends(c, d) ==
    /\ Len(c) =< Len(d)
    /\ \A i \in 1 .. Len(c) :
          /\ d[i].op = c[i].op /\ d[i].arg = c[i].arg /\ d[i].arg2 = c[i].arg2
          /\ c[i].target # 0 => d[i].target = c[i].target

LEMMA ProgramFacts ==
    ASSUME NEW c, Program(c)
    PROVE  /\ Len(c) \in Nat
           /\ DOMAIN c = 1 .. Len(c)
           /\ Here(c) = Len(c) + 1
           /\ OpenIn(c) \subseteq 1 .. Len(c)
           /\ \A i \in 1 .. Len(c) : c[i] \in Instrs /\ c[i].target \in 0 .. Len(c)
  BY DEF Program, Here, OpenIn

LEMMA ProgramSeq ==
    ASSUME NEW c, Program(c)
    PROVE  IsSeq(c)
<1>1. c \in Seq(Instrs) /\ DOMAIN c = 1 .. Len(c) /\ Len(c) \in Nat
  BY ProgramFacts DEF Program
<1>2. \A i \in 1 .. Len(c) : c[i] \in ToSet(c)
  BY <1>1 DEF ToSet
<1>. QED  BY <1>1, <1>2 DEF IsSeq

LEMMA ExtendsTransitive ==
    ASSUME NEW c, NEW d, NEW e, Program(c), Program(d), Program(e),
           Extends(c, d), Extends(d, e)
    PROVE  Extends(c, e)
  BY ProgramFacts DEF Extends

LEMMA ExtendsReflexive ==
    ASSUME NEW c, Program(c)
    PROVE  Extends(c, c)
  BY ProgramFacts DEF Extends

LEMMA InstrType ==
    ASSUME NEW op \in Ops, NEW a \in Args, NEW a2 \in Args, NEW r \in Args
    PROVE  LET I == Instr(op, a, a2, r)
           IN  /\ I \in Instrs
               /\ I.op = op /\ I.arg = a /\ I.arg2 = a2
               /\ I.target = 0 /\ I.released = {}
  BY DEF Instr, Instrs

\* One field of an instruction changes, the others stay.
LEMMA InstrExcept ==
    ASSUME NEW op, NEW a, NEW a2, NEW r, NEW tg, NEW fo, NEW re, NEW v
    PROVE  LET I == [op |-> op, arg |-> a, arg2 |-> a2, result |-> r, target |-> tg,
                     forced |-> fo, released |-> re]
           IN  /\ [I EXCEPT !.forced = v] =
                     [op |-> op, arg |-> a, arg2 |-> a2, result |-> r, target |-> tg,
                      forced |-> v, released |-> re]
               /\ [I EXCEPT !.released = v] =
                     [op |-> op, arg |-> a, arg2 |-> a2, result |-> r, target |-> tg,
                      forced |-> fo, released |-> v]
  OBVIOUS

LEMMA InstrShape ==
    ASSUME NEW x \in Instrs
    PROVE  /\ x = [op |-> x.op, arg |-> x.arg, arg2 |-> x.arg2, result |-> x.result,
                   target |-> x.target, forced |-> x.forced, released |-> x.released]
           /\ x.op \in Ops /\ x.arg \in Args /\ x.arg2 \in Args /\ x.result \in Args
           /\ x.target \in Nat
           /\ x.forced \in SUBSET AllIds /\ x.released \in SUBSET AllIds
  BY DEF Instrs

\* Actions added to an instruction.
LEMMA InstrForced ==
    ASSUME NEW x \in Instrs, NEW v \in SUBSET AllIds
    PROVE  LET y == [x EXCEPT !.forced = v]
           IN  /\ y \in Instrs /\ y.op = x.op /\ y.arg = x.arg /\ y.arg2 = x.arg2
               /\ y.target = x.target /\ y.forced = v /\ y.released = x.released
<1>. DEFINE y == [x EXCEPT !.forced = v]
<1>1. y = [op |-> x.op, arg |-> x.arg, arg2 |-> x.arg2, result |-> x.result,
           target |-> x.target, forced |-> v, released |-> x.released]
  <2>. DEFINE I == [op |-> x.op, arg |-> x.arg, arg2 |-> x.arg2, result |-> x.result,
                    target |-> x.target, forced |-> x.forced, released |-> x.released]
  <2>1. x = I
    BY InstrShape
  <2>2. y = [I EXCEPT !.forced = v]
    BY <2>1
  <2>. QED  BY <2>2, InstrExcept
<1>. QED  BY <1>1, InstrShape DEF Instrs

LEMMA InstrReleased ==
    ASSUME NEW x \in Instrs, NEW v \in SUBSET AllIds
    PROVE  LET y == [x EXCEPT !.released = v]
           IN  /\ y \in Instrs /\ y.op = x.op /\ y.arg = x.arg /\ y.arg2 = x.arg2
               /\ y.target = x.target /\ y.forced = x.forced /\ y.released = v
<1>. DEFINE y == [x EXCEPT !.released = v]
<1>1. y = [op |-> x.op, arg |-> x.arg, arg2 |-> x.arg2, result |-> x.result,
           target |-> x.target, forced |-> x.forced, released |-> v]
  <2>. DEFINE I == [op |-> x.op, arg |-> x.arg, arg2 |-> x.arg2, result |-> x.result,
                    target |-> x.target, forced |-> x.forced, released |-> x.released]
  <2>1. x = I
    BY InstrShape
  <2>2. y = [I EXCEPT !.released = v]
    BY <2>1
  <2>. QED  BY <2>2, InstrExcept
<1>. QED  BY <1>1, InstrShape DEF Instrs

LEMMA InstrTarget ==
    ASSUME NEW x \in Instrs, NEW v \in Nat
    PROVE  LET y == [x EXCEPT !.target = v]
           IN  /\ y \in Instrs /\ y.op = x.op /\ y.arg = x.arg /\ y.arg2 = x.arg2
               /\ y.target = v /\ y.forced = x.forced /\ y.released = x.released
<1>. DEFINE y == [x EXCEPT !.target = v]
            I == [op |-> x.op, arg |-> x.arg, arg2 |-> x.arg2, result |-> x.result,
                  target |-> x.target, forced |-> x.forced, released |-> x.released]
<1>1. x = I
  BY InstrShape
<1>2. y = [I EXCEPT !.target = v]
  BY <1>1
<1>. HIDE DEF y
<1>3. y = [op |-> x.op, arg |-> x.arg, arg2 |-> x.arg2, result |-> x.result,
           target |-> v, forced |-> x.forced, released |-> x.released]
  BY <1>2
<1>. QED  BY <1>3, InstrShape DEF Instrs, y

\* Two lists of instructions that read the same from s to i.
LEMMA UsesSame ==
    ASSUME NEW c, NEW d, NEW s \in Nat, NEW i \in Nat,
           \A j \in s .. i : d[j].arg = c[j].arg /\ d[j].arg2 = c[j].arg2
    PROVE  Uses(d, s, i + 1) = Uses(c, s, i + 1)
<1>1. i + 1 - 1 = i
  OBVIOUS
<1>2. {{d[j].arg, d[j].arg2} : j \in s .. i} = {{c[j].arg, c[j].arg2} : j \in s .. i}
  OBVIOUS
<1>3. s .. i + 1 - 1 = s .. i
  BY <1>1
<1>4. Uses(d, s, i + 1) = AllIds \cap UNION {{d[j].arg, d[j].arg2} : j \in s .. i}
  BY ONLY <1>3 DEF Uses
<1>5. Uses(c, s, i + 1) = AllIds \cap UNION {{c[j].arg, c[j].arg2} : j \in s .. i}
  BY ONLY <1>3 DEF Uses
<1>. QED  BY ONLY <1>2, <1>4, <1>5

\* One instruction more.
LEMMA AppendInstr ==
    ASSUME NEW c, Program(c), NEW I \in Instrs, I.target = 0, I.released = {}
    PROVE  LET d == Append(c, I)
           IN  /\ Program(d)
               /\ Len(d) = Len(c) + 1
               /\ d[Len(c) + 1] = I
               /\ \A i \in 1 .. Len(c) : d[i] = c[i]
               /\ Extends(c, d)
               /\ OpenIn(d) = IF I.op \in Jumps THEN OpenIn(c) \cup {Len(c) + 1}
                                                ELSE OpenIn(c)
               /\ NoEq(d) <=> NoEq(c) /\ I.op # "EQ"
               /\ LoopsOK(c) => LoopsOK(d)
<1>. DEFINE d == Append(c, I)
<1>1. /\ Len(c) \in Nat /\ DOMAIN c = 1 .. Len(c) /\ c \in Seq(Instrs)
      /\ \A i \in 1 .. Len(c) : c[i].target \in 0 .. Len(c)
  BY ProgramFacts DEF Program
<1>2. /\ d \in Seq(Instrs) /\ Len(d) = Len(c) + 1 /\ d[Len(c) + 1] = I
      /\ \A i \in 1 .. Len(c) : d[i] = c[i]
  BY <1>1
<1>3. DOMAIN d = 1 .. Len(c) + 1
  BY <1>2
<1>. HIDE DEF d
<1>4. Program(d)
  BY <1>1, <1>2, <1>3 DEF Program
<1>5. Extends(c, d)
  BY <1>1, <1>2 DEF Extends
<1>6. OpenIn(d) = IF I.op \in Jumps THEN OpenIn(c) \cup {Len(c) + 1} ELSE OpenIn(c)
  BY <1>1, <1>2, <1>3 DEF OpenIn
<1>7. NoEq(d) <=> NoEq(c) /\ I.op # "EQ"
  BY <1>1, <1>2, <1>3 DEF NoEq
<1>8. ASSUME LoopsOK(c) PROVE LoopsOK(d)
  <2>1. Backs(d) = Backs(c)
    BY <1>1, <1>2, <1>3 DEF Backs
  <2>2. ASSUME NEW i \in Backs(d)
        PROVE  /\ d[d[i].target].op # "NOP"
               /\ Uses(d, d[i].target, i + 1) \subseteq d[d[i].target].forced
    <3>1. i \in 1 .. Len(c) /\ d[i] = c[i] /\ c[i].target \in 1 .. i
          /\ c[i].target \in 1 .. Len(c)
      BY <2>1, <1>1, <1>2 DEF Backs
    <3>2. Uses(d, c[i].target, i + 1) = Uses(c, c[i].target, i + 1)
      <4>1. \A j \in c[i].target .. i : d[j].arg = c[j].arg /\ d[j].arg2 = c[j].arg2
        <5>1. \A j \in c[i].target .. i : d[j] = c[j]
          BY <3>1, <1>1, <1>2
        <5>. QED  BY <5>1
      <4>2. PICK s : s = c[i].target /\ s \in Nat /\ i \in Nat
        BY <3>1, <1>1
      <4>3. \A j \in s .. i : d[j].arg = c[j].arg /\ d[j].arg2 = c[j].arg2
        BY ONLY <4>1, <4>2
      <4>4. Uses(d, s, i + 1) = Uses(c, s, i + 1)
        BY ONLY <4>2, <4>3, UsesSame
      <4>. QED  BY ONLY <4>2, <4>4
    <3>. QED  BY <3>1, <3>2, <2>1, <1>2, <1>8 DEF LoopsOK
  <2>3. ASSUME NEW k \in DOMAIN d, d[k].released # {}
        PROVE  k > 1 /\ d[k].op = "NOP" /\ k - 1 \in Backs(d)
    <3>1. k \in 1 .. Len(c) /\ d[k] = c[k]
      BY <2>3, <1>1, <1>2, <1>3
    <3>. QED  BY <3>1, <2>1, <2>3, <1>1, <1>8 DEF LoopsOK
  <2>. QED  BY <2>2, <2>3 DEF LoopsOK
<1>. QED  BY <1>2, <1>4, <1>5, <1>6, <1>7, <1>8 DEF d

\* Jumps get their target.
LEMMA Patch ==
    ASSUME NEW c, Program(c), NEW L, L \subseteq OpenIn(c), NEW idx \in 1 .. Len(c)
    PROVE  LET d == BackPatch(c, L, idx)
           IN  /\ Program(d)
               /\ Len(d) = Len(c)
               /\ \A i \in 1 .. Len(c) :
                     /\ d[i].op = c[i].op /\ d[i].arg = c[i].arg
                     /\ d[i].arg2 = c[i].arg2 /\ d[i].forced = c[i].forced
                     /\ d[i].released = c[i].released
                     /\ i \in L => d[i].target = idx
                     /\ i \notin L => d[i] = c[i]
               /\ Extends(c, d)
               /\ OpenIn(d) = OpenIn(c) \ L
               /\ NoEq(d) <=> NoEq(c)
               /\ LoopsOK(c) /\ (\A x \in L : x < idx) => LoopsOK(d)
<1>. DEFINE d == BackPatch(c, L, idx)
<1>1. /\ Len(c) \in Nat /\ DOMAIN c = 1 .. Len(c) /\ c \in Seq(Instrs)
      /\ \A i \in 1 .. Len(c) : c[i] \in Instrs /\ c[i].target \in 0 .. Len(c)
  BY ProgramFacts DEF Program
<1>2. \A i \in 1 .. Len(c) : d[i] = IF i \in L THEN [c[i] EXCEPT !.target = idx] ELSE c[i]
  BY <1>1 DEF BackPatch
<1>3. \A i \in 1 .. Len(c) :
         /\ d[i] \in Instrs
         /\ d[i].target = IF i \in L THEN idx ELSE c[i].target
         /\ d[i].op = c[i].op /\ d[i].arg = c[i].arg /\ d[i].arg2 = c[i].arg2
         /\ d[i].forced = c[i].forced /\ d[i].released = c[i].released
         /\ i \notin L => d[i] = c[i]
  <2>. HIDE DEF d
  <2>. SUFFICES ASSUME NEW i \in 1 .. Len(c), i \in L
                PROVE  /\ d[i] \in Instrs /\ d[i].target = idx
                       /\ d[i].op = c[i].op /\ d[i].arg = c[i].arg
                       /\ d[i].arg2 = c[i].arg2
                       /\ d[i].forced = c[i].forced /\ d[i].released = c[i].released
    BY <1>1, <1>2
  <2>a. d[i] = [c[i] EXCEPT !.target = idx]
    BY ONLY <1>2, i \in 1 .. Len(c), i \in L, Zenon
  <2>1. d[i] = [c[i] EXCEPT !.target = idx] /\ c[i] \in Instrs /\ idx \in Nat
    BY <1>1, <2>a
  <2>. DEFINE x == c[i]
  <2>2. d[i] = [x EXCEPT !.target = idx] /\ x \in Instrs
    BY <2>1
  <2>. HIDE DEF x
  <2>3. x = [op |-> x.op, arg |-> x.arg, arg2 |-> x.arg2, result |-> x.result,
             target |-> x.target, forced |-> x.forced, released |-> x.released]
        /\ x.op \in Ops /\ x.arg \in Args /\ x.arg2 \in Args /\ x.result \in Args
        /\ x.forced \in SUBSET AllIds /\ x.released \in SUBSET AllIds
    BY <2>2 DEF Instrs
  <2>4. d[i] = [op |-> x.op, arg |-> x.arg, arg2 |-> x.arg2, result |-> x.result,
                target |-> idx, forced |-> x.forced, released |-> x.released]
    BY <2>2, <2>3
  <2>5. d[i] \in Instrs /\ d[i].target = idx /\ d[i].op = x.op
        /\ d[i].arg = x.arg /\ d[i].arg2 = x.arg2
        /\ d[i].forced = x.forced /\ d[i].released = x.released
    BY <2>1, <2>3, <2>4 DEF Instrs
  <2>. QED  BY <2>5 DEF x
<1>4. d \in Seq(Instrs) /\ Len(d) = Len(c) /\ DOMAIN d = 1 .. Len(c)
  <2>1. d \in [1 .. Len(c) -> Instrs]
    BY <1>1, <1>3 DEF BackPatch
  <2>. HIDE DEF d
  <2>. QED  BY <2>1, <1>1
<1>. HIDE DEF d
<1>5. Program(d)
  BY <1>1, <1>3, <1>4 DEF Program
<1>6. Extends(c, d)
  BY <1>1, <1>3, <1>4 DEF Extends, OpenIn
<1>7. OpenIn(d) = OpenIn(c) \ L
  BY <1>1, <1>3, <1>4 DEF OpenIn
<1>8. NoEq(d) <=> NoEq(c)
  BY <1>1, <1>3, <1>4 DEF NoEq
<1>9. ASSUME LoopsOK(c), \A x \in L : x < idx PROVE LoopsOK(d)
  <2>1. Backs(d) = Backs(c)
    BY <1>1, <1>3, <1>4, <1>9 DEF Backs, OpenIn
  <2>2. ASSUME NEW i \in Backs(d)
        PROVE  /\ d[d[i].target].op # "NOP"
               /\ Uses(d, d[i].target, i + 1) \subseteq d[d[i].target].forced
    <3>1. i \in 1 .. Len(c) /\ d[i].target = c[i].target /\ c[i].target \in 1 .. i
          /\ c[i].target \in 1 .. Len(c)
      BY <2>1, <1>1, <1>3, <1>6 DEF Backs, Extends
    <3>2. Uses(d, c[i].target, i + 1) = Uses(c, c[i].target, i + 1)
      <4>1. \A j \in c[i].target .. i : d[j].arg = c[j].arg /\ d[j].arg2 = c[j].arg2
        BY <3>1, <1>1, <1>3
      <4>2. c[i].target \in Nat /\ i \in Nat
        BY <3>1, <1>1
      <4>. QED  BY <4>1, <4>2, UsesSame
    <3>. QED  BY <3>1, <3>2, <2>1, <1>3, <1>9 DEF LoopsOK
  <2>3. ASSUME NEW k \in DOMAIN d, d[k].released # {}
        PROVE  k > 1 /\ d[k].op = "NOP" /\ k - 1 \in Backs(d)
    BY <2>1, <2>3, <1>1, <1>3, <1>4, <1>9 DEF LoopsOK
  <2>. QED  BY <2>2, <2>3 DEF LoopsOK
<1>. QED  BY <1>3, <1>4, <1>5, <1>6, <1>7, <1>8, <1>9 DEF d

LEMMA PatchStep ==
    ASSUME NEW c, Program(c), NEW L, L \subseteq OpenIn(c), NEW idx \in 1 .. Len(c),
           NEW d, d = BackPatch(c, L, idx)
    PROVE  /\ Program(d) /\ Len(d) = Len(c) /\ Extends(c, d)
           /\ OpenIn(d) = OpenIn(c) \ L
           /\ NoEq(d) <=> NoEq(c)
           /\ LoopsOK(c) /\ (\A x \in L : x < idx) => LoopsOK(d)
  BY Patch

LEMMA PatchFields ==
    ASSUME NEW c, Program(c), NEW L, L \subseteq OpenIn(c), NEW idx \in 1 .. Len(c),
           NEW d, d = BackPatch(c, L, idx), NEW i \in 1 .. Len(c)
    PROVE  /\ d[i].op = c[i].op /\ d[i].arg = c[i].arg /\ d[i].arg2 = c[i].arg2
           /\ d[i].forced = c[i].forced /\ d[i].released = c[i].released
           /\ d[i].target = IF i \in L THEN idx ELSE c[i].target
<1>1. /\ DOMAIN c = 1 .. Len(c) /\ c[i] \in Instrs /\ idx \in Nat
      /\ d[i] = IF i \in L THEN [c[i] EXCEPT !.target = idx] ELSE c[i]
  <2>1. DOMAIN c = 1 .. Len(c) /\ c[i] \in Instrs /\ idx \in Nat
    BY ProgramFacts
  <2>. QED  BY <2>1 DEF BackPatch
<1>. DEFINE x == c[i]
            y == [x EXCEPT !.target = idx]
<1>2. x \in Instrs /\ d[i] = IF i \in L THEN y ELSE x
  BY <1>1
<1>3. /\ y.op = x.op /\ y.arg = x.arg /\ y.arg2 = x.arg2
      /\ y.target = idx /\ y.forced = x.forced /\ y.released = x.released
  <2>. HIDE DEF x
  <2>. QED  BY ONLY <1>1, <1>2, InstrTarget
<1>. HIDE DEF y
<1>. QED  BY <1>2, <1>3

LEMMA PatchElse ==
    ASSUME NEW c, Program(c), NEW L, L \subseteq OpenIn(c), NEW idx \in 1 .. Len(c),
           NEW i \in 1 .. Len(c), i \notin L
    PROVE  BackPatch(c, L, idx)[i] = c[i]
<1>1. DOMAIN c = 1 .. Len(c)
  BY ProgramFacts
<1>. QED  BY <1>1 DEF BackPatch

-----------------------------------------------------------------------------
(***************************************************************************)
(* The parse stack                                                         *)
(***************************************************************************)
LEMMA HeldAppend ==
    ASSUME NEW p, IsSeq(p), NEW fr
    PROVE  Held(Append(p, fr)) = Held(p) \cup Lists(fr)
<1>. DEFINE q == Append(p, fr)
<1>1. /\ Len(p) \in Nat /\ DOMAIN p = 1 .. Len(p) /\ DOMAIN q = 1 .. Len(p) + 1
      /\ (\A k \in 1 .. Len(p) : q[k] = p[k]) /\ q[Len(p) + 1] = fr
  BY SeqAppend, SeqFacts
<1>. HIDE DEF q
<1>2. \A x : x \in Held(q) <=> x \in Held(p) \/ x \in Lists(fr)
  BY <1>1 DEF Held
<1>. QED  BY <1>2 DEF q

LEMMA HeldFront ==
    ASSUME NEW p, IsSeq(p), p # << >>
    PROVE  Held(p) = Held(Front(p)) \cup Lists(Last(p))
<1>. DEFINE q == Front(p)
<1>1. /\ Len(p) \in Nat /\ Len(p) > 0 /\ DOMAIN p = 1 .. Len(p)
      /\ DOMAIN q = 1 .. Len(p) - 1
      /\ (\A k \in 1 .. Len(p) - 1 : q[k] = p[k]) /\ Last(p) = p[Len(p)]
  BY SeqFront, SeqFacts
<1>. HIDE DEF q
<1>2. \A x : x \in Held(p) <=> x \in Held(q) \/ x \in Lists(Last(p))
  BY <1>1 DEF Held
<1>. QED  BY <1>2 DEF q

LEMMA ApartAppend ==
    ASSUME NEW p, IsSeq(p), NEW fr, Apart(p), Distinct(fr),
           Lists(fr) \cap Held(p) = {}
    PROVE  Apart(Append(p, fr))
<1>. DEFINE q == Append(p, fr)
<1>1. /\ Len(p) \in Nat /\ DOMAIN p = 1 .. Len(p) /\ DOMAIN q = 1 .. Len(p) + 1
      /\ (\A k \in 1 .. Len(p) : q[k] = p[k]) /\ q[Len(p) + 1] = fr
  BY SeqAppend, SeqFacts
<1>. HIDE DEF q
<1>2. \A k \in DOMAIN q : Distinct(q[k])
  BY <1>1 DEF Apart
<1>3. \A k \in 1 .. Len(p) : Lists(p[k]) \cap Lists(fr) = {}
  BY <1>1 DEF Held
<1>4. \A j, k \in DOMAIN q : j # k => Lists(q[j]) \cap Lists(q[k]) = {}
  BY <1>1, <1>3 DEF Apart
<1>. QED  BY <1>2, <1>4 DEF Apart, q

LEMMA ApartFront ==
    ASSUME NEW p, IsSeq(p), p # << >>, Apart(p)
    PROVE  /\ Apart(Front(p))
           /\ Distinct(Last(p))
           /\ Lists(Last(p)) \cap Held(Front(p)) = {}
<1>. DEFINE q == Front(p)
<1>1. /\ Len(p) \in Nat /\ Len(p) > 0 /\ DOMAIN p = 1 .. Len(p)
      /\ DOMAIN q = 1 .. Len(p) - 1
      /\ (\A k \in 1 .. Len(p) - 1 : q[k] = p[k]) /\ Last(p) = p[Len(p)]
  BY SeqFront, SeqFacts
<1>. HIDE DEF q
<1>2. Apart(q) /\ Distinct(Last(p))
  BY <1>1 DEF Apart
<1>3. \A k \in DOMAIN q : Lists(q[k]) \cap Lists(Last(p)) = {}
  BY <1>1 DEF Apart
<1>. QED  BY <1>2, <1>3 DEF Held, q

LEMMA FramesAppend ==
    ASSUME NEW c, NEW p, NEW fr, FramesOK(c, p), FrameOK(c, fr)
    PROVE  FramesOK(c, Append(p, fr))
<1>. DEFINE q == Append(p, fr)
<1>1. /\ IsSeq(q) /\ Len(p) \in Nat /\ DOMAIN p = 1 .. Len(p)
      /\ DOMAIN q = 1 .. Len(p) + 1
      /\ (\A k \in 1 .. Len(p) : q[k] = p[k]) /\ q[Len(p) + 1] = fr
  BY SeqAppend, SeqFacts DEF FramesOK
<1>. HIDE DEF q
<1>2. \A k \in DOMAIN q : FrameOK(c, q[k])
  BY <1>1 DEF FramesOK
<1>. QED  BY <1>1, <1>2 DEF FramesOK, q

LEMMA FramesFront ==
    ASSUME NEW c, NEW p, FramesOK(c, p), p # << >>
    PROVE  FramesOK(c, Front(p)) /\ FrameOK(c, Last(p))
<1>. DEFINE q == Front(p)
<1>1. /\ IsSeq(q) /\ Len(p) \in Nat /\ Len(p) > 0 /\ DOMAIN p = 1 .. Len(p)
      /\ DOMAIN q = 1 .. Len(p) - 1
      /\ (\A k \in 1 .. Len(p) - 1 : q[k] = p[k]) /\ Last(p) = p[Len(p)]
  BY SeqFront, SeqFacts DEF FramesOK
<1>. HIDE DEF q
<1>2. \A k \in DOMAIN q : FrameOK(c, q[k])
  BY <1>1 DEF FramesOK
<1>. QED  BY <1>1, <1>2 DEF FramesOK, q

\* The code grows; unless a loop waits for its first instruction, by anything.
LEMMA FramesGrow ==
    ASSUME NEW c, NEW d, NEW p, Program(c), Program(d), Extends(c, d),
           FramesOK(c, p),
           \/ \A k \in DOMAIN p : p[k].kind # "whilecond"
           \/ Len(c) + 1 \in DOMAIN d => d[Len(c) + 1].op # "NOP"
    PROVE  FramesOK(d, p)
<1>1. /\ Len(c) \in Nat /\ Len(d) \in Nat /\ Len(c) =< Len(d)
      /\ DOMAIN c = 1 .. Len(c) /\ DOMAIN d = 1 .. Len(d)
      /\ Here(c) = Len(c) + 1 /\ Here(d) = Len(d) + 1
      /\ \A i \in 1 .. Len(c) : d[i].op = c[i].op
  BY ProgramFacts DEF Extends
<1>2. ASSUME NEW k \in DOMAIN p
      PROVE  FrameOK(d, p[k])
  <2>. DEFINE fr == p[k]
  <2>1. FrameOK(c, fr) /\ (fr.kind # "whilecond"
             \/ (Len(c) + 1 \in DOMAIN d => d[Len(c) + 1].op # "NOP"))
    BY <1>2 DEF FramesOK
  <2>. HIDE DEF fr
  <2>2. fr.enter \in 0 .. Here(d) /\ fr.mark \in 0 .. Here(d)
    BY <2>1, <1>1 DEF FrameOK
  <2>3. fr.kind = "body" => fr.mark \in DOMAIN d
    BY <2>1, <1>1 DEF FrameOK
  <2>4. fr.kind \in {"whilecond", "body"} => (fr.mark \in DOMAIN d => d[fr.mark].op # "NOP")
    <3>1. CASE fr.mark \in DOMAIN c
      BY <3>1, <2>1, <1>1 DEF FrameOK
    <3>2. CASE fr.mark \notin DOMAIN c
      <4>1. fr.kind \in {"whilecond", "body"} => fr.mark = Len(c) + 1
        BY <3>2, <2>1, <1>1 DEF FrameOK
      <4>. QED  BY <4>1, <3>2, <2>1 DEF FrameOK
    <3>. QED  BY <3>1, <3>2
  <2>5. FrameOK(d, fr)
    BY <2>1, <2>2, <2>3, <2>4 DEF FrameOK
  <2>. QED  BY <2>5 DEF fr
<1>. QED  BY <1>2 DEF FramesOK

LEMMA NoCondition ==
    ASSUME NEW p, NEW n, IsSeq(p), Nested(p, n), n \notin {"operand", "value"}
    PROVE  \A k \in DOMAIN p : p[k].kind \notin CondKinds
<1>1. Len(p) \in Nat /\ DOMAIN p = 1 .. Len(p) /\ (p = << >> <=> Len(p) = 0)
  BY SeqFacts
<1>2. SUFFICES ASSUME NEW k \in DOMAIN p, p[k].kind \in CondKinds PROVE FALSE
  OBVIOUS
<1>3. p # << >> /\ Last(p) = p[Len(p)] /\ Last(p).kind \notin CondKinds
  BY <1>1, <1>2 DEF Nested, Last
<1>4. k < Len(p) => p[Len(p)].kind \in Infix
  BY <1>1, <1>2 DEF Nested
<1>. QED  BY <1>1, <1>2, <1>3, <1>4 DEF Infix, CondKinds

\* A statement begins: the rest of the stack holds no condition.
LEMMA NestedPush ==
    ASSUME NEW p, NEW n, NEW fr, NEW m, IsSeq(p), Nested(p, n),
           n \notin {"operand", "value"}, fr.kind \notin Infix,
           m \in {"operand", "value"} <=> fr.kind \in CondKinds
    PROVE  Nested(Append(p, fr), m)
<1>. DEFINE q == Append(p, fr)
<1>1. /\ Len(p) \in Nat /\ DOMAIN p = 1 .. Len(p) /\ DOMAIN q = 1 .. Len(p) + 1
      /\ (\A k \in 1 .. Len(p) : q[k] = p[k]) /\ q[Len(p) + 1] = fr
      /\ q # << >> /\ Last(q) = fr
  <2>1. Len(p) \in Nat /\ DOMAIN p = 1 .. Len(p)
    BY SeqFacts
  <2>0. IsSeq(p)
    OBVIOUS
  <2>2. IsSeq(q) /\ Len(q) = Len(p) + 1 /\ q[Len(p) + 1] = fr /\ q # << >>
        /\ Last(q) = fr /\ \A k \in 1 .. Len(p) : q[k] = p[k]
    BY ONLY <2>0, SeqAppend DEF q
  <2>. HIDE DEF q
  <2>3. DOMAIN q = 1 .. Len(q)
    BY <2>2, SeqFacts
  <2>. QED  BY <2>1, <2>2, <2>3
<1>2. \A k \in 1 .. Len(p) : p[k].kind \notin CondKinds
  BY NoCondition, <1>1
<1>. HIDE DEF q
<1>3. \A j, k \in DOMAIN q : j < k /\ q[j].kind \in CondKinds => q[k].kind \in Infix
  BY <1>1, <1>2
<1>4. \A k \in DOMAIN q : q[k].kind \in Infix => k > 1 /\ q[k - 1].kind \in CondKinds
  BY <1>1, <1>2 DEF CondKinds, Infix
<1>. QED  BY <1>1, <1>3, <1>4 DEF Nested, q

\* The right operand of a condition begins.
LEMMA NestedInfix ==
    ASSUME NEW p, NEW fr, IsSeq(p), Nested(p, "value"), fr.kind \in Infix
    PROVE  Nested(Append(p, fr), "operand")
<1>. DEFINE q == Append(p, fr)
<1>1. /\ Len(p) \in Nat /\ DOMAIN p = 1 .. Len(p) /\ DOMAIN q = 1 .. Len(p) + 1
      /\ (\A k \in 1 .. Len(p) : q[k] = p[k]) /\ q[Len(p) + 1] = fr
      /\ q # << >> /\ Last(q) = fr
  <2>1. Len(p) \in Nat /\ DOMAIN p = 1 .. Len(p)
    BY SeqFacts
  <2>0. IsSeq(p)
    OBVIOUS
  <2>2. IsSeq(q) /\ Len(q) = Len(p) + 1 /\ q[Len(p) + 1] = fr /\ q # << >>
        /\ Last(q) = fr /\ \A k \in 1 .. Len(p) : q[k] = p[k]
    BY ONLY <2>0, SeqAppend DEF q
  <2>. HIDE DEF q
  <2>3. DOMAIN q = 1 .. Len(q)
    BY <2>2, SeqFacts
  <2>. QED  BY <2>1, <2>2, <2>3
<1>. HIDE DEF q
<1>2. p # << >> /\ Last(p).kind \in CondKinds /\ Last(p) = p[Len(p)] /\ Len(p) > 0
  BY <1>1, SeqFacts DEF Nested, Last
<1>3. \A j, k \in DOMAIN q : j < k /\ q[j].kind \in CondKinds => q[k].kind \in Infix
  BY <1>1 DEF Nested
<1>4. \A k \in DOMAIN q : q[k].kind \in Infix => k > 1 /\ q[k - 1].kind \in CondKinds
  <2>1. \A k \in 1 .. Len(p) : p[k].kind \in Infix => k > 1 /\ q[k - 1].kind \in CondKinds
    BY <1>1 DEF Nested
  <2>. QED  BY <1>1, <1>2, <2>1
<1>. QED  BY <1>1, <1>3, <1>4 DEF Nested, q, CondKinds, Infix

\* A construct that is no operand ends.
LEMMA NestedPop ==
    ASSUME NEW p, NEW n, NEW m, IsSeq(p), p # << >>, Nested(p, n),
           Last(p).kind \notin Infix, m \notin {"operand", "value"}
    PROVE  Nested(Front(p), m) /\ \A k \in DOMAIN Front(p) : Front(p)[k].kind \notin CondKinds
<1>. DEFINE q == Front(p)
<1>1. /\ IsSeq(q) /\ Len(p) \in Nat /\ Len(p) > 0 /\ DOMAIN p = 1 .. Len(p)
      /\ Len(q) = Len(p) - 1 /\ DOMAIN q = 1 .. Len(p) - 1
      /\ (\A k \in 1 .. Len(p) - 1 : q[k] = p[k]) /\ Last(p) = p[Len(p)]
  BY SeqFront, SeqFacts
<1>. HIDE DEF q
<1>2. \A k \in DOMAIN q : q[k].kind \notin CondKinds
  BY <1>1 DEF Nested
<1>3. q # << >> => Last(q).kind \notin CondKinds
  BY <1>1, <1>2, SeqFacts DEF Last
<1>. QED  BY <1>2, <1>3 DEF Nested, q, CondKinds, Infix

\* An operand ends.
LEMMA NestedPopInfix ==
    ASSUME NEW p, NEW n, IsSeq(p), p # << >>, Nested(p, n), Last(p).kind \in Infix
    PROVE  Nested(Front(p), "value")
<1>. DEFINE q == Front(p)
<1>1. /\ IsSeq(q) /\ Len(p) \in Nat /\ Len(p) > 0 /\ DOMAIN p = 1 .. Len(p)
      /\ Len(q) = Len(p) - 1 /\ DOMAIN q = 1 .. Len(p) - 1
      /\ (\A k \in 1 .. Len(p) - 1 : q[k] = p[k]) /\ Last(p) = p[Len(p)]
  BY SeqFront, SeqFacts
<1>. HIDE DEF q
<1>2. Len(p) > 1 /\ p[Len(p) - 1].kind \in CondKinds
  BY <1>1 DEF Nested
<1>3. q # << >> /\ Last(q).kind \in CondKinds
  BY <1>1, <1>2, SeqFacts DEF Last
<1>4. \A j, k \in DOMAIN q : j < k /\ q[j].kind \in CondKinds => q[k].kind \in Infix
  BY <1>1 DEF Nested
<1>5. \A k \in DOMAIN q : q[k].kind \in Infix => k > 1 /\ q[k - 1].kind \in CondKinds
  BY <1>1 DEF Nested
<1>. QED  BY <1>3, <1>4, <1>5 DEF Nested, q

LEMMA WrittenFront ==
    ASSUME NEW c, NEW p, NEW n, IsSeq(p), p # << >>, Written(c, p, n)
    PROVE  Written(c, Front(p), n)
<1>1. /\ Len(p) \in Nat /\ DOMAIN p = 1 .. Len(p) /\ DOMAIN Front(p) = 1 .. Len(p) - 1
      /\ (\A k \in 1 .. Len(p) - 1 : Front(p)[k] = p[k])
  BY SeqFront, SeqFacts
<1>. QED  BY <1>1 DEF Written

LEMMA WrittenGrow ==
    ASSUME NEW c, NEW d, NEW p, NEW n, Program(c), Program(d), Extends(c, d),
           Written(c, p, n)
    PROVE  Written(d, p, n)
<1>1. DOMAIN c \subseteq DOMAIN d
  BY ProgramFacts DEF Extends
<1>. QED  BY <1>1 DEF Written

-----------------------------------------------------------------------------
(***************************************************************************)
(* What a state gives                                                      *)
(***************************************************************************)
LEMMA State ==
    ASSUME IInv
    PROVE  /\ Program(code) /\ LoopsOK(code) /\ FramesOK(code, parse)
           /\ IsSeq(parse) /\ Nested(parse, next) /\ Written(code, parse, next)
           /\ Apart(parse) /\ val.t \cap val.f = {}
           /\ (val.t \cup val.f) \cap Held(parse) = {}
           /\ Held(parse) \cup val.t \cup val.f \subseteq OpenIn(code)
           /\ NoEq(code) => OpenIn(code) \subseteq Held(parse) \cup val.t \cup val.f
           /\ val.level \in Levels
           /\ next # "value" => val.t = {} /\ val.f = {}
           /\ Waiting(terms) /\ next \in Phases
           /\ Len(code) \in Nat /\ DOMAIN code = 1 .. Len(code)
           /\ Here(code) = Len(code) + 1
  BY ProgramFacts DEF IInv, StateOK, FramesOK, Ledger, ValueOK

LEMMA StateTop ==
    ASSUME IInv, parse # << >>
    PROVE  /\ IsSeq(Outer) /\ FramesOK(code, Outer) /\ FrameOK(code, Top)
           /\ Held(parse) = Held(Outer) \cup Lists(Top)
           /\ Apart(Outer) /\ Distinct(Top) /\ Lists(Top) \cap Held(Outer) = {}
           /\ Written(code, Outer, next)
           /\ Top = parse[Len(parse)] /\ Len(parse) \in DOMAIN parse
  BY State, HeldFront, ApartFront, FramesFront, SeqFront, SeqFacts, WrittenFront
  DEF Outer, Top

\* What a step has to keep, of the next state.
StepOK == StateOK(code', parse', val', next') /\ Extends(code, code')

LEMMA StepGivesInv ==
    ASSUME IInv, StepOK, Len(code') =< MaxInstrs, next' \in Phases, Waiting(terms')
    PROVE  IInv'
  BY DEF IInv, StepOK, StateOK, Program, LoopsOK, FramesOK, Ledger, Nested, Written,
         ValueOK, Waiting, FrameOK, Held, Apart, OpenIn, NoEq, Backs, Uses

LEMMA WaitingNone == Waiting(<< >>)
  BY DEF Waiting, IsSeq

LEMMA NoValueType ==
    ASSUME NEW src
    PROVE  /\ NoValue(src).t = {} /\ NoValue(src).f = {}
           /\ NoValue(src).level \in Levels
  BY DEF NoValue, Value, Levels

(***************************************************************************)
(* Steps without new code                                                  *)
(***************************************************************************)
LEMMA Stays ==
    ASSUME IInv, next \in {"statement", "reduced"}, code' = code, parse' = parse,
           val'.t = {}, val'.f = {}, val'.level \in Levels,
           next' \in {"reduced", "accepted", "aborted"}
    PROVE  StepOK
<1>1. Ledger(code', parse', val')
  BY State DEF Ledger
<1>2. Nested(parse', next') /\ Written(code', parse', next') /\ ValueOK(val', next')
  BY State DEF Nested, Written, ValueOK
<1>. QED  BY <1>1, <1>2, State, ExtendsReflexive DEF StepOK, StateOK

\* A construct without a condition so far begins.
LEMMA BeginsBare ==
    ASSUME IInv, next = "statement", code' = code, NEW fr,
           parse' = Append(parse, fr), FrameOK(code, fr), Lists(fr) = {},
           fr.t = {}, fr.f = {},
           fr.kind \notin Infix, next' \in {"statement", "operand"},
           next' = "operand" <=> fr.kind \in CondKinds,
           NEW src, val' = NoValue(src)
    PROVE  StepOK
<1>1. FramesOK(code', parse') /\ Program(code') /\ LoopsOK(code')
  BY State, FramesAppend
<1>2. Apart(parse') /\ Held(parse') = Held(parse)
  <2>1. Distinct(fr)
    BY DEF Distinct, Lists
  <2>. QED  BY <2>1, State, ApartAppend, HeldAppend
<1>3. Ledger(code', parse', val')
  BY <1>2, State, NoValueType DEF Ledger
<1>4. Nested(parse', next')
  BY State, NestedPush
<1>5. Written(code', parse', next') /\ ValueOK(val', next')
  BY NoValueType DEF Written, ValueOK
<1>. QED  BY <1>1, <1>3, <1>4, <1>5, State, ExtendsReflexive DEF StepOK, StateOK

\* The state after the construct on top, which had no lists, ends or goes on.
LEMMA ClosesBlock ==
    ASSUME IInv, next = "reduced", Inside({"block"}), code' = code, parse' = Outer,
           NEW src, val' = NoValue(src), next' = "reduced"
    PROVE  StepOK
<1>1. parse # << >> /\ Top.kind = "block" /\ Lists(Top) = {}
  BY StateTop DEF Inside, FrameOK, Lists, Skip
<1>2. Ledger(code', parse', val')
  BY <1>1, State, StateTop, NoValueType DEF Ledger
<1>3. Nested(parse', next')
  BY <1>1, State, NestedPop DEF Top, Outer, Infix
<1>4. Written(code', parse', next') /\ ValueOK(val', next')
  BY NoValueType DEF Written, ValueOK
<1>. QED  BY <1>1, <1>2, <1>3, <1>4, State, StateTop, ExtendsReflexive DEF StepOK, StateOK

LEMMA FrameExcept ==
    ASSUME NEW kind, NEW t, NEW f, NEW enter, NEW mark, NEW id, NEW old, NEW src
    PROVE  [Frame(kind, t, f, enter, mark, id, old) EXCEPT !.src = src]
             = Frame(kind, t, f, enter, mark, id, src)
  BY DEF Frame

LEMMA GoesOn ==
    ASSUME IInv, next = "reduced", Inside({"block"}), code' = code, NEW src,
           parse' = Append(Outer, [Top EXCEPT !.src = src]), NEW src2,
           val' = NoValue(src2), next' = "statement"
    PROVE  StepOK
<1>. DEFINE fr == [Top EXCEPT !.src = src]
<1>1. parse # << >> /\ Top.kind = "block" /\ Top.t = {} /\ Top.f = {} /\ Lists(Top) = {}
  BY StateTop DEF Inside, FrameOK, Lists, Skip
<1>2. fr = Frame("block", {}, {}, Top.enter, Top.mark, Top.id, src)
  <2>. DEFINE x == Top
  <2>1. x = Frame("block", {}, {}, x.enter, x.mark, x.id, x.src)
    BY <1>1, StateTop DEF FrameOK
  <2>2. fr = [x EXCEPT !.src = src]
    OBVIOUS
  <2>. HIDE DEF x, fr
  <2>3. fr = [Frame("block", {}, {}, x.enter, x.mark, x.id, x.src) EXCEPT !.src = src]
    BY <2>1, <2>2
  <2>4. fr = Frame("block", {}, {}, x.enter, x.mark, x.id, src)
    BY <2>3, FrameExcept
  <2>. QED  BY <2>4 DEF x
<1>. HIDE DEF fr
<1>3. fr.kind = "block" /\ fr.t = {} /\ fr.f = {} /\ fr.enter = Top.enter
      /\ fr.mark = Top.mark /\ fr.id = Top.id /\ fr.src = src
  BY <1>2 DEF Frame
<1>4. FrameOK(code, fr) /\ Lists(fr) = {} /\ Distinct(fr)
  BY <1>1, <1>2, <1>3, StateTop DEF FrameOK, Lists, Skip, Distinct
<1>5. FramesOK(code', parse') /\ Apart(parse') /\ Held(parse') = Held(Outer)
  BY <1>1, <1>4, StateTop, FramesAppend, ApartAppend, HeldAppend DEF fr
<1>6. Ledger(code', parse', val')
  BY <1>1, <1>5, State, StateTop, NoValueType DEF Ledger
<1>7. Nested(parse', next')
  <2>1. Nested(Outer, next)
    BY <1>1, State, NestedPop DEF Top, Outer, Infix
  <2>2. IsSeq(Outer) /\ next \notin {"operand", "value"} /\ fr.kind \notin Infix
        /\ (next' \in {"operand", "value"} <=> fr.kind \in CondKinds)
    BY <1>3, StateTop, <1>1 DEF Infix, CondKinds
  <2>3. Nested(Append(Outer, fr), next')
    BY <2>1, <2>2, NestedPush
  <2>. QED  BY <2>3 DEF fr
<1>8. Written(code', parse', next') /\ ValueOK(val', next')
  BY NoValueType DEF Written, ValueOK
<1>. QED  BY <1>5, <1>6, <1>7, <1>8, State, ExtendsReflexive DEF StepOK, StateOK

(***************************************************************************)
(* Steps that append code                                                  *)
(***************************************************************************)

\* An instruction that is no jump, in a statement or an operand.
LEMMA AppendsPlain ==
    ASSUME IInv, NEW I \in Instrs, I.target = 0, I.released = {},
           I.op \notin Jumps, I.op # "NOP",
           code' = Append(code, I), parse' = parse,
           val'.t = {}, val'.f = {}, val'.level \in Levels,
           \/ next \in {"statement", "operand"} /\ next' = next
           \/ next = "statement" /\ next' = "reduced"
    PROVE  StepOK
<1>1. /\ Program(code') /\ Extends(code, code') /\ OpenIn(code') = OpenIn(code)
      /\ NoEq(code') <=> NoEq(code) /\ I.op # "EQ"
      /\ code'[Len(code) + 1] = I /\ LoopsOK(code')
  BY State, AppendInstr
<1>2. FramesOK(code', parse')
  BY <1>1, State, FramesGrow
<1>3. Ledger(code', parse', val')
  BY <1>1, State DEF Ledger
<1>4. Nested(parse', next') /\ Written(code', parse', next') /\ ValueOK(val', next')
  BY State DEF Nested, Written, ValueOK
<1>. QED  BY <1>1, <1>2, <1>3, <1>4 DEF StepOK, StateOK

\* A condition without parts: its jumps are on its lists.
LEMMA MakesValue ==
    ASSUME IInv, next = "operand", Program(code'), LoopsOK(code'),
           Extends(code, code'), Len(code') > Len(code),
           code'[Len(code) + 1].op # "NOP",
           NoEq(code') => NoEq(code),
           OpenIn(code') = OpenIn(code) \cup val'.t \cup val'.f,
           (val'.t \cup val'.f) \cap OpenIn(code) = {}, val'.t \cap val'.f = {},
           val'.level \in Levels, parse' = parse, next' = "value"
    PROVE  StepOK
<1>1. FramesOK(code', parse')
  BY State, FramesGrow
<1>2. Ledger(code', parse', val')
  BY State DEF Ledger
<1>3. Nested(parse', next') /\ ValueOK(val', next')
  BY State DEF Nested, ValueOK
<1>4. Written(code', parse', next')
  <2>1. Len(code') \in Nat /\ DOMAIN code' = 1 .. Len(code')
    BY ProgramFacts
  <2>2. ASSUME NEW k \in DOMAIN parse
        PROVE  /\ parse[k].kind \in {"and", "or"} => parse[k].enter \in DOMAIN code'
               /\ parse[k].kind = "whilecond" => parse[k].mark \in DOMAIN code'
    <3>1. FrameOK(code, parse[k])
      BY State DEF FramesOK
    <3>. QED  BY <2>1, <3>1, State DEF FrameOK
  <2>. QED  BY <2>2 DEF Written
<1>. QED  BY <1>1, <1>2, <1>3, <1>4 DEF StepOK, StateOK

(***************************************************************************)
(* Steps that hand lists on to the construct they begin                    *)
(***************************************************************************)
LEMMA ValueListsBelow ==
    ASSUME IInv
    PROVE  \A x \in val.t \cup val.f : x \in Nat /\ x > 0 /\ x < Here(code)
  BY State, ProgramFacts

LEMMA BeginsInfix ==
    ASSUME IInv, next = "value", code' = code, NEW fr,
           parse' = Append(parse, fr), FrameOK(code, fr), fr.kind \in Infix,
           fr.t = val.t, fr.f = val.f,
           NEW src, val' = NoValue(src), next' = "operand"
    PROVE  StepOK
<1>1. FramesOK(code', parse')
  BY State, FramesAppend
<1>2. Lists(fr) = val.t \cup val.f /\ Distinct(fr)
  BY State DEF Lists, Skip, Distinct, Infix
<1>3. Apart(parse') /\ Held(parse') = Held(parse) \cup val.t \cup val.f
  BY <1>2, State, ApartAppend, HeldAppend
<1>4. Ledger(code', parse', val')
  BY <1>3, State, NoValueType DEF Ledger
<1>5. Nested(parse', next')
  BY State, NestedInfix
<1>6. Written(code', parse', next') /\ ValueOK(val', next')
  BY NoValueType DEF Written, ValueOK
<1>. QED  BY <1>1, <1>4, <1>5, <1>6, State, ExtendsReflexive DEF StepOK, StateOK

\* The branch of an if is in a block.
LEMMA BlockInside ==
    ASSUME NEW c, NEW p, NEW v, StateOK(c, p, v, "statement")
    PROVE  StateOK(c, Append(p, Bare("block", 0, None)), v, "statement")
<1>. DEFINE fr == Bare("block", 0, None)
<1>1. FrameOK(c, fr) /\ Lists(fr) = {} /\ Distinct(fr) /\ fr.kind = "block"
  <2>1. Len(c) \in Nat /\ Here(c) = Len(c) + 1
    BY ProgramFacts DEF StateOK
  <2>. QED  BY <2>1 DEF Bare, Frame, FrameOK, Kinds, Lists, Skip, Distinct
<1>. HIDE DEF fr
<1>. DEFINE q == Append(p, fr)
<1>2. IsSeq(p) /\ FramesOK(c, q)
  BY <1>1, FramesAppend DEF StateOK, FramesOK
<1>3. Apart(q) /\ Held(q) = Held(p)
  BY <1>1, <1>2, ApartAppend, HeldAppend DEF StateOK, Ledger
<1>4. Nested(q, "statement")
  BY <1>1, <1>2, NestedPush DEF StateOK, Infix, CondKinds
<1>. HIDE DEF q
<1>5. Ledger(c, q, v) /\ Written(c, q, "statement")
  BY <1>3 DEF StateOK, Ledger, Written
<1>6. StateOK(c, q, v, "statement")
  BY <1>2, <1>4, <1>5 DEF StateOK
<1>. QED  BY <1>6 DEF q, fr

\* The condition of an if or a loop is complete.
LEMMA EndsCondition ==
    ASSUME IInv, next = "value", Inside({"ifcond", "whilecond"}), NEW fr,
           FrameOK(code, fr), fr.kind \in {"then", "body"},
           fr.t = val.t, fr.f = val.f, NEW src
    PROVE  StateOK(code, Append(Outer, fr), NoValue(src), "statement")
<1>. DEFINE q == Append(Outer, fr)
<1>1. parse # << >> /\ Top.kind \in {"ifcond", "whilecond"} /\ Lists(Top) = {}
  BY StateTop DEF Inside, FrameOK, Lists, Skip
<1>2. FramesOK(code, q)
  BY <1>1, StateTop, FramesAppend
<1>3. Lists(fr) = val.t \cup val.f /\ Distinct(fr)
  BY State DEF Lists, Skip, Distinct
<1>4. Apart(q) /\ Held(q) = Held(Outer) \cup val.t \cup val.f /\ Held(parse) = Held(Outer)
  BY <1>1, <1>3, State, StateTop, ApartAppend, HeldAppend
<1>5. Nested(q, "statement")
  <2>1. Nested(Outer, "statement")
    BY <1>1, State, NestedPop DEF Top, Outer, Infix
  <2>. QED  BY <1>1, <2>1, StateTop, NestedPush DEF Infix, CondKinds
<1>. HIDE DEF q
<1>6. Ledger(code, q, NoValue(src))
  BY <1>4, State, NoValueType DEF Ledger
<1>7. Written(code, q, "statement") /\ ValueOK(NoValue(src), "statement")
  BY NoValueType DEF Written, ValueOK
<1>8. StateOK(code, q, NoValue(src), "statement")
  BY <1>2, <1>5, <1>6, <1>7, State DEF StateOK
<1>. QED  BY <1>8 DEF q

-----------------------------------------------------------------------------
(***************************************************************************)
(* The actions, one by one                                                 *)
(***************************************************************************)
LEMMA PlainStep ==
    ASSUME IInv, NEW op \in Ops, op \notin Jumps, op # "NOP",
           NEW a \in Args, NEW a2 \in Args, NEW r \in Args,
           code' = Append(code, Instr(op, a, a2, r)), parse' = parse,
           \/ /\ next = "statement" /\ next' = "reduced"
              /\ val'.t = {} /\ val'.f = {} /\ val'.level \in Levels
           \/ next \in {"statement", "operand"} /\ next' = next /\ val' = val
    PROVE  StepOK
<1>1. LET I == Instr(op, a, a2, r)
      IN  I \in Instrs /\ I.op = op /\ I.target = 0 /\ I.released = {}
  BY InstrType
<1>2. val'.t = {} /\ val'.f = {} /\ val'.level \in Levels
  BY State
<1>. QED  BY <1>1, <1>2, AppendsPlain

LEMMA PrintIdentOK ==
    ASSUME IInv, NEW id \in Ids, PrintIdent(id)
    PROVE  StepOK
<1>. DEFINE src == << "print", << "is", id >> >>
<1>1. code' = Append(code, Instr("PRINT", id, None, None)) /\ parse' = parse
      /\ val' = NoValue(src) /\ next = "statement" /\ next' = "reduced"
  BY DEF PrintIdent, Reduced, Go
<1>. HIDE DEF src
<1>2. "PRINT" \in Ops /\ "PRINT" \notin Jumps /\ id \in Args /\ None \in Args
  BY DEF Ops, Jumps, CondOps, RelOps, Args
<1>. QED  BY <1>1, <1>2, NoValueType, PlainStep

\* Operands: where they are, and what waits after they are used.
LEMMA WaitingFront ==
    ASSUME NEW w, Waiting(w), w # << >>
    PROVE  Waiting(Front(w)) /\ Last(w).place \in ToSet(Temps)
<1>1. IsSeq(w) /\ IsSeq(Front(w)) /\ Len(w) \in Nat /\ Len(w) > 0
  BY SeqFront, SeqFacts DEF Waiting
<1>2. DOMAIN w = 1 .. Len(w) /\ DOMAIN Front(w) = 1 .. Len(w) - 1
      /\ Last(w) = w[Len(w)] /\ \A i \in 1 .. Len(w) - 1 : Front(w)[i] = w[i]
  BY <1>1, SeqFront, SeqFacts
<1>. QED  BY <1>1, <1>2 DEF Waiting

LEMMA PlainPlace ==
    ASSUME NEW arg
    PROVE  Plain(arg).place = arg
  BY DEF Plain, Term

LEMMA PairType ==
    ASSUME Waiting(terms), NEW op, NEW pair \in Pairs(op)
    PROVE  pair.a.place \in Args /\ pair.b.place \in Args /\ Waiting(pair.rest)
<1>. DEFINE written == {e \in Expressions : e[1] = op}
            waiting == Len(terms)
<1>1. \A e \in written : e[2] \in Args /\ e[3] \in Args
  BY DEF Args
<1>2. IsSeq(terms) /\ waiting \in Nat /\ (waiting > 0 <=> terms # << >>)
  BY SeqFacts DEF Waiting
<1>3. waiting > 0 => Waiting(Front(terms)) /\ Last(terms).place \in Args
  BY <1>2, WaitingFront DEF Args
<1>4. waiting > 1 => /\ SubSeq(terms, 1, waiting - 2) = Front(Front(terms))
                     /\ terms[waiting - 1] = Last(Front(terms))
                     /\ Front(terms) # << >>
  <2>. SUFFICES ASSUME waiting > 1
                PROVE  /\ SubSeq(terms, 1, waiting - 2) = Front(Front(terms))
                       /\ terms[waiting - 1] = Last(Front(terms))
                       /\ Front(terms) # << >>
    OBVIOUS
  <2>1. IsSeq(Front(terms)) /\ Len(Front(terms)) = waiting - 1
        /\ \A i \in 1 .. waiting - 1 : Front(terms)[i] = terms[i]
    BY <1>2, SeqFront
  <2>2. Front(terms) # << >> /\ Last(Front(terms)) = terms[waiting - 1]
    BY <2>1, <1>2, SeqFacts, SeqFront
  <2>3. Front(Front(terms)) = SubSeq(Front(terms), 1, waiting - 2)
    BY <2>1, <1>2 DEF Front
  <2>4. SubSeq(Front(terms), 1, waiting - 2) = SubSeq(terms, 1, waiting - 2)
    <3>. DEFINE u == Front(terms)
    <3>1. \A i \in 1 .. waiting - 2 : u[i] = terms[i]
      BY <2>1, <1>2
    <3>. HIDE DEF u
    <3>2. \A i \in 1 .. 1 + (waiting - 2) - 1 : u[i + 1 - 1] = terms[i + 1 - 1]
      BY <3>1, <1>2
    <3>3. SubSeq(u, 1, waiting - 2) = SubSeq(terms, 1, waiting - 2)
      BY <3>1, <1>2
    <3>. QED  BY <3>3 DEF u
  <2>. QED  BY <2>2, <2>3, <2>4
<1>5. waiting > 1 => Waiting(SubSeq(terms, 1, waiting - 2))
                     /\ terms[waiting - 1].place \in Args
  <2>. HIDE DEF waiting
  <2>1. waiting > 1 => waiting > 0
    BY <1>2
  <2>2. waiting > 1 => Waiting(Front(Front(terms)))
                       /\ Last(Front(terms)).place \in ToSet(Temps)
    BY <1>3, <1>4, <2>1, WaitingFront
  <2>. QED  BY <1>4, <2>2 DEF Args
<1>6. \/ \E e \in written : pair = [a |-> Plain(e[2]), b |-> Plain(e[3]), rest |-> terms]
      \/ \E e \in written : waiting > 0 /\
            pair = [a |-> Last(terms), b |-> Plain(e[3]), rest |-> Front(terms)]
      \/ \E e \in written : waiting > 0 /\
            pair = [a |-> Plain(e[2]), b |-> Last(terms), rest |-> Front(terms)]
      \/ waiting > 1 /\ pair = [a |-> terms[waiting - 1], b |-> Last(terms),
                                rest |-> SubSeq(terms, 1, waiting - 2)]
  BY DEF Pairs
<1>. HIDE DEF written, waiting
<1>7. CASE \E e \in written : pair = [a |-> Plain(e[2]), b |-> Plain(e[3]), rest |-> terms]
  BY <1>1, <1>7, PlainPlace
<1>8. CASE \E e \in written : waiting > 0 /\
            pair = [a |-> Last(terms), b |-> Plain(e[3]), rest |-> Front(terms)]
  BY <1>1, <1>3, <1>8, PlainPlace
<1>9. CASE \E e \in written : waiting > 0 /\
            pair = [a |-> Plain(e[2]), b |-> Last(terms), rest |-> Front(terms)]
  BY <1>1, <1>3, <1>9, PlainPlace
<1>10. CASE waiting > 1 /\ pair = [a |-> terms[waiting - 1], b |-> Last(terms),
                                   rest |-> SubSeq(terms, 1, waiting - 2)]
  <2>1. waiting > 0
    BY <1>2, <1>10
  <2>2. pair.a = terms[waiting - 1] /\ pair.b = Last(terms)
        /\ pair.rest = SubSeq(terms, 1, waiting - 2)
    BY <1>10
  <2>. QED  BY <1>3, <1>5, <1>10, <2>1, <2>2
<1>. QED  BY <1>6, <1>7, <1>8, <1>9, <1>10

LEMMA NewTempType ==
    ASSUME IInv, Made < MaxOps
    PROVE  NewTemp \in ToSet(Temps)
<1>1. Made \in Nat
  <2>1. IsFiniteSet(1 .. Len(code))
    BY State, FS_Interval
  <2>2. {i \in DOMAIN code : code[i].op \in ArithOps} \subseteq 1 .. Len(code)
    BY State
  <2>3. IsFiniteSet({i \in DOMAIN code : code[i].op \in ArithOps})
    BY <2>1, <2>2, FS_Subset
  <2>. QED  BY <2>3, FS_CardinalityType DEF Made
<1>2. Temps \in Seq(ToSet(Temps)) /\ Made + 1 \in 1 .. Len(Temps)
  <2>1. Temps \in Seq(ToSet(Temps)) /\ Len(Temps) \in Nat /\ MaxOps \in 0 .. Len(Temps)
    BY IRGenAssumption
  <2>. QED  BY <1>1, <2>1
<1>. QED  BY <1>2 DEF NewTemp

LEMMA OperateOK ==
    ASSUME IInv, NEW op \in ArithOps, NEW pair \in Pairs(op), Operate(op, pair)
    PROVE  StepOK /\ Waiting(terms')
<1>1. Waiting(terms) /\ pair.a.place \in Args /\ pair.b.place \in Args /\ Waiting(pair.rest)
  BY State, PairType
<1>2. NewTemp \in ToSet(Temps)
  BY NewTempType DEF Operate
<1>. DEFINE last == Term(NewTemp, << op, pair.a.src, pair.b.src >>)
<1>3. /\ code' = Append(code, Instr(op, pair.a.place, pair.b.place, NewTemp))
      /\ terms' = Append(pair.rest, last)
      /\ parse' = parse /\ val' = val /\ next' = next
      /\ next \in {"statement", "operand"}
  BY DEF Operate
<1>4. last.place = NewTemp
  BY DEF Term
<1>. HIDE DEF last
<1>5. op \in Ops /\ op \notin Jumps /\ op # "NOP" /\ NewTemp \in Args
  BY <1>2 DEF Ops, Jumps, CondOps, ArithOps, RelOps, Args
<1>6. StepOK
  BY <1>1, <1>3, <1>5, PlainStep
<1>7. Waiting(terms')
  <2>1. IsSeq(pair.rest) /\ Len(pair.rest) \in Nat
    BY <1>1, SeqFacts DEF Waiting
  <2>2. /\ IsSeq(terms') /\ Len(terms') = Len(pair.rest) + 1
        /\ terms'[Len(pair.rest) + 1] = last
        /\ \A i \in 1 .. Len(pair.rest) : terms'[i] = pair.rest[i]
    BY <1>3, <2>1, SeqAppend
  <2>3. DOMAIN terms' = 1 .. Len(pair.rest) + 1 /\ DOMAIN pair.rest = 1 .. Len(pair.rest)
    BY <2>1, <2>2, SeqFacts
  <2>. QED  BY <1>1, <1>2, <1>4, <2>1, <2>2, <2>3 DEF Waiting
<1>. QED  BY <1>6, <1>7

LEMMA AssignToOK ==
    ASSUME IInv, NEW id \in Ids, NEW term \in Assigned, AssignTo(id, term)
    PROVE  StepOK
<1>. DEFINE src == << "set", id, term.src >>
<1>1. code' = Append(code, Set(id, term.place)) /\ parse' = parse
      /\ val' = NoValue(src) /\ next = "statement" /\ next' = "reduced"
  BY DEF AssignTo, Reduced, Go
<1>. HIDE DEF src
<1>2. term.place \in Args
  <2>1. CASE terms = << >>
    <3>1. \E arg \in Sources : term = Plain(arg)
      BY <2>1 DEF Assigned
    <3>. QED  BY <3>1, PlainPlace DEF Args
  <2>2. CASE terms # << >>
    <3>1. term = Last(terms)
      BY <2>2 DEF Assigned
    <3>. QED  BY <2>2, <3>1, State, WaitingFront DEF Args
  <2>. QED  BY <2>1, <2>2
<1>3. "ASSIGN" \in Ops /\ "ASSIGN" \notin Jumps /\ id \in Args /\ None \in Args
  BY DEF Ops, Jumps, CondOps, RelOps, Args
<1>. QED  BY <1>1, <1>2, <1>3, NoValueType, PlainStep DEF Set

LEMMA MentionOK ==
    ASSUME IInv, NEW id, Mention(id)
    PROVE  StepOK
<1>. DEFINE src == << "seq", << >> >>
<1>1. code' = code /\ parse' = parse /\ val' = NoValue(src)
      /\ next = "statement" /\ next' = "reduced"
  BY DEF Mention, Reduced, Go
<1>. HIDE DEF src
<1>. QED  BY <1>1, NoValueType, Stays

LEMMA AcceptOK ==
    ASSUME IInv, Accept
    PROVE  StepOK
<1>1. code' = code /\ parse' = parse /\ val' = val
      /\ next = "reduced" /\ next' = "accepted"
  BY DEF Accept, Go
<1>. QED  BY <1>1, State, Stays

\* The frames of constructs that have no condition so far.
LEMMA BareType ==
    ASSUME IInv, NEW kind \in {"block", "ifcond", "whilecond", "assign"},
           NEW mark \in Nat, NEW id,
           (mark = 0 /\ kind # "whilecond") \/ mark = Here(code),
           kind = "assign" => id \in Ids
    PROVE  LET fr == Bare(kind, mark, id)
           IN  FrameOK(code, fr) /\ Lists(fr) = {} /\ fr.t = {} /\ fr.f = {}
               /\ fr.kind = kind
  BY State DEF Bare, Frame, FrameOK, Kinds, Lists, Skip

LEMMA BeginBareStep ==
    ASSUME IInv, next = "statement",
           NEW kind \in {"block", "ifcond", "whilecond", "assign"},
           NEW mark \in Nat, NEW id,
           (mark = 0 /\ kind # "whilecond") \/ mark = Here(code),
           kind = "assign" => id \in Ids,
           Begin(Bare(kind, mark, id), IF kind = "block" THEN "statement" ELSE "operand")
    PROVE  StepOK
<1>. DEFINE fr == Bare(kind, mark, id)
<1>1. code' = code /\ parse' = Append(parse, fr) /\ val' = NoValue(<< >>)
      /\ next' = IF kind = "block" THEN "statement" ELSE "operand"
  BY DEF Begin, Go
<1>2. FrameOK(code, fr) /\ Lists(fr) = {} /\ fr.t = {} /\ fr.f = {} /\ fr.kind = kind
  BY BareType
<1>. HIDE DEF fr
<1>3. fr.kind \notin Infix /\ next' \in {"statement", "operand"}
      /\ (next' = "operand" <=> fr.kind \in CondKinds)
  BY <1>1, <1>2 DEF Infix, CondKinds
<1>. QED  BY <1>1, <1>2, <1>3, BeginsBare

LEMMA OpenBlockOK ==
    ASSUME IInv, OpenBlock
    PROVE  StepOK
  BY BeginBareStep DEF OpenBlock

LEMMA BeginIfOK ==
    ASSUME IInv, BeginIf
    PROVE  StepOK
  BY BeginBareStep DEF BeginIf

LEMMA BeginAssignBoolOK ==
    ASSUME IInv, NEW id \in BoolIds, BeginAssignBool(id)
    PROVE  StepOK
<1>1. id \in Ids
  BY IRGenAssumption
<1>. QED  BY <1>1, BeginBareStep DEF BeginAssignBool

LEMMA BeginWhileOK ==
    ASSUME IInv, BeginWhile
    PROVE  StepOK
<1>1. Here(code) \in Nat
  BY State
<1>. QED  BY <1>1, BeginBareStep DEF BeginWhile

LEMMA CloseBlockOK ==
    ASSUME IInv, CloseBlock
    PROVE  StepOK
<1>. DEFINE src == << "seq", Items >>
<1>1. next = "reduced" /\ Inside({"block"}) /\ code' = code /\ parse' = Outer
      /\ val' = NoValue(src) /\ next' = "reduced"
  BY DEF CloseBlock, Reduced, Go
<1>. HIDE DEF src
<1>. QED  BY <1>1, ClosesBlock

LEMMA NextItemOK ==
    ASSUME IInv, NextItem
    PROVE  StepOK
<1>1. next = "reduced" /\ Inside({"block"}) /\ code' = code
      /\ parse' = Append(Outer, [Top EXCEPT !.src = Items])
      /\ val' = NoValue(<< >>) /\ next' = "statement"
  BY DEF NextItem, Go
<1>. QED  BY <1>1, GoesOn

LEMMA GotoType ==
    /\ Goto \in Instrs /\ Goto.op = "GOTO" /\ Goto.op \in Jumps /\ Goto.op # "EQ"
    /\ Goto.target = 0 /\ Goto.released = {} /\ Goto.op # "NOP"
    /\ Goto.arg = None /\ Goto.arg2 = None
<1>1. "GOTO" \in Ops /\ "GOTO" \in Jumps /\ None \in Args
  BY DEF Ops, Jumps, Args
<1>. QED  BY <1>1, InstrType DEF Goto

LEMMA NopType ==
    /\ Nop \in Instrs /\ Nop.op = "NOP" /\ Nop.op \notin Jumps
    /\ Nop.target = 0 /\ Nop.released = {}
    /\ Nop.arg = None /\ Nop.arg2 = None
<1>1. "NOP" \in Ops /\ "NOP" \notin Jumps /\ None \in Args
  BY DEF Ops, Jumps, CondOps, RelOps, Args
<1>. QED  BY <1>1, InstrType DEF Nop

LEMMA ValueType ==
    ASSUME NEW level, NEW t, NEW f, NEW src
    PROVE  /\ Value(level, t, f, src).t = t /\ Value(level, t, f, src).f = f
           /\ Value(level, t, f, src).level = level
  BY DEF Value

\* TRUE_TOKEN and FALSE_TOKEN.
LEMMA ConstantStep ==
    ASSUME IInv, next = "operand", code' = Append(code, Goto), parse' = parse,
           val'.t \cup val'.f = {Here(code)}, val'.t \cap val'.f = {},
           val'.level \in Levels, next' = "value"
    PROVE  StepOK
<1>1. /\ Program(code') /\ Len(code') = Len(code) + 1 /\ code'[Len(code) + 1] = Goto
      /\ Extends(code, code') /\ LoopsOK(code')
      /\ OpenIn(code') = OpenIn(code) \cup {Len(code) + 1}
      /\ NoEq(code') => NoEq(code)
  BY State, GotoType, AppendInstr
<1>2. Len(code') > Len(code) /\ code'[Len(code) + 1].op # "NOP"
  BY <1>1, State, GotoType
<1>3. OpenIn(code') = OpenIn(code) \cup val'.t \cup val'.f
      /\ (val'.t \cup val'.f) \cap OpenIn(code) = {}
  BY <1>1, State, ProgramFacts
<1>. QED  BY <1>1, <1>2, <1>3, MakesValue

LEMMA TrueExprOK ==
    ASSUME IInv, TrueExpr
    PROVE  StepOK
<1>1. next = "operand" /\ code' = Append(code, Goto) /\ parse' = parse
      /\ val' = Value("equality", {Here(code)}, {}, << "true" >>) /\ next' = "value"
  BY DEF TrueExpr, Go
<1>. QED  BY <1>1, ValueType, ConstantStep DEF Levels

LEMMA FalseExprOK ==
    ASSUME IInv, FalseExpr
    PROVE  StepOK
<1>1. next = "operand" /\ code' = Append(code, Goto) /\ parse' = parse
      /\ val' = Value("equality", {}, {Here(code)}, << "false" >>) /\ next' = "value"
  BY DEF FalseExpr, Go
<1>. QED  BY <1>1, ValueType, ConstantStep DEF Levels

\* A comparison and the jump after it.
LEMMA CompareCode ==
    ASSUME NEW c, Program(c), LoopsOK(c), NEW I \in Instrs, I.target = 0,
           I.released = {}, I.op \in CondOps
    PROVE  LET d == c \o << I, Goto >>
           IN  /\ Program(d) /\ LoopsOK(d) /\ Extends(c, d)
               /\ Len(d) = Len(c) + 2 /\ d[Len(c) + 1] = I
               /\ OpenIn(d) = OpenIn(c) \cup {Len(c) + 1, Len(c) + 2}
               /\ NoEq(d) <=> NoEq(c) /\ I.op # "EQ"
<1>. DEFINE b == Append(c, I)
            d == Append(b, Goto)
<1>1. I.op \in Jumps /\ Len(c) \in Nat
  BY ProgramFacts DEF Jumps
<1>2. /\ Program(b) /\ Len(b) = Len(c) + 1 /\ b[Len(c) + 1] = I
      /\ Extends(c, b) /\ LoopsOK(b)
      /\ OpenIn(b) = OpenIn(c) \cup {Len(c) + 1}
      /\ NoEq(b) <=> NoEq(c) /\ I.op # "EQ"
  BY <1>1, AppendInstr
<1>. HIDE DEF b
<1>3. /\ Program(d) /\ Len(d) = Len(b) + 1 /\ \A i \in 1 .. Len(b) : d[i] = b[i]
      /\ Extends(b, d) /\ LoopsOK(d)
      /\ OpenIn(d) = OpenIn(b) \cup {Len(b) + 1}
      /\ NoEq(d) <=> NoEq(b)
  BY <1>2, GotoType, AppendInstr
<1>4. c \o << I, Goto >> = d
  <2>. QED  BY ProgramSeq, AppendTwo DEF b
<1>. HIDE DEF d
<1>5. Extends(c, d)
  BY <1>2, <1>3, ExtendsTransitive
<1>6. Len(d) = Len(c) + 2 /\ d[Len(c) + 1] = I
      /\ OpenIn(d) = OpenIn(c) \cup {Len(c) + 1, Len(c) + 2}
  BY <1>1, <1>2, <1>3
<1>. QED  BY <1>2, <1>3, <1>4, <1>5, <1>6

LEMMA RelationalOK ==
    ASSUME IInv, NEW op \in RelOps, NEW pair \in Pairs(op), Relational(op, pair)
    PROVE  StepOK
<1>. DEFINE I == Instr(op, pair.a.place, pair.b.place, None)
            src == << "rel", op, pair.a.src, pair.b.src >>
<1>1. next = "operand" /\ code' = code \o << I, Goto >> /\ parse' = parse
      /\ val' = Value("equality", {Here(code)}, {Here(code) + 1}, src) /\ next' = "value"
  BY DEF Relational, Go
<1>2. op \in Ops /\ op \in CondOps /\ None \in Args /\ op # "EQ" /\ op # "NOP"
      /\ pair.a.place \in Args /\ pair.b.place \in Args
  BY State, PairType DEF Ops, CondOps, RelOps, Args
<1>3. I \in Instrs /\ I.op = op /\ I.target = 0 /\ I.released = {}
  BY <1>2, InstrType
<1>. HIDE DEF I, src
<1>4. /\ Program(code') /\ LoopsOK(code') /\ Extends(code, code')
      /\ Len(code') = Len(code) + 2 /\ code'[Len(code) + 1] = I
      /\ OpenIn(code') = OpenIn(code) \cup {Len(code) + 1, Len(code) + 2}
      /\ NoEq(code') => NoEq(code)
  BY <1>1, <1>2, <1>3, State, CompareCode
<1>5. val'.t = {Len(code) + 1} /\ val'.f = {Len(code) + 2} /\ val'.level \in Levels
  BY <1>1, State, ValueType DEF Levels
<1>6. OpenIn(code') = OpenIn(code) \cup val'.t \cup val'.f
      /\ (val'.t \cup val'.f) \cap OpenIn(code) = {} /\ val'.t \cap val'.f = {}
      /\ Len(code') > Len(code)
  BY <1>4, <1>5, State, ProgramFacts
<1>. QED  BY <1>1, <1>2, <1>3, <1>4, <1>5, <1>6, MakesValue

\* The left operand of a condition, and where its right operand begins.
LEMMA InfixType ==
    ASSUME IInv, next = "value", NEW kind \in Infix, NEW enter, NEW src,
           IF kind = "eq" THEN enter = 0 ELSE enter = Here(code)
    PROVE  LET fr == Frame(kind, val.t, val.f, enter, 0, None, src)
           IN  FrameOK(code, fr) /\ fr.kind \in Infix /\ fr.t = val.t /\ fr.f = val.f
  BY State, ValueListsBelow DEF Frame, FrameOK, Kinds, Infix

LEMMA InfixStep ==
    ASSUME IInv, next = "value", NEW kind \in Infix, NEW enter, NEW src,
           IF kind = "eq" THEN enter = 0 ELSE enter = Here(code),
           Begin(Frame(kind, val.t, val.f, enter, 0, None, src), "operand")
    PROVE  StepOK
<1>. DEFINE fr == Frame(kind, val.t, val.f, enter, 0, None, src)
<1>1. code' = code /\ parse' = Append(parse, fr) /\ val' = NoValue(<< >>)
      /\ next' = "operand"
  BY DEF Begin, Go
<1>2. FrameOK(code, fr) /\ fr.kind \in Infix /\ fr.t = val.t /\ fr.f = val.f
  BY InfixType
<1>. HIDE DEF fr
<1>. QED  BY <1>1, <1>2, BeginsInfix

LEMMA BeginEqualityOK ==
    ASSUME IInv, BeginEquality
    PROVE  StepOK
  BY InfixStep DEF BeginEquality, Infix

LEMMA BeginAndOK ==
    ASSUME IInv, BeginAnd
    PROVE  StepOK
  BY InfixStep DEF BeginAnd, Infix

LEMMA BeginOrOK ==
    ASSUME IInv, BeginOr
    PROVE  StepOK
  BY InfixStep DEF BeginOr, Infix

\* A condition of two operands is complete: L is patched, the rest handed on.
LEMMA FinishStep ==
    ASSUME IInv, next = "value", Inside({"and", "or"}),
           NEW L, L \subseteq Top.t \cup Top.f, NEW v, v.level \in Levels,
           v.t \cup v.f = (val.t \cup val.f \cup Top.t \cup Top.f) \ L, v.t \cap v.f = {},
           Go(BackPatch(code, L, Top.enter), Outer, v, "value")
    PROVE  StepOK
<1>1. code' = BackPatch(code, L, Top.enter) /\ parse' = Outer /\ val' = v
      /\ next' = "value"
  BY DEF Go
<1>2. parse # << >> /\ Top.kind \in {"and", "or"} /\ Lists(Top) = Top.t \cup Top.f
  BY DEF Inside, Lists, Skip
<1>3. Top.enter \in 1 .. Len(code)
  BY <1>2, State, StateTop DEF Written, FrameOK
<1>4. L \subseteq OpenIn(code) /\ \A x \in L : x < Top.enter
  BY <1>2, State, StateTop DEF FrameOK
<1>5. /\ Program(code') /\ Len(code') = Len(code) /\ Extends(code, code')
      /\ OpenIn(code') = OpenIn(code) \ L
      /\ NoEq(code') => NoEq(code)
      /\ LoopsOK(code')
  <2>1. Program(code) /\ LoopsOK(code)
    BY State
  <2>. DEFINE enter == Top.enter
  <2>2. enter \in 1 .. Len(code) /\ (\A x \in L : x < enter)
        /\ code' = BackPatch(code, L, enter)
    BY <1>1, <1>3, <1>4
  <2>. HIDE DEF enter
  <2>. QED  BY <2>1, <2>2, <1>4, PatchStep
<1>6. FramesOK(code', parse')
  <2>1. Len(code) + 1 \notin DOMAIN code'
    BY <1>5, State, ProgramFacts
  <2>. QED  BY <1>1, <1>2, <1>5, <2>1, State, StateTop, FramesGrow
<1>7. Ledger(code', parse', val')
  <2>. DEFINE H == Held(Outer)
              all == val.t \cup val.f \cup Top.t \cup Top.f
  <2>1. /\ Apart(Outer) /\ Held(parse) = H \cup Top.t \cup Top.f
        /\ H \cap (Top.t \cup Top.f) = {} /\ H \cap (val.t \cup val.f) = {}
        /\ H \cup all \subseteq OpenIn(code)
        /\ NoEq(code) => OpenIn(code) \subseteq H \cup all
    BY <1>2, State, StateTop
  <2>2. L \subseteq all /\ v.t \cup v.f = all \ L /\ H \cap all = {}
    BY <2>1
  <2>. HIDE DEF H, all
  <2>3. /\ (v.t \cup v.f) \cap H = {}
        /\ H \cup v.t \cup v.f \subseteq OpenIn(code')
        /\ NoEq(code') => OpenIn(code') \subseteq H \cup v.t \cup v.f
    <3>. DEFINE u == v.t \cup v.f
                O == OpenIn(code)
    <3>4. OpenIn(code') = O \ L
      BY <1>5
    <3>1. u = all \ L /\ L \subseteq all /\ H \cap all = {} /\ H \cup all \subseteq O
      BY <2>1, <2>2
    <3>. HIDE DEF u, O
    <3>2. u \cap H = {} /\ H \cup u \subseteq O \ L
      BY <3>1
    <3>3. O \subseteq H \cup all => O \ L \subseteq H \cup u
      BY <3>1
    <3>5. NoEq(code') => OpenIn(code') \subseteq H \cup u
      BY <1>5, <2>1, <3>3, <3>4 DEF O
    <3>. QED  BY <3>2, <3>4, <3>5 DEF u
  <2>. QED  BY <1>1, <2>1, <2>3 DEF Ledger, H
<1>8. Nested(parse', next')
  BY <1>1, <1>2, State, NestedPopInfix DEF Top, Outer, Infix
<1>9. Written(code', parse', next') /\ ValueOK(val', next')
  BY <1>1, <1>2, <1>5, State, StateTop, WrittenGrow DEF ValueOK
<1>. QED  BY <1>5, <1>6, <1>7, <1>8, <1>9 DEF StepOK, StateOK

LEMMA TopLists ==
    ASSUME IInv, parse # << >>
    PROVE  /\ Top.t \cap Top.f = {}
           /\ (Top.t \cup Top.f) \cap (val.t \cup val.f) = {}
           /\ Top.t \cup Top.f \cup Skip(Top) \subseteq OpenIn(code)
           /\ Skip(Top) \cap (Top.t \cup Top.f) = {}
  BY State, StateTop DEF Lists, Distinct

LEMMA FinishAndOK ==
    ASSUME IInv, FinishAnd
    PROVE  StepOK
<1>. DEFINE v == Value("and", val.t, Top.f \cup val.f, << "and", Top.src[1], val.src >>)
<1>1. next = "value" /\ Inside({"and", "or"}) /\ parse # << >>
      /\ Go(BackPatch(code, Top.t, Top.enter), Outer, v, "value")
  BY DEF FinishAnd, Inside
<1>2. v.t = val.t /\ v.f = Top.f \cup val.f /\ v.level \in Levels
  BY ValueType DEF Levels
<1>. HIDE DEF v
<1>3. v.t \cup v.f = (val.t \cup val.f \cup Top.t \cup Top.f) \ Top.t
      /\ v.t \cap v.f = {}
  BY <1>1, <1>2, State, TopLists
<1>. QED  BY <1>1, <1>2, <1>3, FinishStep

LEMMA FinishOrOK ==
    ASSUME IInv, FinishOr
    PROVE  StepOK
<1>. DEFINE v == Value("or", Top.t \cup val.t, val.f, << "or", Top.src[1], val.src >>)
<1>1. next = "value" /\ Inside({"and", "or"}) /\ parse # << >>
      /\ Go(BackPatch(code, Top.f, Top.enter), Outer, v, "value")
  BY DEF FinishOr, Inside
<1>2. v.t = Top.t \cup val.t /\ v.f = val.f /\ v.level \in Levels
  BY ValueType DEF Levels
<1>. HIDE DEF v
<1>3. v.t \cup v.f = (val.t \cup val.f \cup Top.t \cup Top.f) \ Top.f
      /\ v.t \cap v.f = {}
  BY <1>1, <1>2, State, TopLists
<1>. QED  BY <1>1, <1>2, <1>3, FinishStep

\* equality_expression: the lists of its operands are dropped.
LEMMA FinishEqualityOK ==
    ASSUME IInv, FinishEquality
    PROVE  StepOK
<1>. DEFINE I == Instr("EQ", None, None, None)
            src == << "eq", Top.src[1], val.src >>
<1>1. next = "value" /\ code' = code \o << I, Goto >> /\ parse' = Outer
      /\ val' = Value("equality", {Here(code)}, {Here(code) + 1}, src) /\ next' = "value"
      /\ parse # << >> /\ Top.kind = "eq"
  BY DEF FinishEquality, Go, Inside
<1>2. "EQ" \in Ops /\ "EQ" \in CondOps /\ None \in Args
  BY DEF Ops, CondOps, Args
<1>3. I \in Instrs /\ I.op = "EQ" /\ I.target = 0 /\ I.released = {}
  BY <1>2, InstrType
<1>. HIDE DEF I, src
<1>4. /\ Program(code') /\ LoopsOK(code') /\ Extends(code, code')
      /\ Len(code') = Len(code) + 2 /\ code'[Len(code) + 1] = I
      /\ OpenIn(code') = OpenIn(code) \cup {Len(code) + 1, Len(code) + 2}
      /\ ~NoEq(code')
  <2>1. Program(code) /\ LoopsOK(code)
    BY State
  <2>2. PICK d : d = code \o << I, Goto >>
    OBVIOUS
  <2>3. /\ Program(d) /\ LoopsOK(d) /\ Extends(code, d)
        /\ Len(d) = Len(code) + 2 /\ d[Len(code) + 1] = I
        /\ OpenIn(d) = OpenIn(code) \cup {Len(code) + 1, Len(code) + 2}
        /\ ~NoEq(d)
    BY ONLY <1>2, <1>3, <2>1, <2>2, CompareCode
  <2>. QED  BY <1>1, <2>2, <2>3
<1>5. val'.t = {Len(code) + 1} /\ val'.f = {Len(code) + 2} /\ val'.level \in Levels
  BY <1>1, State, ValueType DEF Levels
<1>6. FramesOK(code', parse')
  BY <1>1, <1>3, <1>4, State, StateTop, FramesGrow
<1>7. Ledger(code', parse', val')
  <2>1. Held(Outer) \subseteq OpenIn(code) /\ OpenIn(code) \subseteq 1 .. Len(code)
    BY <1>1, State, StateTop, ProgramFacts
  <2>2. val'.t \cap val'.f = {} /\ (val'.t \cup val'.f) \cap Held(Outer) = {}
        /\ Held(Outer) \cup val'.t \cup val'.f \subseteq OpenIn(code')
    BY <1>4, <1>5, <2>1, State
  <2>. QED  BY <1>1, <1>4, <2>2, StateTop DEF Ledger
<1>8. Nested(parse', next')
  BY <1>1, State, NestedPopInfix DEF Top, Outer, Infix
<1>9. Written(code', parse', next') /\ ValueOK(val', next')
  BY <1>1, <1>4, <1>5, State, StateTop, WrittenGrow DEF ValueOK
<1>. QED  BY <1>4, <1>6, <1>7, <1>8, <1>9 DEF StepOK, StateOK

LEMMA EndWhileCondOK ==
    ASSUME IInv, EndWhileCond
    PROVE  StepOK
<1>. DEFINE fr == Frame("body", val.t, val.f, Here(code), Top.mark, None, << val.src >>)
<1>1. next = "value" /\ parse # << >> /\ Top.kind = "whilecond" /\ code' = code
      /\ parse' = Append(Outer, fr) /\ val' = NoValue(<< >>) /\ next' = "statement"
  BY DEF EndWhileCond, Go, Inside
<1>2. Top.mark \in 1 .. Len(code) /\ code[Top.mark].op # "NOP"
  BY <1>1, State, StateTop DEF Written, FrameOK
<1>3. FrameOK(code, fr) /\ fr.kind = "body" /\ fr.t = val.t /\ fr.f = val.f
  BY <1>1, <1>2, State, ValueListsBelow DEF Frame, FrameOK, Kinds
<1>. HIDE DEF fr
<1>4. Inside({"ifcond", "whilecond"})
  BY <1>1 DEF Inside
<1>5. StateOK(code', parse', val', next')
  BY <1>1, <1>3, <1>4, EndsCondition
<1>. QED  BY <1>1, <1>5, State, ExtendsReflexive DEF StepOK

LEMMA EndIfCondOK ==
    ASSUME IInv, EndIfCond
    PROVE  StepOK
<1>. DEFINE fr == Frame("then", val.t, val.f, Here(code), 0, None, << val.src >>)
<1>1. next = "value" /\ parse # << >> /\ Top.kind = "ifcond" /\ code' = code
      /\ parse' = Outer \o << fr, Bare("block", 0, None) >>
      /\ val' = NoValue(<< >>) /\ next' = "statement"
  BY DEF EndIfCond, Go, Inside
<1>2. FrameOK(code, fr) /\ fr.kind = "then" /\ fr.t = val.t /\ fr.f = val.f
  BY <1>1, State, ValueListsBelow DEF Frame, FrameOK, Kinds
<1>. HIDE DEF fr
<1>3. Inside({"ifcond", "whilecond"})
  BY <1>1 DEF Inside
<1>4. StateOK(code, Append(Outer, fr), val', "statement")
  BY <1>1, <1>2, <1>3, EndsCondition
<1>5. parse' = Append(Append(Outer, fr), Bare("block", 0, None))
  BY <1>1, StateTop, AppendTwo
<1>6. StateOK(code', parse', val', next')
  BY <1>1, <1>4, <1>5, BlockInside
<1>. QED  BY <1>1, <1>6, State, ExtendsReflexive DEF StepOK

\* A statement of several parts ends: what is left on its lists is patched.
LEMMA ClosesStatement ==
    ASSUME IInv, parse # << >>, Top.kind \notin Infix,
           Program(code'), LoopsOK(code'), Extends(code, code'),
           OpenIn(code') = OpenIn(code) \ (Lists(Top) \cup val.t \cup val.f),
           NoEq(code') => NoEq(code),
           parse' = Outer, NEW src, val' = NoValue(src), next' = "reduced"
    PROVE  StepOK
<1>1. Nested(parse', next') /\ \A k \in DOMAIN Outer : Outer[k].kind # "whilecond"
  BY State, NestedPop DEF Top, Outer, CondKinds
<1>2. FramesOK(code', parse')
  BY <1>1, State, StateTop, FramesGrow
<1>3. Ledger(code', parse', val')
  <2>. DEFINE H == Held(Outer)
              all == Lists(Top) \cup val.t \cup val.f
  <2>1. /\ Apart(Outer) /\ H \cap all = {} /\ H \cup all \subseteq OpenIn(code)
        /\ NoEq(code) => OpenIn(code) \subseteq H \cup all
    BY State, StateTop
  <2>2. OpenIn(code') = OpenIn(code) \ all
    OBVIOUS
  <2>. HIDE DEF H, all
  <2>3. H \subseteq OpenIn(code') /\ (NoEq(code') => OpenIn(code') \subseteq H)
    BY <2>1, <2>2
  <2>. QED  BY <2>1, <2>3, NoValueType DEF Ledger, H
<1>4. Written(code', parse', next') /\ ValueOK(val', next')
  BY NoValueType DEF Written, ValueOK
<1>. QED  BY <1>1, <1>2, <1>3, <1>4 DEF StepOK, StateOK

\* The operands of AppendInstr for a NOP.
LEMMA AppendNop ==
    ASSUME NEW c, Program(c)
    PROVE  LET d == Append(c, Nop)
           IN  /\ Program(d) /\ Len(d) = Len(c) + 1 /\ d[Len(c) + 1] = Nop
               /\ Extends(c, d) /\ OpenIn(d) = OpenIn(c)
               /\ NoEq(d) <=> NoEq(c)
               /\ LoopsOK(c) => LoopsOK(d)
  BY NopType, AppendInstr

LEMMA AppendGoto ==
    ASSUME NEW c, Program(c)
    PROVE  LET d == Append(c, Goto)
           IN  /\ Program(d) /\ Len(d) = Len(c) + 1 /\ d[Len(c) + 1] = Goto
               /\ Extends(c, d) /\ OpenIn(d) = OpenIn(c) \cup {Len(c) + 1}
               /\ NoEq(d) <=> NoEq(c)
               /\ LoopsOK(c) => LoopsOK(d)
  BY GotoType, AppendInstr

\* The true list patched, the NOP after the statement appended.
LEMMA BranchCode ==
    ASSUME IInv, parse # << >>, Top.kind \in {"then", "else"}, Top.enter \in 1 .. Len(code)
    PROVE  LET c == Append(BackPatch(code, Top.t, Top.enter), Nop)
           IN  /\ Program(c) /\ LoopsOK(c) /\ Extends(code, c)
               /\ Len(c) = Len(code) + 1
               /\ OpenIn(c) = OpenIn(code) \ Top.t
               /\ NoEq(c) => NoEq(code)
<1>. DEFINE t == Top.t
            enter == Top.enter
            b == BackPatch(code, t, enter)
            c == Append(b, Nop)
<1>1. enter \in 1 .. Len(code) /\ t \subseteq OpenIn(code) /\ \A x \in t : x < enter
  BY TopLists, StateTop DEF FrameOK
<1>. HIDE DEF t, enter
<1>2. /\ Program(b) /\ Len(b) = Len(code) /\ Extends(code, b) /\ LoopsOK(b)
      /\ OpenIn(b) = OpenIn(code) \ t
      /\ NoEq(b) <=> NoEq(code)
  <2>1. Program(code) /\ LoopsOK(code)
    BY State
  <2>. QED  BY <1>1, <2>1, PatchStep
<1>. HIDE DEF b
<1>3. /\ Program(c) /\ Len(c) = Len(b) + 1 /\ Extends(b, c) /\ LoopsOK(c)
      /\ OpenIn(c) = OpenIn(b)
      /\ NoEq(c) <=> NoEq(b)
  BY <1>2, AppendNop
<1>. HIDE DEF c
<1>4. Extends(code, c)
  BY <1>2, <1>3, State, ExtendsTransitive
<1>5. /\ Program(c) /\ LoopsOK(c) /\ Extends(code, c) /\ Len(c) = Len(code) + 1
      /\ OpenIn(c) = OpenIn(code) \ t
      /\ NoEq(c) => NoEq(code)
  BY <1>2, <1>3, <1>4
<1>. QED  BY <1>5 DEF t, enter, b, c

LEMMA EndIfOK ==
    ASSUME IInv, EndIf
    PROVE  StepOK
<1>. DEFINE n == Len(code)
            c == Append(BackPatch(code, Top.t, Top.enter), Nop)
            d == BackPatch(c, Top.f, n + 1)
            src == << "if", Top.src[1], val.src >>
<1>1. next = "reduced" /\ parse # << >> /\ Top.kind = "then"
  BY DEF EndIf, Inside
<1>2. CASE Top.enter \in DOMAIN code
  <2>1. code' = d /\ parse' = Outer /\ val' = NoValue(src) /\ next' = "reduced"
    BY <1>2 DEF EndIf, Reduced, Go
  <2>2. /\ Program(c) /\ LoopsOK(c) /\ Extends(code, c) /\ Len(c) = n + 1
        /\ OpenIn(c) = OpenIn(code) \ Top.t
        /\ NoEq(c) => NoEq(code)
    BY <1>1, <1>2, State, BranchCode
  <2>. HIDE DEF c, src
  <2>3. Top.f \subseteq OpenIn(c) /\ n + 1 \in 1 .. Len(c) /\ \A x \in Top.f : x < n + 1
    BY <1>1, <2>2, State, TopLists, ProgramFacts
  <2>4. /\ Program(d) /\ Extends(c, d) /\ LoopsOK(d)
        /\ OpenIn(d) = OpenIn(c) \ Top.f
        /\ NoEq(d) <=> NoEq(c)
    <3>. DEFINE L == Top.f
                k == n + 1
    <3>1. Program(c) /\ LoopsOK(c) /\ L \subseteq OpenIn(c) /\ k \in 1 .. Len(c)
          /\ (\A x \in L : x < k) /\ d = BackPatch(c, L, k)
      BY <2>2, <2>3
    <3>. HIDE DEF L, k, d
    <3>2. /\ Program(d) /\ Extends(c, d) /\ LoopsOK(d)
          /\ OpenIn(d) = OpenIn(c) \ L
          /\ NoEq(d) <=> NoEq(c)
      BY <3>1, PatchStep
    <3>. QED  BY <3>2 DEF L
  <2>. HIDE DEF d
  <2>5. Extends(code, d)
    BY <2>2, <2>4, State, ExtendsTransitive
  <2>6. OpenIn(d) = OpenIn(code) \ (Lists(Top) \cup val.t \cup val.f)
    BY <1>1, <2>2, <2>4, State DEF Lists, Skip
  <2>. QED  BY <1>1, <2>1, <2>2, <2>4, <2>5, <2>6, ClosesStatement DEF Infix
<1>3. CASE Top.enter \notin DOMAIN code
  <2>1. code' = code /\ parse' = parse /\ val' = val /\ next' = "aborted"
    BY <1>3 DEF EndIf, Go
  <2>. QED  BY <1>1, <2>1, State, Stays
<1>. QED  BY <1>2, <1>3

LEMMA EndIfElseOK ==
    ASSUME IInv, EndIfElse
    PROVE  StepOK
<1>. DEFINE n == Len(code)
            mark == Top.mark
            f == Top.f
            c == Append(BackPatch(code, Top.t, Top.enter), Nop)
            d == BackPatch(c, f, mark)
            e == BackPatch(d, {mark - 1}, n + 1)
            src == << "ifelse", Top.src[1], Top.src[2], val.src >>
<1>1. /\ next = "reduced" /\ parse # << >> /\ Top.kind = "else"
      /\ code' = e /\ parse' = Outer /\ val' = NoValue(src) /\ next' = "reduced"
  BY DEF EndIfElse, Inside, Reduced, Go
<1>2. /\ Top.enter \in 1 .. n /\ mark \in 1 .. n + 1 /\ n \in Nat
      /\ \A x \in f : x \in Nat /\ x < mark
      /\ mark - 1 \in OpenIn(code) /\ mark - 1 \notin Top.t \cup f
      /\ f \subseteq OpenIn(code) /\ f \cap Top.t = {}
  <2>1. FrameOK(code, Top) /\ Top.enter \in Nat /\ Top.mark \in Nat /\ n \in Nat
    BY <1>1, State, StateTop DEF FrameOK
  <2>2. Top.enter > 0 /\ Top.enter < Top.mark /\ Top.mark =< n + 1
        /\ \A x \in f : x < Top.enter
    BY <1>1, <2>1, State DEF FrameOK
  <2>3. Skip(Top) = {mark - 1}
    BY <1>1 DEF Skip
  <2>4. f \subseteq OpenIn(code) /\ OpenIn(code) \subseteq 1 .. n
    BY <1>1, State, TopLists, ProgramFacts
  <2>5. \A x \in f : x \in Nat /\ x < mark
    BY <2>1, <2>2, <2>4
  <2>. QED  BY <1>1, <2>1, <2>2, <2>3, <2>4, <2>5, TopLists
<1>3. /\ Program(c) /\ LoopsOK(c) /\ Extends(code, c) /\ Len(c) = n + 1
      /\ OpenIn(c) = OpenIn(code) \ Top.t
      /\ NoEq(c) => NoEq(code)
  BY <1>1, <1>2, BranchCode
<1>. HIDE DEF c, src, mark, f
<1>4. /\ Program(d) /\ Len(d) = n + 1 /\ Extends(c, d) /\ LoopsOK(d)
      /\ OpenIn(d) = OpenIn(c) \ f
      /\ NoEq(d) <=> NoEq(c)
  BY <1>2, <1>3, PatchStep
<1>. HIDE DEF d
<1>5. /\ {mark - 1} \subseteq OpenIn(d) /\ n + 1 \in 1 .. Len(d)
      /\ \A x \in {mark - 1} : x < n + 1
  BY <1>2, <1>3, <1>4
<1>6. /\ Program(e) /\ Extends(d, e) /\ LoopsOK(e)
      /\ OpenIn(e) = OpenIn(d) \ {mark - 1}
      /\ NoEq(e) <=> NoEq(d)
  <2>. DEFINE L == {mark - 1}
              k == n + 1
  <2>1. Program(d) /\ LoopsOK(d) /\ L \subseteq OpenIn(d) /\ k \in 1 .. Len(d)
        /\ (\A x \in L : x < k) /\ e = BackPatch(d, L, k)
    BY <1>4, <1>5
  <2>. HIDE DEF L, k, e
  <2>2. /\ Program(e) /\ Extends(d, e) /\ LoopsOK(e)
        /\ OpenIn(e) = OpenIn(d) \ L
        /\ NoEq(e) <=> NoEq(d)
    BY <2>1, PatchStep
  <2>. QED  BY <2>2 DEF L
<1>. HIDE DEF e
<1>7. Extends(code, e)
  BY <1>3, <1>4, <1>6, State, ExtendsTransitive
<1>8. OpenIn(e) = OpenIn(code) \ (Lists(Top) \cup val.t \cup val.f)
  <2>1. Lists(Top) = Top.t \cup f \cup {mark - 1} /\ val.t = {} /\ val.f = {}
    BY <1>1, State DEF Lists, Skip, f, mark
  <2>. QED  BY <1>3, <1>4, <1>6, <2>1
<1>. QED  BY <1>1, <1>3, <1>4, <1>6, <1>7, <1>8, ClosesStatement DEF Infix

LEMMA AssignBoolOK ==
    ASSUME IInv, AssignBool
    PROVE  StepOK
<1>. DEFINE n == Len(code)
            I1 == Set(Top.id, True)
            I3 == Set(Top.id, False)
            c == code \o << I1, Goto, I3, Nop >>
            d == BackPatch(c, {n + 2}, n + 4)
            e == BackPatch(d, val.t, n + 1)
            g == BackPatch(e, val.f, n + 3)
            src == << "assign", Top.id, val.src >>
<1>1. /\ next = "value" /\ parse # << >> /\ Top.kind = "assign"
      /\ code' = g /\ parse' = Outer /\ val' = NoValue(src) /\ next' = "reduced"
  BY DEF AssignBool, Inside, Reduced, Go
<1>2. /\ n \in Nat /\ I1 \in Instrs /\ I1.op = "ASSIGN" /\ I1.target = 0 /\ I1.released = {}
      /\ I3 \in Instrs /\ I3.op = "ASSIGN" /\ I3.target = 0 /\ I3.released = {}
      /\ "ASSIGN" \notin Jumps /\ "ASSIGN" # "EQ"
  <2>1. Top.id \in Args /\ True \in Args /\ False \in Args /\ None \in Args
    BY <1>1, StateTop DEF FrameOK, Args
  <2>2. "ASSIGN" \in Ops /\ "ASSIGN" \notin Jumps
    BY DEF Ops, Jumps, CondOps, RelOps
  <2>. QED  BY <2>1, <2>2, State, InstrType DEF Set
<1>. HIDE DEF src, I1, I3
<1>3. /\ Program(c) /\ LoopsOK(c) /\ Extends(code, c) /\ Len(c) = n + 4
      /\ OpenIn(c) = OpenIn(code) \cup {n + 2}
      /\ NoEq(c) <=> NoEq(code)
  <2>. DEFINE c1 == Append(code, I1)
              c2 == Append(c1, Goto)
              c3 == Append(c2, I3)
              c4 == Append(c3, Nop)
  <2>1. /\ Program(c1) /\ LoopsOK(c1) /\ Extends(code, c1) /\ Len(c1) = n + 1
        /\ OpenIn(c1) = OpenIn(code)
        /\ NoEq(c1) <=> NoEq(code)
    BY <1>2, State, AppendInstr
  <2>. HIDE DEF c1
  <2>2. /\ Program(c2) /\ LoopsOK(c2) /\ Extends(c1, c2) /\ Len(c2) = n + 2
        /\ OpenIn(c2) = OpenIn(code) \cup {n + 2}
        /\ NoEq(c2) <=> NoEq(code)
    BY <1>2, <2>1, AppendGoto
  <2>. HIDE DEF c2
  <2>3. /\ Program(c3) /\ LoopsOK(c3) /\ Extends(c2, c3) /\ Len(c3) = n + 3
        /\ OpenIn(c3) = OpenIn(code) \cup {n + 2}
        /\ NoEq(c3) <=> NoEq(code)
    BY <1>2, <2>2, AppendInstr
  <2>. HIDE DEF c3
  <2>4. /\ Program(c4) /\ LoopsOK(c4) /\ Extends(c3, c4) /\ Len(c4) = n + 4
        /\ OpenIn(c4) = OpenIn(code) \cup {n + 2}
        /\ NoEq(c4) <=> NoEq(code)
    BY <1>2, <2>3, AppendNop
  <2>5. Extends(code, c4)
    <3>. HIDE DEF c4
    <3>1. Extends(code, c2)
      BY <2>1, <2>2, State, ExtendsTransitive
    <3>2. Extends(code, c3)
      BY <2>2, <2>3, <3>1, State, ExtendsTransitive
    <3>. QED  BY <2>3, <2>4, <3>2, State, ExtendsTransitive
  <2>6. c = c4
    BY ProgramSeq, State, AppendFour DEF c1, c2, c3
  <2>. QED  BY <2>4, <2>5, <2>6
<1>. HIDE DEF c
<1>4. OpenIn(code) \subseteq 1 .. n /\ n + 2 \notin OpenIn(code)
      /\ val.t \subseteq OpenIn(code) /\ val.f \subseteq OpenIn(code)
      /\ val.t \cap val.f = {}
  BY <1>2, State, ProgramFacts
<1>5. /\ Program(d) /\ LoopsOK(d) /\ Extends(c, d) /\ Len(d) = n + 4
      /\ OpenIn(d) = OpenIn(code)
      /\ NoEq(d) <=> NoEq(code)
  <2>. DEFINE L == {n + 2}
              k == n + 4
  <2>1. /\ Program(c) /\ LoopsOK(c) /\ L \subseteq OpenIn(c) /\ k \in 1 .. Len(c)
        /\ (\A x \in L : x < k) /\ d = BackPatch(c, L, k)
        /\ OpenIn(c) \ L = OpenIn(code)
    BY <1>2, <1>3, <1>4
  <2>. HIDE DEF L, k, d
  <2>2. /\ Program(d) /\ Extends(c, d) /\ LoopsOK(d) /\ Len(d) = Len(c)
        /\ OpenIn(d) = OpenIn(c) \ L
        /\ NoEq(d) <=> NoEq(c)
    BY <2>1, PatchStep
  <2>. QED  BY <1>3, <2>1, <2>2
<1>. HIDE DEF d
<1>6. /\ Program(e) /\ LoopsOK(e) /\ Extends(d, e) /\ Len(e) = n + 4
      /\ OpenIn(e) = OpenIn(code) \ val.t
      /\ NoEq(e) <=> NoEq(code)
  <2>. DEFINE L == val.t
              k == n + 1
  <2>1. /\ Program(d) /\ LoopsOK(d) /\ L \subseteq OpenIn(d) /\ k \in 1 .. Len(d)
        /\ (\A x \in L : x < k) /\ e = BackPatch(d, L, k)
    BY <1>2, <1>4, <1>5
  <2>. HIDE DEF L, k, e
  <2>2. /\ Program(e) /\ Extends(d, e) /\ LoopsOK(e) /\ Len(e) = Len(d)
        /\ OpenIn(e) = OpenIn(d) \ L
        /\ NoEq(e) <=> NoEq(d)
    BY <2>1, PatchStep
  <2>. QED  BY <1>5, <2>2 DEF L
<1>. HIDE DEF e
<1>7. /\ Program(g) /\ LoopsOK(g) /\ Extends(e, g)
      /\ OpenIn(g) = (OpenIn(code) \ val.t) \ val.f
      /\ NoEq(g) <=> NoEq(code)
  <2>. DEFINE L == val.f
              k == n + 3
  <2>1. /\ Program(e) /\ LoopsOK(e) /\ L \subseteq OpenIn(e) /\ k \in 1 .. Len(e)
        /\ (\A x \in L : x < k) /\ g = BackPatch(e, L, k)
    BY <1>2, <1>4, <1>6
  <2>. HIDE DEF L, k, g
  <2>2. /\ Program(g) /\ Extends(e, g) /\ LoopsOK(g)
        /\ OpenIn(g) = OpenIn(e) \ L
        /\ NoEq(g) <=> NoEq(e)
    BY <2>1, PatchStep
  <2>. QED  BY <1>6, <2>2 DEF L
<1>. HIDE DEF g
<1>8. Extends(code, g)
  <2>1. Extends(code, d)
    BY <1>3, <1>5, State, ExtendsTransitive
  <2>2. Extends(code, e)
    BY <1>5, <1>6, <2>1, State, ExtendsTransitive
  <2>. QED  BY <1>6, <1>7, <2>2, State, ExtendsTransitive
<1>9. OpenIn(g) = OpenIn(code) \ (Lists(Top) \cup val.t \cup val.f)
  <2>1. Lists(Top) = {}
    BY <1>1, StateTop DEF FrameOK, Lists, Skip
  <2>. QED  BY <1>7, <2>1
<1>. QED  BY <1>1, <1>7, <1>8, <1>9, ClosesStatement DEF Infix

LEMMA FrameKind ==
    ASSUME NEW kind, NEW t, NEW f, NEW enter, NEW mark, NEW id, NEW src, NEW new
    PROVE  [Frame(kind, t, f, enter, mark, id, src) EXCEPT !.kind = new]
             = Frame(new, t, f, enter, mark, id, src)
  BY DEF Frame

LEMMA FrameMark ==
    ASSUME NEW kind, NEW t, NEW f, NEW enter, NEW mark, NEW id, NEW src, NEW new
    PROVE  [Frame(kind, t, f, enter, mark, id, src) EXCEPT !.mark = new]
             = Frame(kind, t, f, enter, new, id, src)
  BY DEF Frame

LEMMA BeginElseOK ==
    ASSUME IInv, BeginElse
    PROVE  StepOK
<1>. DEFINE n == Len(code)
            src == Append(Top.src, val.src)
            fr == Frame("else", Top.t, Top.f, Top.enter, n + 2, Top.id, src)
            q == Append(Outer, fr)
<1>1. /\ next = "reduced" /\ parse # << >> /\ Top.kind = "then"
      /\ code' = Append(code, Goto) /\ val' = NoValue(<< >>) /\ next' = "statement"
      /\ parse' = Outer \o << [Top EXCEPT !.kind = "else", !.mark = Here(code) + 1,
                                          !.src = Append(@, val.src)],
                              Bare("block", 0, None) >>
  BY DEF BeginElse, Inside, Go
<1>2. parse' = Append(q, Bare("block", 0, None))
  <2>. DEFINE x == Top
              m == Here(code) + 1
              src2 == Append(x.src, val.src)
              fr2 == [x EXCEPT !.kind = "else", !.mark = m, !.src = src2]
  <2>1. x = Frame(x.kind, x.t, x.f, x.enter, x.mark, x.id, x.src)
    BY <1>1, StateTop DEF FrameOK
  <2>2. m = n + 2
    BY State
  <2>5. parse' = Outer \o << fr2, Bare("block", 0, None) >>
    BY <1>1
  <2>. HIDE DEF x, m, src2
  <2>3. fr2 = Frame("else", x.t, x.f, x.enter, m, x.id, src2)
    <3>. DEFINE y1 == [x EXCEPT !.kind = "else"]
                y2 == [y1 EXCEPT !.mark = m]
                y3 == [y2 EXCEPT !.src = src2]
    <3>1. fr2 = y3
      OBVIOUS
    <3>2. y1 = [Frame(x.kind, x.t, x.f, x.enter, x.mark, x.id, x.src) EXCEPT !.kind = "else"]
      BY <2>1
    <3>3. y1 = Frame("else", x.t, x.f, x.enter, x.mark, x.id, x.src)
      BY <3>2, FrameKind
    <3>. HIDE DEF y1
    <3>4. y2 = [Frame("else", x.t, x.f, x.enter, x.mark, x.id, x.src) EXCEPT !.mark = m]
      BY <3>3
    <3>5. y2 = Frame("else", x.t, x.f, x.enter, m, x.id, x.src)
      BY <3>4, FrameMark
    <3>. HIDE DEF y2
    <3>6. y3 = [Frame("else", x.t, x.f, x.enter, m, x.id, x.src) EXCEPT !.src = src2]
      BY <3>5
    <3>7. y3 = Frame("else", x.t, x.f, x.enter, m, x.id, src2)
      BY <3>6, FrameExcept
    <3>. QED  BY <3>1, <3>7
  <2>4. fr2 = fr
    BY <2>2, <2>3 DEF x, src2
  <2>. HIDE DEF fr2, fr
  <2>. QED  BY <1>1, <2>4, <2>5, StateTop, AppendTwo
<1>3. /\ fr.kind = "else" /\ fr.t = Top.t /\ fr.f = Top.f /\ fr.enter = Top.enter
      /\ fr.mark = n + 2 /\ fr.id = Top.id /\ fr.src = src
      /\ fr = Frame(fr.kind, fr.t, fr.f, fr.enter, fr.mark, fr.id, fr.src)
  BY DEF Frame
<1>. HIDE DEF fr, src
<1>4. /\ Program(code') /\ LoopsOK(code') /\ Extends(code, code') /\ Len(code') = n + 1
      /\ OpenIn(code') = OpenIn(code) \cup {n + 1}
      /\ NoEq(code') <=> NoEq(code)
  BY <1>1, State, AppendGoto
<1>5. n \in Nat /\ OpenIn(code) \subseteq 1 .. n /\ DOMAIN code' = 1 .. n + 1
      /\ Here(code') = n + 2
  BY <1>4, State, ProgramFacts
<1>6. FrameOK(code', fr)
  <2>1. Top.enter \in 1 .. n + 1 /\ \A x \in Top.t \cup Top.f : x < Top.enter
    BY <1>1, State, StateTop DEF FrameOK
  <2>. QED  BY <1>3, <1>5, <2>1 DEF FrameOK, Kinds
<1>7. FramesOK(code', q) /\ IsSeq(q)
  <2>1. \A k \in DOMAIN Outer : Outer[k].kind # "whilecond"
    BY <1>1, State, NestedPop DEF Top, Outer, Infix, CondKinds
  <2>2. FramesOK(code', Outer)
    BY <1>1, <1>4, <2>1, State, StateTop, FramesGrow
  <2>. QED  BY <1>6, <2>2, FramesAppend DEF FramesOK
<1>8. Apart(q) /\ Held(q) = Held(parse) \cup {n + 1}
  <2>1. Lists(Top) = Top.t \cup Top.f /\ Lists(fr) = Lists(Top) \cup {n + 1}
        /\ Skip(fr) = {n + 1}
    BY <1>1, <1>3, <1>5 DEF Lists, Skip
  <2>2. n + 1 \notin Held(parse)
    BY <1>5, State
  <2>3. Distinct(fr)
    BY <1>1, <1>3, <2>1, <2>2, State, StateTop DEF Distinct
  <2>4. Lists(fr) \cap Held(Outer) = {} /\ Held(Outer) \cup Lists(fr) = Held(parse) \cup {n + 1}
    BY <1>1, <2>1, <2>2, StateTop
  <2>. QED  BY <1>1, <2>3, <2>4, StateTop, ApartAppend, HeldAppend
<1>9. Nested(q, "statement")
  <2>1. Nested(Outer, "statement")
    BY <1>1, State, NestedPop DEF Top, Outer, Infix
  <2>2. IsSeq(Outer) /\ fr.kind = "else"
    BY <1>1, <1>3, StateTop
  <2>3. fr.kind \notin Infix /\ fr.kind \notin CondKinds
        /\ "statement" \notin {"operand", "value"}
    BY <2>2 DEF Infix, CondKinds
  <2>. QED  BY <2>1, <2>2, <2>3, NestedPush
<1>. HIDE DEF q
<1>10. Ledger(code', q, val')
  BY <1>1, <1>4, <1>5, <1>8, State, NoValueType DEF Ledger
<1>11. Written(code', q, "statement") /\ ValueOK(val', "statement")
  BY <1>1, NoValueType DEF Written, ValueOK
<1>12. StateOK(code', q, val', "statement")
  BY <1>4, <1>7, <1>9, <1>10, <1>11 DEF StateOK
<1>13. StateOK(code', parse', val', next')
  BY <1>1, <1>2, <1>12, BlockInside
<1>. QED  BY <1>4, <1>13 DEF StepOK

\* What a loop reads is what it reads before its jump back.
LEMMA UsesBefore ==
    ASSUME NEW c, NEW d, Program(c), Extends(c, d), NEW s \in Nat,
           s > 0, d[Len(c) + 1].arg = None, d[Len(c) + 1].arg2 = None
    PROVE  Uses(d, s, Len(c) + 2) \subseteq Uses(c, s, Len(c) + 1)
<1>. DEFINE n == Len(c)
<1>1. n \in Nat /\ n + 2 - 1 = n + 1 /\ n + 1 - 1 = n
  BY ProgramFacts
<1>2. None \notin AllIds
  BY IRGenAssumption DEF AllIds
<1>3. \A i \in s .. n : d[i].arg = c[i].arg /\ d[i].arg2 = c[i].arg2
  BY <1>1 DEF Extends
<1>4. d[n + 1].arg = None /\ d[n + 1].arg2 = None
  OBVIOUS
<1>5. Uses(d, s, n + 2) = AllIds \cap UNION {{d[i].arg, d[i].arg2} : i \in s .. n + 1}
  BY <1>1 DEF Uses
<1>6. Uses(c, s, n + 1) = AllIds \cap UNION {{c[i].arg, c[i].arg2} : i \in s .. n}
  BY <1>1 DEF Uses
<1>. HIDE DEF n
<1>7. ASSUME NEW id \in AllIds, NEW i \in s .. n + 1, id = d[i].arg \/ id = d[i].arg2
      PROVE  id \in UNION {{c[j].arg, c[j].arg2} : j \in s .. n}
  <2>1. i \in s .. n
    BY <1>1, <1>2, <1>4, <1>7
  <2>2. id \in {c[i].arg, c[i].arg2}
    BY <1>3, <1>7, <2>1
  <2>. QED  BY <2>1, <2>2
<1>8. \A id \in AllIds :
         id \in UNION {{d[i].arg, d[i].arg2} : i \in s .. n + 1} =>
            id \in UNION {{c[j].arg, c[j].arg2} : j \in s .. n}
  BY <1>7
<1>9. Uses(d, s, n + 2) \subseteq Uses(c, s, n + 1)
  <2>1. SUFFICES ASSUME NEW id \in Uses(d, s, n + 2)
                 PROVE  id \in Uses(c, s, n + 1)
    OBVIOUS
  <2>2. id \in AllIds /\ id \in UNION {{d[i].arg, d[i].arg2} : i \in s .. n + 1}
    BY <1>5, <2>1
  <2>3. id \in UNION {{c[j].arg, c[j].arg2} : j \in s .. n}
    BY <1>8, <2>2
  <2>. QED  BY <1>6, <2>2, <2>3
<1>. QED  BY <1>9 DEF n

\* What the end of a loop changes of its instructions d, the last of which are
\* the jump back n + 1 and the NOP: the actions F and R, the jump to m.
LoopEnd(d, g, n, m, F, R) ==
    \A i \in 1 .. n + 2 :
        /\ g[i].op = d[i].op /\ g[i].arg = d[i].arg /\ g[i].arg2 = d[i].arg2
        /\ g[i].target = IF i = n + 1 THEN m ELSE d[i].target
        /\ g[i].forced = IF i = m THEN d[i].forced \cup F ELSE d[i].forced
        /\ g[i].released = IF i = n + 2 THEN R ELSE d[i].released

Acted(d, e, n, m, F, R) ==
    /\ e \in [1 .. n + 2 -> Instrs]
    /\ \A i \in 1 .. n + 2 :
          /\ e[i].op = d[i].op /\ e[i].arg = d[i].arg /\ e[i].arg2 = d[i].arg2
          /\ e[i].target = d[i].target
          /\ e[i].forced = IF i = m THEN d[i].forced \cup F ELSE d[i].forced
          /\ e[i].released = IF i = n + 2 THEN R ELSE d[i].released

WithActions(d, n, m, F, R) ==
    [d EXCEPT ![m].forced = @ \cup F, ![n + 2].released = R]

LEMMA LoopActions ==
    ASSUME NEW d, Program(d), NEW n \in Nat, Len(d) = n + 2, NEW m \in 1 .. n,
           NEW F \in SUBSET AllIds, NEW R \in SUBSET AllIds
    PROVE  Acted(d, WithActions(d, n, m, F, R), n, m, F, R)
<1>. DEFINE e == WithActions(d, n, m, F, R)
<1>1. /\ d \in Seq(Instrs) /\ DOMAIN d = 1 .. n + 2
      /\ \A i \in 1 .. n + 2 : d[i] \in Instrs /\ d[i].target \in 0 .. n + 2
  BY ProgramFacts DEF Program
<1>2. e \in [1 .. n + 2 -> Instrs]
      /\ \A i \in 1 .. n + 2 :
            /\ e[i].op = d[i].op /\ e[i].arg = d[i].arg /\ e[i].arg2 = d[i].arg2
            /\ e[i].target = d[i].target
            /\ e[i].forced = IF i = m THEN d[i].forced \cup F ELSE d[i].forced
            /\ e[i].released = IF i = n + 2 THEN R ELSE d[i].released
  <2>. DEFINE x == d[m]
              z == d[n + 2]
              v == d[m].forced \cup F
              dm == [x EXCEPT !.forced = v]
              dn == [z EXCEPT !.released = R]
  <2>1. x \in Instrs /\ z \in Instrs /\ v \in SUBSET AllIds
    BY <1>1, InstrShape
  <2>2. m # n + 2 /\ m \in DOMAIN d /\ n + 2 \in DOMAIN d
    BY <1>1
  <2>3. e = [d EXCEPT ![m] = dm, ![n + 2] = dn]
    BY <2>2 DEF WithActions
  <2>. HIDE DEF x, z, v, e
  <2>4. dm \in Instrs /\ dm.op = x.op /\ dm.arg = x.arg /\ dm.arg2 = x.arg2
        /\ dm.target = x.target /\ dm.forced = v /\ dm.released = x.released
    <3>1. x \in Instrs /\ v \in SUBSET AllIds
      BY <2>1
    <3>. QED  BY ONLY <3>1, InstrForced, SMTT(60)
  <2>5. dn \in Instrs /\ dn.op = z.op /\ dn.arg = z.arg /\ dn.arg2 = z.arg2
        /\ dn.target = z.target /\ dn.forced = z.forced /\ dn.released = R
    BY <2>1, InstrReleased
  <2>. HIDE DEF dm, dn
  <2>6. e = [i \in 1 .. n + 2 |-> IF i = n + 2 THEN dn ELSE IF i = m THEN dm ELSE d[i]]
    <3>1. d = [i \in 1 .. n + 2 |-> d[i]]
      BY <1>1
    <3>. QED  BY <1>1, <2>2, <2>3, <3>1
  <2>7. ASSUME NEW i \in 1 .. n + 2
        PROVE  /\ e[i] \in Instrs
               /\ e[i].op = d[i].op /\ e[i].arg = d[i].arg /\ e[i].arg2 = d[i].arg2
               /\ e[i].target = d[i].target
               /\ e[i].forced = IF i = m THEN d[i].forced \cup F ELSE d[i].forced
               /\ e[i].released = IF i = n + 2 THEN R ELSE d[i].released
    <3>1. CASE i = n + 2
      <4>1. e[i] = dn /\ d[i] = z /\ i # m
        BY <2>2, <2>6, <3>1 DEF z
      <4>. QED  BY <2>5, <3>1, <4>1
    <3>2. CASE i = m
      <4>1. e[i] = dm /\ d[i] = x /\ i # n + 2
        BY <2>2, <2>6, <3>2 DEF x
      <4>2. v = d[i].forced \cup F
        BY <3>2 DEF v
      <4>. QED  BY <2>4, <3>2, <4>1, <4>2
    <3>3. CASE i # m /\ i # n + 2
      <4>1. e[i] = d[i]
        BY <2>6, <3>3
      <4>. QED  BY <1>1, <3>3, <4>1
    <3>. QED  BY <3>1, <3>2, <3>3
  <2>. QED  BY <2>6, <2>7
<1>. HIDE DEF e
<1>. QED  BY <1>2 DEF Acted, e

LEMMA LoopEndCode ==
    ASSUME NEW d, Program(d), NEW n \in Nat, Len(d) = n + 2, NEW m \in 1 .. n,
           n + 1 \in OpenIn(d), NEW F, NEW R,
           NEW e, Acted(d, e, n, m, F, R)
    PROVE  LET g == BackPatch(e, {n + 1}, m)
           IN  Program(g) /\ Len(g) = n + 2 /\ LoopEnd(d, g, n, m, F, R)
<1>. DEFINE g == BackPatch(e, {n + 1}, m)
<1>2. e \in Seq(Instrs) /\ Len(e) = n + 2 /\ DOMAIN e = 1 .. n + 2
  BY DEF Acted
<1>3. DOMAIN d = 1 .. n + 2 /\ \A i \in 1 .. n + 2 : d[i].target \in 0 .. n + 2
  BY ProgramFacts
<1>4. Program(e)
  BY <1>2, <1>3 DEF Program, Acted
<1>a. n + 1 \in 1 .. n + 2 /\ n + 2 \in 1 .. n + 2 /\ n + 1 # n + 2
  OBVIOUS
<1>5. n + 1 \in OpenIn(e) /\ m \in 1 .. Len(e)
  <2>1. d[n + 1].op \in Jumps /\ d[n + 1].target = 0
    BY DEF OpenIn
  <2>2. e[n + 1].op = d[n + 1].op /\ e[n + 1].target = d[n + 1].target
    BY <1>a DEF Acted
  <2>3. n + 1 \in OpenIn(e)
    BY <1>2, <1>a, <2>1, <2>2 DEF OpenIn
  <2>4. m \in 1 .. Len(e)
    BY <1>2
  <2>. QED  BY <2>3, <2>4
<1>. DEFINE L == {n + 1}
<1>6. L \subseteq OpenIn(e) /\ \A i : i \in L <=> i = n + 1
  BY <1>5
<1>. HIDE DEF L
<1>8. g = BackPatch(e, L, m)
  BY DEF L
<1>. HIDE DEF g
<1>7. Program(g) /\ Len(g) = n + 2
  <2>1. Program(g) /\ Len(g) = Len(e)
    BY ONLY <1>4, <1>5, <1>6, <1>8, PatchStep
  <2>. QED  BY <1>2, <2>1
<1>9. ASSUME NEW i \in 1 .. n + 2
      PROVE  /\ g[i].op = e[i].op /\ g[i].arg = e[i].arg
             /\ g[i].arg2 = e[i].arg2 /\ g[i].forced = e[i].forced
             /\ g[i].released = e[i].released
             /\ i = n + 1 => g[i].target = m
             /\ i # n + 1 => g[i] = e[i]
  <2>1. i \in 1 .. Len(e)
    BY <1>2
  <2>2. /\ g[i].op = e[i].op /\ g[i].arg = e[i].arg /\ g[i].arg2 = e[i].arg2
        /\ g[i].forced = e[i].forced /\ g[i].released = e[i].released
        /\ g[i].target = IF i \in L THEN m ELSE e[i].target
    BY <1>4, <1>5, <1>6, <1>8, <2>1, PatchFields
  <2>3. i \notin L => g[i] = e[i]
    BY <1>4, <1>5, <1>6, <1>8, <2>1, PatchElse
  <2>. QED  BY <1>6, <2>2, <2>3
<1>10. ASSUME NEW i \in 1 .. n + 2
       PROVE  /\ g[i].op = d[i].op /\ g[i].arg = d[i].arg /\ g[i].arg2 = d[i].arg2
              /\ g[i].target = IF i = n + 1 THEN m ELSE d[i].target
              /\ g[i].forced = IF i = m THEN d[i].forced \cup F ELSE d[i].forced
              /\ g[i].released = IF i = n + 2 THEN R ELSE d[i].released
  <2>1. /\ e[i].op = d[i].op /\ e[i].arg = d[i].arg /\ e[i].arg2 = d[i].arg2
        /\ e[i].target = d[i].target
        /\ e[i].forced = IF i = m THEN d[i].forced \cup F ELSE d[i].forced
        /\ e[i].released = IF i = n + 2 THEN R ELSE d[i].released
    BY DEF Acted
  <2>2. g[i].op = d[i].op /\ g[i].arg = d[i].arg /\ g[i].arg2 = d[i].arg2
    BY <1>9, <2>1
  <2>3. g[i].target = IF i = n + 1 THEN m ELSE d[i].target
    BY <1>9, <2>1
  <2>4. g[i].forced = IF i = m THEN d[i].forced \cup F ELSE d[i].forced
    BY <1>9, <2>1
  <2>5. g[i].released = IF i = n + 2 THEN R ELSE d[i].released
    BY <1>9, <2>1
  <2>. QED  BY <2>2, <2>3, <2>4, <2>5
<1>11. LoopEnd(d, g, n, m, F, R)
  BY <1>10 DEF LoopEnd
<1>. QED  BY <1>7, <1>11 DEF g

\* A loop is complete: its actions and its jump back are as they should be.
LEMMA LoopCloses ==
    ASSUME NEW d, Program(d), LoopsOK(d), NEW n \in Nat, Len(d) = n + 2,
           d[n + 1].op = "GOTO", d[n + 1].target = 0, d[n + 2].op = "NOP",
           NEW m \in 1 .. n, d[m].op # "NOP",
           NEW F \in SUBSET AllIds, Uses(d, m, n + 2) \subseteq F,
           NEW R \in SUBSET AllIds, NEW g, Program(g), Len(g) = n + 2,
           LoopEnd(d, g, n, m, F, R)
    PROVE  /\ LoopsOK(g) /\ Extends(d, g)
           /\ OpenIn(g) = OpenIn(d) \ {n + 1}
           /\ NoEq(g) <=> NoEq(d)
<1>1. DOMAIN d = 1 .. n + 2 /\ \A i \in 1 .. n + 2 : d[i].target \in 0 .. n + 2
  BY ProgramFacts
<1>3. m # n + 1 /\ m # n + 2 /\ n + 1 \in 1 .. n + 2 /\ n + 2 \in 1 .. n + 2
      /\ n + 1 # n + 2 /\ m \in 1 .. n + 2 /\ m \in Nat
  OBVIOUS
<1>4. /\ DOMAIN g = 1 .. n + 2
      /\ \A i \in 1 .. n + 2 :
            /\ g[i].op = d[i].op /\ g[i].arg = d[i].arg /\ g[i].arg2 = d[i].arg2
            /\ g[i].target = IF i = n + 1 THEN m ELSE d[i].target
            /\ g[i].forced = IF i = m THEN d[i].forced \cup F ELSE d[i].forced
            /\ g[i].released = IF i = n + 2 THEN R ELSE d[i].released
  BY ProgramFacts DEF LoopEnd
<1>6. Extends(d, g)
  <2>1. Len(d) =< Len(g)
    OBVIOUS
  <2>2. \A i \in 1 .. n + 2 :
           /\ g[i].op = d[i].op /\ g[i].arg = d[i].arg /\ g[i].arg2 = d[i].arg2
           /\ d[i].target # 0 => g[i].target = d[i].target
    BY <1>4
  <2>. QED  BY <2>1, <2>2 DEF Extends
<1>7. OpenIn(g) = OpenIn(d) \ {n + 1}
  <2>1. m # 0
    OBVIOUS
  <2>2. \A i : i \in OpenIn(g) <=> i \in OpenIn(d) /\ i # n + 1
    BY <1>1, <1>3, <1>4, <2>1 DEF OpenIn
  <2>. QED  BY <2>2
<1>8. NoEq(g) <=> NoEq(d)
  BY <1>1, <1>4 DEF NoEq
<1>9. Backs(g) = Backs(d) \cup {n + 1}
  <2>1. n + 1 \in Backs(g)
    <3>1. /\ g[n + 1].op = d[n + 1].op
          /\ g[n + 1].target = IF n + 1 = n + 1 THEN m ELSE d[n + 1].target
      BY <1>3, <1>4
    <3>2. g[n + 1].op = "GOTO" /\ g[n + 1].target = m /\ m \in 1 .. n + 1
      BY <3>1
    <3>. QED  BY <1>3, <1>4, <3>2 DEF Backs
  <2>2. \A i \in 1 .. n + 2 : i # n + 1 => (i \in Backs(g) <=> i \in Backs(d))
    BY <1>1, <1>3, <1>4 DEF Backs
  <2>3. Backs(g) \subseteq 1 .. n + 2 /\ Backs(d) \subseteq 1 .. n + 2
    BY <1>1, <1>4 DEF Backs
  <2>. QED  BY <2>1, <2>2, <2>3
<1>10. ASSUME NEW i \in Backs(g)
       PROVE  /\ g[g[i].target].op # "NOP"
              /\ Uses(g, g[i].target, i + 1) \subseteq g[g[i].target].forced
  <2>1. i \in 1 .. n + 2 /\ g[i].target \in 1 .. i
    BY <1>4 DEF Backs
  <2>2. Uses(g, g[i].target, i + 1) = Uses(d, g[i].target, i + 1)
    <3>1. g[i].target \in Nat /\ i \in Nat
      BY <2>1
    <3>2. \A j \in g[i].target .. i : j \in 1 .. n + 2
      BY <2>1
    <3>3. \A j \in g[i].target .. i : g[j].arg = d[j].arg /\ g[j].arg2 = d[j].arg2
      BY <1>4, <3>2
    <3>. QED  BY <3>1, <3>3, UsesSame
  <2>3. CASE i = n + 1
    <3>1. g[i].target = m /\ g[m].op # "NOP" /\ F \subseteq g[m].forced
      BY <1>3, <1>4, <2>3
    <3>2. i + 1 = n + 2
      BY <2>3
    <3>. QED  BY <2>2, <3>1, <3>2
  <2>4. CASE i # n + 1
    <3>1. i \in Backs(d) /\ g[i].target = d[i].target
      BY <1>4, <1>9, <2>1, <2>4
    <3>2. d[d[i].target].op # "NOP"
          /\ Uses(d, d[i].target, i + 1) \subseteq d[d[i].target].forced
      BY <3>1 DEF LoopsOK
    <3>3. d[i].target \in 1 .. n + 2
      BY <2>1, <3>1
    <3>4. g[d[i].target].op = d[d[i].target].op
          /\ d[d[i].target].forced \subseteq g[d[i].target].forced
      BY <1>4, <3>3
    <3>. QED  BY <2>2, <3>1, <3>2, <3>4
  <2>. QED  BY <2>3, <2>4
<1>11. ASSUME NEW k \in DOMAIN g, g[k].released # {}
       PROVE  k > 1 /\ g[k].op = "NOP" /\ k - 1 \in Backs(g)
  <2>1. CASE k = n + 2
    <3>1. g[n + 2].op = d[n + 2].op
      BY <1>3, <1>4
    <3>2. k > 1 /\ k - 1 = n + 1
      BY <2>1
    <3>. QED  BY <1>9, <2>1, <3>1, <3>2
  <2>2. CASE k # n + 2
    <3>1. k \in DOMAIN d /\ d[k].released # {} /\ g[k].op = d[k].op
      BY <1>1, <1>4, <1>11, <2>2
    <3>2. k > 1 /\ d[k].op = "NOP" /\ k - 1 \in Backs(d)
      BY <3>1 DEF LoopsOK
    <3>. QED  BY <1>9, <3>1, <3>2
  <2>. QED  BY <2>1, <2>2
<1>. QED  BY <1>6, <1>7, <1>8, <1>10, <1>11 DEF LoopsOK

\* The instructions of a loop before its actions and its jump back.
Ended(c, t, f, enter) ==
    BackPatch(Append(BackPatch(Append(c, Goto), t, enter), Nop), f, Len(c) + 2)

LEMMA LoopCode ==
    ASSUME NEW c, NEW t, NEW f, NEW enter,
           Program(c), LoopsOK(c), t \subseteq OpenIn(c), f \subseteq OpenIn(c),
           t \cap f = {}, enter \in 1 .. Len(c) + 1, \A x \in t : x < enter
    PROVE  LET d == Ended(c, t, f, enter)
           IN  /\ Program(d) /\ LoopsOK(d) /\ Len(d) = Len(c) + 2 /\ Extends(c, d)
               /\ OpenIn(d) = (OpenIn(c) \ (t \cup f)) \cup {Len(c) + 1}
               /\ NoEq(d) <=> NoEq(c)
               /\ d[Len(c) + 1].op = "GOTO" /\ d[Len(c) + 1].target = 0
               /\ d[Len(c) + 1].arg = None /\ d[Len(c) + 1].arg2 = None
               /\ d[Len(c) + 2].op = "NOP"
<1>. DEFINE n == Len(c)
            a == Append(c, Goto)
            b == BackPatch(a, t, enter)
            e == Append(b, Nop)
            k == n + 2
            d == BackPatch(e, f, k)
<1>1. n \in Nat /\ OpenIn(c) \subseteq 1 .. n /\ n + 1 \notin t /\ n + 1 \notin f
      /\ n + 2 \notin f
  BY ProgramFacts
<1>2. /\ Program(a) /\ LoopsOK(a) /\ Extends(c, a) /\ Len(a) = n + 1
      /\ OpenIn(a) = OpenIn(c) \cup {n + 1}
      /\ NoEq(a) <=> NoEq(c)
      /\ a[n + 1] = Goto
  BY AppendGoto
<1>. HIDE DEF a
<1>3. t \subseteq OpenIn(a) /\ enter \in 1 .. Len(a) /\ n + 1 \in 1 .. Len(a)
  BY <1>1, <1>2
<1>4. /\ Program(b) /\ LoopsOK(b) /\ Extends(a, b) /\ Len(b) = n + 1
      /\ OpenIn(b) = OpenIn(a) \ t
      /\ NoEq(b) <=> NoEq(c)
  BY <1>2, <1>3, PatchStep
<1>5. b[n + 1] = Goto
  <2>. DEFINE i == n + 1
  <2>1. i \in 1 .. Len(a) /\ i \notin t /\ a[i] = Goto
    BY <1>1, <1>2, <1>3
  <2>. HIDE DEF i
  <2>2. b[i] = a[i]
    BY <1>2, <1>3, <2>1, PatchElse
  <2>. QED  BY <2>1, <2>2 DEF i
<1>. HIDE DEF b
<1>6. /\ Program(e) /\ LoopsOK(e) /\ Extends(b, e) /\ Len(e) = n + 2
      /\ OpenIn(e) = OpenIn(b)
      /\ NoEq(e) <=> NoEq(c)
      /\ e[n + 2] = Nop
  <2>1. n + 1 + 1 = n + 2
    BY <1>1
  <2>. QED  BY <1>4, <2>1, AppendNop
<1>7. e[n + 1] = Goto
  BY <1>1, <1>4, <1>5, ProgramSeq, SeqAppend
<1>. HIDE DEF e
<1>8. f \subseteq OpenIn(e) /\ k \in 1 .. Len(e) /\ \A x \in f : x < k
  BY <1>1, <1>2, <1>4, <1>6
<1>9. n + 1 \in 1 .. Len(e) /\ n + 2 \in 1 .. Len(e)
  BY <1>1, <1>6
<1>. HIDE DEF k
<1>10. /\ Program(d) /\ LoopsOK(d) /\ Extends(e, d) /\ Len(d) = n + 2
       /\ OpenIn(d) = OpenIn(e) \ f
       /\ NoEq(d) <=> NoEq(c)
  <2>1. Program(e) /\ LoopsOK(e) /\ f \subseteq OpenIn(e) /\ k \in 1 .. Len(e)
        /\ (\A x \in f : x < k) /\ d = BackPatch(e, f, k)
    BY <1>6, <1>8
  <2>. HIDE DEF d
  <2>2. /\ Program(d) /\ Extends(e, d) /\ LoopsOK(d) /\ Len(d) = Len(e)
        /\ OpenIn(d) = OpenIn(e) \ f
        /\ NoEq(d) <=> NoEq(e)
    BY <2>1, PatchStep
  <2>. QED  BY <1>6, <2>2
<1>11. d[n + 1] = Goto /\ d[n + 2] = Nop
  <2>. DEFINE i == n + 1
              j == n + 2
  <2>1. i \in 1 .. Len(e) /\ i \notin f /\ e[i] = Goto
        /\ j \in 1 .. Len(e) /\ j \notin f /\ e[j] = Nop
    BY <1>1, <1>6, <1>7, <1>9
  <2>. HIDE DEF i, j
  <2>2. d[i] = e[i] /\ d[j] = e[j]
    BY <1>6, <1>8, <2>1, PatchElse
  <2>. QED  BY <2>1, <2>2 DEF i, j
<1>. HIDE DEF d
<1>12. Extends(c, d)
  <2>1. Extends(c, b)
    BY <1>2, <1>4, ExtendsTransitive
  <2>2. Extends(c, e)
    BY <1>4, <1>6, <2>1, ExtendsTransitive
  <2>. QED  BY <1>6, <1>10, <2>2, ExtendsTransitive
<1>13. OpenIn(d) = (OpenIn(c) \ (t \cup f)) \cup {n + 1}
  BY <1>1, <1>2, <1>4, <1>6, <1>10
<1>14. /\ d[n + 1].op = "GOTO" /\ d[n + 1].target = 0
       /\ d[n + 1].arg = None /\ d[n + 1].arg2 = None /\ d[n + 2].op = "NOP"
  BY <1>11 DEF Goto, Nop, Instr
<1>. QED  BY <1>10, <1>12, <1>13, <1>14 DEF Ended, d, k, e, b, a

LEMMA EndWhileOK ==
    ASSUME IInv, EndWhile
    PROVE  StepOK
<1>. DEFINE n == Len(code)
            t == Top.t
            f == Top.f
            m == Top.mark
            d == Ended(code, t, f, Top.enter)
            F == Uses(code, m, n + 1)
            R == Uses(d, m, n + 2)
            e == WithActions(d, n, m, F, R)
            g == BackPatch(e, {n + 1}, m)
            src == << "while", Top.src[1], val.src >>
<1>1. /\ next = "reduced" /\ parse # << >> /\ Top.kind = "body"
      /\ code' = g /\ parse' = Outer /\ val' = NoValue(src) /\ next' = "reduced"
  BY State DEF EndWhile, Loop, Inside, Reduced, Go, Ended, WithActions, Here
<1>. HIDE DEF src
<1>2. /\ n \in Nat /\ Top.enter \in 1 .. n + 1 /\ m \in 1 .. n
      /\ \A x \in t : x < Top.enter
      /\ t \subseteq OpenIn(code) /\ f \subseteq OpenIn(code) /\ t \cap f = {}
      /\ code[m].op # "NOP"
  <2>1. FrameOK(code, Top) /\ Top.enter \in Nat /\ n \in Nat
    BY <1>1, State, StateTop DEF FrameOK
  <2>2. Top.enter > 0 /\ Top.enter =< n + 1 /\ m \in DOMAIN code
        /\ (\A x \in t : x < Top.enter) /\ code[m].op # "NOP"
    BY <1>1, <2>1, State DEF FrameOK
  <2>3. t \subseteq OpenIn(code) /\ f \subseteq OpenIn(code) /\ t \cap f = {}
    BY <1>1, State, TopLists
  <2>. QED  BY <2>1, <2>2, <2>3, State
<1>3. Program(code) /\ LoopsOK(code)
  BY State
<1>4. /\ Program(d) /\ LoopsOK(d) /\ Len(d) = n + 2 /\ Extends(code, d)
      /\ OpenIn(d) = (OpenIn(code) \ (t \cup f)) \cup {n + 1}
      /\ NoEq(d) <=> NoEq(code)
      /\ d[n + 1].op = "GOTO" /\ d[n + 1].target = 0
      /\ d[n + 1].arg = None /\ d[n + 1].arg2 = None
      /\ d[n + 2].op = "NOP"
  <2>. DEFINE i == Top.enter
  <2>1. /\ Program(code) /\ LoopsOK(code) /\ t \subseteq OpenIn(code)
        /\ f \subseteq OpenIn(code) /\ t \cap f = {} /\ i \in 1 .. Len(code) + 1
        /\ \A x \in t : x < i
    BY <1>2, <1>3
  <2>. HIDE DEF t, f, i
  <2>2. LET x == Ended(code, t, f, i)
        IN  /\ Program(x) /\ LoopsOK(x) /\ Len(x) = Len(code) + 2 /\ Extends(code, x)
            /\ OpenIn(x) = (OpenIn(code) \ (t \cup f)) \cup {Len(code) + 1}
            /\ NoEq(x) <=> NoEq(code)
            /\ x[Len(code) + 1].op = "GOTO" /\ x[Len(code) + 1].target = 0
            /\ x[Len(code) + 1].arg = None /\ x[Len(code) + 1].arg2 = None
            /\ x[Len(code) + 2].op = "NOP"
    BY ONLY <2>1, LoopCode
  <2>. QED  BY <2>2 DEF i
<1>. HIDE DEF d
<1>5. F \in SUBSET AllIds /\ R \in SUBSET AllIds
  BY DEF Uses
<1>6. R \subseteq F
  <2>1. m \in Nat /\ m > 0
    BY <1>2
  <2>. QED  BY <1>3, <1>4, <2>1, UsesBefore
<1>. HIDE DEF F, R
<1>7. Acted(d, e, n, m, F, R)
  <2>1. /\ Program(d) /\ n \in Nat /\ Len(d) = n + 2 /\ m \in 1 .. n
        /\ F \in SUBSET AllIds /\ R \in SUBSET AllIds
    BY <1>2, <1>4, <1>5
  <2>. HIDE DEF n, m
  <2>. QED  BY ONLY <2>1, LoopActions
<1>. HIDE DEF e
<1>8. n + 1 \in OpenIn(d)
  BY <1>4
<1>9. Program(g) /\ Len(g) = n + 2 /\ LoopEnd(d, g, n, m, F, R)
  <2>. HIDE DEF n, m
  <2>. QED  BY <1>2, <1>4, <1>7, <1>8, LoopEndCode
<1>. HIDE DEF g
<1>10. d[m].op # "NOP"
  BY <1>2, <1>4 DEF Extends
<1>11. /\ LoopsOK(g) /\ Extends(d, g)
       /\ OpenIn(g) = OpenIn(d) \ {n + 1}
       /\ NoEq(g) <=> NoEq(d)
  <2>1. Uses(d, m, n + 2) \subseteq F
    BY <1>6 DEF R
  <2>. HIDE DEF n, m
  <2>. QED  BY <1>2, <1>4, <1>5, <1>9, <1>10, <2>1, LoopCloses
<1>12. Extends(code, g)
  BY <1>3, <1>4, <1>9, <1>11, ExtendsTransitive
<1>13. OpenIn(g) = OpenIn(code) \ (Lists(Top) \cup val.t \cup val.f)
  <2>1. Lists(Top) = t \cup f /\ val.t = {} /\ val.f = {}
    BY <1>1, State DEF Lists, Skip
  <2>2. n + 1 \notin OpenIn(code)
    BY <1>2, <1>3, ProgramFacts
  <2>. QED  BY <1>4, <1>11, <2>1, <2>2
<1>. QED  BY <1>1, <1>4, <1>9, <1>11, <1>12, <1>13, ClosesStatement DEF Infix

-----------------------------------------------------------------------------
(***************************************************************************)
(* The invariant is inductive                                              *)
(***************************************************************************)
LEMMA InitInv == Init => IInv
<1>. SUFFICES ASSUME Init PROVE IInv
  OBVIOUS
<1>1. code = << >> /\ parse = << >> /\ terms = << >> /\ next = "statement"
      /\ val.t = {} /\ val.f = {} /\ val.level \in Levels
  BY NoValueType DEF Init
<1>2. DOMAIN code = {} /\ Len(code) = 0 /\ DOMAIN parse = {}
  BY <1>1
<1>3. Program(code) /\ LoopsOK(code) /\ OpenIn(code) = {}
  BY <1>1, <1>2 DEF Program, LoopsOK, OpenIn, Backs
<1>4. FramesOK(code, parse) /\ Apart(parse) /\ Held(parse) = {}
  BY <1>1, <1>2 DEF FramesOK, IsSeq, Apart, Held
<1>5. Nested(parse, next) /\ Written(code, parse, next) /\ ValueOK(val, next)
  BY <1>1, <1>2 DEF Nested, Written, ValueOK
<1>6. Ledger(code, parse, val)
  BY <1>1, <1>3, <1>4 DEF Ledger
<1>7. MaxInstrs \in Nat /\ next \in Phases
  BY <1>1, IRGenAssumption DEF Phases
<1>. QED
  BY <1>1, <1>2, <1>3, <1>4, <1>5, <1>6, <1>7, WaitingNone DEF IInv, StateOK

LEMMA GoBounds ==
    ASSUME NEW c, NEW p, NEW v, NEW n \in Phases, Go(c, p, v, n)
    PROVE  Len(code') =< MaxInstrs /\ next' \in Phases /\ Waiting(terms')
  BY WaitingNone DEF Go, Within

LEMMA ConditionStep ==
    ASSUME IInv, Conditions
    PROVE  StepOK /\ Len(code') =< MaxInstrs /\ next' \in Phases /\ Waiting(terms')
<1>. "operand" \in Phases /\ "value" \in Phases
  BY DEF Phases
<1>1. CASE TrueExpr
  BY <1>1, TrueExprOK, GoBounds DEF TrueExpr
<1>2. CASE FalseExpr
  BY <1>2, FalseExprOK, GoBounds DEF FalseExpr
<1>3. ASSUME NEW op \in RelOps, NEW pair \in Pairs(op), Relational(op, pair)
      PROVE  StepOK /\ Len(code') =< MaxInstrs /\ next' \in Phases /\ Waiting(terms')
  BY <1>3, RelationalOK, GoBounds DEF Relational
<1>4. CASE BeginEquality
  BY <1>4, BeginEqualityOK, GoBounds DEF BeginEquality, Begin
<1>5. CASE FinishEquality
  BY <1>5, FinishEqualityOK, GoBounds DEF FinishEquality
<1>6. CASE BeginAnd
  BY <1>6, BeginAndOK, GoBounds DEF BeginAnd, Begin
<1>7. CASE FinishAnd
  BY <1>7, FinishAndOK, GoBounds DEF FinishAnd
<1>8. CASE BeginOr
  BY <1>8, BeginOrOK, GoBounds DEF BeginOr, Begin
<1>9. CASE FinishOr
  BY <1>9, FinishOrOK, GoBounds DEF FinishOr
<1>. QED
  BY <1>1, <1>2, <1>3, <1>4, <1>5, <1>6, <1>7, <1>8, <1>9 DEF Conditions

LEMMA StatementStep ==
    ASSUME IInv, Statements
    PROVE  StepOK /\ Len(code') =< MaxInstrs /\ next' \in Phases /\ Waiting(terms')
<1>. DEFINE Goal == StepOK /\ Len(code') =< MaxInstrs /\ next' \in Phases
                    /\ Waiting(terms')
<1>. Phases = {"statement", "operand", "value", "reduced", "accepted", "aborted"}
  BY DEF Phases
<1>1. ASSUME NEW id \in Ids, PrintIdent(id) PROVE Goal
  BY <1>1, PrintIdentOK, GoBounds DEF PrintIdent, Reduced
<1>2. ASSUME NEW op \in ArithOps, NEW pair \in Pairs(op), Operate(op, pair) PROVE Goal
  <2>1. StepOK /\ Waiting(terms')
    BY <1>2, OperateOK
  <2>2. next' \in Phases
    BY <1>2, State DEF Operate
  <2>3. Len(code') =< MaxInstrs
    <3>1. Len(code') = Len(code) + 1 /\ Len(code) < MaxInstrs
      BY <1>2, State, ProgramSeq, SeqAppend DEF Operate
    <3>. QED  BY <3>1, State, IRGenAssumption
  <2>. QED  BY <2>1, <2>2, <2>3
<1>3. ASSUME NEW id \in Ids \ BoolIds, NEW term \in Assigned, AssignTo(id, term)
      PROVE  Goal
  BY <1>3, AssignToOK, GoBounds DEF AssignTo, Reduced
<1>4. ASSUME NEW id \in Ids, Mention(id) PROVE Goal
  BY <1>4, MentionOK, GoBounds DEF Mention, Reduced
<1>5. CASE OpenBlock
  BY <1>5, OpenBlockOK, GoBounds DEF OpenBlock, Begin
<1>6. CASE NextItem
  BY <1>6, NextItemOK, GoBounds DEF NextItem
<1>7. CASE CloseBlock
  BY <1>7, CloseBlockOK, GoBounds DEF CloseBlock, Reduced
<1>8. CASE BeginIf
  BY <1>8, BeginIfOK, GoBounds DEF BeginIf, Begin
<1>9. CASE EndIfCond
  BY <1>9, EndIfCondOK, GoBounds DEF EndIfCond
<1>10. CASE EndIf
  BY <1>10, EndIfOK, GoBounds DEF EndIf, Reduced
<1>11. CASE BeginElse
  BY <1>11, BeginElseOK, GoBounds DEF BeginElse
<1>12. CASE EndIfElse
  BY <1>12, EndIfElseOK, GoBounds DEF EndIfElse, Reduced
<1>13. CASE BeginWhile
  BY <1>13, BeginWhileOK, GoBounds DEF BeginWhile, Begin
<1>14. CASE EndWhileCond
  BY <1>14, EndWhileCondOK, GoBounds DEF EndWhileCond
<1>15. CASE EndWhile
  BY <1>15, EndWhileOK, GoBounds DEF EndWhile, Loop, Reduced
<1>16. ASSUME NEW id \in BoolIds, BeginAssignBool(id) PROVE Goal
  BY <1>16, BeginAssignBoolOK, GoBounds DEF BeginAssignBool, Begin
<1>17. CASE AssignBool
  BY <1>17, AssignBoolOK, GoBounds DEF AssignBool, Reduced
<1>18. CASE Accept
  BY <1>18, AcceptOK, GoBounds DEF Accept
<1>. QED
  BY <1>1, <1>2, <1>3, <1>4, <1>5, <1>6, <1>7, <1>8, <1>9, <1>10, <1>11, <1>12,
     <1>13, <1>14, <1>15, <1>16, <1>17, <1>18 DEF Statements

LEMMA NextOK == IInv /\ [Next]_vars => IInv' /\ (StepOK \/ UNCHANGED vars)
<1>. SUFFICES ASSUME IInv, [Next]_vars PROVE IInv' /\ (StepOK \/ UNCHANGED vars)
  OBVIOUS
<1>1. CASE Conditions
  BY <1>1, ConditionStep, StepGivesInv
<1>2. CASE Statements
  BY <1>2, StatementStep, StepGivesInv
<1>3. CASE UNCHANGED vars
  BY <1>3 DEF vars, IInv, StateOK, Program, LoopsOK, FramesOK, Ledger, Nested,
              Written, ValueOK, Waiting, FrameOK, Held, Apart, OpenIn, NoEq, Backs, Uses
<1>. QED  BY <1>1, <1>2, <1>3 DEF Next

-----------------------------------------------------------------------------
(***************************************************************************)
(* The theorems                                                            *)
(***************************************************************************)

\* The invariant holds in every state the parser reaches.
THEOREM Invariance == Spec => []IInv
<1>1. Init => IInv
  BY InitInv
<1>2. IInv /\ [Next]_vars => IInv'
  BY NextOK
<1>. QED  BY <1>1, <1>2, PTL DEF Spec

\* The lists and the targets name instructions that exist, and a marker names
\* one that exists or the next (the indices that back_patch follows).
THEOREM TypeCorrect == Spec => []TypeOK
<1>1. ASSUME IInv PROVE TypeOK
  <2>1. Len(code) =< MaxInstrs /\ next \in Phases
    BY <1>1 DEF IInv
  <2>2. \A i \in DOMAIN code :
           /\ code[i].op \in Ops
           /\ code[i].target \in {0} \cup DOMAIN code
           /\ code[i].forced \cup code[i].released \subseteq AllIds
    <3>1. \A i \in DOMAIN code : code[i] \in Instrs
                                 /\ code[i].target \in {0} \cup DOMAIN code
      BY <1>1, State, ProgramFacts DEF Program
    <3>. QED  BY <3>1, InstrShape
  <2>3. OpenIn(code) \subseteq DOMAIN code
    BY DEF OpenIn
  <2>4. ASSUME NEW k \in DOMAIN parse
        PROVE  /\ parse[k].kind \in Kinds
               /\ parse[k].t \cup parse[k].f \subseteq DOMAIN code
               /\ {parse[k].enter, parse[k].mark} \subseteq 0 .. Here(code)
    <3>1. FrameOK(code, parse[k])
      BY <1>1, State DEF FramesOK
    <3>2. Lists(parse[k]) \subseteq Held(parse)
      BY DEF Held
    <3>3. parse[k].t \cup parse[k].f \subseteq DOMAIN code
      BY <1>1, <2>3, <3>2, State DEF Lists
    <3>4. /\ parse[k].kind \in Kinds
          /\ parse[k].enter \in 0 .. Here(code) /\ parse[k].mark \in 0 .. Here(code)
      BY <3>1 DEF FrameOK
    <3>. QED  BY <3>3, <3>4
  <2>5. \A k \in DOMAIN terms : terms[k].place \in ToSet(Temps)
    BY <1>1, State DEF Waiting
  <2>6. val.level \in Levels /\ val.t \cup val.f \subseteq DOMAIN code
    BY <1>1, <2>3, State
  <2>. QED  BY <2>1, <2>2, <2>4, <2>5, <2>6 DEF TypeOK
<1>. QED  BY <1>1, Invariance, PTL

LEMMA HoldersAre ==
    ASSUME NEW i
    PROVE  \A x : x \in Holders(i) <=>
               \/ \E k \in DOMAIN parse :
                     \/ x = << k, "true" >> /\ i \in parse[k].t
                     \/ x = << k, "false" >> /\ i \in parse[k].f
                     \/ x = << k, "skip" >> /\ i \in Skip(parse[k])
               \/ x = << 0, "true" >> /\ i \in val.t
               \/ x = << 0, "false" >> /\ i \in val.f
<1>. DEFINE A == {k \in DOMAIN parse : i \in parse[k].t}
            B == {k \in DOMAIN parse : i \in parse[k].f}
            C == {k \in DOMAIN parse : parse[k].kind = "else" /\ i = parse[k].mark - 1}
            D == {l \in {"true", "false"} :
                     i \in IF l = "true" THEN val.t ELSE val.f}
<1>1. ASSUME NEW x
      PROVE  x \in A \X {"true"} <=>
                \E k \in DOMAIN parse : x = << k, "true" >> /\ i \in parse[k].t
  OBVIOUS
<1>2. ASSUME NEW x
      PROVE  x \in B \X {"false"} <=>
                \E k \in DOMAIN parse : x = << k, "false" >> /\ i \in parse[k].f
  OBVIOUS
<1>3. ASSUME NEW x
      PROVE  x \in C \X {"skip"} <=>
                \E k \in DOMAIN parse : x = << k, "skip" >> /\ i \in Skip(parse[k])
  BY DEF Skip
<1>4. ASSUME NEW x
      PROVE  x \in {0} \X D <=>
                \/ x = << 0, "true" >> /\ i \in val.t
                \/ x = << 0, "false" >> /\ i \in val.f
  OBVIOUS
<1>5. Holders(i) = (A \X {"true"}) \cup (B \X {"false"}) \cup (C \X {"skip"})
                      \cup ({0} \X D)
  BY DEF Holders
<1>. HIDE DEF A, B, C, D
<1>. QED  BY <1>1, <1>2, <1>3, <1>4, <1>5

\* No jump is lost and none is patched twice: a jump without a target is on
\* exactly one of the lists that the parser carries, a jump with one is on none
\* (merge_lists, back_patch and every reduction of C.y that hands lists on).
THEOREM JumpsListedOnce == Spec => []ListedOnce
<1>1. ASSUME IInv PROVE ListedOnce
  <2>. SUFFICES ASSUME NoEquality, NEW i \in DOMAIN code
                PROVE  Cardinality(Holders(i)) = IF i \in Open THEN 1 ELSE 0
    BY DEF ListedOnce
  <2>. DEFINE V == val.t \cup val.f
  <2>1. /\ Open = Held(parse) \cup V
        /\ V \cap Held(parse) = {} /\ val.t \cap val.f = {} /\ Apart(parse)
    BY <1>1, State DEF Open, OpenIn, NoEquality, NoEq
  <2>2. \A k \in DOMAIN parse : k # 0
    BY <1>1, State, SeqFacts
  <2>3. \A k \in DOMAIN parse : i \in Lists(parse[k]) => i \in Held(parse)
    BY DEF Held
  <2>4. \A k \in DOMAIN parse :
           i \in Lists(parse[k]) <=> \/ i \in parse[k].t
                                     \/ i \in parse[k].f
                                     \/ i \in Skip(parse[k])
    BY DEF Lists
  <2>5. CASE i \notin Open
    <3>1. \A x : x \notin Holders(i)
      BY <2>1, <2>3, <2>4, <2>5, HoldersAre
    <3>2. Holders(i) = {}
      BY <3>1
    <3>. QED  BY <2>5, <3>2, FS_EmptySet
  <2>6. CASE i \in V
    <3>0. i \in Open
      BY <2>1, <2>6
    <3>1. i \notin Held(parse)
      BY <2>1, <2>6
    <3>2. CASE i \in val.t
      <4>1. \A x : x \in Holders(i) <=> x = << 0, "true" >>
        BY <2>1, <2>3, <2>4, <3>1, <3>2, HoldersAre
      <4>2. Holders(i) = {<< 0, "true" >>}
        BY <4>1
      <4>. QED  BY <3>0, <4>2, FS_Singleton
    <3>3. CASE i \in val.f
      <4>1. \A x : x \in Holders(i) <=> x = << 0, "false" >>
        BY <2>1, <2>3, <2>4, <3>1, <3>3, HoldersAre
      <4>2. Holders(i) = {<< 0, "false" >>}
        BY <4>1
      <4>. QED  BY <3>0, <4>2, FS_Singleton
    <3>. QED  BY <2>6, <3>2, <3>3
  <2>7. CASE i \in Held(parse)
    <3>0. i \in Open
      BY <2>1, <2>7
    <3>1. PICK k \in DOMAIN parse : i \in Lists(parse[k])
      BY <2>7 DEF Held
    <3>2. i \notin V
      BY <2>1, <2>7
    <3>3. \A j \in DOMAIN parse : j # k => i \notin Lists(parse[j])
      BY <2>1, <3>1 DEF Apart
    <3>4. Distinct(parse[k])
      BY <2>1 DEF Apart
    <3>5. CASE i \in parse[k].t
      <4>1. i \notin parse[k].f /\ i \notin Skip(parse[k])
        BY <3>4, <3>5 DEF Distinct
      <4>2. \A x : x \in Holders(i) <=> x = << k, "true" >>
        BY <2>4, <3>2, <3>3, <3>5, <4>1, HoldersAre
      <4>3. Holders(i) = {<< k, "true" >>}
        BY <4>2
      <4>. QED  BY <3>0, <4>3, FS_Singleton
    <3>6. CASE i \in parse[k].f
      <4>1. i \notin parse[k].t /\ i \notin Skip(parse[k])
        BY <3>4, <3>6 DEF Distinct
      <4>2. \A x : x \in Holders(i) <=> x = << k, "false" >>
        BY <2>4, <3>2, <3>3, <3>6, <4>1, HoldersAre
      <4>3. Holders(i) = {<< k, "false" >>}
        BY <4>2
      <4>. QED  BY <3>0, <4>3, FS_Singleton
    <3>7. CASE i \in Skip(parse[k])
      <4>1. i \notin parse[k].t /\ i \notin parse[k].f
        BY <3>4, <3>7 DEF Distinct
      <4>2. \A x : x \in Holders(i) <=> x = << k, "skip" >>
        BY <2>4, <3>2, <3>3, <3>7, <4>1, HoldersAre
      <4>3. Holders(i) = {<< k, "skip" >>}
        BY <4>2
      <4>. QED  BY <3>0, <4>3, FS_Singleton
    <3>. QED  BY <2>4, <3>1, <3>5, <3>6, <3>7
  <2>. QED  BY <2>1, <2>5, <2>6, <2>7
<1>. QED  BY <1>1, Invariance, PTL

\* A jump that was patched keeps its target for the rest of the parse.
THEOREM JumpsPatchedOnce == Spec => PatchedOnce
<1>. DEFINE Kept == \A i \in DOMAIN code :
                       code[i].target # 0 => code'[i].target = code[i].target
<1>1. IInv /\ [Next]_vars => [Kept]_vars
  <2>. SUFFICES ASSUME IInv, [Next]_vars PROVE Kept \/ UNCHANGED vars
    OBVIOUS
  <2>1. ASSUME Extends(code, code') PROVE Kept
    BY <2>1, State DEF Extends
  <2>. QED  BY <2>1, NextOK DEF StepOK
<1>. QED  BY <1>1, Invariance, PTL DEF Spec, PatchedOnce

LEMMA OnlyAccept == IInv /\ Next /\ next' = "accepted" => Accept
<1>. SUFFICES ASSUME IInv, Next, next' = "accepted", ~Accept PROVE FALSE
  OBVIOUS
<1>1. ASSUME NEW c, NEW p, NEW v, NEW n, n # "accepted", Go(c, p, v, n) PROVE FALSE
  BY <1>1 DEF Go
<1>2. ASSUME NEW c, NEW p, NEW src, Reduced(c, p, src) PROVE FALSE
  BY <1>1, <1>2 DEF Reduced
<1>3. ASSUME NEW fr, NEW n, n # "accepted", Begin(fr, n) PROVE FALSE
  BY <1>1, <1>3 DEF Begin
<1>4. ASSUME Conditions PROVE FALSE
  BY <1>1, <1>3, <1>4 DEF Conditions, TrueExpr, FalseExpr, Relational, BeginEquality,
     FinishEquality, BeginAnd, FinishAnd, BeginOr, FinishOr
<1>5. ASSUME Statements PROVE FALSE
  <2>1. ASSUME NEW op \in ArithOps, NEW pair \in Pairs(op), Operate(op, pair) PROVE FALSE
    BY <2>1 DEF Operate
  <2>2. CASE \/ \E id \in Ids : PrintIdent(id)
             \/ \E id \in Ids \ BoolIds : \E term \in Assigned : AssignTo(id, term)
             \/ \E id \in Ids : Mention(id)
    BY <1>2, <2>2 DEF PrintIdent, AssignTo, Mention
  <2>3. CASE OpenBlock \/ NextItem \/ CloseBlock
    BY <1>1, <1>2, <1>3, <2>3 DEF OpenBlock, NextItem, CloseBlock
  <2>4. CASE BeginIf \/ BeginWhile \/ \E id \in BoolIds : BeginAssignBool(id)
    BY <1>3, <2>4 DEF BeginIf, BeginWhile, BeginAssignBool
  <2>5. CASE EndIfCond \/ BeginElse \/ EndWhileCond
    BY <1>1, <2>5 DEF EndIfCond, BeginElse, EndWhileCond
  <2>6. CASE EndIf
    BY <1>1, <1>2, <2>6 DEF EndIf
  <2>7. CASE EndIfElse \/ EndWhile \/ AssignBool
    BY <1>2, <2>7 DEF EndIfElse, EndWhile, Loop, AssignBool
  <2>. QED  BY <1>5, <2>1, <2>2, <2>3, <2>4, <2>5, <2>6, <2>7 DEF Statements
<1>. QED  BY <1>4, <1>5 DEF Next

\* A program without == that is accepted has no jump without a target: what
\* is left to patch when the parser has the whole statement is nothing (C.y, %start).
THEOREM AcceptedIsComplete ==
    Spec => [](next = "accepted" /\ NoEquality => Open = {})
<1>. DEFINE Done == next = "accepted" => parse = << >>
<1>1. Init => Done
  BY DEF Init
<1>2. IInv /\ Done /\ [Next]_vars => Done'
  <2>. SUFFICES ASSUME IInv, Done, [Next]_vars, next' = "accepted" PROVE parse' = << >>
    OBVIOUS
  <2>1. CASE Next
    BY <2>1, OnlyAccept DEF Accept, Go
  <2>2. CASE UNCHANGED vars
    BY <2>2 DEF vars
  <2>. QED  BY <2>1, <2>2
<1>3. IInv /\ Done => (next = "accepted" /\ NoEquality => Open = {})
  <2>. SUFFICES ASSUME IInv, Done, next = "accepted", NoEquality PROVE Open = {}
    OBVIOUS
  <2>1. Held(parse) = {}
    BY DEF Held
  <2>2. Open \subseteq Held(parse) \cup val.t \cup val.f
    BY State DEF Open, OpenIn, NoEquality, NoEq
  <2>. QED  BY <2>1, <2>2, State
<1>. QED  BY <1>1, <1>2, <1>3, Invariance, PTL DEF Spec

\* In a loop without a loop inside, every identifier that the loop reads is
\* forced on the stack from the loop's first instruction to its jump back: the
\* FORCE_ID_STACK actions stand at the first instruction, and between it and the
\* jump there is no RELEASE_ID_STACK (add_action_to_instr_range).
THEOREM InnermostLoopsForced == Spec => []InnermostForced
<1>1. ASSUME IInv PROVE InnermostForced
  <2>. SUFFICES ASSUME NEW i \in BackJumps, BackJumps \cap Body(i) = {i},
                       NEW j \in Body(i), NEW id \in Uses(code, code[i].target, i + 1)
                PROVE  ForcedAt(j, id)
    BY DEF InnermostForced, Forced
  <2>. DEFINE m == code[i].target
  <2>1. BackJumps = Backs(code) /\ Body(i) = m .. i
    BY DEF BackJumps, Backs, Body
  <2>2. LoopsOK(code) /\ Len(code) \in Nat /\ DOMAIN code = 1 .. Len(code)
    BY <1>1, State
  <2>3. i \in 1 .. Len(code) /\ m \in 1 .. i /\ j \in m .. i
    BY <2>1, <2>2 DEF Backs
  <2>4. id \in code[m].forced /\ code[m].op # "NOP"
    BY <2>1, <2>2 DEF LoopsOK
  <2>. HIDE DEF m
  <2>5. ASSUME NEW k \in m .. j, id \in code[k].released PROVE FALSE
    <3>1. k \in 1 .. Len(code) /\ k \in Nat /\ m \in Nat /\ k >= m /\ k =< i
      BY <2>2, <2>3
    <3>2. k > 1 /\ code[k].op = "NOP" /\ k - 1 \in Backs(code)
      BY <2>2, <2>5, <3>1 DEF LoopsOK
    <3>3. k # m
      BY <2>4, <3>2
    <3>4. k - 1 \in m .. i
      BY <2>3, <3>1, <3>3
    <3>5. k - 1 = i
      BY <2>1, <3>2, <3>4
    <3>. QED  BY <2>3, <3>1, <3>5
  <2>6. m \in 1 .. j
    BY <2>3
  <2>. QED  BY <2>4, <2>5, <2>6 DEF ForcedAt
<1>. QED  BY <1>1, Invariance, PTL
=============================================================================

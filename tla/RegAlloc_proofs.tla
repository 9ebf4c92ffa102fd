---------------------------- MODULE RegAlloc_proofs ----------------------------
(***************************************************************************)
(* The register allocator implements the source language, for any number   *)
(* of identifiers and registers, any words and any loops: for every        *)
(* program, whatever instructions it consists of, as long as compile_cond  *)
(* is not given two identifiers that are both current on the stack (Spec,  *)
(* not SpecAll).                                                           *)
(*                                                                         *)
(* The inductive invariant IInv says of every identifier that its copies   *)
(* agree and that its descriptors are linked (Consistent), and that it is  *)
(* on the stack whenever it is forced there and in a register too          *)
(* (ForcedOn).  The last part has no property of its own; without it the   *)
(* allocator could load a slot that is not current.                        *)
(*                                                                         *)
(* Each helper of the compiler has a lemma that says which values can be   *)
(* read afterwards as before (Keeps, Same), each kind of instruction one   *)
(* that says which value changes (Assigns, Preserves), each action one     *)
(* that takes it to a step of Source.                                      *)
(***************************************************************************)
EXTENDS RegAlloc, Allocator_proofs

ForcedOn(s, x) == s.force[x] /\ s.addr[x] # << >> => s.onStack[x]

\* What dump_reg and ensure_register leave as it was: everything that can be
\* read, except for the identifiers of X, can still be read and has the same
\* value.
Keeps(s, t, X) ==
    \A x \in Ids \ X :
        Legible(s, x) /\ ForcedOn(s, x) =>
            Legible(t, x) /\ Read(t, x) = Read(s, x)

KeepsForced(s, t) == \A x \in Ids : ForcedOn(s, x) => ForcedOn(t, x)

Consistent(s) == LinkedIn(s) /\ AgreeIn(s)

\* No identifier but those of X is said to be in r.
FreeOf(s, r, X) ==
    \A x \in Ids \ X : \A i \in 1 .. Len(s.addr[x]) : s.addr[x][i] # r

\* dump_reg_with_reserve loses no value: whatever could be read can still be
\* read, and the register no longer holds anything but keep.
LEMMA DumpKeeps ==
    ASSUME NEW s \in States, NEW r \in Regs, NEW keep \in Keepers,
           Consistent(s),
           NEW t, t = Dump(s, r, keep), ~t.aborted
    PROVE  /\ Consistent(t)
           /\ Keeps(s, t, {})
           /\ KeepsForced(s, t)
           /\ FreeOf(t, r, {keep})
<1>1. /\ t \in States
      /\ t.force = s.force
      /\ t.reg = s.reg
  BY DumpFields
<1>. DEFINE H(x) == Hit(s, r, keep, x)
<1>2. /\ \A x \in Ids : t.held[r][x] = IF x = keep THEN 1 ELSE 0
      /\ \A x \in Ids, q \in Regs \ {r} : t.held[q][x] = s.held[q][x]
      /\ \A x \in Ids : H(x) /\ Len(s.addr[x]) = 1 =>
            t.mem[x] = s.reg[r] /\ t.onStack[x]
      /\ \A x \in Ids : H(x) /\ Len(s.addr[x]) # 1 =>
            t.mem[x] = s.mem[x] /\ t.onStack[x] = s.onStack[x]
  BY DumpFields
<1>3. ASSUME NEW x \in Ids
      PROVE  /\ s.addr[x] \in Seq(Regs)
             /\ t.addr[x] \in Seq(Regs)
             /\ s.held[r][x] \in Nat
             /\ \A i, j \in 1 .. Len(s.addr[x]) : s.addr[x][i] = s.addr[x][j] => i = j
             /\ \A i \in 1 .. Len(s.addr[x]) : s.held[s.addr[x][i]][x] > 0
  BY <1>1 DEF States, Consistent, LinkedIn
<1>4. ASSUME NEW x \in Ids, H(x)
      PROVE  /\ Contains(s.addr[x], r)
             /\ \A i, j \in 1 .. Len(t.addr[x]) : t.addr[x][i] = t.addr[x][j] => i = j
             /\ \A i \in 1 .. Len(t.addr[x]) :
                   /\ t.addr[x][i] # r
                   /\ \E j \in 1 .. Len(s.addr[x]) : t.addr[x][i] = s.addr[x][j]
             /\ Len(s.addr[x]) > 1 => Len(t.addr[x]) > 0
             /\ Len(s.addr[x]) = 1 => t.addr[x] = << >> /\ s.addr[x][1] = r
  <2>1. t.addr[x] = RemoveFirst(s.addr[x], r) /\ Contains(s.addr[x], r)
    BY <1>4, DumpFields
  <2>2. Len(s.addr[x]) = 1 => s.addr[x][1] = r
    BY <2>1 DEF Contains
  <2>3. /\ s.addr[x] \in Seq(Regs)
        /\ \A i, j \in 1 .. Len(s.addr[x]) : s.addr[x][i] = s.addr[x][j] => i = j
    BY <1>3
  <2>4. /\ \A i, j \in 1 .. Len(t.addr[x]) : t.addr[x][i] = t.addr[x][j] => i = j
        /\ \A i \in 1 .. Len(t.addr[x]) :
              /\ t.addr[x][i] # r
              /\ \E j \in 1 .. Len(s.addr[x]) : t.addr[x][i] = s.addr[x][j]
        /\ Len(s.addr[x]) > 1 => Len(t.addr[x]) > 0
        /\ Len(s.addr[x]) = 1 => t.addr[x] = << >>
    BY <2>1, <2>3, RemoveFirstDistinct
  <2>. QED  BY <2>1, <2>2, <2>4
<1>5. ASSUME NEW x \in Ids, ~H(x)
      PROVE  /\ t.addr[x] = s.addr[x]
             /\ t.mem[x] = s.mem[x]
             /\ t.onStack[x] = s.onStack[x]
  BY <1>5, DumpFields
<1>5a. ASSUME NEW x \in Ids, ~H(x), x # keep, NEW i \in 1 .. Len(s.addr[x])
       PROVE  s.addr[x][i] # r
  BY <1>3, <1>5a DEF Hit
<1>5b. ASSUME NEW x \in Ids, ~H(x), NEW i \in 1 .. Len(s.addr[x]),
              s.addr[x][i] = r
       PROVE  x = keep
  BY <1>5a, <1>5b
<1>. HIDE DEF H
<1>6. FreeOf(t, r, {keep})
  <2>. SUFFICES ASSUME NEW x \in Ids \ {keep}, NEW i \in 1 .. Len(t.addr[x])
                PROVE  t.addr[x][i] # r
    BY DEF FreeOf
  <2>1. CASE H(x)
    BY <1>4, <2>1
  <2>2. CASE ~H(x)
    BY <1>5, <1>5a, <2>2
  <2>. QED  BY <2>1, <2>2
<1>7. LinkedIn(t)
  <2>. SUFFICES ASSUME NEW x \in Ids, NEW i \in 1 .. Len(t.addr[x])
                PROVE  /\ t.held[t.addr[x][i]][x] > 0
                       /\ \A j \in 1 .. Len(t.addr[x]) :
                             t.addr[x][i] = t.addr[x][j] => i = j
    BY DEF LinkedIn
  <2>1. t.addr[x][i] \in Regs
    BY <1>3, ElementOfSeq
  <2>2. CASE H(x)
    <3>1. PICK k \in 1 .. Len(s.addr[x]) : t.addr[x][i] = s.addr[x][k]
      BY <1>4, <2>2
    <3>2. t.addr[x][i] # r /\ s.held[t.addr[x][i]][x] > 0
      BY <1>3, <1>4, <2>2, <3>1
    <3>3. t.held[t.addr[x][i]][x] = s.held[t.addr[x][i]][x]
      BY <1>2, <2>1, <3>2
    <3>. QED  BY <1>4, <2>2, <3>2, <3>3
  <2>3. CASE ~H(x)
    <3>1. t.addr[x] = s.addr[x] /\ s.held[s.addr[x][i]][x] > 0
      BY <1>3, <1>5, <2>3
    <3>2. ASSUME s.addr[x][i] = r PROVE t.held[t.addr[x][i]][x] > 0
      BY <1>2, <1>5b, <2>3, <3>1, <3>2
    <3>3. ASSUME s.addr[x][i] # r PROVE t.held[t.addr[x][i]][x] > 0
      BY <1>2, <2>1, <3>1, <3>3
    <3>4. \A j \in 1 .. Len(t.addr[x]) : t.addr[x][i] = t.addr[x][j] => i = j
      BY <1>3, <3>1
    <3>. QED  BY <3>1, <3>2, <3>3, <3>4
  <2>. QED  BY <2>2, <2>3
<1>8. AgreeIn(t)
  <2>. SUFFICES ASSUME NEW x \in Ids, NEW i \in 1 .. Len(t.addr[x])
                PROVE  /\ \A j \in 1 .. Len(t.addr[x]) :
                             t.reg[t.addr[x][i]] = t.reg[t.addr[x][j]]
                       /\ t.onStack[x] => t.mem[x] = t.reg[t.addr[x][i]]
    BY DEF AgreeIn
  <2>2. CASE H(x)
    <3>1. Len(s.addr[x]) # 1 /\ t.onStack[x] = s.onStack[x] /\ t.mem[x] = s.mem[x]
      BY <1>1, <1>2, <1>3, <1>4, <2>2 DEF States
    <3>2. ASSUME NEW j \in 1 .. Len(t.addr[x])
          PROVE  t.reg[t.addr[x][i]] = t.reg[t.addr[x][j]]
      <4>1. PICK k \in 1 .. Len(s.addr[x]) : t.addr[x][i] = s.addr[x][k]
        BY <1>4, <2>2
      <4>2. PICK l \in 1 .. Len(s.addr[x]) : t.addr[x][j] = s.addr[x][l]
        BY <1>4, <2>2
      <4>. QED  BY <1>1, <4>1, <4>2 DEF Consistent, AgreeIn
    <3>3. ASSUME t.onStack[x]
          PROVE  t.mem[x] = t.reg[t.addr[x][i]]
      <4>1. PICK k \in 1 .. Len(s.addr[x]) : t.addr[x][i] = s.addr[x][k]
        BY <1>4, <2>2
      <4>2. s.onStack[x]
        BY <3>1, <3>3
      <4>3. s.mem[x] = s.reg[s.addr[x][k]]
        BY <4>2 DEF Consistent, AgreeIn
      <4>. QED  BY <1>1, <3>1, <4>1, <4>3
    <3>. QED  BY <3>2, <3>3
  <2>3. CASE ~H(x)
    BY <1>1, <1>5, <2>3 DEF Consistent, AgreeIn
  <2>. QED  BY <2>2, <2>3
<1>9. ASSUME NEW x \in Ids, ForcedOn(s, x)
      PROVE  /\ ForcedOn(t, x)
             /\ Legible(s, x) => Legible(t, x) /\ Read(t, x) = Read(s, x)
  <2>1. CASE ~H(x)
    BY <1>1, <1>5, <1>9, <2>1 DEF ForcedOn, Legible, Read
  <2>2. CASE H(x) /\ Len(s.addr[x]) = 1
    <3>1. /\ t.addr[x] = << >> /\ s.addr[x][1] = r /\ s.addr[x] # << >>
          /\ t.onStack[x]
          /\ t.mem[x] = s.reg[r]
      BY <1>2, <1>4, <2>2
    <3>2. Head(s.addr[x]) = r
      BY <1>3, <3>1, <2>2
    <3>3. s.onStack[x] => s.mem[x] = s.reg[r]
      BY <3>1, <2>2 DEF Consistent, AgreeIn
    <3>. QED  BY <1>1, <1>9, <3>1, <3>2, <3>3 DEF ForcedOn, Legible, Read
  <2>3. CASE H(x) /\ Len(s.addr[x]) # 1
    <3>1. /\ t.onStack[x] = s.onStack[x] /\ t.mem[x] = s.mem[x]
      BY <1>1, <1>2, <2>3 DEF States
    <3>2. Len(s.addr[x]) > 1
      <4>1. Contains(s.addr[x], r) /\ Len(s.addr[x]) # 1
        BY <1>4, <2>3
      <4>2. Len(s.addr[x]) \in Nat
        BY <1>3
      <4>3. PICK n \in 1 .. Len(s.addr[x]) : s.addr[x][n] = r
        BY <4>1 DEF Contains
      <4>. DEFINE L == Len(s.addr[x])
      <4>4. L \in Nat /\ L # 1 /\ n \in 1 .. L
        BY <4>1, <4>2
      <4>. HIDE DEF L
      <4>5. L > 1
        BY <4>4
      <4>. QED  BY <4>5 DEF L
    <3>3. Len(t.addr[x]) > 0 /\ t.addr[x] # << >> /\ s.addr[x] # << >>
      BY <1>3, <1>4, <2>3, <3>2
    <3>4. Head(t.addr[x]) = t.addr[x][1] /\ Head(s.addr[x]) = s.addr[x][1]
      BY <1>3, <3>3
    <3>5. s.reg[t.addr[x][1]] = s.reg[s.addr[x][1]]
      <4>1. PICK j \in 1 .. Len(s.addr[x]) : t.addr[x][1] = s.addr[x][j]
        BY <1>3, <1>4, <2>3, <3>3
      <4>. QED  BY <4>1, <3>2, <1>3 DEF Consistent, AgreeIn
    <3>. QED  BY <1>1, <1>9, <3>1, <3>3, <3>4, <3>5 DEF ForcedOn, Legible, Read
  <2>. QED  BY <2>1, <2>2, <2>3
<1>. QED  BY <1>6, <1>7, <1>8, <1>9 DEF Consistent, Keeps, KeepsForced
-----------------------------------------------------------------------------
(* ensure_register keeps what can be read. *)

\* t is s after id has been put in r.
Ensured(s, t, id, r) ==
    /\ t \in States
    /\ ~s.aborted
    /\ Consistent(t)
    /\ Keeps(s, t, {})
    /\ \A x \in Ids \ {id} : ForcedOn(s, x) => ForcedOn(t, x)
    /\ Legible(s, id) => ForcedOn(t, id) /\ t.reg[r] = Read(s, id)
    /\ t.force = s.force
    /\ t.held[r][id] > 0
    /\ t.addr[id] # << >>

\* ensure_register loses no value, and puts the value of the identifier in the
\* register if it has one.
LEMMA EnsureKeeps ==
    ASSUME NEW s \in States, NEW id \in Ids, NEW r \in Regs,
           Consistent(s), ForcedOn(s, id),
           NEW t, t = Ensure(s, id, r), ~t.aborted
    PROVE  Ensured(s, t, id, r)
<1>. DEFINE d == Dump(s, r, NoId)
            loaded == IF ~s.force[id] /\ s.addr[id] # << >>
                      THEN d.reg[Last(s.addr[id])]
                      ELSE IF d.onStack[id] THEN d.mem[id] ELSE d.reg[r]
<1>1. s.addr[id] \in Seq(Regs)
  BY DEF States
<1>2. CASE Loaded(s, id, r)
  <2>1. t = s
    BY <1>2 DEF Ensure
  <2>2. PICK i \in 1 .. Len(s.addr[id]) : s.addr[id][i] = r
    BY <1>2 DEF Loaded, Contains
  <2>3. s.held[r][id] > 0 /\ s.addr[id] # << >> /\ Len(s.addr[id]) > 0
    BY <1>1, <2>2 DEF Consistent, LinkedIn
  <2>4. Read(s, id) = s.reg[r]
    BY <1>1, <1>2, <2>2, <2>3 DEF Read, Loaded, Consistent, AgreeIn
  <2>. QED  BY <2>1, <2>3, <2>4 DEF Keeps, Ensured
<1>3. CASE ~Loaded(s, id, r)
  <2>1. t = [d EXCEPT !.held[r][id] = @ + 1, !.addr[id] = Cons(r, @),
                      !.reg[r] = loaded]
    BY <1>3 DEF Ensure
  <2>2. d \in States /\ d.force = s.force /\ d.reg = s.reg /\ d.held[r][id] = 0
    BY DumpFields, AllocatorAssumption DEF Keepers
  <2>3. t.aborted = d.aborted
    BY <2>1, <2>2 DEF States
  <2>4. ~d.aborted /\ ~s.aborted
    BY <2>3, DumpFields DEF Keepers
  <2>5. Consistent(d) /\ Keeps(s, d, {}) /\ KeepsForced(s, d) /\ FreeOf(d, r, {NoId})
    BY <2>4, DumpKeeps DEF Keepers
  <2>6. d.addr[id] \in Seq(Regs)
    BY <2>2 DEF States
  <2>7. ASSUME ~s.force[id] \/ s.addr[id] = << >>, s.addr[id] # << >> => ~s.force[id]
        PROVE  ~Hit(s, r, NoId, id)
    <3>1. SUFFICES ASSUME Hit(s, r, NoId, id) PROVE FALSE
      OBVIOUS
    <3>2. Contains(s.addr[id], r)
      BY <2>4, <3>1, DumpFields DEF Keepers
    <3>3. s.addr[id] # << >>
      BY <3>2 DEF Contains
    <3>. QED  BY <1>3, <2>7, <3>2, <3>3 DEF Loaded
  <2>8. /\ loaded \in Vals
        /\ \A i \in 1 .. Len(d.addr[id]) : d.reg[d.addr[id][i]] = loaded
        /\ d.onStack[id] => d.mem[id] = loaded
        /\ Legible(s, id) => loaded = Read(s, id)
    <3>1. CASE ~s.force[id] /\ s.addr[id] # << >>
      <4>1. d.addr[id] = s.addr[id] /\ d.mem[id] = s.mem[id] /\ d.onStack[id] = s.onStack[id]
        BY <2>7, <3>1, DumpFields DEF Keepers
      <4>2. Len(s.addr[id]) \in 1 .. Len(s.addr[id]) /\ Len(s.addr[id]) > 0
        BY <1>1, <3>1, EmptySeq
      <4>3. loaded = s.reg[s.addr[id][Len(s.addr[id])]]
        BY <2>2, <3>1 DEF Last
      <4>4. s.addr[id][Len(s.addr[id])] \in Regs
        BY <1>1, <4>2, ElementOfSeq
      <4>5. loaded \in Vals
        BY <4>3, <4>4 DEF States
      <4>6. \A i \in 1 .. Len(d.addr[id]) : d.reg[d.addr[id][i]] = loaded
        BY <2>2, <4>1, <4>2, <4>3 DEF Consistent, AgreeIn
      <4>7. d.onStack[id] => d.mem[id] = loaded
        BY <2>5, <2>2, <4>1, <4>2, <4>3 DEF Consistent, AgreeIn
      <4>8. Read(s, id) = s.reg[s.addr[id][1]]
        BY <1>1, <3>1 DEF Read
      <4>9. Read(s, id) = loaded
        BY <4>2, <4>3, <4>8 DEF Consistent, AgreeIn
      <4>. QED  BY <4>5, <4>6, <4>7, <4>9
    <3>2. CASE ~(~s.force[id] /\ s.addr[id] # << >>)
      <4>1. loaded = IF d.onStack[id] THEN d.mem[id] ELSE d.reg[r]
        BY <3>2
      <4>2. loaded \in Vals
        BY <2>2, <4>1 DEF States
      <4>3. ASSUME ~d.onStack[id]
            PROVE  d.addr[id] = << >>
        <5>1. CASE s.force[id]
          BY <2>2, <2>5, <4>3, <5>1 DEF KeepsForced, ForcedOn
        <5>2. CASE ~s.force[id]
          <6>1. s.addr[id] = << >>
            BY <3>2, <5>2
          <6>2. ~Hit(s, r, NoId, id)
            BY <2>7, <6>1
          <6>. QED  BY <6>1, <6>2, DumpFields DEF Keepers
        <5>. QED  BY <5>1, <5>2
      <4>4. \A i \in 1 .. Len(d.addr[id]) : d.reg[d.addr[id][i]] = loaded
        <5>1. CASE d.onStack[id]
          BY <2>5, <4>1, <5>1 DEF Consistent, AgreeIn
        <5>2. CASE ~d.onStack[id]
          BY <4>3, <5>2
        <5>. QED  BY <5>1, <5>2
      <4>5. d.onStack[id] => d.mem[id] = loaded
        BY <4>1
      <4>6. ASSUME Legible(s, id)
            PROVE  loaded = Read(s, id)
        <5>1. Legible(d, id) /\ Read(d, id) = Read(s, id)
          BY <2>5, <4>6 DEF Keeps
        <5>2. s.force[id] \/ d.addr[id] = << >>
          BY <2>7, <3>2, DumpFields DEF Keepers
        <5>. QED  BY <2>2, <4>1, <5>1, <5>2 DEF Legible, Read
      <4>. QED  BY <4>2, <4>4, <4>5, <4>6
    <3>. QED  BY <3>1, <3>2
  <2>. HIDE DEF d, loaded
  <2>9. /\ t \in States
        /\ t.force = d.force /\ t.mem = d.mem /\ t.onStack = d.onStack
        /\ t.addr[id] = Cons(r, d.addr[id])
        /\ \A x \in Ids \ {id} : t.addr[x] = d.addr[x]
        /\ t.reg[r] = loaded
        /\ \A q \in Regs \ {r} : t.reg[q] = d.reg[q]
        /\ t.held[r][id] = 1
        /\ \A x \in Ids, q \in Regs : x # id \/ q # r => t.held[q][x] = d.held[q][x]
    <3>1. Cons(r, d.addr[id]) \in Seq(Regs)
      BY <2>6, ConsElements DEF IsCons
    <3>2. /\ loaded \in Vals
          /\ d.held[r][id] + 1 = 1
      BY <2>2, <2>8
    <3>3. t \in States
      <4>1. [d.held EXCEPT ![r][id] = @ + 1] \in [Regs -> [Ids -> Nat]]
        BY <2>2 DEF States
      <4>2. [d.addr EXCEPT ![id] = Cons(r, @)] \in [Ids -> Seq(Regs)]
        BY <2>2, <3>1 DEF States
      <4>3. [d.reg EXCEPT ![r] = loaded] \in [Regs -> Vals]
        BY <2>2, <3>2 DEF States
      <4>. QED  BY <2>1, <2>2, <4>1, <4>2, <4>3 DEF States
    <3>4. t.force = d.force /\ t.mem = d.mem /\ t.onStack = d.onStack
      BY <2>1, <2>2 DEF States
    <3>5. /\ t.addr[id] = Cons(r, d.addr[id])
          /\ \A x \in Ids \ {id} : t.addr[x] = d.addr[x]
      BY <2>1, <2>2 DEF States
    <3>6. /\ t.reg[r] = loaded
          /\ \A q \in Regs \ {r} : t.reg[q] = d.reg[q]
      BY <2>1, <2>2 DEF States
    <3>7. t.held[r][id] = 1
      BY <2>1, <2>2, <3>2 DEF States
    <3>8. \A x \in Ids, q \in Regs : x # id \/ q # r => t.held[q][x] = d.held[q][x]
      BY <2>1, <2>2 DEF States
    <3>. QED  BY <3>3, <3>4, <3>5, <3>6, <3>7, <3>8
  <2>10. /\ t.addr[id] \in Seq(Regs)
         /\ Len(t.addr[id]) = Len(d.addr[id]) + 1
         /\ t.addr[id] # << >>
         /\ Head(t.addr[id]) = r
         /\ t.addr[id][1] = r
         /\ \A i \in 2 .. Len(t.addr[id]) :
               i - 1 \in 1 .. Len(d.addr[id]) /\ t.addr[id][i] = d.addr[id][i - 1]
    <3>1. t.addr[id] = Cons(r, d.addr[id])
      BY <2>9
    <3>2. /\ t.addr[id] \in Seq(Regs)
          /\ Len(t.addr[id]) = Len(d.addr[id]) + 1
          /\ t.addr[id] # << >>
          /\ Head(t.addr[id]) = r
          /\ t.addr[id][1] = r
          /\ \A i \in 1 .. Len(d.addr[id]) : t.addr[id][i + 1] = d.addr[id][i]
      <4>1. IsCons(t.addr[id], r, d.addr[id])
        BY <2>6, <3>1, ConsElements
      <4>. QED  BY <4>1 DEF IsCons
    <3>3. ASSUME NEW i \in 2 .. Len(t.addr[id])
          PROVE  i - 1 \in 1 .. Len(d.addr[id]) /\ t.addr[id][i] = d.addr[id][i - 1]
      <4>1. i - 1 \in 1 .. Len(d.addr[id]) /\ (i - 1) + 1 = i
        BY <2>6, <3>2
      <4>. QED  BY <3>2, <4>1
    <3>. QED  BY <3>2, <3>3
  <2>11. ASSUME NEW x \in Ids
         PROVE  \A i \in 1 .. Len(d.addr[x]) :
                   /\ d.addr[x][i] # r /\ d.addr[x][i] \in Regs
                   /\ d.held[d.addr[x][i]][x] > 0
                   /\ \A j \in 1 .. Len(d.addr[x]) :
                         d.addr[x][i] = d.addr[x][j] => i = j
                   /\ t.reg[d.addr[x][i]] = d.reg[d.addr[x][i]]
                   /\ t.held[d.addr[x][i]][x] > 0
    <3>. TAKE i \in 1 .. Len(d.addr[x])
    <3>1. d.addr[x][i] \in Regs
      BY <2>2, ElementOfSeq DEF States
    <3>2. d.addr[x][i] # r
      BY <2>5, AllocatorAssumption DEF FreeOf
    <3>3. d.held[d.addr[x][i]][x] > 0
      BY <2>5 DEF Consistent, LinkedIn
    <3>4. \A j \in 1 .. Len(d.addr[x]) : d.addr[x][i] = d.addr[x][j] => i = j
      BY <2>5 DEF Consistent, LinkedIn
    <3>. QED  BY <2>9, <3>1, <3>2, <3>3, <3>4
  <2>12. LinkedIn(t)
    <3>. SUFFICES ASSUME NEW x \in Ids, NEW i \in 1 .. Len(t.addr[x]),
                         NEW j \in 1 .. Len(t.addr[x])
                  PROVE  /\ t.held[t.addr[x][i]][x] > 0
                         /\ t.addr[x][i] = t.addr[x][j] => i = j
      BY DEF LinkedIn
    <3>1. CASE x # id
      <4>1. t.addr[x] = d.addr[x]
        BY <2>9, <3>1
      <4>2. i \in 1 .. Len(d.addr[x]) /\ j \in 1 .. Len(d.addr[x])
        BY <4>1
      <4>. QED  BY ONLY <2>11, <4>1, <4>2
    <3>2. CASE x = id
      <4>1. CASE i = 1 /\ j = 1
        BY <2>9, <2>10, <3>2, <4>1
      <4>2. CASE i = 1 /\ j # 1
        <5>1. j \in 2 .. Len(t.addr[id])
          BY <3>2, <4>2
        <5>2. j - 1 \in 1 .. Len(d.addr[id]) /\ t.addr[id][j] = d.addr[id][j - 1]
          BY <2>10, <5>1
        <5>3. t.addr[id][j] # r
          BY <2>11, <5>2
        <5>. QED  BY <2>9, <2>10, <3>2, <4>2, <5>3
      <4>3. CASE i # 1
        <5>1. i \in 2 .. Len(t.addr[id])
          BY <3>2, <4>3
        <5>2. i - 1 \in 1 .. Len(d.addr[id]) /\ t.addr[id][i] = d.addr[id][i - 1]
          BY <2>10, <5>1
        <5>3. t.held[t.addr[x][i]][x] > 0
          BY <2>11, <3>2, <5>2
        <5>4. CASE j = 1
          BY <2>10, <2>11, <3>2, <5>2, <5>3, <5>4
        <5>5. CASE j # 1
          <6>1. j \in 2 .. Len(t.addr[id])
            BY <3>2, <5>5
          <6>2. j - 1 \in 1 .. Len(d.addr[id]) /\ t.addr[id][j] = d.addr[id][j - 1]
            BY <2>10, <6>1
          <6>3. t.addr[id][i] = t.addr[id][j] => i - 1 = j - 1
            <7>1. \A k, l \in 1 .. Len(d.addr[id]) :
                    d.addr[id][k] = d.addr[id][l] => k = l
              BY <2>11
            <7>. QED  BY <5>2, <6>2, <7>1
          <6>. QED  BY <3>2, <5>1, <5>3, <6>1, <6>3
        <5>. QED  BY <5>4, <5>5
      <4>. QED  BY <4>1, <4>2, <4>3
    <3>. QED  BY <3>1, <3>2
  <2>13. ASSUME NEW i \in 1 .. Len(t.addr[id])
         PROVE  t.reg[t.addr[id][i]] = loaded
    <3>1. CASE i = 1
      BY <2>9, <2>10, <3>1
    <3>2. CASE i # 1
      <4>1. i \in 2 .. Len(t.addr[id])
        BY <3>2
      <4>2. i - 1 \in 1 .. Len(d.addr[id]) /\ t.addr[id][i] = d.addr[id][i - 1]
        BY <2>10, <4>1
      <4>. QED  BY <2>8, <2>11, <4>2
    <3>. QED  BY <3>1, <3>2
  <2>14. AgreeIn(t)
    <3>. SUFFICES ASSUME NEW x \in Ids, NEW i \in 1 .. Len(t.addr[x]),
                         NEW j \in 1 .. Len(t.addr[x])
                  PROVE  /\ t.reg[t.addr[x][i]] = t.reg[t.addr[x][j]]
                         /\ t.onStack[x] => t.mem[x] = t.reg[t.addr[x][i]]
      BY DEF AgreeIn
    <3>1. CASE x = id
      BY <2>8, <2>9, <2>13, <3>1
    <3>2. CASE x # id
      <4>1. /\ t.addr[x] = d.addr[x] /\ t.onStack[x] = d.onStack[x]
            /\ t.mem[x] = d.mem[x]
        BY <2>9, <3>2
      <4>2. i \in 1 .. Len(d.addr[x]) /\ j \in 1 .. Len(d.addr[x])
        BY <4>1
      <4>3. /\ t.reg[d.addr[x][i]] = d.reg[d.addr[x][i]]
            /\ t.reg[d.addr[x][j]] = d.reg[d.addr[x][j]]
        BY <2>11, <4>2
      <4>4. /\ d.reg[d.addr[x][i]] = d.reg[d.addr[x][j]]
            /\ d.onStack[x] => d.mem[x] = d.reg[d.addr[x][i]]
        BY <2>5, <4>2 DEF Consistent, AgreeIn
      <4>. QED  BY <4>1, <4>3, <4>4
    <3>. QED  BY <3>1, <3>2
  <2>15. ASSUME NEW x \in Ids \ {id}
         PROVE  /\ Legible(d, x) => Legible(t, x) /\ Read(t, x) = Read(d, x)
                /\ ForcedOn(d, x) => ForcedOn(t, x)
    <3>1. t.addr[x] = d.addr[x] /\ d.addr[x] \in Seq(Regs)
      BY <2>2, <2>9 DEF States
    <3>2. d.addr[x] # << >> => t.reg[Head(d.addr[x])] = d.reg[Head(d.addr[x])]
      BY <2>11, <3>1
    <3>. QED  BY <2>9, <3>1, <3>2 DEF Legible, Read, ForcedOn
  <2>16. ASSUME Legible(s, id)
         PROVE  /\ Legible(t, id) /\ Read(t, id) = Read(s, id)
                /\ ForcedOn(t, id)
                /\ t.reg[r] = Read(s, id)
    <3>1. Legible(d, id)
      BY <2>5, <2>16 DEF Keeps
    <3>2. loaded = Read(s, id)
      BY <2>8, <2>16
    <3>3. d.force[id] => d.onStack[id] /\ t.mem[id] = loaded
      BY <2>8, <2>9, <3>1 DEF Legible
    <3>. QED  BY <2>9, <2>10, <3>2, <3>3 DEF Legible, Read, ForcedOn
  <2>17. Keeps(s, t, {})
    BY <2>5, <2>15, <2>16 DEF Keeps, KeepsForced
  <2>18. \A x \in Ids \ {id} : ForcedOn(s, x) => ForcedOn(t, x)
    BY <2>5, <2>15 DEF KeepsForced
  <2>. QED  BY <2>2, <2>4, <2>9, <2>10, <2>12, <2>14, <2>16, <2>17, <2>18
              DEF Consistent, Ensured
<1>. QED  BY <1>2, <1>3
-----------------------------------------------------------------------------
(* Writing the register of the result, and moving the result there. *)

ConsistentAt(s, x) ==
    \A i \in 1 .. Len(s.addr[x]) :
        /\ s.held[s.addr[x][i]][x] > 0
        /\ \A j \in 1 .. Len(s.addr[x]) :
              /\ s.addr[x][i] = s.addr[x][j] => i = j
              /\ s.reg[s.addr[x][i]] = s.reg[s.addr[x][j]]
        /\ s.onStack[x] => s.mem[x] = s.reg[s.addr[x][i]]

\* Consistent, identifier by identifier.
LEMMA ConsistentEverywhere ==
    ASSUME NEW s
    PROVE  Consistent(s) <=> \A x \in Ids : ConsistentAt(s, x)
BY DEF Consistent, ConsistentAt, LinkedIn, AgreeIn

\* What can be read of x does not change from s to t.
Same(s, t, x) ==
    /\ Legible(s, x) => Legible(t, x) /\ Read(t, x) = Read(s, x)
    /\ ForcedOn(s, x) => ForcedOn(t, x)

\* Consistency of an identifier does not depend on the others.
LEMMA ConsistentSame ==
    ASSUME NEW s \in States, NEW t \in States, NEW x \in Ids,
           ConsistentAt(s, x), t.held = s.held, t.reg = s.reg,
           t.addr[x] = s.addr[x], t.onStack[x] = s.onStack[x],
           t.mem[x] = s.mem[x]
    PROVE  ConsistentAt(t, x)
<1>. SUFFICES ASSUME NEW i \in 1 .. Len(s.addr[x]), NEW j \in 1 .. Len(s.addr[x])
              PROVE  /\ s.held[s.addr[x][i]][x] > 0
                     /\ s.addr[x][i] = s.addr[x][j] => i = j
                     /\ s.reg[s.addr[x][i]] = s.reg[s.addr[x][j]]
                     /\ t.onStack[x] => t.mem[x] = s.reg[s.addr[x][i]]
  BY DEF ConsistentAt
<1>. QED  BY DEF ConsistentAt

\* t is s with v in r, where no value of an identifier outside X is.
Overwritten(s, t, r, v, a, X) ==
    /\ t \in States
    /\ t.force = s.force
    /\ t.held = s.held
    /\ t.reg[r] = v
    /\ t.aborted = a
    /\ \A x \in Ids \ X : ConsistentAt(t, x) /\ Same(s, t, x)

\* t is s with r as the place of id.
Settled(s, t, id, r) ==
    /\ t \in States
    /\ t.force = s.force
    /\ t.aborted = s.aborted
    /\ Consistent(t)
    /\ \A x \in Ids \ {id} : Same(s, t, x)
    /\ ForcedOn(t, id)
    /\ Legible(t, id)
    /\ Read(t, id) = s.reg[r]

\* Writing a register changes only what can be read of the identifiers in it.
LEMMA OverwriteKeeps ==
    ASSUME NEW s \in States, NEW r \in Regs, NEW X, Consistent(s),
           FreeOf(s, r, X), NEW v \in Vals, NEW a \in BOOLEAN,
           NEW t, t = [s EXCEPT !.reg[r] = v, !.aborted = a]
    PROVE  Overwritten(s, t, r, v, a, X)
<1>1. t \in States
  <2>1. [s.reg EXCEPT ![r] = v] \in [Regs -> Vals]
    BY DEF States
  <2>. QED  BY <2>1 DEF States
<1>2. t.force = s.force /\ t.held = s.held /\ t.reg[r] = v /\ t.aborted = a
  BY DEF States
<1>3. t.addr = s.addr /\ t.mem = s.mem /\ t.onStack = s.onStack
  BY DEF States
<1>4. \A q \in Regs \ {r} : t.reg[q] = s.reg[q]
  BY DEF States
<1>5. ASSUME NEW x \in Ids \ X
      PROVE  ConsistentAt(t, x) /\ Same(s, t, x)
  <2>1. s.addr[x] \in Seq(Regs)
    BY DEF States
  <2>2. \A i \in 1 .. Len(s.addr[x]) : t.reg[s.addr[x][i]] = s.reg[s.addr[x][i]]
    <3>. TAKE i \in 1 .. Len(s.addr[x])
    <3>1. s.addr[x][i] \in Regs
      BY <2>1, ElementOfSeq
    <3>2. s.addr[x][i] # r
      BY DEF FreeOf
    <3>. QED  BY <1>4, <3>1, <3>2
  <2>3. ConsistentAt(s, x)
    BY ConsistentEverywhere
  <2>4. ConsistentAt(t, x)
    BY <1>2, <1>3, <2>2, <2>3 DEF ConsistentAt
  <2>5. s.addr[x] # << >> => t.reg[Head(s.addr[x])] = s.reg[Head(s.addr[x])]
    BY <2>1, <2>2
  <2>6. Same(s, t, x)
    BY <1>2, <1>3, <2>5 DEF Same, Legible, Read, ForcedOn
  <2>. QED  BY <2>4, <2>6
<1>. QED  BY <1>1, <1>2, <1>5 DEF Overwritten

PutIn(s, r, v, a) == [s EXCEPT !.reg[r] = v, !.aborted = a]

\* The same, with the state after the write named.
LEMMA PutInKeeps ==
    ASSUME NEW s \in States, NEW r \in Regs, NEW X, Consistent(s),
           FreeOf(s, r, X), NEW v \in Vals, NEW a \in BOOLEAN,
           NEW t, t = PutIn(s, r, v, a)
    PROVE  Overwritten(s, t, r, v, a, X)
BY OverwriteKeeps DEF PutIn

\* After the end of an assignment its result can be read, from its register or
\* from its slot, and nothing else has changed.
LEMMA SettleKeeps ==
    ASSUME NEW s \in States, NEW id \in Ids, NEW r \in Regs,
           \A x \in Ids \ {id} : ConsistentAt(s, x),
           s.held[r][id] > 0,
           NEW t, t = Settle(s, id, r)
    PROVE  Settled(s, t, id, r)
<1>1. t.force = s.force /\ t.aborted = s.aborted /\ t.held = s.held /\ t.reg = s.reg
  BY DEF Settle, States
<1>2. /\ t.addr[id] = << r >>
      /\ t.onStack[id] = s.force[id]
      /\ t.mem[id] = IF s.force[id] THEN s.reg[r] ELSE s.mem[id]
  BY DEF Settle, States
<1>3. \A x \in Ids \ {id} : /\ t.addr[x] = s.addr[x]
                            /\ t.onStack[x] = s.onStack[x]
                            /\ t.mem[x] = s.mem[x]
  BY DEF Settle, States
<1>4. t \in States
  <2>1. [s.addr EXCEPT ![id] = << r >>] \in [Ids -> Seq(Regs)]
    BY DEF States
  <2>2. [s.onStack EXCEPT ![id] = s.force[id]] \in [Ids -> BOOLEAN]
    BY DEF States
  <2>3. [s.mem EXCEPT ![id] = IF s.force[id] THEN s.reg[r] ELSE @] \in [Ids -> Vals]
    BY DEF States
  <2>. QED  BY <2>1, <2>2, <2>3 DEF Settle, States
<1>5. << r >> # << >> /\ Head(<< r >>) = r /\ Len(<< r >>) = 1 /\ << r >>[1] = r
  OBVIOUS
<1>6. ConsistentAt(t, id)
  BY <1>1, <1>2, <1>5 DEF ConsistentAt
<1>7. \A x \in Ids \ {id} : ConsistentAt(t, x)
  <2>. TAKE x \in Ids \ {id}
  <2>1. ConsistentAt(s, x)
    OBVIOUS
  <2>2. /\ t.addr[x] = s.addr[x]
        /\ t.onStack[x] = s.onStack[x]
        /\ t.mem[x] = s.mem[x]
    BY <1>3
  <2>. QED  BY <1>1, <1>4, <2>1, <2>2, ConsistentSame
<1>8. \A x \in Ids \ {id} : Same(s, t, x)
  BY <1>1, <1>3 DEF Same, Legible, Read, ForcedOn
<1>9. ForcedOn(t, id) /\ Legible(t, id) /\ Read(t, id) = s.reg[r]
  BY <1>1, <1>2, <1>5 DEF ForcedOn, Legible, Read
<1>10. Consistent(t)
  BY <1>6, <1>7, ConsistentEverywhere
<1>. QED  BY <1>1, <1>4, <1>8, <1>9, <1>10 DEF Settled
-----------------------------------------------------------------------------
(* Compiling one instruction. *)

Good(s) ==
    /\ s \in States
    /\ Consistent(s)
    /\ \A x \in Ids : ForcedOn(s, x)

\* From s to t only the value of id changes, to v.
Assigns(s, t, id, v) ==
    /\ Good(t)
    /\ \A x \in Ids \ {id} :
          Legible(s, x) => Legible(t, x) /\ Read(t, x) = Read(s, x)
    /\ Legible(t, id)
    /\ Read(t, id) = v

\* No value changes from s to t.
Preserves(s, t) ==
    /\ Good(t)
    /\ \A x \in Ids : Legible(s, x) => Legible(t, x) /\ Read(t, x) = Read(s, x)

\* Assigning a constant to a forced identifier (compile_unary).
LEMMA ForcedConstAssigns ==
    ASSUME NEW s, Good(s), NEW id \in Ids, s.force[id], NEW c \in Vals
    PROVE  Assigns(s, AssignForcedConst(s, id, c), id, c)
<1>. DEFINE t == AssignForcedConst(s, id, c)
<1>1. s \in States
  BY DEF Good
<1>2. /\ t.force = s.force /\ t.held = s.held /\ t.reg = s.reg
      /\ t.addr[id] = << >> /\ t.onStack[id] /\ t.mem[id] = c
      /\ \A x \in Ids \ {id} : /\ t.addr[x] = s.addr[x]
                               /\ t.onStack[x] = s.onStack[x]
                               /\ t.mem[x] = s.mem[x]
  BY <1>1 DEF AssignForcedConst, States
<1>3. t \in States
  <2>1. [s.addr EXCEPT ![id] = << >>] \in [Ids -> Seq(Regs)]
    BY <1>1 DEF States
  <2>2. [s.onStack EXCEPT ![id] = TRUE] \in [Ids -> BOOLEAN]
    BY <1>1 DEF States
  <2>3. [s.mem EXCEPT ![id] = c] \in [Ids -> Vals]
    BY <1>1 DEF States
  <2>. QED  BY <1>1, <2>1, <2>2, <2>3 DEF AssignForcedConst, States
<1>. HIDE DEF t
<1>4. ASSUME NEW x \in Ids
      PROVE  ConsistentAt(t, x) /\ ForcedOn(t, x)
  <2>1. CASE x = id
    BY <1>2, <2>1 DEF ConsistentAt, ForcedOn
  <2>2. CASE x # id
    <3>1. ConsistentAt(s, x) /\ ForcedOn(s, x)
      BY ConsistentEverywhere DEF Good
    <3>2. t.addr[x] = s.addr[x] /\ t.onStack[x] = s.onStack[x] /\ t.mem[x] = s.mem[x]
      BY <1>2, <2>2
    <3>3. ConsistentAt(t, x)
      BY <1>1, <1>2, <1>3, <3>1, <3>2, ConsistentSame
    <3>4. ForcedOn(t, x)
      BY <1>2, <3>1, <3>2 DEF ForcedOn
    <3>. QED  BY <3>3, <3>4
  <2>. QED  BY <2>1, <2>2
<1>5. \A x \in Ids \ {id} :
          Legible(s, x) => Legible(t, x) /\ Read(t, x) = Read(s, x)
  BY <1>2 DEF Legible, Read
<1>6. Legible(t, id) /\ Read(t, id) = c
  BY <1>2 DEF Legible, Read
<1>. QED  BY <1>3, <1>4, <1>5, <1>6, ConsistentEverywhere DEF Assigns, Good, t

\* t is l with v as the value of id, put in r.
Computed(l, t, id, r, v, a) ==
    Assigns(l, t, id, v) /\ t.aborted = a

\* A dumped register is overwritten and becomes the place of id: the end of
\* compile_binary, and of the assignment of a constant.
LEMMA DumpedResult ==
    ASSUME NEW l \in States, Consistent(l), NEW id \in Ids, NEW r \in Regs,
           \A x \in Ids \ {id} : ForcedOn(l, x),
           NEW d, d = Dump(l, r, id), ~d.aborted,
           NEW v \in Vals, NEW a \in BOOLEAN,
           NEW e, Overwritten(d, e, r, v, a, {id}),
           NEW t, t = Settle(e, id, r)
    PROVE  Computed(l, t, id, r, v, a)
<1>1. d \in States /\ d.held[r][id] = 1
  BY DumpFields DEF Keepers
<1>2. Consistent(d) /\ Keeps(l, d, {}) /\ KeepsForced(l, d) /\ FreeOf(d, r, {id})
  BY DumpKeeps DEF Keepers
<1>3. Overwritten(d, e, r, v, a, {id})
  OBVIOUS
<1>4. e.held[r][id] > 0
  BY <1>1, <1>3 DEF Overwritten
<1>5. Settled(e, t, id, r)
  BY <1>3, <1>4, SettleKeeps DEF Overwritten
<1>6. ASSUME NEW x \in Ids \ {id}
      PROVE  /\ ForcedOn(t, x)
             /\ Legible(l, x) => Legible(t, x) /\ Read(t, x) = Read(l, x)
  <2>1. ForcedOn(d, x) /\ (Legible(l, x) => Legible(d, x) /\ Read(d, x) = Read(l, x))
    BY <1>2 DEF Keeps, KeepsForced
  <2>2. Same(d, e, x) /\ Same(e, t, x)
    BY <1>3, <1>5 DEF Overwritten, Settled
  <2>. QED  BY <2>1, <2>2 DEF Same
<1>. QED  BY <1>3, <1>5, <1>6 DEF Assigns, Good, Overwritten, Settled, Computed

\* Assigning a constant to an identifier that is not forced (compile_unary).
LEMMA FreeConstAssigns ==
    ASSUME NEW s, Good(s), NEW id \in Ids, NEW c \in Vals,
           NEW t, t = AssignFreeConst(s, id, c), ~t.aborted
    PROVE  Assigns(s, t, id, c) /\ ~s.aborted
<1>. DEFINE r == PickReg(s, id)
            l == Ensure(s, id, r)
            d == Dump(l, r, id)
            e == [d EXCEPT !.reg[r] = c]
<1>1. s \in States /\ r \in Regs
  BY PickRegType DEF Good, Keepers
<1>2. t = Settle(e, id, r)
  BY DEF AssignFreeConst
<1>. HIDE DEF r
<1>3. l \in States
  BY <1>1, EnsureType
<1>4. d \in States /\ (l.aborted => d.aborted)
  BY <1>1, <1>3, DumpFields DEF Keepers
<1>5. t.aborted = d.aborted
  <2>. HIDE DEF d, l
  <2>. QED  BY <1>2, <1>4 DEF Settle, States
<1>6. Ensured(s, l, id, r)
  BY <1>1, <1>4, <1>5, EnsureKeeps DEF Good
<1>7. d.aborted \in BOOLEAN /\ e = [d EXCEPT !.reg[r] = c, !.aborted = d.aborted]
  <2>. HIDE DEF d, l
  <2>. QED  BY <1>4 DEF States
<1>8. \A x \in Ids \ {id} : ForcedOn(l, x)
  BY <1>6 DEF Ensured, Good
<1>9. l \in States /\ Consistent(l) /\ ~d.aborted
  BY <1>4, <1>5, <1>6 DEF Ensured
<1>9a. d = Dump(l, r, id)
  OBVIOUS
<1>. HIDE DEF l, e, d
<1>10. Computed(l, t, id, r, c, d.aborted)
  <2>1. Consistent(d) /\ FreeOf(d, r, {id})
    BY <1>1, <1>9, <1>9a, DumpKeeps DEF Keepers
  <2>2. Overwritten(d, e, r, c, d.aborted, {id})
    BY <1>1, <1>4, <1>7, <2>1, OverwriteKeeps
  <2>. QED  BY <1>1, <1>2, <1>7, <1>8, <1>9, <1>9a, <2>2, DumpedResult
<1>. QED  BY <1>6, <1>10 DEF Assigns, Ensured, Keeps, Good, Computed

\* The operand a can be read.
Operand(s, a) == a \in Vals \/ (a \in Ids /\ Legible(s, a))

\* l is s after the first operand a of an instruction for id is in r.
FirstLoaded(s, l, id, a, r) ==
    /\ l \in States
    /\ ~s.aborted
    /\ Consistent(l)
    /\ Keeps(s, l, {})
    /\ \A x \in Ids \ {id} : ForcedOn(l, x)
    /\ l.reg[r] = ArgValue(s, a)

\* Loading the first operand leads to a state of the allocator.
LEMMA LoadFirstType ==
    ASSUME NEW s \in States, NEW id \in Ids, NEW a, Operand(s, a),
           NEW r \in Regs, NEW l, l = LoadFirst(s, id, a, r)
    PROVE  l \in States
<1>. DEFINE e == Ensure(s, id, r)
            d == Dump(e, r, NoId)
<1>1. e \in States
  BY EnsureType
<1>2. d \in States
  BY <1>1, DumpFields DEF Keepers
<1>. HIDE DEF e
<1>3. CASE a = id
  BY <1>1, <1>3 DEF LoadFirst, e
<1>4. CASE a # id /\ a \in Vals
  <2>1. l = [d EXCEPT !.reg[r] = a]
    BY <1>4 DEF LoadFirst, IsConst, e
  <2>. HIDE DEF d
  <2>2. [d.reg EXCEPT ![r] = a] \in [Regs -> Vals]
    BY <1>2, <1>4 DEF States
  <2>. QED  BY <1>2, <2>1, <2>2 DEF States
<1>5. CASE a # id /\ a \notin Vals
  <2>1. l = Ensure(e, a, r) /\ a \in Ids
    BY <1>5 DEF LoadFirst, IsConst, e, Operand
  <2>. QED  BY <1>1, <2>1, EnsureType
<1>. QED  BY <1>3, <1>4, <1>5

\* compile_binary has the first operand in the register of its result, and has
\* lost no value, when it comes to the second.
LEMMA LoadFirstKeeps ==
    ASSUME NEW s, Good(s), NEW id \in Ids, NEW a, Operand(s, a),
           NEW r \in Regs, NEW l, l = LoadFirst(s, id, a, r), ~l.aborted
    PROVE  FirstLoaded(s, l, id, a, r)
<1>. DEFINE e == Ensure(s, id, r)
            d == Dump(e, r, NoId)
<1>1. s \in States /\ e \in States
  BY EnsureType DEF Good
<1>2. d \in States /\ (e.aborted => d.aborted)
  BY <1>1, DumpFields DEF Keepers
<1>3. ASSUME ~e.aborted
      PROVE  Ensured(s, e, id, r)
  BY <1>1, <1>3, EnsureKeeps DEF Good
<1>4. ASSUME ~e.aborted, NEW x \in Ids \ {id}
      PROVE  ForcedOn(e, x)
  BY <1>3, <1>4 DEF Ensured, Good
<1>. HIDE DEF e
<1>5. CASE a = id
  <2>1. l = e
    BY <1>5 DEF LoadFirst, e
  <2>2. Ensured(s, l, id, r)
    BY <1>3, <2>1
  <2>3. Legible(s, id) /\ ArgValue(s, a) = Read(s, id)
    BY <1>5, AllocatorAssumption DEF Operand, ArgValue, IsConst
  <2>. QED  BY <1>4, <2>1, <2>2, <2>3 DEF Ensured, FirstLoaded
<1>6. CASE a # id /\ a \in Vals
  <2>1. l = [d EXCEPT !.reg[r] = a]
    BY <1>6 DEF LoadFirst, IsConst, e
  <2>2. l.aborted = d.aborted
    <3>. HIDE DEF d
    <3>. QED  BY <1>2, <2>1 DEF States
  <2>3. ~d.aborted /\ ~e.aborted
    BY <1>2, <2>2
  <2>4. Ensured(s, e, id, r)
    BY <1>3, <2>3
  <2>5. Consistent(d) /\ Keeps(e, d, {}) /\ KeepsForced(e, d) /\ FreeOf(d, r, {NoId})
    BY <1>1, <2>3, <2>4, DumpKeeps DEF Keepers, Ensured
  <2>. HIDE DEF d
  <2>6. l = [d EXCEPT !.reg[r] = a, !.aborted = FALSE]
    <3>1. d.aborted = FALSE
      BY <1>2, <2>3 DEF States
    <3>. QED  BY <1>2, <2>1, <3>1 DEF States
  <2>7. Overwritten(d, l, r, a, FALSE, {NoId})
    BY <1>2, <1>6, <2>5, <2>6, OverwriteKeeps
  <2>8. \A x \in Ids : x \in Ids \ {NoId}
    BY AllocatorAssumption
  <2>9. Consistent(l) /\ l \in States /\ l.reg[r] = a
    BY <2>7, <2>8, ConsistentEverywhere DEF Overwritten
  <2>10. \A x \in Ids : Same(d, l, x)
    BY <2>7, <2>8 DEF Overwritten
  <2>11. \A x \in Ids \ {id} : ForcedOn(l, x)
    BY <1>4, <2>3, <2>5, <2>10 DEF Same, KeepsForced
  <2>12. Keeps(s, l, {})
    <3>. SUFFICES ASSUME NEW x \in Ids, Legible(s, x)
                  PROVE  Legible(l, x) /\ Read(l, x) = Read(s, x)
      BY DEF Keeps
    <3>1. Legible(e, x) /\ Read(e, x) = Read(s, x)
      BY <2>4 DEF Ensured, Keeps, Good
    <3>2. ForcedOn(e, x)
      BY <1>4, <2>3, <2>4 DEF Ensured
    <3>3. Legible(d, x) /\ Read(d, x) = Read(e, x)
      BY <2>5, <3>1, <3>2 DEF Keeps
    <3>. QED  BY <2>10, <3>1, <3>3 DEF Same
  <2>. QED  BY <1>6, <2>4, <2>9, <2>11, <2>12 DEF Ensured, FirstLoaded, ArgValue, IsConst
<1>7. CASE a # id /\ a \notin Vals
  <2>1. l = Ensure(e, a, r) /\ a \in Ids /\ Legible(s, a)
    BY <1>7 DEF LoadFirst, IsConst, e, Operand
  <2>2. ~e.aborted
    BY <1>1, <2>1, EnsureType
  <2>3. Ensured(s, e, id, r)
    BY <1>3, <2>2
  <2>4. ForcedOn(e, a)
    BY <1>4, <1>7, <2>1, <2>2
  <2>5. Ensured(e, l, a, r)
    BY <2>1, <2>3, <2>4, EnsureKeeps DEF Ensured
  <2>6. Legible(e, a) /\ Read(e, a) = Read(s, a)
    BY <2>1, <2>3 DEF Ensured, Keeps, Good
  <2>7. \A x \in Ids \ {id} : ForcedOn(l, x)
    BY <1>4, <2>2, <2>5, <2>6 DEF Ensured
  <2>8. Keeps(s, l, {})
    <3>. SUFFICES ASSUME NEW x \in Ids, Legible(s, x)
                  PROVE  Legible(l, x) /\ Read(l, x) = Read(s, x)
      BY DEF Keeps
    <3>1. Legible(e, x) /\ Read(e, x) = Read(s, x)
      BY <2>3 DEF Ensured, Keeps, Good
    <3>2. ForcedOn(e, x)
      BY <1>4, <2>2, <2>3 DEF Ensured
    <3>. QED  BY <2>5, <3>1, <3>2 DEF Ensured, Keeps
  <2>9. ArgValue(s, a) = Read(s, a)
    BY <1>7 DEF ArgValue, IsConst
  <2>. QED  BY <2>3, <2>5, <2>6, <2>7, <2>8, <2>9 DEF Ensured, FirstLoaded
<1>. QED  BY <1>5, <1>6, <1>7

\* compile_binary assigns the result of the operation and changes nothing else,
\* also when its operands and its result are one identifier.
LEMMA BinaryAssigns ==
    ASSUME NEW s, Good(s), NEW id \in Ids,
           NEW a, Operand(s, a), NEW b, Operand(s, b),
           NEW t, t = BinaryOp(s, id, a, b), ~t.aborted
    PROVE  /\ Assigns(s, t, id, Arith(ArgValue(s, a), ArgValue(s, b)))
           /\ ~s.aborted
<1>. DEFINE r == PickReg(s, id)
            l == LoadFirst(s, id, a, r)
            d == Dump(l, r, id)
            w == ArgValue([l EXCEPT !.mem = d.mem], b)
            f == d.aborted \/ ~ArgLegible(l, b)
            e == [d EXCEPT !.reg[r] = Arith(@, w), !.aborted = @ \/ ~ArgLegible(l, b)]
<1>1. s \in States /\ r \in Regs
  BY PickRegType DEF Good, Keepers
<1>2. t = Settle(e, id, r)
  BY DEF BinaryOp
<1>. HIDE DEF r
<1>3. l \in States
  BY <1>1, LoadFirstType
<1>3a. l = LoadFirst(s, id, a, r)
  OBVIOUS
<1>. HIDE DEF l
<1>4. d \in States /\ (l.aborted => d.aborted) /\ d.reg = l.reg
  BY <1>1, <1>3, DumpFields DEF Keepers
<1>4a. d = Dump(l, r, id)
  OBVIOUS
<1>5. e = [d EXCEPT !.reg[r] = Arith(d.reg[r], w), !.aborted = f] /\ f \in BOOLEAN
  <2>. HIDE DEF d, w
  <2>. QED  BY <1>4 DEF States
<1>6. t.aborted = f
  <2>. HIDE DEF d, w, f, e
  <2>. QED  BY <1>1, <1>2, <1>4, <1>5 DEF Settle, States
<1>7. ~l.aborted /\ ~d.aborted /\ ArgLegible(l, b)
  BY <1>4, <1>6
<1>8. FirstLoaded(s, l, id, a, r)
  BY <1>1, <1>3a, <1>7, LoadFirstKeeps
<1>9. Consistent(d) /\ Keeps(l, d, {}) /\ FreeOf(d, r, {id})
  BY <1>1, <1>4a, <1>7, <1>8, DumpKeeps DEF Keepers, FirstLoaded
<1>10. d.reg[r] = ArgValue(s, a)
  BY <1>4, <1>8 DEF FirstLoaded
<1>11. w = ArgValue(s, b)
  <2>1. CASE b \in Vals
    BY <2>1 DEF ArgValue, IsConst
  <2>2. CASE b \notin Vals
    <3>1. b \in Ids /\ Legible(s, b) /\ ArgValue(s, b) = Read(s, b)
      BY <2>2 DEF Operand, ArgValue, IsConst
    <3>2. Legible(l, b) /\ Read(l, b) = Read(s, b)
      BY <1>8, <3>1 DEF FirstLoaded, Keeps, Good
    <3>3. w = IF ~l.force[b] /\ l.addr[b] # << >>
              THEN l.reg[Head(l.addr[b])] ELSE d.mem[b]
      <4>. HIDE DEF d
      <4>. QED  BY <1>3, <2>2 DEF ArgValue, IsConst, Read, States
    <3>4. CASE ~l.force[b] /\ l.addr[b] # << >>
      BY <3>1, <3>2, <3>3, <3>4 DEF Read
    <3>5. CASE ~ (~l.force[b] /\ l.addr[b] # << >>)
      <4>1. Read(l, b) = l.mem[b] /\ l.onStack[b]
        BY <3>2, <3>5 DEF Read, Legible
      <4>2. ASSUME Hit(l, r, id, b), Len(l.addr[b]) = 1
            PROVE  d.mem[b] = l.mem[b]
        <5>1. d.mem[b] = l.reg[r] /\ Contains(l.addr[b], r)
          BY <1>1, <1>3, <1>7, <3>1, <4>2, DumpFields DEF Keepers
        <5>2. PICK i \in 1 .. Len(l.addr[b]) : l.addr[b][i] = r
          BY <5>1 DEF Contains
        <5>3. l.mem[b] = l.reg[r]
          BY <1>8, <3>1, <4>1, <5>2 DEF FirstLoaded, Consistent, AgreeIn
        <5>. QED  BY <5>1, <5>3
      <4>3. ASSUME ~ (Hit(l, r, id, b) /\ Len(l.addr[b]) = 1)
            PROVE  d.mem[b] = l.mem[b]
        BY <1>1, <1>3, <3>1, <4>3, DumpFields DEF Keepers
      <4>. QED  BY <3>1, <3>2, <3>3, <3>5, <4>1, <4>2, <4>3
    <3>. QED  BY <3>4, <3>5
  <2>. QED  BY <2>1, <2>2
<1>12. ArgValue(s, a) \in Vals /\ ArgValue(s, b) \in Vals
  BY <1>1, ReadType DEF ArgValue, IsConst, Operand
<1>. DEFINE v == Arith(ArgValue(s, a), ArgValue(s, b))
<1>13. v \in Vals
  BY <1>12, AllocatorAssumption
<1>14. e = [d EXCEPT !.reg[r] = v, !.aborted = f]
  BY <1>5, <1>10, <1>11
<1>. HIDE DEF d, w, f, e, v
<1>14a. f \in BOOLEAN
  BY <1>5
<1>15. Overwritten(d, e, r, v, f, {id})
  BY <1>1, <1>4, <1>9, <1>13, <1>14, <1>14a, OverwriteKeeps
<1>16. Computed(l, t, id, r, v, f)
  BY <1>1, <1>2, <1>3, <1>4a, <1>5, <1>7, <1>8, <1>13, <1>15, DumpedResult
     DEF FirstLoaded
<1>17. Assigns(s, t, id, v)
  BY <1>8, <1>16 DEF Assigns, Computed, FirstLoaded, Keeps, Good
<1>. QED  BY <1>8, <1>17 DEF v, FirstLoaded

\* Assigning an identifier to another (compile_unary): both have the value.
LEMMA IdentAssigns ==
    ASSUME NEW s, Good(s), NEW id \in Ids, NEW y \in Ids, Legible(s, y),
           NEW t, t = AssignFromIdent(s, id, y), ~t.aborted
    PROVE  Assigns(s, t, id, Read(s, y)) /\ ~s.aborted
<1>. DEFINE r == PickReg(s, y)
            l == Ensure(s, y, r)
            d == RemoveFromRegs(l, id)
            e == [d EXCEPT !.held[r][id] = @ + 1]
<1>1. s \in States /\ r \in Regs
  BY PickRegType DEF Good, Keepers
<1>2. t = Settle(e, id, r)
  BY DEF AssignFromIdent
<1>2a. l = Ensure(s, y, r)
  OBVIOUS
<1>. HIDE DEF r
<1>3. l \in States
  BY <1>1, EnsureType
<1>. HIDE DEF l
<1>4. /\ d \in States
      /\ \A x \in Ids \ {id}, q \in Regs : d.held[q][x] = l.held[q][x]
      /\ d.addr = l.addr /\ d.mem = l.mem /\ d.onStack = l.onStack
      /\ d.force = l.force /\ d.reg = l.reg /\ d.aborted = l.aborted
  <2>1. ASSUME NEW q \in Regs
        PROVE  Occurrences(l.addr[id], q) \in Nat
    <3>1. l.addr[id] \in Seq(Regs)
      BY <1>3 DEF States
    <3>2. IsFiniteSet(DOMAIN l.addr[id]) /\ DOMAIN l.addr[id] = 1 .. Len(l.addr[id])
      BY <3>1, FS_Interval
    <3>3. IsFiniteSet({i \in DOMAIN l.addr[id] : l.addr[id][i] = q})
      BY <3>2, FS_Subset
    <3>. QED  BY <3>3, FS_CardinalityType DEF Occurrences
  <2>. DEFINE h == [q \in Regs |->
            [l.held[q] EXCEPT ![id] = IF Occurrences(l.addr[id], q) < @
                                      THEN @ - Occurrences(l.addr[id], q)
                                      ELSE 0]]
  <2>2. h \in [Regs -> [Ids -> Nat]]
    <3>. SUFFICES ASSUME NEW q \in Regs PROVE h[q] \in [Ids -> Nat]
      OBVIOUS
    <3>1. l.held[q] \in [Ids -> Nat] /\ l.held[q][id] \in Nat
      BY <1>3 DEF States
    <3>2. (IF Occurrences(l.addr[id], q) < l.held[q][id]
           THEN l.held[q][id] - Occurrences(l.addr[id], q) ELSE 0) \in Nat
      BY <2>1, <3>1
    <3>. QED  BY <3>1, <3>2
  <2>3. d = [l EXCEPT !.held = h]
    BY Zenon DEF RemoveFromRegs
  <2>4. \A x \in Ids \ {id}, q \in Regs : h[q][x] = l.held[q][x]
    BY <1>3 DEF States
  <2>. HIDE DEF h, d
  <2>. QED  BY <1>3, <2>2, <2>3, <2>4 DEF States
<1>. HIDE DEF d
<1>5. /\ e \in States
      /\ \A x \in Ids \ {id}, q \in Regs : e.held[q][x] = l.held[q][x]
      /\ e.held[r][id] > 0
      /\ e.addr = l.addr /\ e.mem = l.mem /\ e.onStack = l.onStack
      /\ e.force = l.force /\ e.reg = l.reg /\ e.aborted = l.aborted
  <2>1. [d.held EXCEPT ![r][id] = @ + 1] \in [Regs -> [Ids -> Nat]]
    BY <1>1, <1>4 DEF States
  <2>2. e \in States
    BY <1>4, <2>1 DEF States
  <2>3. e.held[r][id] > 0
    BY <1>1, <1>4 DEF States
  <2>4. \A x \in Ids \ {id}, q \in Regs : e.held[q][x] = d.held[q][x]
    BY <1>1, <1>4 DEF States
  <2>5. /\ e.addr = l.addr /\ e.mem = l.mem /\ e.onStack = l.onStack
        /\ e.force = l.force /\ e.reg = l.reg /\ e.aborted = l.aborted
    BY <1>4 DEF States
  <2>. QED  BY <1>4, <2>2, <2>3, <2>4, <2>5
<1>. HIDE DEF e
<1>6. t.aborted = e.aborted
  BY <1>2, <1>5 DEF Settle, States
<1>7. Ensured(s, l, y, r)
  BY <1>1, <1>2a, <1>5, <1>6, EnsureKeeps DEF Good
<1>8. ASSUME NEW x \in Ids \ {id}
      PROVE  ConsistentAt(e, x) /\ Same(l, e, x)
  <2>1. ConsistentAt(l, x)
    BY <1>7, ConsistentEverywhere DEF Ensured
  <2>2. l.addr[x] \in Seq(Regs)
    BY <1>3 DEF States
  <2>3. \A i \in 1 .. Len(l.addr[x]) :
            e.held[l.addr[x][i]][x] = l.held[l.addr[x][i]][x]
    BY <1>5, <2>2, ElementOfSeq
  <2>4. ConsistentAt(e, x)
    BY <1>3, <1>5, <2>1, <2>3 DEF ConsistentAt
  <2>5. Same(l, e, x)
    BY <1>5 DEF Same, Legible, Read, ForcedOn
  <2>. QED  BY <2>4, <2>5
<1>9. Settled(e, t, id, r)
  BY <1>1, <1>2, <1>5, <1>8, SettleKeeps
<1>10. l.reg[r] = Read(s, y) /\ \A x \in Ids : ForcedOn(l, x)
  BY <1>7 DEF Ensured, Good
<1>11. Good(t)
  BY <1>8, <1>9, <1>10 DEF Good, Settled, Same
<1>12. ASSUME NEW x \in Ids \ {id}, Legible(s, x)
       PROVE  Legible(t, x) /\ Read(t, x) = Read(s, x)
  <2>1. Legible(l, x) /\ Read(l, x) = Read(s, x)
    BY <1>7, <1>12 DEF Ensured, Keeps, Good
  <2>2. Same(l, e, x) /\ Same(e, t, x)
    BY <1>8, <1>9 DEF Settled
  <2>. QED  BY <2>1, <2>2 DEF Same
<1>13. Legible(t, id) /\ Read(t, id) = Read(s, y)
  BY <1>5, <1>9, <1>10 DEF Settled
<1>. QED  BY <1>7, <1>11, <1>12, <1>13 DEF Assigns, Ensured

\* FORCE_ID_STACK changes no value (perform_instr_actions).
LEMMA ForceAllPreserves ==
    ASSUME NEW s, Good(s), NEW F \in SUBSET Ids
    PROVE  /\ Preserves(s, ForceAll(s, F))
           /\ ForceAll(s, F).aborted = s.aborted
<1>. DEFINE t == ForceAll(s, F)
            S(x) == x \in F /\ ~s.onStack[x] /\ s.addr[x] # << >>
<1>1. s \in States
  BY DEF Good
<1>2. /\ t.held = s.held /\ t.addr = s.addr /\ t.reg = s.reg
      /\ t.aborted = s.aborted
  BY <1>1 DEF ForceAll, States
<1>3. ASSUME NEW x \in Ids
      PROVE  /\ t.force[x] = (s.force[x] \/ x \in F)
             /\ t.onStack[x] = (s.onStack[x] \/ S(x))
             /\ t.mem[x] = IF S(x) THEN s.reg[Head(s.addr[x])] ELSE s.mem[x]
  BY <1>1 DEF ForceAll, States
<1>4. ASSUME NEW x \in Ids, s.addr[x] # << >>
      PROVE  Head(s.addr[x]) = s.addr[x][1] /\ 1 \in 1 .. Len(s.addr[x])
             /\ Head(s.addr[x]) \in Regs
  <2>1. s.addr[x] \in Seq(Regs)
    BY <1>1 DEF States
  <2>. QED  BY <1>4, <2>1, HeadTailProperties
<1>5. t \in States
  <2>. DEFINE stored == {id \in F : ~s.onStack[id] /\ s.addr[id] # << >>}
  <2>1. [id \in Ids |-> s.force[id] \/ id \in F] \in [Ids -> BOOLEAN]
    OBVIOUS
  <2>2. [id \in Ids |-> s.onStack[id] \/ id \in stored] \in [Ids -> BOOLEAN]
    OBVIOUS
  <2>3. [id \in Ids |-> IF id \in stored THEN s.reg[Head(s.addr[id])]
                                         ELSE s.mem[id]] \in [Ids -> Vals]
    BY <1>1, <1>4 DEF States
  <2>. QED  BY <1>1, <2>1, <2>2, <2>3 DEF ForceAll, States
<1>. HIDE DEF t
<1>6. ASSUME NEW x \in Ids
      PROVE  ConsistentAt(t, x)
  <2>1. ConsistentAt(s, x)
    BY ConsistentEverywhere DEF Good
  <2>2. CASE S(x)
    <3>1. t.mem[x] = s.reg[s.addr[x][1]]
      BY <1>3, <1>4, <2>2
    <3>2. \A i \in 1 .. Len(s.addr[x]) : s.reg[s.addr[x][1]] = s.reg[s.addr[x][i]]
      BY <1>4, <2>1, <2>2 DEF ConsistentAt
    <3>. QED  BY <1>2, <2>1, <3>1, <3>2 DEF ConsistentAt
  <2>3. CASE ~S(x)
    <3>1. t.onStack[x] = s.onStack[x]
      BY <1>1, <1>3, <2>3 DEF States
    <3>. QED  BY <1>1, <1>2, <1>3, <1>5, <2>1, <2>3, <3>1, ConsistentSame
  <2>. QED  BY <2>2, <2>3
<1>7. ASSUME NEW x \in Ids
      PROVE  ForcedOn(t, x)
  <2>1. ForcedOn(s, x)
    BY DEF Good
  <2>. QED  BY <1>2, <1>3, <2>1 DEF ForcedOn
<1>8. ASSUME NEW x \in Ids, Legible(s, x)
      PROVE  Legible(t, x) /\ Read(t, x) = Read(s, x)
  <2>1. Legible(t, x)
    BY <1>2, <1>3, <1>8 DEF Legible
  <2>2. CASE S(x)
    <3>1. ~s.force[x]
      BY <1>8, <2>2 DEF Good, ForcedOn
    <3>. QED  BY <1>2, <1>3, <2>1, <2>2, <3>1 DEF Read
  <2>3. CASE ~S(x)
    <3>1. s.onStack[x] /\ s.addr[x] # << >> => s.mem[x] = s.reg[Head(s.addr[x])]
      BY <1>4 DEF Good, Consistent, AgreeIn
    <3>2. x \in F \/ s.force[x] => s.onStack[x] \/ s.addr[x] = << >>
      BY <1>8, <2>3 DEF Legible
    <3>. QED  BY <1>2, <1>3, <2>1, <2>3, <3>1, <3>2 DEF Read
  <2>. QED  BY <2>2, <2>3
<1>9. Preserves(s, t)
  BY <1>5, <1>6, <1>7, <1>8, ConsistentEverywhere DEF Preserves, Good
<1>. QED  BY <1>2, <1>9 DEF t

\* RELEASE_ID_STACK changes no value (perform_instr_actions).
LEMMA ReleaseAllPreserves ==
    ASSUME NEW s, Good(s), NEW R \in SUBSET Ids
    PROVE  /\ Preserves(s, ReleaseAll(s, R))
           /\ ReleaseAll(s, R).aborted = s.aborted
<1>. DEFINE t == ReleaseAll(s, R)
<1>1. s \in States
  BY DEF Good
<1>2. /\ t.held = s.held /\ t.addr = s.addr /\ t.reg = s.reg
      /\ t.onStack = s.onStack /\ t.mem = s.mem /\ t.aborted = s.aborted
  BY <1>1 DEF ReleaseAll, States
<1>3. \A x \in Ids : t.force[x] = (s.force[x] /\ x \notin R)
  BY <1>1 DEF ReleaseAll, States
<1>4. t \in States
  BY <1>1 DEF ReleaseAll, States
<1>. HIDE DEF t
<1>5. Consistent(t)
  BY <1>2 DEF Good, Consistent, LinkedIn, AgreeIn
<1>6. \A x \in Ids : ForcedOn(t, x)
  BY <1>2, <1>3 DEF Good, ForcedOn
<1>7. ASSUME NEW x \in Ids, Legible(s, x)
      PROVE  Legible(t, x) /\ Read(t, x) = Read(s, x)
  <2>1. s.addr[x] # << >> /\ s.onStack[x] => s.mem[x] = s.reg[Head(s.addr[x])]
    <3>1. s.addr[x] \in Seq(Regs)
      BY <1>1 DEF States
    <3>2. s.addr[x] # << >> => 1 \in 1 .. Len(s.addr[x]) /\ Head(s.addr[x]) = s.addr[x][1]
      BY <3>1, HeadTailProperties
    <3>. QED  BY <3>2 DEF Good, Consistent, AgreeIn
  <2>. QED  BY <1>2, <1>3, <1>7, <2>1 DEF Legible, Read
<1>8. Preserves(s, t)
  BY <1>4, <1>5, <1>6, <1>7 DEF Preserves, Good
<1>. QED  BY <1>2, <1>8 DEF t

\* Comparing two constants changes no value and has the first in the register
\* that is compared (compile_cond).
LEMMA CondConstsPreserves ==
    ASSUME NEW s, Good(s), NEW a \in Vals,
           NEW t, t = CondConsts(s, a), ~t.aborted
    PROVE  Preserves(s, t) /\ ~s.aborted /\ t.reg[PickReg(s, NoId)] = a
<1>. DEFINE r == PickReg(s, NoId)
            d == Dump(s, r, NoId)
<1>1. s \in States /\ r \in Regs
  BY PickRegType DEF Good, Keepers
<1>2. t = [d EXCEPT !.reg[r] = a]
  BY DEF CondConsts
<1>. HIDE DEF r
<1>3. d \in States /\ (s.aborted => d.aborted)
  BY <1>1, DumpFields DEF Keepers
<1>3a. d = Dump(s, r, NoId)
  OBVIOUS
<1>. HIDE DEF d
<1>4. t.aborted = d.aborted
  BY <1>2, <1>3 DEF States
<1>4a. d.aborted \in BOOLEAN
  BY <1>3 DEF States
<1>4b. t = [d EXCEPT !.reg[r] = a, !.aborted = d.aborted]
  BY <1>2, <1>3 DEF States
<1>5. Consistent(d) /\ Keeps(s, d, {}) /\ KeepsForced(s, d) /\ FreeOf(d, r, {NoId})
  BY <1>1, <1>3a, <1>4, DumpKeeps DEF Keepers, Good
<1>6. Overwritten(d, t, r, a, d.aborted, {NoId})
  <2>1. t = PutIn(d, r, a, d.aborted)
    BY <1>4b DEF PutIn
  <2>. QED  BY <1>1, <1>3, <1>4a, <1>5, <2>1, PutInKeeps
<1>7. \A x \in Ids : ConsistentAt(t, x) /\ Same(d, t, x)
  BY <1>6, AllocatorAssumption DEF Overwritten
<1>8. Good(t)
  BY <1>5, <1>6, <1>7, ConsistentEverywhere
     DEF Good, Overwritten, Same, KeepsForced
<1>9. \A x \in Ids : Legible(s, x) => Legible(t, x) /\ Read(t, x) = Read(s, x)
  BY <1>5, <1>7 DEF Keeps, Same, Good
<1>10. t.reg[r] = a /\ ~s.aborted
  BY <1>3, <1>4, <1>6 DEF Overwritten
<1>. QED  BY <1>8, <1>9, <1>10 DEF Preserves, r

\* The registers saved around the call of printf are all that it may change
\* (store_caller_regs, restore_caller_regs).
LEMMA CallPrintfPreserves ==
    ASSUME NEW s \in States, NEW g
    PROVE  CallPrintf(s, g) = s
<1>1. \A r \in Regs : r \notin Clobbered \ Saved
  BY DEF Clobbered, Saved
<1>2. [r \in Regs |-> IF r \in Clobbered \ Saved THEN g[r] ELSE s.reg[r]] = s.reg
  BY <1>1 DEF States
<1>. QED  BY <1>2 DEF CallPrintf, States
-----------------------------------------------------------------------------
(* The inductive invariant and its steps. *)

IInv ==
    /\ Good(st)
    /\ defined \subseteq Ids
    /\ instr \in Instructions
    /\ out \in Outs
    /\ AlwaysLegible

\* The store of the source program.
Values(s, D) == [id \in Ids |-> IF id \in D THEN Read(s, id) ELSE Unset]

Stutters ==
    /\ Values(st', defined') = Values(st, defined)
    /\ instr' = instr
    /\ out' = out

\* The step of an instruction i that leaves the source program with the store
\* values and shows shown.
Performs(i, values, shown) ==
    /\ Values(st', defined') = values
    /\ instr' = i
    /\ out' = shown

\* The invariant holds when compilation starts.
LEMMA InitInvariant == Init => IInv
<1>. SUFFICES ASSUME Init PROVE IInv
  OBVIOUS
<1>1. PICK reg \in [Regs -> Vals], mem \in [Ids -> Vals] :
        st = [held    |-> [r \in Regs |-> [id \in Ids |-> 0]],
              addr    |-> [id \in Ids |-> << >>],
              onStack |-> [id \in Ids |-> FALSE],
              force   |-> [id \in Ids |-> FALSE],
              reg     |-> reg,
              mem     |-> mem,
              aborted |-> FALSE]
  BY DEF Init, InitStates
<1>2. st \in States
  BY <1>1 DEF States
<1>3. \A x \in Ids : st.addr[x] = << >> /\ ~st.force[x]
  BY <1>1
<1>4. Good(st)
  BY <1>2, <1>3 DEF Good, Consistent, LinkedIn, AgreeIn, ForcedOn
<1>. QED  BY <1>4 DEF IInv, Init, Instructions, Outs, AlwaysLegible

\* A compiler that aborts changes nothing that can be read.
LEMMA AbortStep ==
    ASSUME IInv, st' = [st EXCEPT !.aborted = TRUE], UNCHANGED << defined, instr, out >>
    PROVE  IInv' /\ Stutters
<1>1. st \in States
  BY DEF IInv, Good
<1>2. /\ st'.held = st.held /\ st'.addr = st.addr /\ st'.reg = st.reg
      /\ st'.onStack = st.onStack /\ st'.mem = st.mem /\ st'.force = st.force
  BY <1>1 DEF States
<1>3. st' \in States
  BY <1>1 DEF States
<1>4. Good(st')
  BY <1>2, <1>3 DEF IInv, Good, Consistent, LinkedIn, AgreeIn, ForcedOn
<1>5. \A x \in Ids : /\ Legible(st, x) => Legible(st', x)
                     /\ Read(st', x) = Read(st, x)
  BY <1>2 DEF Legible, Read
<1>6. Stutters
  BY <1>5 DEF Stutters, Values
<1>. QED  BY <1>4, <1>5, <1>6 DEF IInv, AlwaysLegible

\* An instruction that assigns v to id, as a step of the store of the source.
LEMMA AssignStep ==
    ASSUME IInv, NEW id \in Ids, NEW v, NEW i \in Instructions, NEW t,
           ~t.aborted => Assigns(st, t, id, v),
           Continue(i, t, {id}, Silent)
    PROVE  /\ IInv'
           /\ \/ Stutters
              \/ Performs(i, [Values(st, defined) EXCEPT ![id] = v], Silent)
<1>1. CASE t.aborted
  BY <1>1, AbortStep DEF Continue
<1>2. CASE ~t.aborted
  <2>1. st' = t /\ defined' = defined \cup {id} /\ instr' = i /\ out' = Silent
    BY <1>2 DEF Continue
  <2>2. Assigns(st, t, id, v)
    BY <1>2
  <2>3. IInv'
    BY <2>1, <2>2 DEF IInv, Assigns, Outs, AlwaysLegible
  <2>4. \A x \in Ids : Values(st', defined')[x]
                          = [Values(st, defined) EXCEPT ![id] = v][x]
    BY <2>1, <2>2 DEF Values, Assigns, IInv, AlwaysLegible
  <2>5. Values(st', defined') = [Values(st, defined) EXCEPT ![id] = v]
    BY <2>4 DEF Values
  <2>. QED  BY <2>1, <2>3, <2>5 DEF Performs
<1>. QED  BY <1>1, <1>2

\* An instruction that assigns nothing, as a step of the store of the source.
LEMMA ShowStep ==
    ASSUME IInv, NEW shown \in Outs, NEW i \in Instructions, NEW t,
           ~t.aborted => Preserves(st, t),
           Continue(i, t, {}, shown)
    PROVE  IInv' /\ (Stutters \/ Performs(i, Values(st, defined), shown))
<1>1. CASE t.aborted
  BY <1>1, AbortStep DEF Continue
<1>2. CASE ~t.aborted
  <2>1. st' = t /\ defined' = defined /\ instr' = i /\ out' = shown
    BY <1>2 DEF Continue
  <2>2. Preserves(st, t)
    BY <1>2
  <2>3. IInv'
    BY <2>1, <2>2 DEF IInv, Preserves, AlwaysLegible
  <2>4. Values(st', defined') = Values(st, defined)
    BY <2>1, <2>2 DEF Values, Preserves, IInv, AlwaysLegible
  <2>. QED  BY <2>1, <2>3, <2>4 DEF Performs
<1>. QED  BY <1>1, <1>2

\* compile_cond swaps the operands and the jump together.
LEMMA HoldsType ==
    ASSUME NEW op \in RelOps, NEW a \in Int, NEW b \in Int
    PROVE  Holds(op, a, b) \in BOOLEAN /\ Holds(Flip(op), b, a) = Holds(op, a, b)
<1>1. CASE op = "LT"
  <2>1. Flip(op) = "GT"
    BY <1>1 DEF Flip
  <2>2. Holds(op, a, b) = (a < b)
    BY <1>1 DEF Holds
  <2>3. Holds("GT", b, a) = (b > a)
    BY DEF Holds
  <2>. QED  BY <2>1, <2>2, <2>3
<1>2. CASE op = "GT"
  <2>1. Flip(op) = "LT"
    BY <1>2 DEF Flip
  <2>2. Holds(op, a, b) = (a > b)
    BY <1>2 DEF Holds
  <2>3. Holds("LT", b, a) = (b < a)
    BY DEF Holds
  <2>. QED  BY <2>1, <2>2, <2>3
<1>3. CASE op = "LEQ"
  <2>1. Flip(op) = "GEQ"
    BY <1>3 DEF Flip
  <2>2. Holds(op, a, b) = (a =< b)
    BY <1>3 DEF Holds
  <2>3. Holds("GEQ", b, a) = (b >= a)
    BY DEF Holds
  <2>. QED  BY <2>1, <2>2, <2>3
<1>4. CASE op = "GEQ"
  <2>1. Flip(op) = "LEQ"
    BY <1>4 DEF Flip
  <2>2. Holds(op, a, b) = (a >= b)
    BY <1>4 DEF Holds
  <2>3. Holds("LEQ", b, a) = (b =< a)
    BY DEF Holds
  <2>. QED  BY <2>1, <2>2, <2>3
<1>5. CASE op = "EQ"
  <2>1. Flip(op) = "EQ"
    BY <1>5 DEF Flip
  <2>2. Holds(op, a, b) = (a = b)
    BY <1>5 DEF Holds
  <2>3. Holds("EQ", b, a) = (b = a)
    BY DEF Holds
  <2>. QED  BY <2>1, <2>2, <2>3
<1>6. CASE op = "NEQ"
  <2>1. Flip(op) = "NEQ"
    BY <1>6 DEF Flip
  <2>2. Holds(op, a, b) = (a # b)
    BY <1>6 DEF Holds
  <2>3. Holds("NEQ", b, a) = (b # a)
    BY DEF Holds
  <2>. QED  BY <2>1, <2>2, <2>3
<1>. QED  BY <1>1, <1>2, <1>3, <1>4, <1>5, <1>6 DEF RelOps

-----------------------------------------------------------------------------
(* One lemma per action: the invariant is kept, and the step is one of the *)
(* source program or none.                                                 *)

Refines == IInv' /\ [Abstract!Next]_(Abstract!vars)

\* A step that shows and changes nothing refines a stuttering step.
LEMMA StutterRefines ==
    ASSUME IInv', Stutters
    PROVE  Refines
BY DEF Refines, Stutters, Values, Abstract!vars

\* An operand can be read, and its value is that of the source program.
LEMMA ArgsRead ==
    ASSUME IInv, NEW a \in Args
    PROVE  /\ Operand(st, a)
           /\ a \in Abstract!Args
           /\ Abstract!Value(a) = ArgValue(st, a)
           /\ ArgValue(st, a) \in Vals
<1>1. CASE a \in Consts
  BY <1>1, RegAllocAssumption
     DEF Operand, Abstract!Args, Abstract!Value, ArgValue, IsConst
<1>2. CASE a \notin Consts
  <2>1. a \in defined /\ a \in Ids /\ a \notin Vals
    BY <1>2, AllocatorAssumption DEF IInv, Args
  <2>2. Legible(st, a) /\ Read(st, a) \in Vals
    BY <2>1, ReadType DEF IInv, AlwaysLegible, Good
  <2>3. a \in Abstract!Args
    BY <2>1, <2>2, RegAllocAssumption DEF Abstract!Args, Abstract!Defined
  <2>4. Abstract!Value(a) = Read(st, a)
    BY <2>1 DEF Abstract!Value
  <2>. QED  BY <2>1, <2>2, <2>3, <2>4 DEF Operand, ArgValue, IsConst
<1>. QED  BY <1>1, <1>2

\* ASSIGN of a constant.
LEMMA AssignConstRefines ==
    ASSUME IInv, NEW id \in Ids, NEW c \in Consts, AssignConst(id, c)
    PROVE  Refines
<1>. DEFINE t == IF st.force[id] THEN AssignForcedConst(st, id, c)
                                 ELSE AssignFreeConst(st, id, c)
            i == << "ASSIGN", id, c >>
<1>1. Continue(i, t, {id}, Silent) /\ c \in Vals /\ i \in Instructions
  BY RegAllocAssumption DEF AssignConst, Instructions, Operands
<1>2. ASSUME ~t.aborted
      PROVE  Assigns(st, t, id, c)
  <2>1. CASE st.force[id]
    BY <1>1, <2>1, ForcedConstAssigns DEF IInv
  <2>2. CASE ~st.force[id]
    BY <1>1, <1>2, <2>2, FreeConstAssigns DEF IInv
  <2>. QED  BY <2>1, <2>2
<1>. HIDE DEF t, i
<1>3. /\ IInv'
      /\ Stutters \/ Performs(i, [Values(st, defined) EXCEPT ![id] = c], Silent)
  BY <1>1, <1>2, AssignStep
<1>4. CASE Stutters
  BY <1>3, <1>4, StutterRefines
<1>5. CASE ~Stutters
  <2>1. c \in Args
    BY DEF Args
  <2>2. c \in Abstract!Args /\ Abstract!Value(c) = c
    BY <1>1, <2>1, ArgsRead DEF ArgValue, IsConst
  <2>3. Abstract!Assign(id, c)
    BY <1>3, <1>5, <2>2 DEF Abstract!Assign, Values, Performs, i
  <2>. QED  BY <1>3, <2>2, <2>3 DEF Refines, Abstract!Next
<1>. QED  BY <1>4, <1>5

\* ASSIGN of an identifier.
LEMMA AssignIdentRefines ==
    ASSUME IInv, NEW id \in Ids, NEW y \in defined, AssignIdent(id, y)
    PROVE  Refines
<1>. DEFINE t == AssignFromIdent(st, id, y)
            v == Read(st, y)
            i == << "ASSIGN", id, y >>
<1>1. Continue(i, t, {id}, Silent)
  BY DEF AssignIdent
<1>2. y \in Ids /\ Legible(st, y) /\ i \in Instructions
  BY DEF IInv, AlwaysLegible, Instructions, Operands
<1>3. ASSUME ~t.aborted
      PROVE  Assigns(st, t, id, v)
  BY <1>2, <1>3, IdentAssigns DEF IInv
<1>. HIDE DEF t, i
<1>4. /\ IInv'
      /\ Stutters \/ Performs(i, [Values(st, defined) EXCEPT ![id] = v], Silent)
  BY <1>1, <1>2, <1>3, AssignStep
<1>5. CASE Stutters
  BY <1>4, <1>5, StutterRefines
<1>6. CASE ~Stutters
  <2>1. y \in Args /\ y \notin Vals
    BY <1>2, AllocatorAssumption DEF Args
  <2>2. y \in Abstract!Args /\ Abstract!Value(y) = v
    BY <2>1, ArgsRead DEF ArgValue, IsConst
  <2>. HIDE DEF v
  <2>3. Abstract!Assign(id, y)
    BY <1>4, <1>6, <2>2 DEF Abstract!Assign, Values, Performs, i
  <2>. QED  BY <1>4, <2>2, <2>3 DEF Refines, Abstract!Next
<1>. QED  BY <1>5, <1>6

\* ADD, SUB, MULT.
LEMMA BinaryRefines ==
    ASSUME IInv, NEW id \in Ids, NEW a \in Args, NEW b \in Args, Binary(id, a, b)
    PROVE  Refines
<1>. DEFINE t == BinaryOp(st, id, a, b)
            v == Arith(ArgValue(st, a), ArgValue(st, b))
            i == << "ARITH", id, a, b >>
<1>1. Continue(i, t, {id}, Silent) /\ i \in Instructions
  BY DEF Binary, IInv, Args, Instructions, Operands
<1>2. ASSUME ~t.aborted
      PROVE  Assigns(st, t, id, v)
  BY <1>2, ArgsRead, BinaryAssigns DEF IInv
<1>. HIDE DEF t, v, i
<1>3. /\ IInv'
      /\ Stutters \/ Performs(i, [Values(st, defined) EXCEPT ![id] = v], Silent)
  BY <1>1, <1>2, AssignStep
<1>4. CASE Stutters
  BY <1>3, <1>4, StutterRefines
<1>5. CASE ~Stutters
  <2>1. /\ a \in Abstract!Args /\ Abstract!Value(a) = ArgValue(st, a)
        /\ b \in Abstract!Args /\ Abstract!Value(b) = ArgValue(st, b)
    BY ArgsRead
  <2>2. v = Arith(Abstract!Value(a), Abstract!Value(b))
    BY <2>1 DEF v
  <2>3. Abstract!Operate(id, a, b)
    BY <1>3, <1>5, <2>2 DEF Abstract!Operate, Values, Performs, i
  <2>. QED  BY <1>3, <2>1, <2>3 DEF Refines, Abstract!Next
<1>. QED  BY <1>4, <1>5

\* A good state preserves itself.
LEMMA PreservesSame ==
    ASSUME NEW s, Good(s)
    PROVE  Preserves(s, s)
BY DEF Preserves

\* A step that shows something and leaves the store alone.
LEMMA ShowRefines ==
    ASSUME IInv, NEW shown \in Outs, NEW i \in Instructions, NEW t,
           ~t.aborted => Preserves(st, t),
           Continue(i, t, {}, shown),
           NEW step, step => Abstract!Next,
           Performs(i, Values(st, defined), shown) => step
    PROVE  Refines
<1>1. IInv' /\ (Stutters \/ Performs(i, Values(st, defined), shown))
  BY ShowStep
<1>2. CASE Stutters
  BY <1>1, <1>2, StutterRefines
<1>3. CASE ~Stutters
  BY <1>1, <1>3 DEF Refines
<1>. QED  BY <1>2, <1>3

\* PRINT.
LEMMA PrintIdentRefines ==
    ASSUME IInv, NEW id \in defined, PrintIdent(id)
    PROVE  Refines
<1>1. st \in States /\ id \in Ids /\ Legible(st, id) /\ Good(st)
  BY DEF IInv, Good, AlwaysLegible
<1>. DEFINE t == [st EXCEPT !.aborted = ~Legible(st, id)]
            shown == << "print", Read(st, id) >>
            i == << "PRINT", id >>
<1>2. ~st.aborted /\ Continue(i, t, {}, shown)
  <2>1. PICK g \in [Regs -> Vals] :
            Continue(i, [CallPrintf(st, g) EXCEPT !.aborted = ~Legible(st, id)],
                     {}, shown)
    BY DEF PrintIdent
  <2>2. CallPrintf(st, g) = st
    BY <1>1, CallPrintfPreserves
  <2>. QED  BY <2>1, <2>2 DEF Continue
<1>3. t = st
  BY <1>1, <1>2 DEF States
<1>4. shown \in Outs /\ i \in Instructions
  BY <1>1, ReadType DEF Outs, Instructions
<1>. HIDE DEF t
<1>5. Preserves(st, t)
  BY <1>1, <1>3, PreservesSame
<1>6. id \in Abstract!Defined /\ Values(st, defined)[id] = Read(st, id)
  BY <1>1, ReadType, RegAllocAssumption DEF Abstract!Defined, Values
<1>7. Abstract!PrintIdent(id) => Abstract!Next
  BY <1>6 DEF Abstract!Next
<1>8. Performs(i, Values(st, defined), shown) => Abstract!PrintIdent(id)
  BY <1>6 DEF Abstract!PrintIdent, Values, Performs
<1>. HIDE DEF shown, i
<1>. QED  BY <1>2, <1>4, <1>5, <1>7, <1>8, ShowRefines

\* GOTO and NOP show nothing.
LEMMA SkipRefines ==
    ASSUME IInv, NEW op \in {"GOTO", "NOP"}, NEW t, Preserves(st, t),
           Continue(<< op >>, t, {}, Silent)
    PROVE  Refines
<1>1. Silent \in Outs /\ << op >> \in Instructions
  BY DEF Outs, Instructions
<1>2. Abstract!Skip(op) => Abstract!Next
  BY DEF Abstract!Next
<1>3. Performs(<< op >>, Values(st, defined), Silent) => Abstract!Skip(op)
  BY DEF Abstract!Skip, Values, Performs
<1>. QED  BY <1>1, <1>2, <1>3, ShowRefines

\* GOTO with the FORCE actions of a loop.
LEMMA GotoRefines ==
    ASSUME IInv, NEW F \in Forces, Goto(F)
    PROVE  Refines
<1>1. F \in SUBSET Ids
  BY RegAllocAssumption DEF Forces
<1>2. Preserves(st, ForceAll(st, F))
  BY <1>1, ForceAllPreserves DEF IInv
<1>. QED  BY <1>2, SkipRefines DEF Goto

\* NOP with the RELEASE actions of a loop.
LEMMA NopRefines ==
    ASSUME IInv, NEW R \in Forces, Nop(R)
    PROVE  Refines
<1>1. R \in SUBSET Ids
  BY RegAllocAssumption DEF Forces
<1>2. Preserves(st, ReleaseAll(st, R))
  BY <1>1, ReleaseAllPreserves DEF IInv
<1>. QED  BY <1>2, SkipRefines DEF Nop

\* A comparison of operands that need no register.
LEMMA CompareInPlaceRefines ==
    ASSUME IInv, NEW op \in Tests, NEW a \in Args, NEW b \in Args,
           NEW F \in Forces, CompareInPlace(op, a, b, F)
    PROVE  Refines
<1>. DEFINE s     == ForceAll(st, F)
            swap  == IsConst(a)
            left  == IF swap THEN b ELSE a
            right == IF swap THEN a ELSE b
            jump  == IF swap THEN Flip(op) ELSE op
            t     == [s EXCEPT !.aborted = \/ ~ArgLegible(s, left)
                                           \/ ~ArgLegible(s, right)]
            shown == << "jump", Holds(jump, ArgValue(s, left), ArgValue(s, right)) >>
            test  == Holds(op, ArgValue(st, a), ArgValue(st, b))
            i     == << op, a, b >>
<1>1. Continue(i, t, {}, shown)
  BY DEF CompareInPlace
<1>2. F \in SUBSET Ids /\ op \in RelOps /\ i \in Instructions
  BY RegAllocAssumption DEF Forces, Args, IInv, Instructions, Operands
<1>3. Preserves(st, s) /\ s.aborted = st.aborted
  BY <1>2, ForceAllPreserves DEF IInv
<1>4. ASSUME NEW arg \in Args
      PROVE  ArgLegible(s, arg) /\ ArgValue(s, arg) = ArgValue(st, arg)
  <2>1. Operand(st, arg)
    BY ArgsRead
  <2>. QED  BY <1>3, <2>1 DEF Operand, ArgLegible, ArgValue, IsConst, Preserves
<1>5. ~st.aborted /\ s \in States
  BY <1>1, <1>3 DEF Continue, Preserves, Good
<1>6. t = s
  <2>1. ~ (~ArgLegible(s, left) \/ ~ArgLegible(s, right))
    BY <1>4
  <2>2. s.aborted = FALSE
    BY <1>3, <1>5 DEF States
  <2>. HIDE DEF s, left, right
  <2>. QED  BY <1>5, <2>1, <2>2 DEF States
<1>7. /\ ArgValue(st, a) \in Int /\ ArgValue(st, b) \in Int
      /\ a \in Abstract!Args /\ Abstract!Value(a) = ArgValue(st, a)
      /\ b \in Abstract!Args /\ Abstract!Value(b) = ArgValue(st, b)
  BY ArgsRead, AllocatorAssumption
<1>8. shown = << "jump", test >> /\ test \in BOOLEAN
  <2>. HIDE DEF s
  <2>1. CASE swap
    BY <1>2, <1>4, <1>7, <2>1, HoldsType
  <2>2. CASE ~swap
    BY <1>2, <1>4, <1>7, <2>2, HoldsType
  <2>. QED  BY <2>1, <2>2
<1>. HIDE DEF t, s
<1>9. Preserves(st, t)
  BY <1>3, <1>6
<1>. HIDE DEF shown, i
<1>10. shown \in Outs
  BY <1>8 DEF Outs
<1>11. Abstract!Test(op, a, b) => Abstract!Next
  BY <1>7 DEF Abstract!Next
<1>12. Performs(i, Values(st, defined), shown) => Abstract!Test(op, a, b)
  BY <1>7, <1>8 DEF Abstract!Test, Values, Performs, i
<1>. QED  BY <1>1, <1>2, <1>9, <1>10, <1>11, <1>12, ShowRefines

\* A comparison of two constants.
LEMMA CompareConstsRefines ==
    ASSUME IInv, NEW op \in Tests, NEW a \in Consts, NEW b \in Consts,
           NEW F \in Forces, CompareConsts(op, a, b, F)
    PROVE  Refines
<1>. DEFINE s     == ForceAll(st, F)
            t     == CondConsts(s, a)
            shown == << "jump", Holds(op, t.reg[PickReg(s, NoId)], b) >>
            i     == << op, a, b >>
<1>1. Continue(i, t, {}, shown)
  BY DEF CompareConsts
<1>2. /\ F \in SUBSET Ids /\ op \in RelOps /\ a \in Vals /\ b \in Vals
      /\ i \in Instructions
  BY RegAllocAssumption DEF Forces, Instructions, Operands
<1>3. Preserves(st, s)
  BY <1>2, ForceAllPreserves DEF IInv
<1>4. ASSUME ~t.aborted
      PROVE  Preserves(s, t) /\ t.reg[PickReg(s, NoId)] = a
  BY <1>2, <1>3, <1>4, CondConstsPreserves DEF Preserves
<1>5. ~t.aborted => Preserves(st, t)
  BY <1>3, <1>4 DEF Preserves
<1>6. /\ a \in Args /\ b \in Args
      /\ a \in Abstract!Args /\ Abstract!Value(a) = a
      /\ b \in Abstract!Args /\ Abstract!Value(b) = b
  BY <1>2 DEF Args, Abstract!Args, Abstract!Value
<1>. HIDE DEF t, i
<1>7. CASE t.aborted
  BY <1>1, <1>7, AbortStep, StutterRefines DEF Continue
<1>8. CASE ~t.aborted
  <2>1. shown = << "jump", Holds(op, a, b) >>
    BY <1>4, <1>8
  <2>2. Holds(op, a, b) \in BOOLEAN
    BY <1>2, HoldsType, AllocatorAssumption
  <2>. HIDE DEF shown
  <2>3. shown \in Outs
    BY <2>1, <2>2 DEF Outs
  <2>4. Abstract!Test(op, a, b) => Abstract!Next
    BY <1>6 DEF Abstract!Next
  <2>5. Performs(i, Values(st, defined), shown) => Abstract!Test(op, a, b)
    BY <1>6, <2>1 DEF Abstract!Test, Values, Performs, i
  <2>. QED  BY <1>1, <1>2, <1>5, <2>3, <2>4, <2>5, ShowRefines
<1>. QED  BY <1>7, <1>8
-----------------------------------------------------------------------------
(* The theorems. *)

\* Every step keeps the invariant and is a step of the source program or none.
LEMMA NextRefines == IInv /\ [Next]_vars => Refines
<1>. SUFFICES ASSUME IInv, [Next]_vars PROVE Refines
  OBVIOUS
<1>1. CASE UNCHANGED vars
  <2>1. IInv'
    BY <1>1 DEF vars, IInv, AlwaysLegible
  <2>2. Stutters
    BY <1>1 DEF vars, Stutters
  <2>. QED  BY <2>1, <2>2, StutterRefines
<1>2. ASSUME NEW id \in Ids, NEW c \in Consts, AssignConst(id, c)
      PROVE  Refines
  BY <1>2, AssignConstRefines
<1>3. ASSUME NEW id \in Ids, NEW y \in defined, AssignIdent(id, y)
      PROVE  Refines
  BY <1>3, AssignIdentRefines
<1>4. ASSUME NEW id \in Ids, NEW a \in Args, NEW b \in Args, Binary(id, a, b)
      PROVE  Refines
  BY <1>4, BinaryRefines
<1>5. ASSUME NEW id \in defined, PrintIdent(id)
      PROVE  Refines
  BY <1>5, PrintIdentRefines
<1>6. ASSUME NEW op \in Tests, NEW a \in Args, NEW b \in Args, NEW F \in Forces,
             CompareInPlace(op, a, b, F)
      PROVE  Refines
  BY <1>6, CompareInPlaceRefines
<1>7. ASSUME NEW op \in Tests, NEW a \in Consts, NEW b \in Consts, NEW F \in Forces,
             CompareConsts(op, a, b, F)
      PROVE  Refines
  BY <1>7, CompareConstsRefines
<1>8. ASSUME NEW F \in Forces, Goto(F)
      PROVE  Refines
  BY <1>8, GotoRefines
<1>9. ASSUME NEW R \in Forces, Nop(R)
      PROVE  Refines
  BY <1>9, NopRefines
<1>. QED  BY <1>1, <1>2, <1>3, <1>4, <1>5, <1>6, <1>7, <1>8, <1>9 DEF Next

\* The invariant holds throughout: descriptors stay linked and copies agree from
\* one instruction to the next.
THEOREM Invariance == Spec => []IInv
<1>1. IInv /\ [Next]_vars => IInv'
  BY NextRefines DEF Refines
<1>. QED  BY <1>1, InitInvariant, PTL DEF Spec

\* Type correctness of every reachable state (basic_compile).
THEOREM TypeCorrect == Spec => []TypeOK
<1>1. IInv => TypeOK
  BY DEF IInv, TypeOK, Good
<1>. QED  BY <1>1, Invariance, PTL

\* A register on the descriptor of an identifier lists it, and is there once, for
\* any loops and every program of Spec: dump_reg_with_reserve overlooks no value it
\* has to store.  A comparison of two identifiers on the stack, which Spec leaves
\* out, puts the register there a second time (converter.c:677).
THEOREM DescriptorsLinked == Spec => []Linked
<1>1. IInv => Linked
  BY DEF IInv, Good, Consistent, Linked
<1>. QED  BY <1>1, Invariance, PTL

\* Every place that the compiler takes to have the current value of an
\* identifier has the same value (get_current_reg, repr_ident), in programs of
\* Spec.
THEOREM PlacesAgree == Spec => []Agree
<1>1. IInv => Agree
  BY DEF IInv, Good, Consistent, Agree
<1>. QED  BY <1>1, Invariance, PTL

\* repr_ident finds a place for every identifier that has been assigned: its last
\* assert does not fail in programs of Spec.
THEOREM OperandsLegible == Spec => []AlwaysLegible
<1>1. IInv => AlwaysLegible
  BY DEF IInv
<1>. QED  BY <1>1, Invariance, PTL

\* What basic_compile writes for an instruction does what Source does with the
\* same instruction, or the compiler aborts: the word printed and the jump taken
\* are those that the instructions so far determine, the result is that of the
\* operands, and what reading finds for the other identifiers stays.
THEOREM BackendImplementsSource == Spec => Implements
<1>1. Init => Abstract!Init
  BY DEF Init, Abstract!Init
<1>2. IInv /\ [Next]_vars => [Abstract!Next]_(Abstract!vars)
  BY NextRefines DEF Refines
<1>. QED  BY <1>1, <1>2, Invariance, PTL DEF Spec, Implements, Abstract!Spec
=============================================================================

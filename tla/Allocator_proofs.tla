---------------------------- MODULE Allocator_proofs ----------------------------
(***************************************************************************)
(* Facts about the helpers of the register allocator that need no          *)
(* invariant: what dump_reg_with_reserve, ensure_register and              *)
(* get_reg_for_arg return for any state, for any number of identifiers and *)
(* registers and any words.  RegAlloc_proofs and Codegen_proofs rest on    *)
(* them.                                                                   *)
(***************************************************************************)
EXTENDS Allocator, SequenceLemmas

\* The assert of dump_reg_with_reserve holds only if the register is named.
LEMMA OccursThenContains ==
    ASSUME NEW S, NEW q \in Seq(S), NEW r, NEW n \in Nat, n > 0,
           ~ (Occurrences(q, r) < n)
    PROVE  Contains(q, r)
<1>1. SUFFICES ASSUME ~Contains(q, r) PROVE FALSE
  OBVIOUS
<1>2. {i \in DOMAIN q : q[i] = r} = {}
  BY <1>1 DEF Contains
<1>3. Occurrences(q, r) = 0
  BY <1>2, FS_EmptySet DEF Occurrences
<1>. QED  BY <1>3
-----------------------------------------------------------------------------
(* dump_reg_with_reserve. *)

Keepers == Ids \cup {NoId}

\* Dumping r, all but keep, visits x.
Hit(s, r, keep, x) == x # keep /\ s.held[r][x] > 0

\* The fields of the state after dump_reg_with_reserve, one by one.
LEMMA DumpFields ==
    ASSUME NEW s \in States, NEW r \in Regs, NEW keep \in Keepers,
           NEW t, t = Dump(s, r, keep)
    PROVE  /\ t \in States
           /\ t.force = s.force
           /\ t.reg = s.reg
           /\ s.aborted => t.aborted
           /\ \A x \in Ids : t.held[r][x] = IF x = keep THEN 1 ELSE 0
           /\ \A x \in Ids, q \in Regs \ {r} : t.held[q][x] = s.held[q][x]
           /\ \A x \in Ids : ~Hit(s, r, keep, x) =>
                 /\ t.addr[x] = s.addr[x]
                 /\ t.mem[x] = s.mem[x]
                 /\ t.onStack[x] = s.onStack[x]
           /\ \A x \in Ids : Hit(s, r, keep, x) =>
                 /\ t.addr[x] = RemoveFirst(s.addr[x], r)
                 /\ ~t.aborted => Contains(s.addr[x], r)
           /\ \A x \in Ids : Hit(s, r, keep, x) /\ Len(s.addr[x]) = 1 =>
                 /\ t.mem[x] = s.reg[r]
                 /\ t.onStack[x]
           /\ \A x \in Ids : Hit(s, r, keep, x) /\ Len(s.addr[x]) # 1 =>
                 /\ t.mem[x] = s.mem[x]
                 /\ t.onStack[x] = s.onStack[x]
<1>1. \A x \in Ids : RemoveFirst(s.addr[x], r) \in Seq(Regs)
  <2>. TAKE x \in Ids
  <2>1. s.addr[x] \in Seq(Regs)
    BY DEF States
  <2>. QED  BY <2>1, RemoveFirstAbsent, RemoveFirstPresent
<1>2. t \in States
  BY <1>1 DEF Dump, States
<1>3. /\ t.force = s.force
      /\ t.reg = s.reg
      /\ s.aborted => t.aborted
  BY DEF Dump, States
<1>4. ASSUME NEW x \in Ids
      PROVE  /\ t.held[r][x] = IF x = keep THEN 1 ELSE 0
             /\ \A q \in Regs \ {r} : t.held[q][x] = s.held[q][x]
  BY DEF Dump, States
<1>5. ASSUME NEW x \in Ids, ~Hit(s, r, keep, x)
      PROVE  /\ t.addr[x] = s.addr[x]
             /\ t.mem[x] = s.mem[x]
             /\ t.onStack[x] = s.onStack[x]
  BY <1>5 DEF Dump, States, Hit
<1>6. ASSUME NEW x \in Ids, Hit(s, r, keep, x)
      PROVE  /\ t.addr[x] = RemoveFirst(s.addr[x], r)
             /\ ~t.aborted => Contains(s.addr[x], r)
             /\ Len(s.addr[x]) = 1 => t.mem[x] = s.reg[r] /\ t.onStack[x]
             /\ Len(s.addr[x]) # 1 => /\ t.mem[x] = s.mem[x]
                                      /\ t.onStack[x] = s.onStack[x]
  <2>1. t.addr[x] = RemoveFirst(s.addr[x], r)
    BY <1>6 DEF Dump, States, Hit
  <2>2. Len(s.addr[x]) = 1 => t.mem[x] = s.reg[r] /\ t.onStack[x]
    BY <1>6 DEF Dump, States, Hit
  <2>3. Len(s.addr[x]) # 1 => /\ t.mem[x] = s.mem[x]
                              /\ t.onStack[x] = s.onStack[x]
    BY <1>6 DEF Dump, States, Hit
  <2>4. ASSUME ~t.aborted
        PROVE  Contains(s.addr[x], r)
    <3>1. ~ (Occurrences(s.addr[x], r) < s.held[r][x])
      BY <1>6, <2>4 DEF Dump, States, Hit
    <3>. QED  BY <1>6, <3>1, OccursThenContains DEF States, Hit
  <2>. QED  BY <2>1, <2>2, <2>3, <2>4
<1>. QED  BY <1>2, <1>3, <1>4, <1>5, <1>6

-----------------------------------------------------------------------------
(* The choice of a register. *)

\* The score of a register is a number.
LEMMA ScoreType ==
    ASSUME NEW s \in States, NEW r \in Regs, NEW id \in Keepers
    PROVE  Score(s, r, id) \in Nat
<1>. DEFINE T    == {y \in Ids \ {id} : Len(s.addr[y]) = 1}
            F(x) == {x} \X (1 .. s.held[r][x])
<1>1. IsFiniteSet(T)
  BY FS_Subset, AllocatorAssumption
<1>2. IsFiniteSet({F(x) : x \in T})
  <2>. DEFINE f == [x \in T |-> F(x)]
  <2>1. f \in Surjection(T, {F(x) : x \in T})
    BY DEF Surjection
  <2>. HIDE DEF f, F, T
  <2>. QED  BY <1>1, <2>1, FS_Surjection
<1>3. \A S \in {F(x) : x \in T} : IsFiniteSet(S)
  <2>. SUFFICES ASSUME NEW x \in T PROVE IsFiniteSet(F(x))
    OBVIOUS
  <2>1. s.held[r][x] \in Int
    BY DEF States
  <2>2. IsFiniteSet({x})
    BY FS_Singleton
  <2>3. IsFiniteSet(1 .. s.held[r][x])
    BY <2>1, FS_Interval
  <2>. QED  BY <2>2, <2>3, FS_Product
<1>4. Score(s, r, id) = Cardinality(UNION {F(x) : x \in T})
  BY DEF Score
<1>. HIDE DEF T, F
<1>. QED  BY <1>2, <1>3, <1>4, FS_UNION, FS_CardinalityType

\* get_reg_for_arg returns a register, never NULL.
LEMMA PickRegType ==
    ASSUME NEW s \in States, NEW id \in Keepers
    PROVE  PickReg(s, id) \in Regs
<1>1. Regs \subseteq Nat /\ 0 \in Regs
  BY AllocatorAssumption DEF Regs
<1>2. CheapestRegs(s, id) # {}
  <2>. DEFINE S == {Score(s, r, id) : r \in Regs}
  <2>1. S \subseteq Nat /\ S # {}
    BY <1>1, ScoreType
  <2>2. PICK m \in S : \A k \in S : m =< k
    <3>. HIDE DEF S
    <3>. QED  BY <2>1, NatMinimum
  <2>3. PICK r \in Regs : m = Score(s, r, id)
    OBVIOUS
  <2>. QED  BY <2>2, <2>3 DEF CheapestRegs
<1>3. Candidates(s, id) # {} /\ Candidates(s, id) \subseteq Regs
  <2>1. CASE id # NoId /\ s.addr[id] # << >>
    <3>1. s.addr[id] \in Seq(Regs)
      BY <2>1 DEF States, Keepers
    <3>2. Head(s.addr[id]) \in Regs
      BY <2>1, <3>1, HeadTailProperties
    <3>. QED  BY <2>1, <3>2 DEF Candidates
  <2>2. CASE ~(id # NoId /\ s.addr[id] # << >>)
    BY <1>2, <2>2 DEF Candidates, EmptyRegs, CheapestRegs
  <2>. QED  BY <2>1, <2>2
<1>4. \E r \in Candidates(s, id) : \A q \in Candidates(s, id) : r =< q
  BY <1>1, <1>3, NatMinimum
<1>. QED  BY <1>3, <1>4 DEF PickReg
-----------------------------------------------------------------------------
(* ensure_register. *)

\* p is q with r in front.
IsCons(p, r, q) ==
    /\ p \in Seq(Regs)
    /\ Len(p) = Len(q) + 1
    /\ p # << >>
    /\ Head(p) = r
    /\ p[1] = r
    /\ \A i \in 1 .. Len(q) : p[i + 1] = q[i]

\* Prepending to a descriptor.
LEMMA ConsElements ==
    ASSUME NEW q \in Seq(Regs), NEW r \in Regs, NEW p, p = Cons(r, q)
    PROVE  IsCons(p, r, q)
<1>1. << r >> \in Seq(Regs) /\ Len(<< r >>) = 1 /\ << r >>[1] = r
  OBVIOUS
<1>2. /\ p \in Seq(Regs)
      /\ Len(p) = 1 + Len(q)
      /\ \A i \in 1 .. 1 + Len(q) : p[i] = IF i <= 1 THEN << r >>[i] ELSE q[i - 1]
  BY <1>1, ConcatProperties DEF Cons
<1>3. Len(q) \in Nat
  OBVIOUS
<1>4. p[1] = r
  BY <1>1, <1>2, <1>3
<1>5. p # << >> /\ Head(p) = p[1]
  BY <1>2, <1>3
<1>6. \A i \in 1 .. Len(q) : p[i + 1] = q[i]
  BY <1>2, <1>3
<1>. QED  BY <1>2, <1>3, <1>4, <1>5, <1>6 DEF IsCons

\* ensure_register leads to a state of the allocator.
LEMMA EnsureType ==
    ASSUME NEW s \in States, NEW id \in Ids, NEW r \in Regs,
           NEW t, t = Ensure(s, id, r)
    PROVE  /\ t \in States
           /\ s.aborted => t.aborted
           /\ t.force = s.force
<1>. DEFINE d == Dump(s, r, NoId)
            loaded == IF ~s.force[id] /\ s.addr[id] # << >>
                      THEN d.reg[Last(s.addr[id])]
                      ELSE IF d.onStack[id] THEN d.mem[id] ELSE d.reg[r]
<1>1. CASE Loaded(s, id, r)
  BY <1>1 DEF Ensure
<1>2. CASE ~Loaded(s, id, r)
  <2>1. t = [d EXCEPT !.held[r][id] = @ + 1, !.addr[id] = Cons(r, @),
                      !.reg[r] = loaded]
    BY <1>2 DEF Ensure
  <2>2. d \in States /\ (s.aborted => d.aborted) /\ d.force = s.force
    BY DumpFields DEF Keepers
  <2>3. loaded \in Vals
    <3>1. CASE ~s.force[id] /\ s.addr[id] # << >>
      <4>1. s.addr[id] \in Seq(Regs)
        BY DEF States
      <4>2. Len(s.addr[id]) \in 1 .. Len(s.addr[id])
        BY <3>1, <4>1, EmptySeq
      <4>3. Last(s.addr[id]) \in Regs
        BY <4>1, <4>2, ElementOfSeq DEF Last
      <4>. QED  BY <2>2, <3>1, <4>3 DEF States
    <3>2. CASE ~ (~s.force[id] /\ s.addr[id] # << >>)
      BY <2>2, <3>2 DEF States
    <3>. QED  BY <3>1, <3>2
  <2>. HIDE DEF d, loaded
  <2>4. d.addr[id] \in Seq(Regs)
    BY <2>2 DEF States
  <2>5. Cons(r, d.addr[id]) \in Seq(Regs)
    BY <2>4, ConsElements DEF IsCons
  <2>6. [d.held EXCEPT ![r][id] = @ + 1] \in [Regs -> [Ids -> Nat]]
    BY <2>2 DEF States
  <2>7. [d.addr EXCEPT ![id] = Cons(r, @)] \in [Ids -> Seq(Regs)]
    BY <2>2, <2>5 DEF States
  <2>8. [d.reg EXCEPT ![r] = loaded] \in [Regs -> Vals]
    BY <2>2, <2>3 DEF States
  <2>9. t \in States
    BY <2>1, <2>2, <2>6, <2>7, <2>8 DEF States
  <2>10. t.aborted = d.aborted /\ t.force = d.force
    BY <2>1, <2>2 DEF States
  <2>. QED  BY <2>2, <2>9, <2>10
<1>. QED  BY <1>1, <1>2

-----------------------------------------------------------------------------
(* Reading. *)

\* What is read is a word.
LEMMA ReadType ==
    ASSUME NEW s \in States, NEW x \in Ids
    PROVE  Read(s, x) \in Vals
<1>1. CASE ~s.force[x] /\ s.addr[x] # << >>
  <2>1. s.addr[x] \in Seq(Regs)
    BY DEF States
  <2>2. Head(s.addr[x]) \in Regs
    BY <1>1, <2>1, HeadTailProperties
  <2>. QED  BY <1>1, <2>2 DEF Read, States
<1>2. CASE ~ (~s.force[x] /\ s.addr[x] # << >>)
  BY <1>2 DEF Read, States
<1>. QED  BY <1>1, <1>2
=================================================================================

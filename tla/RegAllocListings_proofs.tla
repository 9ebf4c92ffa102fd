------------------------ MODULE RegAllocListings_proofs ------------------------
(***************************************************************************)
(* What the registers list, and why an assert of the allocator fails.      *)
(*                                                                         *)
(* dump_reg_with_reserve aborts when a register lists an identifier more   *)
(* often than the identifier's descriptor names the register, and          *)
(* remove_id_from_regs takes out one listing for every register of the     *)
(* descriptor.  Both are right only if a register lists exactly what is    *)
(* said to be in it.  The lemmas follow this one identifier at a time      *)
(* (ExactAt), through every operation, with loops that force identifiers   *)
(* too: one instruction alone ends it, and as long as it holds of all      *)
(* identifiers no assert fails.                                            *)
(*                                                                         *)
(* That needs more than exactness: between two instructions an identifier  *)
(* is in one register at most (Alone), otherwise the registers it has      *)
(* besides that of its new value would go on listing it.  Like IInv all of *)
(* this is about Spec: compile_cond on two slots adds a register twice.    *)
(***************************************************************************)
EXTENDS RegAlloc_proofs

\* The registers on the descriptor of x.
Where(s, x) == {q \in Regs : Contains(s.addr[x], q)}

\* The registers on the descriptor of x list it.
NamedAt(s, x) ==
    /\ Distinct(s.addr[x])
    /\ \A q \in Where(s, x) : s.held[q][x] > 0

\* They list it once, and no other register does.
ExactAt(s, x) ==
    /\ Distinct(s.addr[x])
    /\ \A q \in Regs : s.held[q][x] = IF q \in Where(s, x) THEN 1 ELSE 0

Exact(s) == \A x \in Ids : ExactAt(s, x)

\* x is in one register at most.
Alone(s, x) == \E q \in Regs : Where(s, x) \subseteq {q}

\* A state between two instructions.
Neat(s) ==
    /\ s \in States
    /\ \A x \in Ids : NamedAt(s, x) /\ Alone(s, x)

\* What every operation keeps, from s to t: what was exact is, and no assert
\* fails if everything was.
Stays(s, t) ==
    /\ t \in States
    /\ t.force = s.force
    /\ \A x \in Ids : NamedAt(t, x)
    /\ Exact(s) => t.aborted = s.aborted

-----------------------------------------------------------------------------
(* Descriptors without duplicates. *)

\* How often remove_reg_from_addrs finds a register in a descriptor.
LEMMA DistinctOccurrences ==
    ASSUME NEW S, NEW q \in Seq(S), Distinct(q), NEW r
    PROVE  Occurrences(q, r) = IF Contains(q, r) THEN 1 ELSE 0
<1>. DEFINE I == {i \in DOMAIN q : q[i] = r}
<1>0. DOMAIN q = 1 .. Len(q)
  OBVIOUS
<1>1. CASE ~Contains(q, r)
  <2>1. I = {}
    BY <1>0, <1>1 DEF Contains
  <2>. QED  BY <1>1, <2>1, FS_EmptySet DEF Occurrences
<1>2. CASE Contains(q, r)
  <2>1. PICK m \in 1 .. Len(q) : q[m] = r
    BY <1>2 DEF Contains
  <2>2. I = {m}
    BY <1>0, <2>1 DEF Distinct
  <2>3. Cardinality({m}) = 1
    BY FS_Singleton
  <2>. QED  BY <1>2, <2>2, <2>3 DEF Occurrences
<1>. QED  BY <1>1, <1>2

\* For a descriptor without duplicates the definition of ListedExactly and that
\* of this module are the same.
LEMMA ExactlyListedIsExact ==
    ASSUME NEW s \in States, NEW x \in Ids, NamedAt(s, x)
    PROVE  ExactlyListed(s, x) <=> ExactAt(s, x)
<1>1. s.addr[x] \in Seq(Regs) /\ Distinct(s.addr[x])
  BY DEF States, NamedAt
<1>2. \A q \in Regs : Occurrences(s.addr[x], q) = IF q \in Where(s, x) THEN 1 ELSE 0
  BY <1>1, DistinctOccurrences DEF Where
<1>. QED  BY <1>1, <1>2 DEF ExactlyListed, ExactAt

-----------------------------------------------------------------------------
(* The helpers of the allocator. *)

\* t is s after r has been dumped, all but keep.
Dumped(s, t, r, keep) ==
    /\ Stays(s, t)
    /\ \A x \in Ids \ {keep} : /\ Where(t, x) = Where(s, x) \ {r}
                               /\ ExactAt(s, x) => ExactAt(t, x)
    /\ keep \in Ids =>
          /\ t.addr[keep] = s.addr[keep]
          /\ t.held[r][keep] = 1
          /\ \A q \in Regs \ {r} : t.held[q][keep] = s.held[q][keep]

\* dump_reg_with_reserve takes the register off every descriptor but one, and
\* does not abort if what the register lists names it.
LEMMA DumpListings ==
    ASSUME NEW s \in States, \A x \in Ids : NamedAt(s, x), NEW r \in Regs,
           NEW keep \in Keepers, NEW t, t = Dump(s, r, keep)
    PROVE  Dumped(s, t, r, keep)
<1>1. \A x \in Ids : s.addr[x] \in Seq(Regs) /\ Distinct(s.addr[x])
  BY DEF NamedAt, States
<1>2. ASSUME Exact(s)
      PROVE  t.aborted = s.aborted
  <2>1. ASSUME NEW x \in Ids PROVE ~(Occurrences(s.addr[x], r) < s.held[r][x])
    <3>1. s.held[r][x] = IF Contains(s.addr[x], r) THEN 1 ELSE 0
      BY <1>2 DEF Exact, ExactAt, Where
    <3>. QED  BY <1>1, <3>1, DistinctOccurrences
  <2>2. t.aborted = \/ s.aborted
                    \/ \E x \in {y \in Ids \ {keep} : s.held[r][y] > 0} :
                          Occurrences(s.addr[x], r) < s.held[r][x]
    BY DEF Dump, States
  <2>. QED  BY <2>1, <2>2 DEF States
<1>3. /\ t \in States
      /\ t.force = s.force
      /\ \A x \in Ids : t.held[r][x] = IF x = keep THEN 1 ELSE 0
      /\ \A x \in Ids, q \in Regs \ {r} : t.held[q][x] = s.held[q][x]
      /\ \A x \in Ids : ~Hit(s, r, keep, x) => t.addr[x] = s.addr[x]
      /\ \A x \in Ids : Hit(s, r, keep, x) => t.addr[x] = RemoveFirst(s.addr[x], r)
  BY DumpFields
<1>4. ASSUME NEW x \in Ids \ {keep}
      PROVE  /\ Where(t, x) = Where(s, x) \ {r}
             /\ NamedAt(t, x)
             /\ ExactAt(s, x) => ExactAt(t, x)
  <2>1. /\ Distinct(t.addr[x])
        /\ \A e \in Regs : Contains(t.addr[x], e) <=> Contains(s.addr[x], e) /\ e # r
    <3>1. CASE Hit(s, r, keep, x)
      BY <1>1, <1>3, <3>1, RemoveFirstElements
    <3>2. CASE ~Hit(s, r, keep, x)
      <4>1. ~Contains(s.addr[x], r)
        BY <3>2 DEF Hit, NamedAt, Where
      <4>. QED  BY <1>1, <1>3, <3>2, <4>1
    <3>. QED  BY <3>1, <3>2
  <2>2. Where(t, x) = Where(s, x) \ {r}
    BY <2>1 DEF Where
  <2>3. NamedAt(t, x)
    BY <1>3, <2>1, <2>2 DEF NamedAt, Where
  <2>4. ASSUME ExactAt(s, x) PROVE ExactAt(t, x)
    BY <1>3, <2>1, <2>2, <2>4 DEF ExactAt
  <2>. QED  BY <2>2, <2>3, <2>4
<1>5. keep \in Ids =>
          /\ t.addr[keep] = s.addr[keep]
          /\ t.held[r][keep] = 1
          /\ \A q \in Regs \ {r} : t.held[q][keep] = s.held[q][keep]
  BY <1>3 DEF Hit
<1>6. keep \in Ids => NamedAt(t, keep)
  BY <1>5 DEF NamedAt, Where
<1>. QED  BY <1>2, <1>3, <1>4, <1>5, <1>6 DEF Dumped, Stays

\* t is s after id has been put in r.
Loads(s, t, id, r) ==
    /\ Stays(s, t)
    /\ \A x \in Ids : ExactAt(s, x) => ExactAt(t, x)
    /\ Where(t, id) = Where(s, id) \cup {r}
    /\ \A x \in Ids \ {id} : Where(t, x) \subseteq Where(s, x)

\* ensure_register dumps the register, also when a forced identifier is there
\* already, and lists the identifier once more.
LEMMA EnsureListings ==
    ASSUME NEW s \in States, \A x \in Ids : NamedAt(s, x), NEW id \in Ids,
           NEW r \in Regs, NEW t, t = Ensure(s, id, r)
    PROVE  Loads(s, t, id, r)
<1>1. CASE Loaded(s, id, r)
  <2>1. t = s /\ r \in Where(s, id)
    BY <1>1 DEF Ensure, Loaded, Where
  <2>. QED  BY <2>1 DEF Loads, Stays
<1>2. CASE ~Loaded(s, id, r)
  <2>. DEFINE d == Dump(s, r, NoId)
              v == IF ~s.force[id] /\ s.addr[id] # << >>
                   THEN d.reg[Last(s.addr[id])]
                   ELSE IF d.onStack[id] THEN d.mem[id] ELSE d.reg[r]
  <2>1. t = [d EXCEPT !.held[r][id] = @ + 1, !.addr[id] = Cons(r, @), !.reg[r] = v]
    BY <1>2 DEF Ensure
  <2>2. t \in States
    BY EnsureType
  <2>3. Dumped(s, d, r, NoId)
    BY DumpListings DEF Keepers
  <2>. HIDE DEF d, v
  <2>4. /\ d \in States /\ d.force = s.force /\ (Exact(s) => d.aborted = s.aborted)
        /\ \A x \in Ids : /\ NamedAt(d, x)
                          /\ Where(d, x) = Where(s, x) \ {r}
                          /\ ExactAt(s, x) => ExactAt(d, x)
    BY <2>3, AllocatorAssumption DEF Dumped, Stays
  <2>5. /\ t.aborted = d.aborted /\ t.force = d.force
        /\ \A x \in Ids \ {id} :
              t.addr[x] = d.addr[x] /\ \A q \in Regs : t.held[q][x] = d.held[q][x]
        /\ t.addr[id] = Cons(r, d.addr[id])
        /\ t.held[r][id] = d.held[r][id] + 1
        /\ \A q \in Regs \ {r} : t.held[q][id] = d.held[q][id]
    BY <2>1, <2>4 DEF States
  <2>6. ASSUME NEW x \in Ids \ {id}
        PROVE  /\ NamedAt(t, x)
               /\ Where(t, x) = Where(s, x) \ {r}
               /\ ExactAt(s, x) => ExactAt(t, x)
    BY <2>4, <2>5 DEF NamedAt, ExactAt, Where
  <2>7. ~Contains(d.addr[id], r) /\ d.addr[id] \in Seq(Regs) /\ Distinct(d.addr[id])
    BY <2>4 DEF NamedAt, Where, States
  <2>8. /\ Distinct(t.addr[id])
        /\ \A e : Contains(t.addr[id], e) <=> Contains(d.addr[id], e) \/ e = r
    BY <2>5, <2>7, ConsDistinct
  <2>9. Where(t, id) = Where(d, id) \cup {r} /\ r \notin Where(d, id)
    BY <2>7, <2>8 DEF Where
  <2>10. \A q \in Regs : d.held[q][id] \in Nat
    BY <2>4 DEF States
  <2>11. NamedAt(t, id)
    <3>1. t.held[r][id] > 0
      BY <2>5, <2>10
    <3>2. ASSUME NEW q \in Where(d, id) PROVE t.held[q][id] > 0
      BY <2>4, <2>5, <2>9, <3>2 DEF NamedAt, Where
    <3>. QED  BY <2>8, <2>9, <3>1, <3>2 DEF NamedAt
  <2>12. ASSUME ExactAt(s, id) PROVE ExactAt(t, id)
    <3>1. \A q \in Regs : d.held[q][id] = IF q \in Where(d, id) THEN 1 ELSE 0
      BY <2>4, <2>12 DEF ExactAt
    <3>2. \A q \in Regs : t.held[q][id] = IF q \in Where(t, id) THEN 1 ELSE 0
      BY <2>5, <2>9, <3>1
    <3>. QED  BY <2>8, <3>2 DEF ExactAt
  <2>13. Where(t, id) = Where(s, id) \cup {r}
    BY <2>4, <2>9
  <2>. QED  BY <2>2, <2>4, <2>5, <2>6, <2>11, <2>12, <2>13 DEF Loads, Stays
<1>. QED  BY <1>1, <1>2

\* get_reg_for_arg takes a register that has the identifier, if there is one.
LEMMA PickHolder ==
    ASSUME NEW s \in States, NEW id \in Ids
    PROVE  /\ PickReg(s, id) \in Regs
           /\ Where(s, id) # {} => PickReg(s, id) \in Where(s, id)
<1>1. PickReg(s, id) \in Regs
  BY PickRegType DEF Keepers
<1>2. ASSUME Where(s, id) # {} PROVE PickReg(s, id) \in Where(s, id)
  <2>1. s.addr[id] \in Seq(Regs)
    BY DEF States
  <2>2. Len(s.addr[id]) \in Nat /\ Len(s.addr[id]) # 0
    BY <1>2, <2>1 DEF Where, Contains
  <2>3. s.addr[id] # << >> /\ Head(s.addr[id]) = s.addr[id][1]
    BY <2>1, <2>2
  <2>4. 1 \in 1 .. Len(s.addr[id])
    BY <2>2
  <2>5. Head(s.addr[id]) \in Where(s, id)
    BY <2>1, <2>3, <2>4, ElementOfSeq DEF Where, Contains
  <2>6. Candidates(s, id) = {Head(s.addr[id])}
    BY <2>3, AllocatorAssumption DEF Candidates
  <2>7. Head(s.addr[id]) \in Int
    BY <2>5, AllocatorAssumption DEF Where, Regs
  <2>8. PickReg(s, id) = Head(s.addr[id])
    BY <2>6, <2>7 DEF PickReg
  <2>. QED  BY <2>5, <2>8
<1>. QED  BY <1>1, <1>2

\* t is neat, as s is, and keeps exact what was; X is left out.  Nothing is
\* forced in t that neither was nor is in a loop.
Tidies(s, t, X) ==
    /\ Neat(t)
    /\ \A x \in Ids : t.force[x] => s.force[x] \/ x \in UNION LoopSets
    /\ \A x \in Ids \ X : ExactAt(s, x) => ExactAt(t, x)
    /\ Exact(s) /\ ~s.aborted => ~t.aborted

\* After the end of an assignment the result is in its register alone; what else
\* was exact still is.
LEMMA SettleListings ==
    ASSUME NEW s \in States, NEW id \in Ids, NEW r \in Regs,
           \A x \in Ids \ {id} : NamedAt(s, x) /\ Alone(s, x),
           s.held[r][id] > 0,
           NEW t, t = Settle(s, id, r)
    PROVE  /\ Neat(t)
           /\ \A x \in Ids \ {id} : ExactAt(s, x) => ExactAt(t, x)
           /\ s.held[r][id] = 1 /\ (\A q \in Regs \ {r} : s.held[q][id] = 0)
                => ExactAt(t, id)
           /\ t.aborted = s.aborted /\ t.force = s.force
<1>1. /\ t.held = s.held /\ t.aborted = s.aborted /\ t.force = s.force
      /\ t.addr[id] = << r >>
      /\ \A x \in Ids \ {id} : t.addr[x] = s.addr[x]
  BY DEF Settle, States
<1>1a. t \in States
  <2>1. [s.addr EXCEPT ![id] = << r >>] \in [Ids -> Seq(Regs)]
    BY DEF States
  <2>2. [s.onStack EXCEPT ![id] = s.force[id]] \in [Ids -> BOOLEAN]
    BY DEF States
  <2>3. [s.mem EXCEPT ![id] = IF s.force[id] THEN s.reg[r] ELSE @] \in [Ids -> Vals]
    BY DEF States
  <2>. QED  BY <2>1, <2>2, <2>3 DEF Settle, States
<1>2. ASSUME NEW x \in Ids \ {id}
      PROVE  NamedAt(t, x) /\ Alone(t, x) /\ (ExactAt(s, x) => ExactAt(t, x))
  BY <1>1 DEF NamedAt, Alone, ExactAt, Where
<1>3. Where(t, id) = {r} /\ Distinct(t.addr[id])
  BY <1>1 DEF Where, Contains, Distinct
<1>4. NamedAt(t, id) /\ Alone(t, id)
  BY <1>1, <1>3 DEF NamedAt, Alone
<1>5. ASSUME s.held[r][id] = 1, \A q \in Regs \ {r} : s.held[q][id] = 0
      PROVE  ExactAt(t, id)
  BY <1>1, <1>3, <1>5 DEF ExactAt
<1>. QED  BY <1>1, <1>1a, <1>2, <1>4, <1>5 DEF Neat

-----------------------------------------------------------------------------
(* Compiling one instruction. *)

\* Assigning a constant to an identifier that is not forced (compile_unary):
\* every other identifier loses at most the register of the result.
LEMMA FreeConstListings ==
    ASSUME NEW s, Neat(s), NEW id \in Ids, NEW c \in Vals,
           NEW t, t = AssignFreeConst(s, id, c)
    PROVE  Tidies(s, t, {})
<1>. DEFINE r == PickReg(s, id)
            e == Ensure(s, id, r)
            d == Dump(e, r, id)
            o == [d EXCEPT !.reg[r] = c]
<1>1. s \in States /\ \A x \in Ids : NamedAt(s, x) /\ Alone(s, x)
  BY DEF Neat
<1>2. r \in Regs /\ Where(s, id) \subseteq {r}
  BY <1>1, PickHolder DEF Alone
<1>3. t = Settle(o, id, r)
  BY DEF AssignFreeConst
<1>. HIDE DEF r
<1>4. Loads(s, e, id, r)
  BY <1>1, <1>2, EnsureListings
<1>. HIDE DEF e
<1>5. Dumped(e, d, r, id)
  BY <1>2, <1>4, DumpListings DEF Loads, Stays, Keepers
<1>. HIDE DEF d
<1>6. /\ o \in States /\ o.aborted = d.aborted /\ o.force = d.force
      /\ o.held = d.held /\ o.addr = d.addr
  <2>1. d \in States
    BY <1>5 DEF Dumped, Stays
  <2>2. [d.reg EXCEPT ![r] = c] \in [Regs -> Vals]
    BY <2>1 DEF States
  <2>. QED  BY <2>1, <2>2 DEF States
<1>. HIDE DEF o
<1>7. ASSUME NEW x \in Ids \ {id}
      PROVE  NamedAt(o, x) /\ Alone(o, x) /\ (ExactAt(s, x) => ExactAt(o, x))
  <2>1. /\ NamedAt(o, x) /\ Where(o, x) = Where(d, x)
        /\ ExactAt(e, x) => ExactAt(o, x)
    BY <1>5, <1>6 DEF Dumped, Stays, NamedAt, ExactAt, Where
  <2>2. Where(d, x) \subseteq Where(s, x) /\ (ExactAt(s, x) => ExactAt(e, x))
    BY <1>4, <1>5 DEF Dumped, Loads
  <2>. QED  BY <1>1, <2>1, <2>2 DEF Alone
<1>8. o.held[r][id] = 1
  BY <1>5, <1>6 DEF Dumped
<1>9. ASSUME ExactAt(s, id)
      PROVE  \A q \in Regs \ {r} : o.held[q][id] = 0
  <2>1. \A q \in Regs \ {r} : o.held[q][id] = e.held[q][id]
    BY <1>5, <1>6 DEF Dumped
  <2>2. ExactAt(e, id) /\ Where(e, id) = {r}
    BY <1>2, <1>4, <1>9 DEF Loads
  <2>. QED  BY <2>1, <2>2 DEF ExactAt
<1>10. /\ Neat(t) /\ t.aborted = o.aborted /\ t.force = o.force
       /\ \A x \in Ids \ {id} : ExactAt(o, x) => ExactAt(t, x)
       /\ (\A q \in Regs \ {r} : o.held[q][id] = 0) => ExactAt(t, id)
  BY <1>2, <1>3, <1>6, <1>7, <1>8, SettleListings
<1>11. o.force = s.force /\ (Exact(s) => o.aborted = s.aborted)
  BY <1>4, <1>5, <1>6 DEF Loads, Dumped, Stays, Exact
<1>. QED  BY <1>7, <1>9, <1>10, <1>11 DEF Tidies

\* Assigning a constant to a forced identifier (compile_unary): its descriptor is
\* reset, the register it had goes on listing it.
LEMMA ForcedConstListings ==
    ASSUME NEW s, Neat(s), NEW id \in Ids, NEW c \in Vals,
           NEW t, t = AssignForcedConst(s, id, c)
    PROVE  Tidies(s, t, {id})
<1>1. s \in States /\ \A x \in Ids : NamedAt(s, x) /\ Alone(s, x)
  BY DEF Neat
<1>2. /\ t.held = s.held /\ t.aborted = s.aborted /\ t.force = s.force
      /\ t.addr[id] = << >>
      /\ \A x \in Ids \ {id} : t.addr[x] = s.addr[x]
  BY <1>1 DEF AssignForcedConst, States
<1>3. t \in States
  <2>1. [s.addr EXCEPT ![id] = << >>] \in [Ids -> Seq(Regs)]
    BY <1>1 DEF States
  <2>2. [s.onStack EXCEPT ![id] = TRUE] \in [Ids -> BOOLEAN]
    BY <1>1 DEF States
  <2>3. [s.mem EXCEPT ![id] = c] \in [Ids -> Vals]
    BY <1>1 DEF States
  <2>. QED  BY <1>1, <2>1, <2>2, <2>3 DEF AssignForcedConst, States
<1>4. ASSUME NEW x \in Ids \ {id}
      PROVE  NamedAt(t, x) /\ Alone(t, x) /\ (ExactAt(s, x) => ExactAt(t, x))
  BY <1>1, <1>2 DEF NamedAt, Alone, ExactAt, Where
<1>5. Where(t, id) = {} /\ Distinct(t.addr[id]) /\ 0 \in Regs
  BY <1>2, AllocatorAssumption DEF Where, Contains, Distinct, Regs
<1>6. NamedAt(t, id) /\ Alone(t, id)
  BY <1>5 DEF NamedAt, Alone
<1>. QED  BY <1>2, <1>3, <1>4, <1>6 DEF Tidies, Neat

\* Assigning an identifier (compile_unary): the registers of the old value are
\* told that they have lost it.
LEMMA FromIdentListings ==
    ASSUME NEW s, Neat(s), NEW id \in Ids, NEW y \in Ids,
           NEW t, t = AssignFromIdent(s, id, y)
    PROVE  Tidies(s, t, {})
<1>. DEFINE r == PickReg(s, y)
            e == Ensure(s, y, r)
            d == RemoveFromRegs(e, id)
            o == [d EXCEPT !.held[r][id] = @ + 1]
<1>1. s \in States /\ \A x \in Ids : NamedAt(s, x) /\ Alone(s, x)
  BY DEF Neat
<1>2. r \in Regs /\ Where(s, y) \subseteq {r}
  BY <1>1, PickHolder DEF Alone
<1>3. t = Settle(o, id, r)
  BY DEF AssignFromIdent
<1>. HIDE DEF r
<1>4. Loads(s, e, y, r)
  BY <1>1, <1>2, EnsureListings
<1>. HIDE DEF e
<1>5. e \in States /\ \A x \in Ids : NamedAt(e, x) /\ Alone(e, x)
  <2>1. e \in States /\ \A x \in Ids : NamedAt(e, x)
    BY <1>4 DEF Loads, Stays
  <2>2. \A x \in Ids \ {y} : Alone(e, x)
    BY <1>1, <1>4 DEF Loads, Alone
  <2>3. Where(e, y) \subseteq {r}
    BY <1>2, <1>4 DEF Loads
  <2>. QED  BY <1>2, <2>1, <2>2, <2>3 DEF Alone
<1>6. \A q \in Regs : Occurrences(e.addr[id], q) \in Nat
  <2>1. e.addr[id] \in Seq(Regs) /\ Distinct(e.addr[id])
    BY <1>5 DEF States, NamedAt
  <2>. QED  BY <2>1, DistinctOccurrences
<1>7. /\ d \in States /\ d.addr = e.addr /\ d.aborted = e.aborted /\ d.force = e.force
      /\ \A q \in Regs : /\ d.held[q][id] = IF Occurrences(e.addr[id], q) < e.held[q][id]
                                            THEN e.held[q][id] - Occurrences(e.addr[id], q)
                                            ELSE 0
                         /\ \A x \in Ids \ {id} : d.held[q][x] = e.held[q][x]
  <2>. DEFINE left(q) == IF Occurrences(e.addr[id], q) < e.held[q][id]
                         THEN e.held[q][id] - Occurrences(e.addr[id], q)
                         ELSE 0
              h == [q \in Regs |-> [e.held[q] EXCEPT ![id] = left(q)]]
  <2>1. \A q \in Regs : left(q) \in Nat
    BY <1>5, <1>6 DEF States
  <2>2. d = [e EXCEPT !.held = h]
    BY DEF RemoveFromRegs
  <2>. HIDE DEF d, left
  <2>3. h \in [Regs -> [Ids -> Nat]]
    BY <1>5, <2>1 DEF States
  <2>4. \A q \in Regs : h[q][id] = left(q) /\ \A x \in Ids \ {id} : h[q][x] = e.held[q][x]
    BY <1>5 DEF States
  <2>. HIDE DEF h
  <2>5. /\ d \in States /\ d.addr = e.addr /\ d.aborted = e.aborted /\ d.held = h
        /\ d.force = e.force
    BY <1>5, <2>2, <2>3 DEF States
  <2>. QED  BY <2>4, <2>5 DEF left
<1>. HIDE DEF d
<1>8. /\ o \in States /\ o.aborted = d.aborted /\ o.addr = d.addr /\ o.force = d.force
      /\ o.held[r][id] = d.held[r][id] + 1
      /\ \A q \in Regs \ {r} : o.held[q][id] = d.held[q][id]
      /\ \A q \in Regs, x \in Ids \ {id} : o.held[q][x] = d.held[q][x]
  <2>. DEFINE h == [d.held EXCEPT ![r][id] = @ + 1]
  <2>1. h \in [Regs -> [Ids -> Nat]]
    BY <1>2, <1>7 DEF States
  <2>2. /\ h[r][id] = d.held[r][id] + 1 /\ \A q \in Regs \ {r} : h[q][id] = d.held[q][id]
        /\ \A q \in Regs, x \in Ids \ {id} : h[q][x] = d.held[q][x]
    BY <1>2, <1>7 DEF States
  <2>3. o = [d EXCEPT !.held = h]
    OBVIOUS
  <2>. HIDE DEF h, o
  <2>. QED  BY <1>7, <2>1, <2>2, <2>3 DEF States
<1>. HIDE DEF o
<1>9. ASSUME NEW x \in Ids \ {id}
      PROVE  NamedAt(o, x) /\ Alone(o, x) /\ (ExactAt(e, x) => ExactAt(o, x))
  BY <1>5, <1>7, <1>8, <1>9 DEF NamedAt, Alone, ExactAt, Where
<1>10. o.held[r][id] > 0
  BY <1>2, <1>7, <1>8 DEF States
<1>11. ASSUME ExactAt(e, id)
       PROVE  o.held[r][id] = 1 /\ \A q \in Regs \ {r} : o.held[q][id] = 0
  <2>1. e.addr[id] \in Seq(Regs) /\ Distinct(e.addr[id])
    BY <1>5 DEF States, NamedAt
  <2>2. \A q \in Regs : e.held[q][id] = IF Contains(e.addr[id], q) THEN 1 ELSE 0
    BY <1>11 DEF ExactAt, Where
  <2>3. \A q \in Regs : Occurrences(e.addr[id], q) = e.held[q][id] /\ e.held[q][id] \in Nat
    BY <2>1, <2>2, DistinctOccurrences
  <2>4. \A q \in Regs : d.held[q][id] = 0
    BY <1>7, <2>3
  <2>. QED  BY <1>2, <1>8, <2>4
<1>12. /\ Neat(t) /\ t.aborted = o.aborted /\ t.force = o.force
       /\ \A x \in Ids \ {id} : ExactAt(o, x) => ExactAt(t, x)
       /\ o.held[r][id] = 1 /\ (\A q \in Regs \ {r} : o.held[q][id] = 0) => ExactAt(t, id)
  BY <1>2, <1>3, <1>8, <1>9, <1>10, SettleListings
<1>13. \A x \in Ids : ExactAt(s, x) => ExactAt(e, x)
  BY <1>4 DEF Loads
<1>14. o.force = s.force /\ (Exact(s) => o.aborted = s.aborted)
  BY <1>4, <1>7, <1>8 DEF Loads, Stays
<1>. QED  BY <1>9, <1>11, <1>12, <1>13, <1>14 DEF Tidies

\* l is s with the first operand of an instruction for id in r.
LoadsFirst(s, l, id, r) ==
    /\ Stays(s, l)
    /\ \A x \in Ids : ExactAt(s, x) => ExactAt(l, x)
    /\ \A x \in Ids : Where(l, x) \subseteq Where(s, x) \cup {r}

\* compile_binary while it loads the first operand, which may leave that one in
\* two registers.
LEMMA LoadFirstListings ==
    ASSUME NEW s \in States, \A x \in Ids : NamedAt(s, x), NEW id \in Ids,
           NEW r \in Regs, NEW a \in Vals \cup Ids,
           NEW l, l = LoadFirst(s, id, a, r)
    PROVE  LoadsFirst(s, l, id, r)
<1>. DEFINE e == Ensure(s, id, r)
<1>1. Loads(s, e, id, r)
  BY EnsureListings
<1>2. l = IF a = id THEN e
          ELSE IF IsConst(a) THEN [Dump(e, r, NoId) EXCEPT !.reg[r] = a]
          ELSE Ensure(e, a, r)
  BY DEF LoadFirst
<1>. HIDE DEF e
<1>3. /\ e \in States /\ e.force = s.force
      /\ \A x \in Ids : /\ NamedAt(e, x)
                        /\ ExactAt(s, x) => ExactAt(e, x)
                        /\ Where(e, x) \subseteq Where(s, x) \cup {r}
      /\ Exact(s) => Exact(e) /\ e.aborted = s.aborted
  BY <1>1 DEF Loads, Stays, Exact
<1>4. CASE a = id
  BY <1>2, <1>3, <1>4 DEF LoadsFirst, Stays
<1>5. CASE a # id /\ a \in Vals
  <2>. DEFINE d == Dump(e, r, NoId)
  <2>1. Dumped(e, d, r, NoId)
    BY <1>3, DumpListings DEF Keepers
  <2>2. l = [d EXCEPT !.reg[r] = a]
    BY <1>2, <1>5 DEF IsConst
  <2>. HIDE DEF d
  <2>3. /\ d \in States /\ d.force = e.force /\ (Exact(e) => d.aborted = e.aborted)
        /\ \A x \in Ids : /\ NamedAt(d, x)
                          /\ ExactAt(e, x) => ExactAt(d, x)
                          /\ Where(d, x) = Where(e, x) \ {r}
    BY <2>1, AllocatorAssumption DEF Dumped, Stays
  <2>4. /\ l \in States /\ l.aborted = d.aborted /\ l.force = e.force
        /\ l.held = d.held /\ l.addr = d.addr
    <3>1. [d.reg EXCEPT ![r] = a] \in [Regs -> Vals]
      BY <1>5, <2>3 DEF States
    <3>2. l = [d EXCEPT !.reg = [d.reg EXCEPT ![r] = a]]
      BY <2>2, <2>3 DEF States
    <3>. QED  BY <2>3, <3>1, <3>2 DEF States
  <2>5. \A x \in Ids : /\ NamedAt(l, x)
                       /\ ExactAt(d, x) => ExactAt(l, x)
                       /\ Where(l, x) = Where(d, x)
    BY <2>3, <2>4 DEF NamedAt, ExactAt, Where
  <2>. QED  BY <1>3, <2>3, <2>4, <2>5 DEF LoadsFirst, Stays
<1>6. CASE a # id /\ a \notin Vals
  <2>1. l = Ensure(e, a, r) /\ a \in Ids
    BY <1>2, <1>6 DEF IsConst
  <2>2. Loads(e, l, a, r)
    BY <1>3, <2>1, EnsureListings
  <2>3. /\ l \in States /\ l.force = e.force /\ (Exact(e) => l.aborted = e.aborted)
        /\ \A x \in Ids : /\ NamedAt(l, x)
                          /\ ExactAt(e, x) => ExactAt(l, x)
                          /\ Where(l, x) \subseteq Where(e, x) \cup {r}
    BY <2>1, <2>2 DEF Loads, Stays
  <2>. QED  BY <1>3, <2>3 DEF LoadsFirst, Stays
<1>. QED  BY <1>4, <1>5, <1>6

\* compile_binary: the register of the result is dumped a last time, with an
\* operand in it that is in another register too.
LEMMA BinaryListings ==
    ASSUME NEW s, Good(s), Neat(s), NEW id \in Ids,
           NEW a, Operand(s, a), NEW b, Operand(s, b),
           NEW t, t = BinaryOp(s, id, a, b)
    PROVE  Tidies(s, t, {})
<1>. DEFINE r == PickReg(s, id)
            l == LoadFirst(s, id, a, r)
            d == Dump(l, r, id)
            w == ArgValue([l EXCEPT !.mem = d.mem], b)
            f == d.aborted \/ ~ArgLegible(l, b)
            e == [d EXCEPT !.reg[r] = Arith(@, w), !.aborted = @ \/ ~ArgLegible(l, b)]
<1>1. /\ s \in States /\ \A x \in Ids : NamedAt(s, x) /\ Alone(s, x)
      /\ a \in Vals \cup Ids /\ b \in Vals \cup Ids
  BY DEF Neat, Operand
<1>2. r \in Regs /\ Where(s, id) \subseteq {r}
  BY <1>1, PickHolder DEF Alone
<1>3. t = Settle(e, id, r)
  BY DEF BinaryOp
<1>. HIDE DEF r
<1>4. LoadsFirst(s, l, id, r)
  BY <1>1, <1>2, LoadFirstListings
<1>5. ~l.aborted => ArgLegible(l, b)
  <2>. SUFFICES ASSUME ~l.aborted PROVE ArgLegible(l, b)
    OBVIOUS
  <2>1. FirstLoaded(s, l, id, a, r)
    BY <1>2, LoadFirstKeeps
  <2>. HIDE DEF l
  <2>. QED  BY <2>1 DEF FirstLoaded, Keeps, Good, Operand, ArgLegible, IsConst
<1>. HIDE DEF l
<1>6. Dumped(l, d, r, id)
  BY <1>2, <1>4, DumpListings DEF LoadsFirst, Stays, Keepers
<1>7. d \in States /\ l \in States
  BY <1>4, <1>6 DEF Dumped, LoadsFirst, Stays
<1>8. w \in Vals
  <2>1. [l EXCEPT !.mem = d.mem] \in States
    <3>. HIDE DEF d
    <3>. QED  BY <1>7 DEF States
  <2>. QED  BY <1>1, <2>1, ReadType DEF ArgValue, IsConst
<1>9. Exact(s) /\ ~s.aborted => ~f
  <2>1. Exact(s) => Exact(l) /\ l.aborted = s.aborted
    BY <1>4 DEF LoadsFirst, Stays, Exact
  <2>2. Exact(l) => d.aborted = l.aborted
    BY <1>6 DEF Dumped, Stays
  <2>. QED  BY <1>5, <2>1, <2>2
<1>. HIDE DEF d, w
<1>10. f \in BOOLEAN
  BY <1>7 DEF States, ArgLegible, Legible, IsConst
<1>11. /\ e \in States /\ e.aborted = f /\ e.force = d.force
       /\ e.held = d.held /\ e.addr = d.addr
  <2>1. d.reg[r] \in Vals
    BY <1>2, <1>7 DEF States
  <2>2. Arith(d.reg[r], w) \in Vals
    BY <1>8, <2>1, AllocatorAssumption
  <2>. DEFINE g == [d.reg EXCEPT ![r] = Arith(d.reg[r], w)]
  <2>3. g \in [Regs -> Vals]
    BY <1>7, <2>2 DEF States
  <2>4. e = [d EXCEPT !.reg = g, !.aborted = f]
    BY <1>7 DEF States
  <2>. HIDE DEF e, f, g
  <2>. QED  BY <1>7, <1>10, <2>3, <2>4 DEF States
<1>. HIDE DEF e, f
<1>12. ASSUME NEW x \in Ids \ {id}
       PROVE  NamedAt(e, x) /\ Alone(e, x) /\ (ExactAt(s, x) => ExactAt(e, x))
  <2>1. /\ NamedAt(e, x) /\ Where(e, x) = Where(d, x)
        /\ ExactAt(l, x) => ExactAt(e, x)
    BY <1>6, <1>11 DEF Dumped, Stays, NamedAt, ExactAt, Where
  <2>2. Where(d, x) \subseteq Where(s, x) /\ (ExactAt(s, x) => ExactAt(l, x))
    BY <1>4, <1>6 DEF LoadsFirst, Dumped
  <2>. QED  BY <1>1, <2>1, <2>2 DEF Alone
<1>13. e.held[r][id] = 1
  BY <1>6, <1>11 DEF Dumped
<1>14. ASSUME ExactAt(s, id)
       PROVE  \A q \in Regs \ {r} : e.held[q][id] = 0
  <2>1. \A q \in Regs \ {r} : e.held[q][id] = l.held[q][id]
    BY <1>6, <1>11 DEF Dumped
  <2>2. ExactAt(l, id) /\ Where(l, id) \subseteq {r}
    BY <1>2, <1>4, <1>14 DEF LoadsFirst
  <2>. QED  BY <2>1, <2>2 DEF ExactAt
<1>15. /\ Neat(t) /\ t.aborted = e.aborted /\ t.force = e.force
       /\ \A x \in Ids \ {id} : ExactAt(e, x) => ExactAt(t, x)
       /\ (\A q \in Regs \ {r} : e.held[q][id] = 0) => ExactAt(t, id)
  BY <1>2, <1>3, <1>11, <1>12, <1>13, SettleListings
<1>16. e.force = s.force
  BY <1>4, <1>6, <1>11 DEF LoadsFirst, Dumped, Stays
<1>. QED  BY <1>9, <1>11, <1>12, <1>14, <1>15, <1>16 DEF Tidies

\* compile_cond on constants dumps a register.
LEMMA CondConstsListings ==
    ASSUME NEW s, Neat(s), NEW a \in Vals, NEW t, t = CondConsts(s, a)
    PROVE  Tidies(s, t, {})
<1>. DEFINE r == PickReg(s, NoId)
            d == Dump(s, r, NoId)
<1>1. s \in States /\ \A x \in Ids : NamedAt(s, x) /\ Alone(s, x)
  BY DEF Neat
<1>2. r \in Regs
  BY <1>1, PickRegType DEF Keepers
<1>3. t = [d EXCEPT !.reg[r] = a]
  BY DEF CondConsts
<1>. HIDE DEF r
<1>4. Dumped(s, d, r, NoId)
  BY <1>1, <1>2, DumpListings DEF Keepers
<1>. HIDE DEF d
<1>5. /\ d \in States /\ d.force = s.force /\ (Exact(s) => d.aborted = s.aborted)
      /\ \A x \in Ids : /\ NamedAt(d, x)
                        /\ ExactAt(s, x) => ExactAt(d, x)
                        /\ Where(d, x) = Where(s, x) \ {r}
  BY <1>4, AllocatorAssumption DEF Dumped, Stays
<1>6. /\ t \in States /\ t.aborted = d.aborted /\ t.force = d.force
      /\ t.held = d.held /\ t.addr = d.addr
  <2>1. [d.reg EXCEPT ![r] = a] \in [Regs -> Vals]
    BY <1>5 DEF States
  <2>2. t = [d EXCEPT !.reg = [d.reg EXCEPT ![r] = a]]
    BY <1>3, <1>5 DEF States
  <2>. QED  BY <1>5, <2>1, <2>2 DEF States
<1>7. \A x \in Ids : /\ NamedAt(t, x)
                     /\ ExactAt(d, x) => ExactAt(t, x)
                     /\ Where(t, x) \subseteq Where(s, x)
  BY <1>5, <1>6 DEF NamedAt, ExactAt, Where
<1>8. \A x \in Ids : Alone(t, x)
  BY <1>1, <1>7 DEF Alone
<1>. QED  BY <1>5, <1>6, <1>7, <1>8 DEF Tidies, Neat

\* What does not touch the registers' lists and the descriptors keeps all of it.
LEMMA SameTidies ==
    ASSUME NEW s, Neat(s), NEW t \in States, t.held = s.held, t.addr = s.addr,
           t.aborted = s.aborted,
           \A x \in Ids : t.force[x] => s.force[x] \/ x \in UNION LoopSets
    PROVE  Tidies(s, t, {})
BY DEF Tidies, Neat, NamedAt, Alone, ExactAt, Where

\* Actions of loops (perform_instr_actions) store values and set flags.
LEMMA LoopActionsTidy ==
    ASSUME NEW s, Good(s), Neat(s), NEW F \in Forces
    PROVE  Tidies(s, ForceAll(s, F), {}) /\ Tidies(s, ReleaseAll(s, F), {})
<1>0. F \in SUBSET Ids /\ F \subseteq UNION LoopSets
  BY RegAllocAssumption DEF Forces
<1>1. Tidies(s, ForceAll(s, F), {})
  <2>. DEFINE t == ForceAll(s, F)
  <2>1. t \in States /\ t.aborted = s.aborted
    BY <1>0, ForceAllPreserves DEF Preserves, Good
  <2>2. /\ t.held = s.held /\ t.addr = s.addr
        /\ \A x \in Ids : t.force[x] = (s.force[x] \/ x \in F)
    BY DEF ForceAll, Good, States
  <2>. HIDE DEF t
  <2>3. Tidies(s, t, {})
    BY <1>0, <2>1, <2>2, SameTidies
  <2>. QED  BY <2>3 DEF t
<1>2. Tidies(s, ReleaseAll(s, F), {})
  <2>. DEFINE t == ReleaseAll(s, F)
  <2>1. t \in States /\ t.aborted = s.aborted
    BY <1>0, ReleaseAllPreserves DEF Preserves, Good
  <2>2. /\ t.held = s.held /\ t.addr = s.addr
        /\ \A x \in Ids : t.force[x] = (s.force[x] /\ x \notin F)
    BY DEF ReleaseAll, Good, States
  <2>. HIDE DEF t
  <2>3. Tidies(s, t, {})
    BY <2>1, <2>2, SameTidies
  <2>. QED  BY <2>3 DEF t
<1>. QED  BY <1>1, <1>2

-----------------------------------------------------------------------------
(* The invariant. *)

ListingsInv == IInv /\ Neat(st)

\* What one step does: X are the identifiers whose listings may go stale.
Step(X) ==
    /\ Neat(st')
    /\ \A x \in Ids : st'.force[x] => st.force[x] \/ x \in UNION LoopSets
    /\ \A x \in Ids \ X : ExactAt(st, x) => ExactAt(st', x)
    /\ Exact(st) /\ ~st.aborted => ~st'.aborted
    /\ \A x \in X : st.force[x] /\ instr' \in {"ASSIGN"} \X {x} \X Consts

\* init_registers and init_stack_variables: nothing is listed anywhere.
LEMMA InitListings == Init => Neat(st) /\ Exact(st) /\ ~st.aborted /\ \A x \in Ids : ~st.force[x]
<1>. SUFFICES ASSUME Init
              PROVE  Neat(st) /\ Exact(st) /\ ~st.aborted /\ \A x \in Ids : ~st.force[x]
  OBVIOUS
<1>1. /\ ~st.aborted /\ \A x \in Ids : ~st.force[x] /\ st.addr[x] = << >>
      /\ \A x \in Ids, r \in Regs : st.held[r][x] = 0
  BY DEF Init, InitStates
<1>2. \A x \in Ids : Where(st, x) = {} /\ Distinct(st.addr[x])
  BY <1>1 DEF Where, Contains, Distinct
<1>3. 0 \in Regs /\ st \in States
  BY InitInvariant, AllocatorAssumption DEF Regs, IInv, Good
<1>. QED  BY <1>1, <1>2, <1>3 DEF Neat, NamedAt, Alone, Exact, ExactAt

\* The compiler goes on with what the instruction leaves, or stops where it is.
LEMMA ContinueListings ==
    ASSUME Neat(st), NEW X \in SUBSET Ids, NEW t, Tidies(st, t, X),
           NEW i, NEW ids, NEW shown, Continue(i, t, ids, shown),
           \A x \in X : st.force[x] /\ i \in {"ASSIGN"} \X {x} \X Consts
    PROVE  Step(X) \/ Step({})
<1>1. st \in States
  BY DEF Neat
<1>2. CASE t.aborted
  <2>1. st' = [st EXCEPT !.aborted = TRUE]
    BY <1>2 DEF Continue
  <2>2. /\ st' \in States /\ st'.aborted /\ st'.force = st.force
        /\ st'.held = st.held /\ st'.addr = st.addr
    BY <1>1, <2>1 DEF States
  <2>3. Neat(st') /\ \A x \in Ids : ExactAt(st, x) => ExactAt(st', x)
    BY <2>2 DEF Neat, NamedAt, Alone, ExactAt, Where
  <2>. QED  BY <1>2, <2>2, <2>3 DEF Step, Tidies
<1>3. CASE ~t.aborted
  BY <1>3 DEF Continue, Step, Tidies
<1>. QED  BY <1>2, <1>3

\* The same for an instruction that leaves no listing stale.
LEMMA TidyStep ==
    ASSUME Neat(st), NEW t, Tidies(st, t, {}),
           NEW i, NEW ids, NEW shown, Continue(i, t, ids, shown)
    PROVE  Step({})
BY ContinueListings

\* One instruction after the other: at most one identifier's listing goes stale,
\* when a constant is assigned to it while a loop forces it.
LEMMA NextListings ==
    ASSUME IInv, Neat(st), [Next]_vars
    PROVE  \E X \in SUBSET Ids : Step(X)
<1>0. Good(st) /\ st \in States /\ defined \subseteq Ids
  BY DEF IInv, Good
<1>1. CASE UNCHANGED vars
  <2>1. Step({})
    BY <1>1 DEF vars, Step
  <2>. QED  BY <2>1
<1>2. ASSUME NEW id \in Ids, NEW c \in Consts, AssignConst(id, c)
      PROVE  \E X \in SUBSET Ids : Step(X)
  <2>. DEFINE i == << "ASSIGN", id, c >>
  <2>1. c \in Vals /\ i \in {"ASSIGN"} \X {id} \X Consts
    BY RegAllocAssumption
  <2>2. CASE st.force[id]
    <3>1. Continue(i, AssignForcedConst(st, id, c), {id}, Silent)
      BY <1>2, <2>2 DEF AssignConst
    <3>2. Tidies(st, AssignForcedConst(st, id, c), {id})
      BY <2>1, ForcedConstListings
    <3>. HIDE DEF i
    <3>3. Step({id}) \/ Step({})
      BY <2>1, <2>2, <3>1, <3>2, ContinueListings
    <3>. QED  BY <3>3
  <2>3. CASE ~st.force[id]
    <3>1. Continue(i, AssignFreeConst(st, id, c), {id}, Silent)
      BY <1>2, <2>3 DEF AssignConst
    <3>2. Tidies(st, AssignFreeConst(st, id, c), {})
      BY <2>1, FreeConstListings
    <3>3. Step({})
      BY <3>1, <3>2, TidyStep
    <3>. QED  BY <3>3
  <2>. QED  BY <2>2, <2>3
<1>3. ASSUME NEW id \in Ids, NEW y \in defined, AssignIdent(id, y)
      PROVE  Step({})
  <2>1. Tidies(st, AssignFromIdent(st, id, y), {})
    BY <1>0, FromIdentListings
  <2>. QED  BY <1>3, <2>1, TidyStep DEF AssignIdent
<1>4. ASSUME NEW id \in Ids, NEW a \in Args, NEW b \in Args, Binary(id, a, b)
      PROVE  Step({})
  <2>1. Operand(st, a) /\ Operand(st, b)
    BY ArgsRead
  <2>2. Tidies(st, BinaryOp(st, id, a, b), {})
    BY <1>0, <2>1, BinaryListings
  <2>. QED  BY <1>4, <2>2, TidyStep DEF Binary
<1>5. ASSUME NEW id \in defined, PrintIdent(id)
      PROVE  Step({})
  <2>1. PICK g \in [Regs -> Vals] :
            Continue(<< "PRINT", id >>,
                     [CallPrintf(st, g) EXCEPT !.aborted = ~Legible(st, id)],
                     {}, << "print", Read(st, id) >>)
    BY <1>5 DEF PrintIdent
  <2>2. CallPrintf(st, g) = st /\ Legible(st, id) /\ ~st.aborted
    BY <1>0, <2>1, CallPrintfPreserves DEF IInv, AlwaysLegible, Continue
  <2>3. [st EXCEPT !.aborted = ~Legible(st, id)] = st
    BY <1>0, <2>2 DEF States
  <2>4. Tidies(st, st, {})
    BY <1>0, SameTidies
  <2>. QED  BY <2>1, <2>2, <2>3, <2>4, TidyStep
<1>6. ASSUME NEW F \in Forces
      PROVE  /\ F \in SUBSET Ids
             /\ Tidies(st, ForceAll(st, F), {}) /\ Tidies(st, ReleaseAll(st, F), {})
             /\ Preserves(st, ForceAll(st, F))
  <2>1. F \in SUBSET Ids
    BY RegAllocAssumption DEF Forces
  <2>. QED  BY <1>0, <2>1, LoopActionsTidy, ForceAllPreserves
<1>7. ASSUME NEW op \in Tests, NEW a \in Args, NEW b \in Args, NEW F \in Forces,
             CompareInPlace(op, a, b, F)
      PROVE  Step({})
  <2>. DEFINE s     == ForceAll(st, F)
              left  == IF IsConst(a) THEN b ELSE a
              right == IF IsConst(a) THEN a ELSE b
              t     == [s EXCEPT !.aborted = \/ ~ArgLegible(s, left)
                                             \/ ~ArgLegible(s, right)]
  <2>1. \E shown : Continue(<< op, a, b >>, t, {}, shown)
    BY <1>7 DEF CompareInPlace
  <2>2. s \in States /\ Tidies(st, s, {}) /\ Preserves(st, s) /\ s.aborted = st.aborted
    BY <1>0, <1>6, ForceAllPreserves DEF Preserves, Good
  <2>3. ArgLegible(s, left) /\ ArgLegible(s, right) /\ ~st.aborted
    <3>1. Operand(st, a) /\ Operand(st, b)
      BY ArgsRead
    <3>2. ~st.aborted
      BY <2>1 DEF Continue
    <3>. HIDE DEF s
    <3>. QED  BY <2>2, <3>1, <3>2 DEF Operand, ArgLegible, IsConst, Preserves
  <2>4. t = s
    <3>. HIDE DEF s, left, right
    <3>. QED  BY <2>2, <2>3 DEF States
  <2>. HIDE DEF s, t
  <2>. QED  BY <2>1, <2>2, <2>4, TidyStep
<1>8. ASSUME NEW op \in Tests, NEW a \in Consts, NEW b \in Consts, NEW F \in Forces,
             CompareConsts(op, a, b, F)
      PROVE  Step({})
  <2>. DEFINE s == ForceAll(st, F)
              t == CondConsts(s, a)
  <2>1. \E shown : Continue(<< op, a, b >>, t, {}, shown)
    BY <1>8 DEF CompareConsts
  <2>2. Tidies(st, s, {}) /\ a \in Vals
    BY <1>6, RegAllocAssumption
  <2>. HIDE DEF s
  <2>3. Tidies(s, t, {})
    BY <2>2, CondConstsListings DEF Tidies
  <2>4. Tidies(st, t, {})
    BY <2>2, <2>3 DEF Tidies, Exact
  <2>. HIDE DEF t
  <2>. QED  BY <2>1, <2>4, TidyStep
<1>9. ASSUME NEW F \in Forces, Goto(F)
      PROVE  Step({})
  BY <1>6, <1>9, TidyStep DEF Goto
<1>10. ASSUME NEW R \in Forces, Nop(R)
       PROVE  Step({})
  BY <1>6, <1>10, TidyStep DEF Nop
<1>. QED  BY <1>1, <1>2, <1>3, <1>4, <1>5, <1>7, <1>8, <1>9, <1>10 DEF Next

\* Between two instructions an identifier is in one register at most, whatever
\* the loops force.
THEOREM ListingsInvariance == Spec => []ListingsInv
<1>1. Init => ListingsInv
  BY InitInvariant, InitListings DEF ListingsInv
<1>2. ListingsInv /\ [Next]_vars => ListingsInv'
  <2>. SUFFICES ASSUME ListingsInv, [Next]_vars PROVE ListingsInv'
    OBVIOUS
  <2>1. IInv'
    BY NextRefines DEF ListingsInv, Refines
  <2>2. Neat(st')
    BY NextListings DEF ListingsInv, Step
  <2>. QED  BY <2>1, <2>2 DEF ListingsInv
<1>. QED  BY <1>1, <1>2, PTL DEF Spec

\* The definition of the properties and that of the proofs.
LEMMA NeatListings ==
    ASSUME NEW s, Neat(s)
    PROVE  \A x \in Ids : ExactlyListed(s, x) <=> ExactAt(s, x)
BY ExactlyListedIsExact DEF Neat

\* What the registers list goes stale by the assignment of a constant to a forced
\* identifier only, and dump_reg_with_reserve's assert fails only on a listing
\* that went stale so: with any loops, at any distance.
THEOREM StaleByConstants == Spec => StaleByConstantsOnly
<1>. DEFINE A == /\ \A id \in Ids : ExactlyListed(st, id) /\ ~ExactlyListed(st', id) =>
                      st.force[id] /\ instr' \in {"ASSIGN"} \X {id} \X Consts
                 /\ st'.aborted => st.aborted \/ ~ListedExactly
<1>1. ListingsInv /\ [Next]_vars => [A]_vars
  <2>. SUFFICES ASSUME ListingsInv, [Next]_vars PROVE A
    OBVIOUS
  <2>1. PICK X \in SUBSET Ids : Step(X)
    BY NextListings DEF ListingsInv
  <2>2. \A x \in Ids : ExactlyListed(st, x) <=> ExactAt(st, x)
    BY NeatListings DEF ListingsInv
  <2>3. \A x \in Ids : ExactlyListed(st', x) <=> ExactAt(st', x)
    BY <2>1, NeatListings DEF Step
  <2>4. \A id \in Ids : ExactlyListed(st, id) /\ ~ExactlyListed(st', id) =>
            st.force[id] /\ instr' \in {"ASSIGN"} \X {id} \X Consts
    BY <2>1, <2>2, <2>3 DEF Step
  <2>5. st'.aborted => st.aborted \/ ~ListedExactly
    BY <2>1, <2>2 DEF Step, ListedExactly, Exact
  <2>. QED  BY <2>4, <2>5
<1>. QED  BY <1>1, ListingsInvariance, PTL DEF Spec, StaleByConstantsOnly

-----------------------------------------------------------------------------
(* Without loops nothing is forced, so nothing goes stale. *)

StraightInv ==
    /\ ListingsInv
    /\ Exact(st)
    /\ ~st.aborted
    /\ \A x \in Ids : ~st.force[x]

\* No listing goes stale and no assert fails in a program without loops.
LEMMA NextStraight ==
    ASSUME LoopSets = {}, StraightInv, [Next]_vars
    PROVE  StraightInv'
<1>1. IInv /\ Neat(st) /\ Exact(st) /\ ~st.aborted /\ \A x \in Ids : ~st.force[x]
  BY DEF StraightInv, ListingsInv
<1>2. IInv'
  BY <1>1, NextRefines DEF Refines
<1>3. PICK X \in SUBSET Ids : Step(X)
  BY <1>1, NextListings
<1>4. X = {}
  BY <1>1, <1>3 DEF Step
<1>5. Neat(st') /\ Exact(st') /\ ~st'.aborted /\ \A x \in Ids : ~st'.force[x]
  BY <1>1, <1>3, <1>4 DEF Step, Exact
<1>. QED  BY <1>2, <1>5 DEF StraightInv, ListingsInv

\* In a program without loops, registers list exactly what they hold.
THEOREM StraightInvariance ==
    ASSUME LoopSets = {}
    PROVE  Spec => []StraightInv
<1>1. Init => StraightInv
  BY InitInvariant, InitListings DEF StraightInv, ListingsInv
<1>2. StraightInv /\ [Next]_vars => StraightInv'
  BY NextStraight
<1>. QED  BY <1>1, <1>2, PTL DEF Spec

\* No assert of the code generator fails in a program without loops that compares
\* no two identifiers on the stack (Spec).
THEOREM NothingAborts ==
    ASSUME LoopSets = {}
    PROVE  Spec => []NoAbort
<1>1. StraightInv => NoAbort
  BY DEF StraightInv, NoAbort
<1>. QED  BY <1>1, StraightInvariance, PTL

\* In such a program a register lists exactly what is said to be in it, once:
\* what dump_reg_with_reserve and remove_id_from_regs rely on.
THEOREM DescriptorsExact ==
    ASSUME LoopSets = {}
    PROVE  Spec => []ListedExactly
<1>1. StraightInv => ListedExactly
  BY NeatListings DEF StraightInv, ListingsInv, Exact, ListedExactly
<1>. QED  BY <1>1, StraightInvariance, PTL
=============================================================================

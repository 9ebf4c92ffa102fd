---------------------------- MODULE Codegen_proofs ----------------------------
(***************************************************************************)
(* The code of a whole program obeys the program, along its jumps, as long *)
(* as the descriptors can be trusted where the compiler does not make sure *)
(* of them: for any program, any identifiers, registers and words.         *)
(***************************************************************************)
EXTENDS Codegen, Allocator_proofs

(***************************************************************************)
(* What the code relies on, identifier by identifier.                      *)
(***************************************************************************)

\* s finds v wherever it looks for x.
Carries(s, x, v) ==
    /\ Legible(s, x)
    /\ s.onStack[x] => s.mem[x] = v
    /\ ~s.force[x] => \A i \in 1 .. Len(s.addr[x]) : s.reg[s.addr[x][i]] = v

ListedAt(s, x) ==
    ~s.force[x] =>
        \A i \in 1 .. Len(s.addr[x]) :
            /\ s.held[s.addr[x][i]][x] > 0
            /\ \A j \in 1 .. Len(s.addr[x]) : s.addr[x][i] = s.addr[x][j] => i = j

\* v is the value of x in the program, if it has one.
Right(s, x, v) ==
    /\ ListedAt(s, x)
    /\ v # Unset => Carries(s, x, v)

\* Dumping r does not change the slot of x.
InSync(s, r, x) ==
    s.held[r][x] > 0 /\ Len(s.addr[x]) = 1 => s.reg[r] = s.mem[x]

Ready(s, r, x, v) ==
    /\ Right(s, x, v)
    /\ v # Unset /\ s.force[x] => InSync(s, r, x)

\* The code does not look for x in r.
FreeAt(s, r, x) ==
    ~s.force[x] => \A i \in 1 .. Len(s.addr[x]) : s.addr[x][i] # r

\* One place for every value is what Honest says.
LEMMA CarriesOne ==
    ASSUME NEW s \in States, NEW x \in Ids, NEW v
    PROVE  Carries(s, x, v) <=> Legible(s, x) /\ Places(s, x) = {v}
<1>. DEFINE q == s.addr[x]
<1>1. q \in Seq(Regs) /\ ToSet(q) = {q[i] : i \in 1 .. Len(q)}
  BY DEF States, ToSet
<1>2. {s.reg[r] : r \in ToSet(q)} = {s.reg[q[i]] : i \in 1 .. Len(q)}
  BY <1>1
<1>3. Places(s, x) = (IF s.onStack[x] THEN {s.mem[x]} ELSE {})
                       \cup (IF s.force[x] THEN {} ELSE {s.reg[q[i]] : i \in 1 .. Len(q)})
  BY <1>2 DEF Places
<1>4. q # << >> => 1 \in 1 .. Len(q)
  BY <1>1
<1>. HIDE DEF q
<1>5. Legible(s, x) => s.onStack[x] \/ (~s.force[x] /\ 1 \in 1 .. Len(q))
  BY <1>4 DEF Legible, q
<1>. QED  BY <1>3, <1>5 DEF Carries, q

-----------------------------------------------------------------------------
(* dump_reg_with_reserve. *)

\* p is what removing r leaves of q.
Without(q, p, r) ==
    /\ Distinct(p)
    /\ \A i \in 1 .. Len(p) :
          /\ p[i] # r
          /\ \E j \in 1 .. Len(q) : p[i] = q[j]
    /\ Len(q) > 1 => Len(p) > 0

\* Removing the first entry of a register that is listed once removes it.
LEMMA RemoveFirstWithout ==
    ASSUME NEW q \in Seq(Regs), NEW r, Distinct(q)
    PROVE  Without(q, RemoveFirst(q, r), r)
<1>1. PICK p : p = RemoveFirst(q, r)
  OBVIOUS
<1>2. \A i, j \in 1 .. Len(q) : q[i] = q[j] => i = j
  BY DEF Distinct
<1>. QED  BY <1>1, <1>2, RemoveFirstDistinct DEF Without, Distinct

\* A register that is dumped, and then used for something else, is no place of
\* any identifier but the one that is kept, and no value is lost.
LEMMA DumpRight ==
    ASSUME NEW s \in States, NEW r \in Regs, NEW keep \in Keepers,
           NEW t, t = Dump(s, r, keep), ~t.aborted,
           NEW x \in Ids, NEW v, Ready(s, r, x, v)
    PROVE  /\ Right(t, x, v)
           /\ x # keep => FreeAt(t, r, x) /\ t.held[r][x] = 0
<1>1. /\ t \in States /\ t.force = s.force /\ t.reg = s.reg
      /\ t.held[r][x] = IF x = keep THEN 1 ELSE 0
      /\ \A q \in Regs \ {r} : t.held[q][x] = s.held[q][x]
  BY DumpFields
<1>2. s.addr[x] \in Seq(Regs) /\ t.addr[x] \in Seq(Regs)
  BY <1>1 DEF States
<1>3. CASE ~Hit(s, r, keep, x)
  <2>1. t.addr[x] = s.addr[x] /\ t.mem[x] = s.mem[x] /\ t.onStack[x] = s.onStack[x]
    BY <1>3, DumpFields
  <2>2. \A i \in 1 .. Len(s.addr[x]) : s.addr[x][i] \in Regs
    BY <1>2, ElementOfSeq
  <2>3. ASSUME ~s.force[x], NEW i \in 1 .. Len(s.addr[x])
        PROVE  t.held[s.addr[x][i]][x] > 0 /\ (x # keep => s.addr[x][i] # r)
    <3>1. s.held[s.addr[x][i]][x] > 0
      BY <2>3 DEF Ready, Right, ListedAt
    <3>2. CASE s.addr[x][i] = r
      BY <1>1, <1>3, <3>1, <3>2 DEF Hit
    <3>3. CASE s.addr[x][i] # r
      BY <1>1, <2>2, <3>1, <3>3
    <3>. QED  BY <3>2, <3>3
  <2>4. ListedAt(t, x)
    BY <1>1, <2>1, <2>3 DEF Ready, Right, ListedAt
  <2>5. x # keep => FreeAt(t, r, x)
    BY <1>1, <2>1, <2>3 DEF FreeAt
  <2>6. v # Unset => Carries(t, x, v)
    BY <1>1, <2>1 DEF Ready, Right, Carries, Legible
  <2>. QED  BY <1>1, <2>4, <2>5, <2>6 DEF Right
<1>4. CASE Hit(s, r, keep, x)
  <2>1. x # keep /\ t.addr[x] = RemoveFirst(s.addr[x], r) /\ Contains(s.addr[x], r)
    BY <1>4, DumpFields DEF Hit
  <2>2. /\ Len(s.addr[x]) = 1 => t.mem[x] = s.reg[r] /\ t.onStack[x]
        /\ Len(s.addr[x]) # 1 => t.mem[x] = s.mem[x] /\ t.onStack[x] = s.onStack[x]
    BY <1>4, DumpFields
  <2>3. CASE s.force[x]
    <3>1. v # Unset => s.onStack[x] /\ s.mem[x] = v /\ InSync(s, r, x)
      BY <2>3 DEF Ready, Right, Carries, Legible
    <3>2. v # Unset => t.onStack[x] /\ t.mem[x] = v
      BY <1>4, <2>2, <3>1 DEF InSync, Hit
    <3>3. t.force[x]
      BY <1>1, <2>3
    <3>. QED  BY <1>1, <2>1, <3>2, <3>3 DEF Right, Carries, ListedAt, FreeAt, Legible
  <2>4. CASE ~s.force[x]
    <3>1. \A i, j \in 1 .. Len(s.addr[x]) : s.addr[x][i] = s.addr[x][j] => i = j
      BY <2>4 DEF Ready, Right, ListedAt
    <3>2. /\ \A i, j \in 1 .. Len(t.addr[x]) : t.addr[x][i] = t.addr[x][j] => i = j
          /\ \A i \in 1 .. Len(t.addr[x]) :
                /\ t.addr[x][i] # r
                /\ \E j \in 1 .. Len(s.addr[x]) : t.addr[x][i] = s.addr[x][j]
          /\ Len(s.addr[x]) > 1 => Len(t.addr[x]) > 0
      <4>1. Distinct(s.addr[x])
        BY <3>1 DEF Distinct
      <4>2. Without(s.addr[x], t.addr[x], r)
        BY <1>2, <2>1, <4>1, RemoveFirstWithout
      <4>. QED  BY <4>2 DEF Without, Distinct
    <3>3. PICK m \in 1 .. Len(s.addr[x]) : s.addr[x][m] = r
      BY <2>1 DEF Contains
    <3>4. ASSUME NEW i \in 1 .. Len(t.addr[x])
          PROVE  /\ t.held[t.addr[x][i]][x] > 0
                 /\ v # Unset => t.reg[t.addr[x][i]] = v
      <4>1. PICK j \in 1 .. Len(s.addr[x]) : t.addr[x][i] = s.addr[x][j]
        BY <3>2
      <4>2. t.addr[x][i] \in Regs \ {r}
        BY <1>2, <3>2, ElementOfSeq
      <4>3. s.held[s.addr[x][j]][x] > 0 /\ (v # Unset => s.reg[s.addr[x][j]] = v)
        BY <2>4 DEF Ready, Right, ListedAt, Carries
      <4>. QED  BY <1>1, <4>1, <4>2, <4>3
    <3>5. ListedAt(t, x) /\ FreeAt(t, r, x)
      BY <3>2, <3>4 DEF ListedAt, FreeAt
    <3>6. ASSUME v # Unset PROVE Carries(t, x, v)
      <4>1. s.reg[r] = v /\ (s.onStack[x] => s.mem[x] = v)
        BY <2>4, <3>3, <3>6 DEF Ready, Right, Carries
      <4>2. t.onStack[x] => t.mem[x] = v
        BY <2>2, <4>1
      <4>3. Legible(t, x)
        <5>1. CASE Len(s.addr[x]) = 1
          BY <2>2, <5>1 DEF Legible
        <5>2. CASE Len(s.addr[x]) # 1
          <6>1. Len(s.addr[x]) > 1
            <7>. DEFINE n == Len(s.addr[x])
            <7>1. n \in Nat /\ m \in 1 .. n /\ n # 1
              BY <1>2, <3>3, <5>2
            <7>. HIDE DEF n
            <7>2. n > 1
              BY <7>1
            <7>. QED  BY <7>2 DEF n
          <6>2. t.addr[x] # << >>
            BY <3>2, <6>1
          <6>. QED  BY <1>1, <2>4, <6>2 DEF Legible
        <5>. QED  BY <5>1, <5>2
      <4>. QED  BY <3>4, <3>6, <4>2, <4>3 DEF Carries
    <3>. QED  BY <1>1, <2>1, <3>5, <3>6 DEF Right
  <2>. QED  BY <2>3, <2>4
<1>. QED  BY <1>3, <1>4

-----------------------------------------------------------------------------
(* ensure_register. *)

\* What ensure_register loads.
Source(s, d, id, r) ==
    IF ~s.force[id] /\ s.addr[id] # << >>
    THEN d.reg[Last(s.addr[id])]
    ELSE IF d.onStack[id] THEN d.mem[id] ELSE d.reg[r]

\* t is d, where r has been dumped, after id has been put in r.
PutIn(s, d, t, id, r) ==
    /\ t.force = d.force /\ t.onStack = d.onStack /\ t.mem = d.mem
    /\ t.aborted = d.aborted
    /\ \A x \in Ids : t.held[r][x] = IF x = id THEN 1 ELSE 0
    /\ \A x \in Ids, q \in Regs \ {r} : t.held[q][x] = d.held[q][x]
    /\ \A x \in Ids \ {id} : t.addr[x] = d.addr[x]
    /\ IsCons(t.addr[id], r, d.addr[id])
    /\ t.reg[r] = Source(s, d, id, r)
    /\ \A q \in Regs \ {r} : t.reg[q] = d.reg[q]

\* What ensure_register leaves in each field when it has to load.
LEMMA EnsureFields ==
    ASSUME NEW s \in States, NEW id \in Ids, NEW r \in Regs, ~Loaded(s, id, r)
    PROVE  PutIn(s, Dump(s, r, NoId), Ensure(s, id, r), id, r)
<1>1. PICK d \in States : /\ d = Dump(s, r, NoId)
                          /\ \A x \in Ids : d.held[r][x] = 0
  <2>1. NoId \in Keepers /\ \A x \in Ids : x # NoId
    BY AllocatorAssumption DEF Keepers
  <2>. QED  BY <2>1, DumpFields
<1>2. PICK v : v = Source(s, d, id, r)
  OBVIOUS
<1>3. PICK t \in States : t = Ensure(s, id, r)
  BY EnsureType
<1>4. t = [d EXCEPT !.held[r][id] = @ + 1, !.addr[id] = Cons(r, @), !.reg[r] = v]
  BY <1>1, <1>2, <1>3 DEF Ensure, Source
<1>5. d.addr[id] \in Seq(Regs)
  BY DEF States
<1>6. IsCons(t.addr[id], r, d.addr[id])
  <2>1. t.addr[id] = Cons(r, d.addr[id])
    BY <1>4 DEF States
  <2>. QED  BY <1>5, <2>1, ConsElements
<1>7. /\ t.force = d.force /\ t.onStack = d.onStack /\ t.mem = d.mem
      /\ t.aborted = d.aborted
  BY <1>4 DEF States
<1>8. /\ \A x \in Ids : t.held[r][x] = IF x = id THEN 1 ELSE 0
      /\ \A x \in Ids, q \in Regs \ {r} : t.held[q][x] = d.held[q][x]
  <2>1. t.held = [d.held EXCEPT ![r][id] = @ + 1] /\ d.held \in [Regs -> [Ids -> Nat]]
    BY <1>4 DEF States
  <2>. QED  BY <1>1, <2>1
<1>9. /\ \A x \in Ids \ {id} : t.addr[x] = d.addr[x]
      /\ t.reg[r] = v
      /\ \A q \in Regs \ {r} : t.reg[q] = d.reg[q]
  BY <1>4 DEF States
<1>. QED  BY <1>1, <1>2, <1>3, <1>6, <1>7, <1>8, <1>9 DEF PutIn

\* Putting id in r loses no value of another identifier.
LEMMA EnsureOthers ==
    ASSUME NEW s \in States, NEW id \in Ids, NEW r \in Regs,
           NEW t, t = Ensure(s, id, r), ~t.aborted,
           NEW x \in Ids \ {id}, NEW v, Ready(s, r, x, v)
    PROVE  Ready(t, r, x, v)
<1>1. CASE Loaded(s, id, r)
  BY <1>1 DEF Ensure
<1>2. CASE ~Loaded(s, id, r)
  <2>1. PICK d \in States : d = Dump(s, r, NoId)
    BY DumpFields DEF Keepers
  <2>2. PutIn(s, d, t, id, r)
    BY <1>2, <2>1, EnsureFields
  <2>3. NoId \in Keepers /\ x # NoId
    BY AllocatorAssumption DEF Keepers
  <2>4. Right(d, x, v) /\ FreeAt(d, r, x) /\ d.held[r][x] = 0
    BY <2>1, <2>2, <2>3, DumpRight DEF PutIn
  <2>5. /\ t.force = d.force /\ t.onStack = d.onStack /\ t.mem = d.mem
        /\ t.addr[x] = d.addr[x]
        /\ \A q \in Regs \ {r} : t.held[q][x] = d.held[q][x] /\ t.reg[q] = d.reg[q]
        /\ t.held[r][x] = 0
    BY <2>2 DEF PutIn
  <2>6. d.addr[x] \in Seq(Regs)
    BY DEF States
  <2>7. ASSUME ~d.force[x], NEW i \in 1 .. Len(d.addr[x])
        PROVE  d.addr[x][i] \in Regs \ {r}
    BY <2>4, <2>6, <2>7, ElementOfSeq DEF FreeAt
  <2>8. ListedAt(t, x)
    BY <2>4, <2>5, <2>7 DEF Right, ListedAt
  <2>9. v # Unset => Carries(t, x, v)
    BY <2>4, <2>5, <2>7 DEF Right, Carries, Legible
  <2>10. InSync(t, r, x)
    BY <2>5 DEF InSync
  <2>. QED  BY <2>8, <2>9, <2>10 DEF Ready, Right
<1>. QED  BY <1>1, <1>2

\* Putting id in r puts its value there, if it has one.
LEMMA EnsureOwn ==
    ASSUME NEW s \in States, NEW id \in Ids, NEW r \in Regs,
           NEW t, t = Ensure(s, id, r), ~t.aborted,
           NEW v, Ready(s, r, id, v)
    PROVE  Ready(t, r, id, v) /\ (v # Unset => t.reg[r] = v)
<1>1. s.addr[id] \in Seq(Regs)
  BY DEF States
<1>2. CASE Loaded(s, id, r)
  <2>1. t = s
    BY <1>2 DEF Ensure
  <2>2. PICK i \in 1 .. Len(s.addr[id]) : s.addr[id][i] = r
    BY <1>2 DEF Loaded, Contains
  <2>3. v # Unset => s.reg[r] = v
    BY <1>2, <2>2 DEF Loaded, Ready, Right, Carries
  <2>. QED  BY <2>1, <2>3
<1>3. CASE ~Loaded(s, id, r)
  <2>1. PICK d \in States : d = Dump(s, r, NoId) /\ d.reg = s.reg /\ d.force = s.force
    BY DumpFields DEF Keepers
  <2>2. PutIn(s, d, t, id, r)
    BY <1>3, <2>1, EnsureFields
  <2>3. NoId \in Keepers /\ id # NoId
    BY AllocatorAssumption DEF Keepers
  <2>4. Right(d, id, v) /\ FreeAt(d, r, id) /\ d.held[r][id] = 0
    BY <2>1, <2>2, <2>3, DumpRight DEF PutIn
  <2>5. /\ t.force = d.force /\ t.onStack = d.onStack /\ t.mem = d.mem
        /\ IsCons(t.addr[id], r, d.addr[id])
        /\ \A q \in Regs \ {r} : t.held[q][id] = d.held[q][id] /\ t.reg[q] = d.reg[q]
        /\ t.held[r][id] = 1
        /\ t.reg[r] = Source(s, d, id, r)
    BY <2>2 DEF PutIn
  <2>6. d.addr[id] \in Seq(Regs) /\ Len(d.addr[id]) \in Nat
    BY DEF States
  <2>7. ASSUME ~d.force[id], NEW i \in 1 .. Len(d.addr[id])
        PROVE  d.addr[id][i] \in Regs \ {r}
    BY <2>4, <2>6, <2>7, ElementOfSeq DEF FreeAt
  <2>8. v # Unset => Source(s, d, id, r) = v
    <3>1. CASE ~s.force[id] /\ s.addr[id] # << >>
      <4>1. Len(s.addr[id]) \in 1 .. Len(s.addr[id])
        BY <1>1, <3>1, EmptySeq
      <4>2. Last(s.addr[id]) = s.addr[id][Len(s.addr[id])]
        BY DEF Last
      <4>. QED  BY <2>1, <3>1, <4>1, <4>2 DEF Ready, Right, Carries, Source
    <3>2. CASE ~(~s.force[id] /\ s.addr[id] # << >>)
      <4>1. v # Unset => s.onStack[id]
        BY <3>2 DEF Ready, Right, Carries, Legible
      <4>2. v # Unset => d.onStack[id]
        BY <2>1, <2>3, <4>1, DumpFields DEF Hit
      <4>. QED  BY <2>4, <3>2, <4>2 DEF Right, Carries, Source
    <3>. QED  BY <3>1, <3>2
  <2>9. ASSUME ~d.force[id]
        PROVE  ListedAt(t, id) /\ (v # Unset => Carries(t, id, v))
    <3>1. \A i \in 1 .. Len(t.addr[id]) :
              \/ i = 1 /\ t.addr[id][i] = r
              \/ i # 1 /\ i - 1 \in 1 .. Len(d.addr[id]) /\ t.addr[id][i] = d.addr[id][i - 1]
      <4>1. IsCons(t.addr[id], r, d.addr[id]) /\ Len(d.addr[id]) \in Nat
        BY <2>5, <2>6
      <4>. QED  BY ONLY <4>1 DEF IsCons
    <3>2. ASSUME NEW i \in 1 .. Len(t.addr[id]), NEW j \in 1 .. Len(t.addr[id]),
                 t.addr[id][i] = t.addr[id][j]
          PROVE  i = j
      <4>1. CASE i = 1 \/ j = 1
        <5>1. \A k \in 1 .. Len(d.addr[id]) : d.addr[id][k] # r
          BY <2>7, <2>9
        <5>2. i # 1 => t.addr[id][i] # r
          BY <3>1, <5>1
        <5>3. j # 1 => t.addr[id][j] # r
          BY <3>1, <5>1
        <5>4. (i = 1 => t.addr[id][i] = r) /\ (j = 1 => t.addr[id][j] = r)
          BY <3>1
        <5>. QED  BY ONLY <3>2, <4>1, <5>2, <5>3, <5>4
      <4>2. CASE i # 1 /\ j # 1
        <5>1. /\ i - 1 \in 1 .. Len(d.addr[id]) /\ j - 1 \in 1 .. Len(d.addr[id])
              /\ d.addr[id][i - 1] = d.addr[id][j - 1]
          BY <3>1, <3>2, <4>2
        <5>2. i - 1 = j - 1
          BY <2>4, <2>9, <5>1 DEF Right, ListedAt
        <5>. QED  BY <5>2
      <4>. QED  BY <4>1, <4>2
    <3>3. ASSUME NEW i \in 1 .. Len(t.addr[id])
          PROVE  /\ t.held[t.addr[id][i]][id] > 0
                 /\ v # Unset => t.reg[t.addr[id][i]] = v
      <4>1. CASE i = 1
        BY <2>5, <2>8, <3>1, <4>1
      <4>2. CASE i # 1
        <5>1. PICK k \in 1 .. Len(d.addr[id]) : t.addr[id][i] = d.addr[id][k]
          BY <3>1, <4>2
        <5>. QED  BY <2>4, <2>5, <2>7, <2>9, <5>1 DEF Right, ListedAt, Carries
      <4>. QED  BY <4>1, <4>2
    <3>4. Legible(t, id)
      BY <2>5, <2>9 DEF Legible, IsCons
    <3>. QED  BY <2>4, <2>5, <3>2, <3>3, <3>4 DEF ListedAt, Right, Carries
  <2>10. ASSUME d.force[id]
         PROVE  ListedAt(t, id) /\ (v # Unset => Carries(t, id, v) /\ InSync(t, r, id))
    <3>1. v # Unset => d.onStack[id] /\ d.mem[id] = v
      BY <2>4, <2>10 DEF Right, Carries, Legible
    <3>. QED  BY <2>5, <2>8, <2>10, <3>1 DEF ListedAt, Carries, Legible, InSync
  <2>. QED  BY <2>5, <2>8, <2>9, <2>10 DEF Ready, Right
<1>. QED  BY <1>2, <1>3

-----------------------------------------------------------------------------
(* Writing a register, and moving the result there. *)

\* What is right of x does not depend on a register where the code does not
\* look for x.
LEMMA RightElsewhere ==
    ASSUME NEW s \in States, NEW t \in States, NEW x \in Ids, NEW v,
           NEW r \in Regs, Right(s, x, v), FreeAt(s, r, x),
           t.force[x] = s.force[x], t.addr[x] = s.addr[x],
           t.onStack[x] = s.onStack[x], t.mem[x] = s.mem[x],
           \A q \in Regs \ {r} : t.held[q][x] = s.held[q][x] /\ t.reg[q] = s.reg[q]
    PROVE  Right(t, x, v)
<1>1. s.addr[x] \in Seq(Regs)
  BY DEF States
<1>2. ASSUME ~s.force[x], NEW i \in 1 .. Len(s.addr[x])
      PROVE  s.addr[x][i] \in Regs \ {r}
  BY <1>1, <1>2, ElementOfSeq DEF FreeAt
<1>3. ListedAt(t, x)
  BY <1>2 DEF Right, ListedAt
<1>4. v # Unset => Carries(t, x, v)
  BY <1>2 DEF Right, Carries, Legible
<1>. QED  BY <1>3, <1>4 DEF Right

\* What is right of x depends on nothing but x.
LEMMA RightSame ==
    ASSUME NEW s \in States, NEW t \in States, NEW x \in Ids, NEW v,
           Right(s, x, v),
           t.force[x] = s.force[x], t.addr[x] = s.addr[x],
           t.onStack[x] = s.onStack[x], t.mem[x] = s.mem[x], t.reg = s.reg,
           \A q \in Regs : t.held[q][x] = s.held[q][x]
    PROVE  Right(t, x, v)
<1>1. s.addr[x] \in Seq(Regs)
  BY DEF States
<1>2. \A i \in 1 .. Len(s.addr[x]) : s.addr[x][i] \in Regs
  BY <1>1, ElementOfSeq
<1>3. ListedAt(t, x)
  BY <1>2 DEF Right, ListedAt
<1>4. v # Unset => Carries(t, x, v)
  BY DEF Right, Carries, Legible
<1>. QED  BY <1>3, <1>4 DEF Right

\* The fields after the end of an assignment.
LEMMA SettleFields ==
    ASSUME NEW s \in States, NEW id \in Ids, NEW r \in Regs,
           NEW t, t = Settle(s, id, r)
    PROVE  /\ t \in States
           /\ t.force = s.force /\ t.held = s.held /\ t.reg = s.reg
           /\ t.aborted = s.aborted
           /\ \A x \in Ids \ {id} : /\ t.addr[x] = s.addr[x]
                                    /\ t.onStack[x] = s.onStack[x]
                                    /\ t.mem[x] = s.mem[x]
           /\ t.addr[id] = << r >>
           /\ t.onStack[id] = s.force[id]
           /\ s.force[id] => t.mem[id] = s.reg[r]
<1>1. [s.addr EXCEPT ![id] = << r >>] \in [Ids -> Seq(Regs)]
  BY DEF States
<1>2. [s.onStack EXCEPT ![id] = s.force[id]] \in [Ids -> BOOLEAN]
  BY DEF States
<1>3. [s.mem EXCEPT ![id] = IF s.force[id] THEN s.reg[r] ELSE @] \in [Ids -> Vals]
  BY DEF States
<1>4. t \in States
  BY <1>1, <1>2, <1>3 DEF Settle, States
<1>5. /\ t.force = s.force /\ t.held = s.held /\ t.reg = s.reg
      /\ t.aborted = s.aborted
      /\ t.addr = [s.addr EXCEPT ![id] = << r >>]
      /\ t.onStack = [s.onStack EXCEPT ![id] = s.force[id]]
      /\ t.mem = [s.mem EXCEPT ![id] = IF s.force[id] THEN s.reg[r] ELSE @]
  BY DEF Settle, States
<1>6. \A x \in Ids \ {id} : /\ t.addr[x] = s.addr[x]
                             /\ t.onStack[x] = s.onStack[x]
                             /\ t.mem[x] = s.mem[x]
  BY <1>5 DEF States
<1>7. t.addr[id] = << r >> /\ t.onStack[id] = s.force[id]
  BY <1>5 DEF States
<1>8. s.force[id] => t.mem[id] = s.reg[r]
  BY <1>5 DEF States
<1>. QED  BY <1>4, <1>5, <1>6, <1>7, <1>8

\* The result is right where it has been moved, and nothing else has changed.
LEMMA SettleRight ==
    ASSUME NEW s \in States, NEW id \in Ids, NEW r \in Regs,
           NEW t, t = Settle(s, id, r), NEW x \in Ids, NEW v,
           IF x = id THEN s.held[r][id] > 0 /\ (v # Unset => s.reg[r] = v)
                     ELSE Right(s, x, v)
    PROVE  t \in States /\ Right(t, x, v)
<1>1. t \in States
  BY SettleFields
<1>2. CASE x # id
  <2>1. /\ t.force[x] = s.force[x] /\ t.addr[x] = s.addr[x]
        /\ t.onStack[x] = s.onStack[x] /\ t.mem[x] = s.mem[x] /\ t.reg = s.reg
        /\ \A q \in Regs : t.held[q][x] = s.held[q][x]
    BY <1>2, SettleFields
  <2>. QED  BY <1>1, <1>2, <2>1, RightSame
<1>3. CASE x = id
  <2>1. << r >> # << >> /\ Head(<< r >>) = r /\ Len(<< r >>) = 1 /\ << r >>[1] = r
    OBVIOUS
  <2>2. /\ t.force = s.force /\ t.held = s.held /\ t.reg = s.reg
        /\ t.addr[id] = << r >> /\ t.onStack[id] = s.force[id]
        /\ s.force[id] => t.mem[id] = s.reg[r]
    BY SettleFields
  <2>3. ListedAt(t, id)
    BY <1>3, <2>1, <2>2 DEF ListedAt
  <2>4. v # Unset => Carries(t, id, v)
    BY <1>3, <2>1, <2>2 DEF Carries, Legible
  <2>. QED  BY <1>1, <1>3, <2>3, <2>4 DEF Right
<1>. QED  BY <1>2, <1>3

\* Writing c to r after it has been dumped.
Put(s, r, c, a) == [s EXCEPT !.reg[r] = c, !.aborted = a]

PutFrom(s, t, r, c, a) ==
    /\ t \in States
    /\ t.force = s.force /\ t.held = s.held /\ t.addr = s.addr
    /\ t.onStack = s.onStack /\ t.mem = s.mem
    /\ t.aborted = a
    /\ t.reg[r] = c
    /\ \A q \in Regs \ {r} : t.reg[q] = s.reg[q]

\* What putting a value into a register leaves in each field.
LEMMA PutFields ==
    ASSUME NEW s \in States, NEW r \in Regs, NEW c \in Vals, NEW a \in BOOLEAN,
           NEW t, t = Put(s, r, c, a)
    PROVE  PutFrom(s, t, r, c, a)
<1>1. [s.reg EXCEPT ![r] = c] \in [Regs -> Vals]
  BY DEF States
<1>. QED  BY <1>1 DEF Put, PutFrom, States

\* The register of the result is dumped, written and becomes the place of the
\* result: the end of compile_binary, and of the assignment of a constant.
LEMMA ResultRight ==
    ASSUME NEW l \in States, NEW id \in Ids, NEW r \in Regs,
           NEW d, d = Dump(l, r, id), ~d.aborted,
           NEW c \in Vals, NEW a \in BOOLEAN,
           NEW t, t = Settle(Put(d, r, c, a), id, r),
           NEW x \in Ids, NEW v,
           IF x = id THEN v # Unset => c = v ELSE Ready(l, r, x, v)
    PROVE  Right(t, x, v)
<1>1. id \in Keepers
  BY DEF Keepers
<1>2. d \in States /\ d.held[r][id] = 1
  BY <1>1, DumpFields
<1>3. PICK e \in States :
         /\ e = Put(d, r, c, a)
         /\ e.force = d.force /\ e.held = d.held /\ e.addr = d.addr
         /\ e.onStack = d.onStack /\ e.mem = d.mem
         /\ e.reg[r] = c
         /\ \A q \in Regs \ {r} : e.reg[q] = d.reg[q]
  BY <1>2, PutFields DEF PutFrom
<1>4. CASE x = id
  BY <1>2, <1>3, <1>4, SettleRight
<1>5. CASE x # id
  <2>1. Right(d, x, v) /\ FreeAt(d, r, x)
    BY <1>1, <1>5, DumpRight
  <2>2. Right(e, x, v)
    BY <1>2, <1>3, <2>1, RightElsewhere
  <2>. QED  BY <1>3, <1>5, <2>2, SettleRight
<1>. QED  BY <1>4, <1>5

-----------------------------------------------------------------------------
(* Compiling one instruction: what is right afterwards. *)

\* The operand a has the value v in the program, and the code finds it.
Operand(s, r, a, v) ==
    IF a \in Vals THEN v = a ELSE a \in Ids /\ Ready(s, r, a, v)

\* compile_unary, a constant for an identifier that is not forced.
LEMMA FreeConstRight ==
    ASSUME NEW s \in States, NEW id \in Ids, NEW c \in Vals,
           NEW r, r = PickReg(s, id),
           NEW t, t = AssignFreeConst(s, id, c), ~t.aborted,
           NEW x \in Ids, NEW v,
           IF x = id THEN v # Unset => c = v ELSE Ready(s, r, x, v)
    PROVE  Right(t, x, v)
<1>1. r \in Regs
  BY PickRegType DEF Keepers
<1>2. PICK l \in States : l = Ensure(s, id, r)
  BY <1>1, EnsureType
<1>3. PICK d \in States : d = Dump(l, r, id)
  BY <1>1, DumpFields DEF Keepers
<1>4. [d EXCEPT !.reg[r] = c] = Put(d, r, c, d.aborted) /\ d.aborted \in BOOLEAN
  BY DEF Put, States
<1>5. t = Settle(Put(d, r, c, d.aborted), id, r)
  BY <1>2, <1>3, <1>4 DEF AssignFreeConst
<1>6. ~d.aborted
  <2>1. Put(d, r, c, d.aborted) \in States /\ Put(d, r, c, d.aborted).aborted = d.aborted
    BY <1>1, <1>4, PutFields DEF PutFrom
  <2>. QED  BY <1>1, <1>5, <2>1, SettleFields
<1>7. ~l.aborted
  BY <1>1, <1>3, <1>6, DumpFields DEF Keepers
<1>8. IF x = id THEN v # Unset => c = v ELSE Ready(l, r, x, v)
  BY <1>1, <1>2, <1>7, EnsureOthers
<1>. QED  BY <1>1, <1>3, <1>4, <1>5, <1>6, <1>8, ResultRight

\* compile_unary, a constant for a forced identifier.
LEMMA ForcedConstRight ==
    ASSUME NEW s \in States, NEW id \in Ids, NEW c \in Vals, s.force[id],
           NEW t, t = AssignForcedConst(s, id, c),
           NEW x \in Ids, NEW v,
           IF x = id THEN v # Unset => c = v ELSE Right(s, x, v)
    PROVE  t \in States /\ Right(t, x, v)
<1>1. t \in States
  <2>1. [s.addr EXCEPT ![id] = << >>] \in [Ids -> Seq(Regs)]
    BY DEF States
  <2>2. [s.onStack EXCEPT ![id] = TRUE] \in [Ids -> BOOLEAN]
    BY DEF States
  <2>3. [s.mem EXCEPT ![id] = c] \in [Ids -> Vals]
    BY DEF States
  <2>. QED  BY <2>1, <2>2, <2>3 DEF AssignForcedConst, States
<1>2. /\ t.force = s.force /\ t.held = s.held /\ t.reg = s.reg
      /\ t.onStack[id] /\ t.mem[id] = c
      /\ x # id => /\ t.addr[x] = s.addr[x]
                   /\ t.onStack[x] = s.onStack[x]
                   /\ t.mem[x] = s.mem[x]
  BY DEF AssignForcedConst, States
<1>3. CASE x # id
  BY <1>1, <1>2, <1>3, RightSame
<1>4. CASE x = id
  BY <1>1, <1>2, <1>4 DEF Right, ListedAt, Carries, Legible
<1>. QED  BY <1>1, <1>3, <1>4

\* remove_id_from_regs, and the new listing.
Relisted(s, id, r) == [RemoveFromRegs(s, id) EXCEPT !.held[r][id] = @ + 1]

\* What that changes.
RelistedFrom(s, t, id, r) ==
    /\ t \in States
    /\ t.force = s.force /\ t.addr = s.addr /\ t.onStack = s.onStack
    /\ t.mem = s.mem /\ t.reg = s.reg /\ t.aborted = s.aborted
    /\ t.held[r][id] > 0
    /\ \A x \in Ids \ {id}, q \in Regs : t.held[q][x] = s.held[q][x]

\* What the corrected listings of an identifier leave in each field.
LEMMA RelistedFields ==
    ASSUME NEW s \in States, NEW id \in Ids, NEW r \in Regs,
           NEW t, t = Relisted(s, id, r)
    PROVE  RelistedFrom(s, t, id, r)
<1>. DEFINE left(q) == IF Occurrences(s.addr[id], q) < s.held[q][id]
                       THEN s.held[q][id] - Occurrences(s.addr[id], q)
                       ELSE 0
<1>1. \A q \in Regs : left(q) \in Nat
  <2>. TAKE q \in Regs
  <2>1. s.addr[id] \in Seq(Regs) /\ s.held[q][id] \in Nat
    BY DEF States
  <2>2. Occurrences(s.addr[id], q) \in Nat
    <3>1. IsFiniteSet(DOMAIN s.addr[id])
      BY <2>1, FS_Interval
    <3>. QED  BY <3>1, FS_Subset, FS_CardinalityType DEF Occurrences
  <2>. QED  BY <2>1, <2>2
<1>2. PICK h : h = [q \in Regs |-> [s.held[q] EXCEPT ![id] = left(q)]]
  OBVIOUS
<1>3. RemoveFromRegs(s, id) = [s EXCEPT !.held = h]
  BY <1>2 DEF RemoveFromRegs
<1>. HIDE DEF left
<1>4. /\ h \in [Regs -> [Ids -> Nat]]
      /\ \A x \in Ids \ {id}, q \in Regs : h[q][x] = s.held[q][x]
  BY <1>1, <1>2 DEF States
<1>5. t = [s EXCEPT !.held = [h EXCEPT ![r][id] = @ + 1]]
  BY <1>3 DEF Relisted, States
<1>6. /\ [h EXCEPT ![r][id] = @ + 1] \in [Regs -> [Ids -> Nat]]
      /\ [h EXCEPT ![r][id] = @ + 1][r][id] > 0
      /\ \A x \in Ids \ {id}, q \in Regs : [h EXCEPT ![r][id] = @ + 1][q][x] = h[q][x]
  BY <1>4
<1>7. PICK g : g = [h EXCEPT ![r][id] = @ + 1]
  OBVIOUS
<1>8. /\ g \in [Regs -> [Ids -> Nat]] /\ g[r][id] > 0
      /\ \A x \in Ids \ {id}, q \in Regs : g[q][x] = s.held[q][x]
  BY <1>4, <1>6, <1>7
<1>9. t = [s EXCEPT !.held = g]
  BY <1>5, <1>7
<1>. QED  BY <1>8, <1>9 DEF RelistedFrom, States

\* compile_unary, an identifier: the result joins the register of y.
LEMMA IdentRight ==
    ASSUME NEW s \in States, NEW id \in Ids, NEW y \in Ids,
           NEW r, r = PickReg(s, y),
           NEW t, t = AssignFromIdent(s, id, y), ~t.aborted,
           NEW w, (Loaded(s, y, r) /\ Right(s, y, w)) \/ Ready(s, r, y, w),
           NEW x \in Ids, NEW v,
           IF x = id THEN v = w
           ELSE (Loaded(s, y, r) /\ Right(s, x, v)) \/ Ready(s, r, x, v)
    PROVE  Right(t, x, v)
<1>1. r \in Regs
  BY PickRegType DEF Keepers
<1>2. PICK e \in States : e = Ensure(s, y, r)
  BY <1>1, EnsureType
<1>3. PICK d \in States : d = Relisted(e, id, r) /\ RelistedFrom(e, d, id, r)
  <2>1. RelistedFrom(e, Relisted(e, id, r), id, r)
    BY <1>1, <1>2, RelistedFields
  <2>. QED  BY <2>1 DEF RelistedFrom
<1>4. t = Settle(d, id, r)
  BY <1>2, <1>3 DEF AssignFromIdent, Relisted
<1>5. ~e.aborted
  <2>1. d.aborted = e.aborted
    BY <1>3 DEF RelistedFrom
  <2>. QED  BY <1>1, <1>4, <2>1, SettleFields
<1>6. Loaded(s, y, r) => e = s
  BY <1>2 DEF Ensure
<1>7. Right(e, y, w) /\ (w # Unset => e.reg[r] = w)
  <2>1. CASE Loaded(s, y, r)
    <3>1. Ready(s, r, y, w)
      BY <2>1 DEF Ready, Loaded
    <3>. QED  BY <1>1, <1>2, <1>5, <3>1, EnsureOwn DEF Ready
  <2>2. CASE ~Loaded(s, y, r)
    BY <1>1, <1>2, <1>5, <2>2, EnsureOwn DEF Ready
  <2>. QED  BY <2>1, <2>2
<1>8. x # id => Right(e, x, v)
  <2>1. CASE x = y
    <3>1. x # id => Ready(s, r, y, v)
      BY <2>1 DEF Ready, Loaded
    <3>. QED  BY <1>1, <1>2, <1>5, <2>1, <3>1, EnsureOwn DEF Ready
  <2>2. CASE x # y
    BY <1>1, <1>2, <1>5, <1>6, <2>2, EnsureOthers DEF Ready
  <2>. QED  BY <2>1, <2>2
<1>9. /\ d.force = e.force /\ d.addr = e.addr /\ d.onStack = e.onStack
      /\ d.mem = e.mem /\ d.reg = e.reg /\ d.held[r][id] > 0
      /\ x # id => \A q \in Regs : d.held[q][x] = e.held[q][x]
  BY <1>3 DEF RelistedFrom
<1>10. x # id => Right(d, x, v)
  BY <1>8, <1>9, RightSame
<1>11. IF x = id THEN d.held[r][id] > 0 /\ (v # Unset => d.reg[r] = v) ELSE Right(d, x, v)
  BY <1>7, <1>9, <1>10
<1>. QED  BY <1>1, <1>4, <1>11, SettleRight

\* Whatever was right, and will survive a dump of r, still is and does.
Keeps(s, r, t) == \A x \in Ids : \A v : Ready(s, r, x, v) => Ready(t, r, x, v)

\* ensure_register keeps what is right.
LEMMA EnsureReady ==
    ASSUME NEW s \in States, NEW id \in Ids, NEW r \in Regs,
           NEW t, t = Ensure(s, id, r), ~t.aborted,
           NEW x \in Ids, NEW v, Ready(s, r, x, v)
    PROVE  Ready(t, r, x, v)
<1>1. CASE x = id
  BY <1>1, EnsureOwn
<1>2. CASE x # id
  BY <1>2, EnsureOthers
<1>. QED  BY <1>1, <1>2

\* A constant that is loaded into r, dumped for it, loses nothing.
WithConst(s, r, c) == [Dump(s, r, NoId) EXCEPT !.reg[r] = c]

\* A constant loaded into a register is there, and dumping what was there keeps
\* everything else.
LEMMA ConstReady ==
    ASSUME NEW s \in States, NEW r \in Regs, NEW c \in Vals,
           NEW t, t = WithConst(s, r, c)
    PROVE  /\ t \in States
           /\ t.reg[r] = c
           /\ ~t.aborted => ~s.aborted
           /\ ~t.aborted => Keeps(s, r, t)
<1>1. NoId \in Keepers /\ \A x \in Ids : x # NoId
  BY AllocatorAssumption DEF Keepers
<1>2. PICK d \in States : d = Dump(s, r, NoId) /\ (s.aborted => d.aborted)
  BY <1>1, DumpFields
<1>3. t = Put(d, r, c, d.aborted) /\ d.aborted \in BOOLEAN
  BY <1>2 DEF Put, WithConst, States
<1>4. /\ t \in States
      /\ t.force = d.force /\ t.held = d.held /\ t.addr = d.addr
      /\ t.onStack = d.onStack /\ t.mem = d.mem
      /\ t.aborted = d.aborted
      /\ t.reg[r] = c
      /\ \A q \in Regs \ {r} : t.reg[q] = d.reg[q]
  <2>1. PutFrom(d, t, r, c, d.aborted)
    BY <1>3, PutFields
  <2>. QED  BY <2>1 DEF PutFrom
<1>5. ASSUME ~t.aborted, NEW x \in Ids, NEW v, Ready(s, r, x, v)
      PROVE  Ready(t, r, x, v)
  <2>1. Right(d, x, v) /\ FreeAt(d, r, x) /\ d.held[r][x] = 0
    BY <1>1, <1>2, <1>4, <1>5, DumpRight
  <2>2. Right(t, x, v)
    BY <1>4, <2>1, RightElsewhere
  <2>3. InSync(t, r, x)
    BY <1>4, <2>1 DEF InSync
  <2>. QED  BY <2>2, <2>3 DEF Ready
<1>. QED  BY <1>2, <1>4, <1>5 DEF Keeps

\* compile_binary up to the second operand: nothing that is still read is
\* lost on the way, and the register of the result has the first operand.
LEMMA LoadFirstReady ==
    ASSUME NEW s \in States, NEW id \in Ids, NEW a \in Args, NEW r \in Regs,
           NEW l, l = LoadFirst(s, id, a, r), ~l.aborted
    PROVE  /\ Keeps(s, r, l)
           /\ \A v : Operand(s, r, a, v) /\ v # Unset => l.reg[r] = v
<1>1. PICK e \in States : e = Ensure(s, id, r)
  BY EnsureType
<1>2. a \in Ids => a \notin Vals
  BY AllocatorAssumption
<1>3. CASE a = id
  <2>1. l = e /\ a \in Ids
    BY <1>1, <1>3 DEF LoadFirst
  <2>2. Keeps(s, r, l)
    BY <1>1, <2>1, EnsureReady DEF Keeps
  <2>3. ASSUME NEW v, Operand(s, r, a, v), v # Unset
        PROVE  l.reg[r] = v
    <3>1. Ready(s, r, id, v)
      BY <1>2, <1>3, <2>3 DEF Operand
    <3>. QED  BY <1>1, <2>1, <2>3, <3>1, EnsureOwn
  <2>. QED  BY <2>2, <2>3
<1>4. CASE a # id /\ a \in Vals
  <2>1. l = WithConst(e, r, a)
    BY <1>1, <1>4 DEF LoadFirst, IsConst, WithConst
  <2>2. /\ l.reg[r] = a
        /\ ~e.aborted
        /\ Keeps(e, r, l)
    BY <1>4, <2>1, ConstReady
  <2>3. Keeps(s, r, e)
    BY <1>1, <2>2, EnsureReady DEF Keeps
  <2>. QED  BY <1>4, <2>2, <2>3 DEF Operand, Keeps
<1>5. CASE a # id /\ a \notin Vals
  <2>1. a \in Ids /\ l = Ensure(e, a, r)
    BY <1>1, <1>5 DEF LoadFirst, IsConst, Args
  <2>2. ~e.aborted
    BY <2>1, EnsureType
  <2>3. Keeps(s, r, e)
    BY <1>1, <2>2, EnsureReady DEF Keeps
  <2>4. Keeps(e, r, l)
    BY <2>1, EnsureReady DEF Keeps
  <2>5. ASSUME NEW v, Operand(s, r, a, v), v # Unset
        PROVE  l.reg[r] = v
    <3>1. Ready(e, r, a, v)
      BY <1>5, <2>1, <2>3, <2>5 DEF Operand, Keeps
    <3>. QED  BY <2>1, <2>5, <3>1, EnsureOwn
  <2>. QED  BY <2>3, <2>4, <2>5 DEF Keeps
<1>. QED  BY <1>3, <1>4, <1>5

\* Loading the first operand yields a state of the allocator.
LEMMA LoadFirstType ==
    ASSUME NEW s \in States, NEW id \in Ids, NEW a \in Args, NEW r \in Regs
    PROVE  LoadFirst(s, id, a, r) \in States
<1>1. PICK e \in States : e = Ensure(s, id, r)
  BY EnsureType
<1>2. a \in Vals => [Dump(e, r, NoId) EXCEPT !.reg[r] = a] \in States
  BY ConstReady DEF WithConst
<1>3. a \in Ids => Ensure(e, a, r) \in States
  BY EnsureType
<1>. QED  BY <1>1, <1>2, <1>3 DEF LoadFirst, IsConst, Args

\* The second operand, read after the stores that empty the register of the
\* first one.
LEMMA SecondOperand ==
    ASSUME NEW l \in States, NEW r \in Regs, NEW id \in Ids, NEW b \in Args,
           NEW d, d = Dump(l, r, id)
    PROVE  /\ ArgValue([l EXCEPT !.mem = d.mem], b) \in Vals
           /\ \A v : Operand(l, r, b, v) /\ v # Unset =>
                        ArgValue([l EXCEPT !.mem = d.mem], b) = v
<1>1. d \in States
  BY DumpFields DEF Keepers
<1>2. PICK m \in States : m = [l EXCEPT !.mem = d.mem]
  BY <1>1 DEF States
<1>3. b \in Ids => b \notin Vals
  BY AllocatorAssumption
<1>4. ArgValue(m, b) \in Vals
  BY <1>2, ReadType DEF ArgValue, IsConst, Args
<1>5. ASSUME NEW v, Operand(l, r, b, v), v # Unset
      PROVE  ArgValue(m, b) = v
  <2>1. CASE b \in Vals
    BY <1>5, <2>1 DEF Operand, ArgValue, IsConst
  <2>2. CASE b \in Ids
    <3>1. Ready(l, r, b, v) /\ ArgValue(m, b) = Read(m, b)
      BY <1>3, <1>5, <2>2 DEF Operand, ArgValue, IsConst
    <3>2. /\ m.force = l.force /\ m.addr = l.addr /\ m.reg = l.reg
          /\ m.mem = d.mem
      BY <1>2 DEF States
    <3>3. l.addr[b] \in Seq(Regs)
      BY <2>2 DEF States
    <3>4. CASE ~l.force[b] /\ l.addr[b] # << >>
      <4>1. 1 \in 1 .. Len(l.addr[b]) /\ Head(l.addr[b]) = l.addr[b][1]
        BY <3>3, <3>4
      <4>2. l.reg[l.addr[b][1]] = v
        BY <1>5, <3>1, <3>4, <4>1 DEF Ready, Right, Carries
      <4>. QED  BY <3>1, <3>2, <3>4, <4>1, <4>2 DEF Read
    <3>5. CASE ~(~l.force[b] /\ l.addr[b] # << >>)
      <4>1. l.mem[b] = v
        BY <1>5, <3>1, <3>5 DEF Ready, Right, Carries, Legible
      <4>2. d.mem[b] = v
        <5>1. CASE Hit(l, r, id, b) /\ Len(l.addr[b]) = 1
          <6>1. l.force[b]
            BY <3>5, <5>1
          <6>2. l.reg[r] = l.mem[b]
            BY <1>5, <3>1, <5>1, <6>1 DEF Ready, InSync, Hit
          <6>3. d.mem[b] = l.reg[r]
            BY <2>2, <5>1, DumpFields DEF Keepers
          <6>. QED  BY <4>1, <6>2, <6>3
        <5>2. CASE ~(Hit(l, r, id, b) /\ Len(l.addr[b]) = 1)
          BY <4>1, <5>2, <2>2, DumpFields DEF Keepers
        <5>. QED  BY <5>1, <5>2
      <4>. QED  BY <3>1, <3>2, <3>5, <4>2 DEF Read
    <3>. QED  BY <3>4, <3>5
  <2>. QED  BY <2>1, <2>2 DEF Args
<1>. QED  BY <1>2, <1>4, <1>5

\* compile_binary: the result has the value of the operation, if both
\* operands have one.
LEMMA BinaryRight ==
    ASSUME NEW s \in States, NEW id \in Ids, NEW a \in Args, NEW b \in Args,
           NEW r, r = PickReg(s, id),
           NEW t, t = BinaryOp(s, id, a, b), ~t.aborted,
           NEW va, Operand(s, r, a, va), NEW vb, Operand(s, r, b, vb),
           NEW x \in Ids, NEW v,
           IF x = id
           THEN v # Unset => va # Unset /\ vb # Unset /\ v = Arith(va, vb)
           ELSE Ready(s, r, x, v)
    PROVE  Right(t, x, v)
<1>1. r \in Regs
  BY PickRegType DEF Keepers
<1>2. PICK l \in States : l = LoadFirst(s, id, a, r)
  BY <1>1, LoadFirstType
<1>3. PICK d \in States : d = Dump(l, r, id) /\ d.reg = l.reg
  BY <1>1, DumpFields DEF Keepers
<1>4. PICK w : w = ArgValue([l EXCEPT !.mem = d.mem], b)
  OBVIOUS
<1>5. PICK n : n = (d.aborted \/ ~ArgLegible(l, b))
  OBVIOUS
<1>6. w \in Vals
  BY <1>1, <1>3, <1>4, SecondOperand
<1>7. PICK c : c = Arith(d.reg[r], w)
  OBVIOUS
<1>8. c \in Vals /\ n \in BOOLEAN
  BY <1>1, <1>5, <1>6, <1>7, AllocatorAssumption DEF States
<1>9. t = Settle(Put(d, r, c, n), id, r)
  BY <1>2, <1>3, <1>4, <1>5, <1>7 DEF BinaryOp, Put
<1>10. ~n
  <2>1. Put(d, r, c, n) \in States /\ Put(d, r, c, n).aborted = n
    BY <1>1, <1>8, PutFields DEF PutFrom
  <2>. QED  BY <1>1, <1>9, <2>1, SettleFields
<1>11. ~d.aborted /\ ~l.aborted
  <2>1. ~d.aborted
    BY <1>5, <1>10
  <2>. QED  BY <1>1, <1>3, <2>1, DumpFields DEF Keepers
<1>12. /\ Keeps(s, r, l)
       /\ va # Unset => l.reg[r] = va
  BY <1>1, <1>2, <1>11, LoadFirstReady
<1>13. vb # Unset => w = vb
  <2>1. Operand(l, r, b, vb)
    BY <1>12 DEF Operand, Keeps
  <2>. QED  BY <1>1, <1>3, <1>4, <2>1, SecondOperand
<1>14. IF x = id THEN v # Unset => c = v ELSE Ready(l, r, x, v)
  BY <1>3, <1>7, <1>12, <1>13 DEF Keeps
<1>. QED  BY <1>1, <1>3, <1>8, <1>9, <1>11, <1>14, ResultRight

\* What is right is what the code reads.
LEMMA ReadRight ==
    ASSUME NEW s \in States, NEW x \in Ids, NEW v, v # Unset, Right(s, x, v)
    PROVE  Legible(s, x) /\ Read(s, x) = v
<1>1. s.addr[x] \in Seq(Regs)
  BY DEF States
<1>2. CASE ~s.force[x] /\ s.addr[x] # << >>
  <2>1. 1 \in 1 .. Len(s.addr[x]) /\ Head(s.addr[x]) = s.addr[x][1]
    BY <1>1, <1>2
  <2>. QED  BY <1>2, <2>1 DEF Read, Right, Carries
<1>3. CASE ~(~s.force[x] /\ s.addr[x] # << >>)
  BY <1>3 DEF Read, Right, Carries, Legible
<1>. QED  BY <1>2, <1>3

\* compile_cond, both operands on the stack: the comparison has the values of
\* both.  Its register joins the descriptor of the first one once more, which
\* may be twice: what is right of that one afterwards is not known.
LEMMA OnStackCompares ==
    ASSUME NEW s \in States, NEW a \in Ids, NEW b \in Ids,
           NEW r, r = PickReg(s, a),
           NEW t, t = CondOnStack(s, a), ~t.aborted,
           NEW va, va # Unset, Ready(s, r, a, va),
           NEW vb, vb # Unset, Ready(s, r, b, vb)
    PROVE  t.reg[r] = va /\ Read(t, b) = vb
<1>1. r \in Regs
  BY PickRegType DEF Keepers
<1>2. PICK l \in States : l = Ensure(s, a, r)
  BY <1>1, EnsureType
<1>3. PICK d \in States : d = Dump(l, r, a) /\ d.reg = l.reg /\ d.force = l.force
  BY <1>1, DumpFields DEF Keepers
<1>4. PICK e : e = [d EXCEPT !.addr[a] = Cons(r, @)]
  OBVIOUS
<1>5. d.addr[a] \in Seq(Regs)
  BY DEF States
<1>6. PICK q : q = Cons(r, d.addr[a]) /\ IsCons(q, r, d.addr[a])
  BY <1>1, <1>5, ConsElements
<1>7. /\ e \in States
      /\ e.force = d.force /\ e.held = d.held /\ e.reg = d.reg
      /\ e.onStack = d.onStack /\ e.mem = d.mem /\ e.aborted = d.aborted
      /\ e.addr[a] = q
      /\ \A x \in Ids \ {a} : e.addr[x] = d.addr[x]
  <2>1. q \in Seq(Regs)
    BY <1>6 DEF IsCons
  <2>. QED  BY <1>4, <1>6, <2>1 DEF States
<1>8. PICK w : w = Read(e, a)
  OBVIOUS
<1>9. w \in Vals
  BY <1>7, <1>8, ReadType
<1>10. t = Put(e, r, w, d.aborted)
  <2>1. t = [e EXCEPT !.reg[r] = w]
    BY <1>2, <1>3, <1>4, <1>8 DEF CondOnStack
  <2>2. e \in States /\ e.aborted = d.aborted
    BY <1>7
  <2>. QED  BY <2>1, <2>2 DEF Put, States
<1>11. PutFrom(e, t, r, w, d.aborted)
  <2>1. d.aborted \in BOOLEAN
    BY DEF States
  <2>. QED  BY <1>1, <1>7, <1>9, <1>10, <2>1, PutFields
<1>12. ~d.aborted /\ ~l.aborted
  BY <1>1, <1>3, <1>11, DumpFields DEF Keepers, PutFrom
<1>13. /\ Ready(l, r, a, va) /\ l.reg[r] = va
       /\ Ready(l, r, b, vb)
  BY <1>1, <1>2, <1>12, EnsureOwn, EnsureReady
<1>14. q # << >> /\ Head(q) = r
  BY <1>5, <1>6 DEF IsCons
<1>15. w = va
  <2>1. CASE ~e.force[a]
    BY <1>3, <1>7, <1>8, <1>13, <1>14, <2>1 DEF Read
  <2>2. CASE e.force[a]
    <3>1. l.mem[a] = va
      BY <1>3, <1>7, <1>13, <2>2 DEF Ready, Right, Carries, Legible
    <3>2. d.mem[a] = l.mem[a]
      BY <1>1, <1>3, DumpFields DEF Hit, Keepers
    <3>. QED  BY <1>7, <1>8, <2>2, <3>1, <3>2 DEF Read
  <2>. QED  BY <2>1, <2>2
<1>16. t.reg[r] = va
  BY <1>11, <1>15 DEF PutFrom
<1>17. CASE b = a
  <2>1. ASSUME ~e.force[a] PROVE Read(t, a) = va
    <3>1. t.addr[a] = q /\ t.force[a] = e.force[a]
      BY <1>7, <1>11 DEF PutFrom
    <3>. QED  BY <1>14, <1>16, <2>1, <3>1 DEF Read
  <2>2. ASSUME e.force[a] PROVE Read(t, a) = va
    <3>1. t.mem[a] = e.mem[a] /\ t.force[a] = e.force[a]
      BY <1>11 DEF PutFrom
    <3>2. Read(e, a) = e.mem[a] /\ Read(t, a) = t.mem[a]
      BY <2>2, <3>1 DEF Read
    <3>. QED  BY <1>8, <1>15, <3>1, <3>2
  <2>3. Ready(l, r, a, vb)
    BY <1>13, <1>17
  <2>4. va = vb
    <3>1. Read(l, a) = va /\ Read(l, a) = vb
      BY <1>13, <2>3, ReadRight DEF Ready
    <3>. QED  BY <3>1
  <2>. QED  BY <1>16, <1>17, <2>1, <2>2, <2>4
<1>18. CASE b # a
  <2>1. Right(d, b, vb) /\ FreeAt(d, r, b)
    BY <1>1, <1>3, <1>12, <1>13, <1>18, DumpRight DEF Keepers
  <2>2. t \in States /\ Right(t, b, vb)
    BY <1>1, <1>7, <1>11, <1>18, <2>1, RightElsewhere DEF PutFrom
  <2>. QED  BY <1>16, <2>2, ReadRight
<1>. QED  BY <1>16, <1>17, <1>18

\* compile_cond, both operands constant.
LEMMA ConstsRight ==
    ASSUME NEW s \in States, NEW a \in Vals,
           NEW r, r = PickReg(s, NoId),
           NEW t, t = CondConsts(s, a), ~t.aborted
    PROVE  /\ t.reg[r] = a
           /\ \A x \in Ids : \A v : Ready(s, r, x, v) => Right(t, x, v)
<1>1. r \in Regs
  BY PickRegType DEF Keepers
<1>2. t = WithConst(s, r, a)
  BY DEF CondConsts, WithConst
<1>3. t.reg[r] = a /\ Keeps(s, r, t)
  BY <1>1, <1>2, ConstReady
<1>. QED  BY <1>3 DEF Keeps, Ready

\* Forcing identifiers on the stack yields a state of the allocator.
LEMMA ForceAllType ==
    ASSUME NEW s \in States, NEW F \in SUBSET Ids
    PROVE  ForceAll(s, F) \in States
<1>. DEFINE stored == {id \in F : ~s.onStack[id] /\ s.addr[id] # << >>}
<1>1. [id \in Ids |-> IF id \in stored THEN s.reg[Head(s.addr[id])] ELSE s.mem[id]]
        \in [Ids -> Vals]
  <2>1. ASSUME NEW id \in Ids, id \in stored PROVE s.reg[Head(s.addr[id])] \in Vals
    <3>1. s.addr[id] \in Seq(Regs) /\ s.addr[id] # << >>
      BY <2>1 DEF States
    <3>2. Head(s.addr[id]) \in Regs
      BY <3>1
    <3>. QED  BY <3>2 DEF States
  <2>2. ASSUME NEW id \in Ids PROVE s.mem[id] \in Vals
    BY DEF States
  <2>. HIDE DEF stored
  <2>. QED  BY <2>1, <2>2
<1>2. /\ [id \in Ids |-> s.force[id] \/ id \in F] \in [Ids -> BOOLEAN]
      /\ [id \in Ids |-> s.onStack[id] \/ id \in stored] \in [Ids -> BOOLEAN]
  OBVIOUS
<1>. HIDE DEF stored
<1>3. ForceAll(s, F) =
        [s EXCEPT
          !.force   = [id \in Ids |-> s.force[id] \/ id \in F],
          !.onStack = [id \in Ids |-> s.onStack[id] \/ id \in stored],
          !.mem     = [id \in Ids |-> IF id \in stored THEN s.reg[Head(s.addr[id])]
                                      ELSE s.mem[id]]]
  BY DEF ForceAll, stored
<1>. QED  BY <1>1, <1>2, <1>3 DEF States

\* perform_instr_actions, FORCE_ID_STACK.
LEMMA ForceRight ==
    ASSUME NEW s \in States, NEW F \in SUBSET Ids,
           NEW t, t = ForceAll(s, F),
           NEW x \in Ids, NEW v, Right(s, x, v)
    PROVE  Right(t, x, v)
<1>1. s.addr[x] \in Seq(Regs)
  BY DEF States
<1>2. /\ t.held = s.held /\ t.addr = s.addr /\ t.reg = s.reg
      /\ t.force[x] = (s.force[x] \/ x \in F)
  BY DEF ForceAll, States
<1>3. CASE x \in F /\ ~s.onStack[x] /\ s.addr[x] # << >>
  <2>1. t.force[x] /\ t.onStack[x] /\ t.mem[x] = s.reg[Head(s.addr[x])]
    BY <1>2, <1>3 DEF ForceAll, States
  <2>2. v # Unset => t.mem[x] = v
    <3>1. 1 \in 1 .. Len(s.addr[x]) /\ Head(s.addr[x]) = s.addr[x][1]
      BY <1>1, <1>3
    <3>. QED  BY <1>3, <2>1, <3>1 DEF Right, Carries, Legible
  <2>. QED  BY <2>1, <2>2 DEF Right, ListedAt, Carries, Legible
<1>4. CASE ~(x \in F /\ ~s.onStack[x] /\ s.addr[x] # << >>)
  <2>1. t.onStack[x] = s.onStack[x] /\ t.mem[x] = s.mem[x]
    BY <1>4 DEF ForceAll, States
  <2>2. CASE x \in F
    <3>1. v # Unset => s.onStack[x]
      BY <1>4, <2>2 DEF Right, Carries, Legible
    <3>2. t.force[x]
      BY <1>2, <2>2
    <3>3. v # Unset => t.onStack[x] /\ t.mem[x] = v
      BY <2>1, <3>1 DEF Right, Carries
    <3>. QED  BY <3>2, <3>3 DEF Right, ListedAt, Carries, Legible
  <2>3. CASE x \notin F
    <3>1. t.force[x] = s.force[x]
      BY <1>2, <2>3 DEF States
    <3>2. t \in States
      BY ForceAllType
    <3>. QED  BY <1>2, <2>1, <3>1, <3>2, RightSame
  <2>. QED  BY <2>2, <2>3
<1>. QED  BY <1>3, <1>4

\* perform_instr_actions in front of an instruction that releases nothing.
LEMMA ActionsRight ==
    ASSUME NEW s \in States, NEW F \in SUBSET Ids,
           NEW t \in States, t = ReleaseAll(ForceAll(s, F), {}),
           NEW f \in States, f = ForceAll(s, F),
           NEW x \in Ids, NEW v, Right(s, x, v)
    PROVE  Right(t, x, v)
<1>1. Right(f, x, v)
  BY ForceRight
<1>2. t = ReleaseAll(f, {})
  OBVIOUS
<1>3. /\ t.held = f.held /\ t.addr = f.addr /\ t.reg = f.reg
      /\ t.onStack = f.onStack /\ t.mem = f.mem
      /\ t.force[x] = f.force[x]
  BY <1>2 DEF ReleaseAll, States
<1>. QED  BY <1>1, <1>3, RightSame

-----------------------------------------------------------------------------
(* Slots of forced identifiers that have overtaken a register. *)

\* Between s and t the slot of x has been overwritten if, and only if, the
\* register had another value, and now they agree.
Synced(s, t, r, x) ==
    /\ InSync(t, r, x)
    /\ t.mem[x] = s.mem[x] <=> InSync(s, r, x)

\* That, or r has not been dumped.
Syncs(s, t, r, x) ==
    \/ Synced(s, t, r, x)
    \/ t.mem[x] = s.mem[x] /\ (InSync(t, r, x) <=> InSync(s, r, x))

\* Dumping a register overwrites the slot of an identifier that it has alone
\* exactly when the two differ; afterwards they agree.
LEMMA DumpSyncs ==
    ASSUME NEW s \in States, NEW r \in Regs, NEW keep \in Keepers,
           NEW t, t = Dump(s, r, keep),
           NEW x \in Ids, s.onStack[x]
    PROVE  /\ x # keep => Synced(s, t, r, x) /\ t.held[r][x] = 0
           /\ x = keep => t.mem[x] = s.mem[x]
           /\ t.onStack[x]
<1>1. CASE Hit(s, r, keep, x) /\ Len(s.addr[x]) = 1
  <2>1. t.held[r][x] = 0 /\ x # keep /\ t.mem[x] = s.reg[r] /\ t.onStack[x]
    BY <1>1, DumpFields DEF Hit
  <2>. QED  BY <1>1, <2>1 DEF Synced, InSync, Hit
<1>2. CASE ~(Hit(s, r, keep, x) /\ Len(s.addr[x]) = 1)
  <2>1. t.mem[x] = s.mem[x] /\ t.onStack[x]
    BY <1>2, DumpFields
  <2>2. x # keep => t.held[r][x] = 0
    BY DumpFields
  <2>. QED  BY <1>2, <2>1, <2>2 DEF Synced, InSync, Hit
<1>. QED  BY <1>1, <1>2

\* The same of ensure_register.
LEMMA EnsureSyncs ==
    ASSUME NEW s \in States, NEW id \in Ids, NEW r \in Regs,
           NEW t, t = Ensure(s, id, r),
           NEW x \in Ids, s.onStack[x], s.force[x]
    PROVE  /\ Syncs(s, t, r, x)
           /\ ~Loaded(s, id, r) => Synced(s, t, r, x)
           /\ t.onStack[x]
           /\ t.force[x]
<1>1. CASE Loaded(s, id, r)
  BY <1>1 DEF Ensure, Syncs
<1>2. CASE ~Loaded(s, id, r)
  <2>1. NoId \in Keepers /\ x # NoId
    BY AllocatorAssumption DEF Keepers
  <2>2. PICK d \in States : d = Dump(s, r, NoId) /\ d.force = s.force
    BY <2>1, DumpFields
  <2>3. Synced(s, d, r, x) /\ d.held[r][x] = 0 /\ d.onStack[x]
    BY <2>1, <2>2, DumpSyncs
  <2>4. PutIn(s, d, t, id, r)
    BY <1>2, <2>2, EnsureFields
  <2>5. t.mem[x] = d.mem[x] /\ t.onStack[x] /\ t.force[x]
    BY <2>2, <2>3, <2>4 DEF PutIn
  <2>6. CASE x = id
    <3>1. t.reg[r] = t.mem[x]
      BY <2>3, <2>4, <2>6 DEF PutIn, Source
    <3>. QED  BY <2>3, <2>5, <3>1 DEF Syncs, Synced, InSync
  <2>7. CASE x # id
    <3>1. t.held[r][x] = 0
      BY <2>4, <2>7 DEF PutIn
    <3>. QED  BY <2>3, <2>5, <3>1 DEF Syncs, Synced, InSync
  <2>. QED  BY <2>6, <2>7
<1>. QED  BY <1>1, <1>2

\* The same of loading a constant.
LEMMA ConstSyncs ==
    ASSUME NEW s \in States, NEW r \in Regs, NEW c \in Vals,
           NEW t, t = WithConst(s, r, c),
           NEW x \in Ids, s.onStack[x], s.force[x]
    PROVE  Synced(s, t, r, x) /\ t.onStack[x] /\ t.force[x]
<1>1. NoId \in Keepers /\ x # NoId
  BY AllocatorAssumption DEF Keepers
<1>2. PICK d \in States : d = Dump(s, r, NoId) /\ d.force = s.force
  BY <1>1, DumpFields
<1>3. t = Put(d, r, c, d.aborted) /\ d.aborted \in BOOLEAN
  BY <1>2 DEF Put, WithConst, States
<1>4. PutFrom(d, t, r, c, d.aborted)
  BY <1>3, PutFields
<1>5. Synced(s, d, r, x) /\ d.held[r][x] = 0 /\ d.onStack[x]
  BY <1>1, <1>2, DumpSyncs
<1>6. t.held[r][x] = 0 /\ t.mem[x] = d.mem[x] /\ t.onStack[x] /\ t.force[x]
  BY <1>2, <1>4, <1>5 DEF PutFrom
<1>. QED  BY <1>5, <1>6 DEF Synced, InSync

\* The same of loading the first operand.
LEMMA LoadFirstSyncs ==
    ASSUME NEW s \in States, NEW id \in Ids, NEW a \in Args, NEW r \in Regs,
           NEW l, l = LoadFirst(s, id, a, r),
           NEW x \in Ids, s.onStack[x], s.force[x]
    PROVE  Syncs(s, l, r, x) /\ l.onStack[x]
<1>1. PICK e \in States : e = Ensure(s, id, r)
  BY EnsureType
<1>2. Syncs(s, e, r, x) /\ e.onStack[x] /\ e.force[x]
  BY <1>1, EnsureSyncs
<1>3. CASE a = id
  BY <1>1, <1>2, <1>3 DEF LoadFirst
<1>4. CASE a # id /\ a \in Vals
  <2>1. l = WithConst(e, r, a)
    BY <1>1, <1>4 DEF LoadFirst, IsConst, WithConst
  <2>2. Synced(e, l, r, x) /\ l.onStack[x]
    BY <1>2, <1>4, <2>1, ConstSyncs
  <2>. QED  BY <1>2, <2>2 DEF Syncs, Synced
<1>5. CASE a # id /\ a \notin Vals
  <2>1. a \in Ids /\ l = Ensure(e, a, r)
    BY <1>1, <1>5 DEF LoadFirst, IsConst, Args
  <2>2. Syncs(e, l, r, x) /\ l.onStack[x]
    BY <1>2, <2>1, EnsureSyncs
  <2>. QED  BY <1>2, <2>2 DEF Syncs, Synced
<1>. QED  BY <1>3, <1>4, <1>5

\* In each instruction that dumps a register r: a slot that is current, not
\* that of the result, stays so, and if it is what it was then r agreed with it.
LEMMA BinarySyncs ==
    ASSUME NEW s \in States, NEW id \in Ids, NEW a \in Args, NEW b \in Args,
           NEW r, r = PickReg(s, id),
           NEW t, t = BinaryOp(s, id, a, b),
           NEW x \in Ids \ {id}, s.onStack[x], s.force[x]
    PROVE  t.onStack[x] /\ (t.mem[x] = s.mem[x] => InSync(s, r, x))
<1>1. r \in Regs
  BY PickRegType DEF Keepers
<1>2. PICK l \in States : l = LoadFirst(s, id, a, r)
  BY <1>1, LoadFirstType
<1>3. PICK d \in States : d = Dump(l, r, id) /\ d.reg = l.reg
  BY <1>1, DumpFields DEF Keepers
<1>4. PICK w : w = ArgValue([l EXCEPT !.mem = d.mem], b)
  OBVIOUS
<1>5. PICK n : n = (d.aborted \/ ~ArgLegible(l, b))
  OBVIOUS
<1>6. w \in Vals
  BY <1>1, <1>3, <1>4, SecondOperand
<1>7. PICK c : c = Arith(d.reg[r], w)
  OBVIOUS
<1>8. c \in Vals /\ n \in BOOLEAN
  BY <1>1, <1>5, <1>6, <1>7, AllocatorAssumption DEF States
<1>9. PICK e \in States : e = Put(d, r, c, n) /\ e.mem = d.mem /\ e.onStack = d.onStack
  BY <1>1, <1>8, PutFields DEF PutFrom
<1>10. t = Settle(e, id, r)
  BY <1>2, <1>3, <1>4, <1>5, <1>7, <1>9 DEF BinaryOp, Put
<1>11. t.mem[x] = d.mem[x] /\ t.onStack[x] = d.onStack[x]
  BY <1>1, <1>9, <1>10, SettleFields
<1>12. Syncs(s, l, r, x) /\ l.onStack[x]
  BY <1>1, <1>2, LoadFirstSyncs
<1>13. Synced(l, d, r, x) /\ d.onStack[x]
  BY <1>1, <1>3, <1>12, DumpSyncs DEF Keepers
<1>. QED  BY <1>11, <1>12, <1>13 DEF Syncs, Synced

\* An assignment of a constant that leaves a forced identifier's slot as it was
\* had its register in step with that slot.
LEMMA FreeConstSyncs ==
    ASSUME NEW s \in States, NEW id \in Ids, NEW c \in Vals,
           NEW r, r = PickReg(s, id),
           NEW t, t = AssignFreeConst(s, id, c),
           NEW x \in Ids \ {id}, s.onStack[x], s.force[x]
    PROVE  t.onStack[x] /\ (t.mem[x] = s.mem[x] => InSync(s, r, x))
<1>1. r \in Regs
  BY PickRegType DEF Keepers
<1>2. PICK l \in States : l = Ensure(s, id, r)
  BY <1>1, EnsureType
<1>3. PICK d \in States : d = Dump(l, r, id)
  BY <1>1, DumpFields DEF Keepers
<1>4. d.aborted \in BOOLEAN
  BY DEF States
<1>5. PICK e \in States : /\ e = Put(d, r, c, d.aborted)
                         /\ e.mem = d.mem /\ e.onStack = d.onStack
  BY <1>1, <1>4, PutFields DEF PutFrom
<1>6. [d EXCEPT !.reg[r] = c] = e
  BY <1>5 DEF Put, States
<1>7. t = Settle(e, id, r)
  BY <1>2, <1>3, <1>6 DEF AssignFreeConst
<1>8. t.mem[x] = d.mem[x] /\ t.onStack[x] = d.onStack[x]
  BY <1>1, <1>5, <1>7, SettleFields
<1>9. Syncs(s, l, r, x) /\ l.onStack[x]
  BY <1>1, <1>2, EnsureSyncs
<1>10. Synced(l, d, r, x) /\ d.onStack[x]
  BY <1>1, <1>3, <1>9, DumpSyncs DEF Keepers
<1>. QED  BY <1>8, <1>9, <1>10 DEF Syncs, Synced

\* The same of an assignment of an identifier.
LEMMA IdentSyncs ==
    ASSUME NEW s \in States, NEW id \in Ids, NEW y \in Ids,
           NEW r, r = PickReg(s, y),
           NEW t, t = AssignFromIdent(s, id, y),
           NEW x \in Ids \ {id}, s.onStack[x], s.force[x]
    PROVE  /\ t.onStack[x]
           /\ ~Loaded(s, y, r) /\ t.mem[x] = s.mem[x] => InSync(s, r, x)
<1>1. r \in Regs
  BY PickRegType DEF Keepers
<1>2. PICK e \in States : e = Ensure(s, y, r)
  BY <1>1, EnsureType
<1>3. PICK d \in States : d = Relisted(e, id, r) /\ RelistedFrom(e, d, id, r)
  <2>1. RelistedFrom(e, Relisted(e, id, r), id, r)
    BY <1>1, <1>2, RelistedFields
  <2>. QED  BY <2>1 DEF RelistedFrom
<1>4. t = Settle(d, id, r)
  BY <1>2, <1>3 DEF AssignFromIdent, Relisted
<1>5. t.mem[x] = e.mem[x] /\ t.onStack[x] = e.onStack[x]
  <2>1. t.mem[x] = d.mem[x] /\ t.onStack[x] = d.onStack[x]
    BY <1>1, <1>4, SettleFields
  <2>2. d.mem = e.mem /\ d.onStack = e.onStack
    BY <1>3 DEF RelistedFrom
  <2>. QED  BY <2>1, <2>2
<1>6. e.onStack[x] /\ (~Loaded(s, y, r) => Synced(s, e, r, x))
  BY <1>1, <1>2, EnsureSyncs
<1>. QED  BY <1>5, <1>6 DEF Synced

\* The same of a comparison of two constants.
LEMMA ConstsSyncs ==
    ASSUME NEW s \in States, NEW a \in Vals,
           NEW r, r = PickReg(s, NoId),
           NEW t, t = CondConsts(s, a),
           NEW x \in Ids, s.onStack[x], s.force[x]
    PROVE  t.onStack[x] /\ (t.mem[x] = s.mem[x] => InSync(s, r, x))
<1>1. r \in Regs
  BY PickRegType DEF Keepers
<1>2. t = WithConst(s, r, a)
  BY DEF CondConsts, WithConst
<1>3. Synced(s, t, r, x) /\ t.onStack[x]
  BY <1>1, <1>2, ConstSyncs
<1>. QED  BY <1>3 DEF Synced

\* The same of a comparison of two identifiers on the stack.
LEMMA OnStackSyncs ==
    ASSUME NEW s \in States, NEW a \in Ids,
           NEW r, r = PickReg(s, a),
           NEW t, t = CondOnStack(s, a),
           NEW x \in Ids, s.onStack[x], s.force[x]
    PROVE  t.onStack[x] /\ (t.mem[x] = s.mem[x] => InSync(s, r, x))
<1>1. r \in Regs
  BY PickRegType DEF Keepers
<1>2. PICK l \in States : l = Ensure(s, a, r)
  BY <1>1, EnsureType
<1>3. PICK d \in States : d = Dump(l, r, a)
  BY <1>1, DumpFields DEF Keepers
<1>4. t.mem = d.mem /\ t.onStack = d.onStack
  BY <1>2, <1>3 DEF CondOnStack, States
<1>5. Syncs(s, l, r, x) /\ l.onStack[x]
  BY <1>1, <1>2, EnsureSyncs
<1>6. CASE x # a
  <2>1. Synced(l, d, r, x) /\ d.onStack[x]
    BY <1>1, <1>3, <1>5, <1>6, DumpSyncs DEF Keepers
  <2>. QED  BY <1>4, <1>5, <2>1 DEF Syncs, Synced
<1>7. CASE x = a
  <2>1. d.mem[x] = l.mem[x] /\ d.onStack[x]
    BY <1>1, <1>3, <1>5, <1>7, DumpSyncs DEF Keepers
  <2>2. Synced(s, l, r, x)
    BY <1>1, <1>2, <1>7, EnsureSyncs DEF Loaded
  <2>. QED  BY <1>4, <2>1, <2>2 DEF Synced
<1>. QED  BY <1>6, <1>7

\* A result that is read, and whose register has the value of its slot.
LEMMA ResultSyncs ==
    ASSUME NEW s \in States, NEW id \in Ids,
           NEW r, r = PickReg(s, id),
           ~(Len(s.addr[id]) = 1 /\ s.reg[Head(s.addr[id])] # s.mem[id])
    PROVE  InSync(s, r, id)
<1>1. s.addr[id] \in Seq(Regs)
  BY DEF States
<1>2. id # NoId
  BY AllocatorAssumption
<1>3. s.addr[id] # << >> => r = Head(s.addr[id])
  <2>1. SUFFICES ASSUME s.addr[id] # << >> PROVE r = Head(s.addr[id])
    OBVIOUS
  <2>2. PICK C : C = Candidates(s, id)
    OBVIOUS
  <2>3. C = {Head(s.addr[id])}
    BY <1>2, <2>1, <2>2 DEF Candidates
  <2>4. r = CHOOSE k \in C : \A q \in C : k =< q
    BY <2>2 DEF PickReg
  <2>5. Head(s.addr[id]) \in Nat
    BY <1>1, <2>1, AllocatorAssumption DEF Regs
  <2>6. Head(s.addr[id]) \in C /\ \A q \in C : Head(s.addr[id]) =< q
    BY <2>3, <2>5
  <2>7. r \in C
    BY <2>4, <2>6
  <2>. QED  BY <2>3, <2>7
<1>4. Len(s.addr[id]) = 1 => s.addr[id] # << >>
  OBVIOUS
<1>. QED  BY <1>3, <1>4 DEF InSync

-----------------------------------------------------------------------------
(* The descriptors do not depend on the machine. *)

Alike(s, t) ==
    /\ s.held = t.held
    /\ s.addr = t.addr
    /\ s.onStack = t.onStack
    /\ s.force = t.force
    /\ s.aborted = t.aborted

\* The choice of a register depends on the descriptors only.
LEMMA PickRegAlike ==
    ASSUME NEW s \in States, NEW t \in States, Alike(s, t), NEW id \in Keepers
    PROVE  PickReg(s, id) = PickReg(t, id)
<1>1. \A r \in Regs : Score(s, r, id) = Score(t, r, id)
  BY DEF Score, Alike
<1>2. EmptyRegs(s) = EmptyRegs(t) /\ CheapestRegs(s, id) = CheapestRegs(t, id)
  BY <1>1 DEF EmptyRegs, CheapestRegs, Alike
<1>3. Candidates(s, id) = Candidates(t, id)
  BY <1>2 DEF Candidates, Alike
<1>. QED  BY ONLY <1>3, Zenon DEF PickReg

\* What dump_reg does to the descriptors depends on the descriptors only.
LEMMA DumpAlike ==
    ASSUME NEW s \in States, NEW t \in States, Alike(s, t),
           NEW r \in Regs, NEW keep \in Keepers
    PROVE  Alike(Dump(s, r, keep), Dump(t, r, keep))
<1>1. PICK H : H = {id \in Ids \ {keep} : s.held[r][id] > 0}
  OBVIOUS
<1>2. PICK S : S = {id \in H : Len(s.addr[id]) = 1}
  OBVIOUS
<1>3. PICK A : A = [id \in Ids |-> IF id \in H THEN RemoveFirst(s.addr[id], r)
                                   ELSE s.addr[id]]
  OBVIOUS
<1>4. PICK a : a = (s.aborted \/ \E id \in H : Occurrences(s.addr[id], r) < s.held[r][id])
  OBVIOUS
<1>5. ASSUME NEW u \in States, Alike(s, u)
      PROVE  LET d == Dump(u, r, keep)
             IN  /\ d.held = [s.held EXCEPT ![r] = [id \in Ids |-> IF id = keep THEN 1 ELSE 0]]
                 /\ d.addr = A
                 /\ d.onStack = [id \in Ids |-> s.onStack[id] \/ id \in S]
                 /\ d.force = s.force
                 /\ d.aborted = a
  <2>1. {id \in Ids \ {keep} : u.held[r][id] > 0} = H
    BY <1>1, <1>5 DEF Alike
  <2>2. {id \in H : Len(u.addr[id]) = 1} = S
    BY <1>2, <1>5 DEF Alike
  <2>3. Dump(u, r, keep) =
          [u EXCEPT
            !.aborted = u.aborted \/ \E id \in H : Occurrences(u.addr[id], r) < u.held[r][id],
            !.addr    = [id \in Ids |-> IF id \in H THEN RemoveFirst(u.addr[id], r)
                                        ELSE u.addr[id]],
            !.mem     = [id \in Ids |-> IF id \in S THEN u.reg[r] ELSE u.mem[id]],
            !.onStack = [id \in Ids |-> u.onStack[id] \/ id \in S],
            !.held[r] = [id \in Ids |-> IF id = keep THEN 1 ELSE 0]]
    BY <2>1, <2>2 DEF Dump
  <2>. QED  BY <1>3, <1>4, <1>5, <2>3 DEF Alike, States
<1>. QED  BY <1>5 DEF Alike

\* The same of ensure_register.
LEMMA EnsureAlike ==
    ASSUME NEW s \in States, NEW t \in States, Alike(s, t),
           NEW id \in Ids, NEW r \in Regs
    PROVE  Alike(Ensure(s, id, r), Ensure(t, id, r))
<1>1. Loaded(s, id, r) <=> Loaded(t, id, r)
  BY DEF Loaded, Alike
<1>2. PICK d \in States : d = Dump(s, r, NoId)
  BY DumpFields DEF Keepers
<1>3. PICK e \in States : e = Dump(t, r, NoId)
  BY DumpFields DEF Keepers
<1>4. Alike(d, e)
  BY <1>2, <1>3, DumpAlike DEF Keepers
<1>5. CASE Loaded(s, id, r)
  BY <1>1, <1>5 DEF Ensure
<1>6. CASE ~Loaded(s, id, r)
  <2>1. PICK h : h = [d.held EXCEPT ![r][id] = @ + 1]
    OBVIOUS
  <2>2. PICK q : q = [d.addr EXCEPT ![id] = Cons(r, @)]
    OBVIOUS
  <2>3. ASSUME NEW u, NEW f \in States, f = Dump(u, r, NoId), ~Loaded(u, id, r),
               Alike(d, f)
        PROVE  LET x == Ensure(u, id, r)
               IN  /\ x.held = h /\ x.addr = q /\ x.onStack = d.onStack
                   /\ x.force = d.force /\ x.aborted = d.aborted
    <3>1. PICK v : Ensure(u, id, r) =
                     [f EXCEPT !.held[r][id] = @ + 1, !.addr[id] = Cons(r, @), !.reg[r] = v]
      BY <2>3 DEF Ensure
    <3>. QED  BY <2>1, <2>2, <2>3, <3>1 DEF Alike, States
  <2>. QED  BY <1>1, <1>2, <1>3, <1>4, <1>6, <2>3 DEF Alike
<1>. QED  BY <1>5, <1>6

\* The same of the end of an assignment or operation.
LEMMA SettleAlike ==
    ASSUME NEW s \in States, NEW t \in States, Alike(s, t),
           NEW id \in Ids, NEW r \in Regs
    PROVE  Alike(Settle(s, id, r), Settle(t, id, r))
BY DEF Alike, Settle, States

\* The same of the corrected listings.
LEMMA RelistedAlike ==
    ASSUME NEW s \in States, NEW t \in States, Alike(s, t),
           NEW id \in Ids, NEW r \in Regs
    PROVE  Alike(Relisted(s, id, r), Relisted(t, id, r))
<1>1. PICK h : h = [q \in Regs |->
                      [s.held[q] EXCEPT ![id] =
                          IF Occurrences(s.addr[id], q) < s.held[q][id]
                          THEN s.held[q][id] - Occurrences(s.addr[id], q)
                          ELSE 0]]
  OBVIOUS
<1>2. RemoveFromRegs(s, id) = [s EXCEPT !.held = h]
  BY <1>1 DEF RemoveFromRegs
<1>3. RemoveFromRegs(t, id) = [t EXCEPT !.held = h]
  BY <1>1 DEF RemoveFromRegs, Alike
<1>. QED  BY <1>2, <1>3 DEF Relisted, Alike, States

\* compile_unary, an identifier.
LEMMA IdentAlike ==
    ASSUME NEW s \in States, NEW t \in States, Alike(s, t),
           NEW id \in Ids, NEW y \in Ids
    PROVE  /\ AssignFromIdent(s, id, y) \in States
           /\ Alike(AssignFromIdent(s, id, y), AssignFromIdent(t, id, y))
<1>1. PICK r \in Regs : r = PickReg(s, y) /\ r = PickReg(t, y)
  BY PickRegType, PickRegAlike DEF Keepers
<1>2. PICK d \in States : d = Ensure(s, y, r)
  BY EnsureType
<1>3. PICK e \in States : e = Ensure(t, y, r)
  BY EnsureType
<1>4. Alike(d, e)
  BY <1>2, <1>3, EnsureAlike
<1>5. Relisted(d, id, r) \in States /\ Relisted(e, id, r) \in States
  BY RelistedFields DEF RelistedFrom
<1>6. Alike(Relisted(d, id, r), Relisted(e, id, r))
  BY <1>4, RelistedAlike
<1>7. /\ AssignFromIdent(s, id, y) = Settle(Relisted(d, id, r), id, r)
      /\ AssignFromIdent(t, id, y) = Settle(Relisted(e, id, r), id, r)
  BY <1>1, <1>2, <1>3 DEF AssignFromIdent, Relisted
<1>. QED  BY <1>5, <1>6, <1>7, SettleAlike, SettleFields

\* The end of compile_binary, and of the assignment of a constant.
LEMMA ResultAlike ==
    ASSUME NEW s \in States, NEW t \in States, Alike(s, t),
           NEW id \in Ids, NEW r \in Regs, NEW c \in Vals, NEW e \in Vals,
           NEW a \in BOOLEAN
    PROVE  /\ Settle(Put(s, r, c, a), id, r) \in States
           /\ Alike(Settle(Put(s, r, c, a), id, r), Settle(Put(t, r, e, a), id, r))
<1>1. PutFrom(s, Put(s, r, c, a), r, c, a) /\ PutFrom(t, Put(t, r, e, a), r, e, a)
  BY PutFields
<1>2. /\ Put(s, r, c, a) \in States /\ Put(t, r, e, a) \in States
      /\ Alike(Put(s, r, c, a), Put(t, r, e, a))
  BY <1>1 DEF PutFrom, Alike
<1>. QED  BY <1>2, SettleAlike, SettleFields

\* compile_unary, a constant.
LEMMA FreeConstAlike ==
    ASSUME NEW s \in States, NEW t \in States, Alike(s, t),
           NEW id \in Ids, NEW c \in Vals
    PROVE  /\ AssignFreeConst(s, id, c) \in States
           /\ Alike(AssignFreeConst(s, id, c), AssignFreeConst(t, id, c))
<1>1. PICK r \in Regs : r = PickReg(s, id) /\ r = PickReg(t, id)
  BY PickRegType, PickRegAlike DEF Keepers
<1>2. PICK l \in States : l = Ensure(s, id, r)
  BY EnsureType
<1>3. PICK m \in States : m = Ensure(t, id, r)
  BY EnsureType
<1>4. PICK d \in States : d = Dump(l, r, id)
  BY DumpFields DEF Keepers
<1>5. PICK e \in States : e = Dump(m, r, id)
  BY DumpFields DEF Keepers
<1>6. Alike(d, e)
  <2>1. Alike(l, m)
    BY <1>2, <1>3, EnsureAlike
  <2>. QED  BY <2>1, <1>4, <1>5, DumpAlike DEF Keepers
<1>7. PICK a \in BOOLEAN : a = d.aborted /\ a = e.aborted
  BY <1>6 DEF Alike, States
<1>8. [d EXCEPT !.reg[r] = c] = Put(d, r, c, a) /\ [e EXCEPT !.reg[r] = c] = Put(e, r, c, a)
  <2>1. ASSUME NEW f \in States, f.aborted = a
        PROVE  [f EXCEPT !.reg[r] = c] = Put(f, r, c, a)
    BY <2>1 DEF Put, States
  <2>. QED  BY <1>7, <2>1
<1>9. /\ AssignFreeConst(s, id, c) = Settle(Put(d, r, c, a), id, r)
      /\ AssignFreeConst(t, id, c) = Settle(Put(e, r, c, a), id, r)
  BY <1>1, <1>2, <1>3, <1>4, <1>5, <1>8 DEF AssignFreeConst
<1>. QED  BY <1>6, <1>9, ResultAlike

\* The same of a constant assigned to a forced identifier.
LEMMA ForcedConstAlike ==
    ASSUME NEW s \in States, NEW t \in States, Alike(s, t),
           NEW id \in Ids, NEW c \in Vals
    PROVE  /\ AssignForcedConst(s, id, c) \in States
           /\ Alike(AssignForcedConst(s, id, c), AssignForcedConst(t, id, c))
<1>1. [s.addr EXCEPT ![id] = << >>] \in [Ids -> Seq(Regs)]
  BY DEF States
<1>2. /\ [s.onStack EXCEPT ![id] = TRUE] \in [Ids -> BOOLEAN]
      /\ [s.mem EXCEPT ![id] = c] \in [Ids -> Vals]
  BY DEF States
<1>. QED  BY <1>1, <1>2 DEF Alike, AssignForcedConst, States

\* Loading a constant.
LEMMA ConstAlike ==
    ASSUME NEW s \in States, NEW t \in States, Alike(s, t),
           NEW r \in Regs, NEW c \in Vals
    PROVE  /\ WithConst(s, r, c) \in States
           /\ Alike(WithConst(s, r, c), WithConst(t, r, c))
<1>1. PICK d \in States : d = Dump(s, r, NoId)
  BY DumpFields DEF Keepers
<1>2. PICK e \in States : e = Dump(t, r, NoId)
  BY DumpFields DEF Keepers
<1>3. Alike(d, e)
  BY <1>1, <1>2, DumpAlike DEF Keepers
<1>4. [d.reg EXCEPT ![r] = c] \in [Regs -> Vals]
  BY DEF States
<1>. QED  BY <1>1, <1>2, <1>3, <1>4 DEF WithConst, Alike, States

\* The same of loading the first operand.
LEMMA LoadFirstAlike ==
    ASSUME NEW s \in States, NEW t \in States, Alike(s, t),
           NEW id \in Ids, NEW a \in Args, NEW r \in Regs
    PROVE  Alike(LoadFirst(s, id, a, r), LoadFirst(t, id, a, r))
<1>1. PICK d \in States : d = Ensure(s, id, r)
  BY EnsureType
<1>2. PICK e \in States : e = Ensure(t, id, r)
  BY EnsureType
<1>3. Alike(d, e)
  BY <1>1, <1>2, EnsureAlike
<1>4. CASE a = id
  BY <1>1, <1>2, <1>3, <1>4 DEF LoadFirst
<1>5. CASE a # id /\ a \in Vals
  <2>1. LoadFirst(s, id, a, r) = WithConst(d, r, a) /\ LoadFirst(t, id, a, r) = WithConst(e, r, a)
    BY <1>1, <1>2, <1>5 DEF LoadFirst, IsConst, WithConst
  <2>. QED  BY <1>3, <1>5, <2>1, ConstAlike
<1>6. CASE a # id /\ a \notin Vals
  <2>1. /\ LoadFirst(s, id, a, r) = Ensure(d, a, r)
        /\ LoadFirst(t, id, a, r) = Ensure(e, a, r)
        /\ a \in Ids
    BY <1>1, <1>2, <1>6 DEF LoadFirst, IsConst, Args
  <2>. QED  BY <1>3, <2>1, EnsureAlike
<1>. QED  BY <1>4, <1>5, <1>6

\* compile_binary.
LEMMA BinaryAlike ==
    ASSUME NEW s \in States, NEW t \in States, Alike(s, t),
           NEW id \in Ids, NEW a \in Args, NEW b \in Args
    PROVE  /\ BinaryOp(s, id, a, b) \in States
           /\ Alike(BinaryOp(s, id, a, b), BinaryOp(t, id, a, b))
<1>1. PICK r \in Regs : r = PickReg(s, id) /\ r = PickReg(t, id)
  BY PickRegType, PickRegAlike DEF Keepers
<1>2. PICK l \in States : l = LoadFirst(s, id, a, r)
  BY LoadFirstType
<1>3. PICK m \in States : m = LoadFirst(t, id, a, r)
  BY LoadFirstType
<1>4. PICK d \in States : d = Dump(l, r, id)
  BY DumpFields DEF Keepers
<1>5. PICK e \in States : e = Dump(m, r, id)
  BY DumpFields DEF Keepers
<1>6. Alike(l, m)
  BY <1>2, <1>3, LoadFirstAlike
<1>7. Alike(d, e)
  BY <1>6, <1>4, <1>5, DumpAlike DEF Keepers
<1>8. PICK n \in BOOLEAN : /\ n = (d.aborted \/ ~ArgLegible(l, b))
                           /\ n = (e.aborted \/ ~ArgLegible(m, b))
  <2>1. ArgLegible(l, b) <=> ArgLegible(m, b)
    BY <1>6 DEF ArgLegible, Legible, Alike
  <2>2. (d.aborted \/ ~ArgLegible(l, b)) <=> (e.aborted \/ ~ArgLegible(m, b))
    BY <1>7, <2>1 DEF Alike
  <2>. QED  BY <2>2
<1>9. PICK v \in Vals : v = ArgValue([l EXCEPT !.mem = d.mem], b)
  BY <1>4, SecondOperand
<1>10. PICK w \in Vals : w = ArgValue([m EXCEPT !.mem = e.mem], b)
  BY <1>5, SecondOperand
<1>11. Arith(d.reg[r], v) \in Vals /\ Arith(e.reg[r], w) \in Vals
  <2>1. d.reg[r] \in Vals /\ e.reg[r] \in Vals
    BY DEF States
  <2>2. \A p, q \in Vals : Arith(p, q) \in Vals
    BY AllocatorAssumption
  <2>. QED  BY <2>1, <2>2
<1>12. /\ BinaryOp(s, id, a, b) = Settle(Put(d, r, Arith(d.reg[r], v), n), id, r)
       /\ BinaryOp(t, id, a, b) = Settle(Put(e, r, Arith(e.reg[r], w), n), id, r)
  BY <1>1, <1>2, <1>3, <1>4, <1>5, <1>8, <1>9, <1>10 DEF BinaryOp, Put
<1>. QED  BY <1>7, <1>11, <1>12, ResultAlike

\* compile_cond, both operands on the stack.
OnceMore(d, a, r) ==
    LET e == [d EXCEPT !.addr[a] = Cons(r, @)]
    IN  [e EXCEPT !.reg[r] = Read(e, a)]

\* The same of a comparison of two identifiers on the stack.
LEMMA OnStackAlike ==
    ASSUME NEW s \in States, NEW t \in States, Alike(s, t), NEW a \in Ids
    PROVE  /\ CondOnStack(s, a) \in States
           /\ Alike(CondOnStack(s, a), CondOnStack(t, a))
<1>1. PICK r \in Regs : r = PickReg(s, a) /\ r = PickReg(t, a)
  BY PickRegType, PickRegAlike DEF Keepers
<1>2. PICK l \in States : l = Ensure(s, a, r)
  BY EnsureType
<1>3. PICK m \in States : m = Ensure(t, a, r)
  BY EnsureType
<1>4. PICK d \in States : d = Dump(l, r, a)
  BY DumpFields DEF Keepers
<1>5. PICK e \in States : e = Dump(m, r, a)
  BY DumpFields DEF Keepers
<1>6. Alike(d, e)
  <2>1. Alike(l, m)
    BY <1>2, <1>3, EnsureAlike
  <2>. QED  BY <2>1, <1>4, <1>5, DumpAlike DEF Keepers
<1>7. PICK q : q = [d.addr EXCEPT ![a] = Cons(r, @)]
  OBVIOUS
<1>8. q \in [Ids -> Seq(Regs)]
  <2>1. d.addr[a] \in Seq(Regs)
    BY DEF States
  <2>2. Cons(r, d.addr[a]) \in Seq(Regs)
    BY <2>1, ConsElements DEF IsCons
  <2>. QED  BY <1>7, <2>2 DEF States
<1>9. ASSUME NEW f \in States, Alike(d, f)
      PROVE  LET x == OnceMore(f, a, r)
             IN  /\ x \in States
                 /\ x.held = d.held /\ x.addr = q /\ x.onStack = d.onStack
                 /\ x.force = d.force /\ x.aborted = d.aborted
  <2>1. PICK c : c = [f EXCEPT !.addr[a] = Cons(r, @)]
    OBVIOUS
  <2>2. /\ c \in States
        /\ c.held = d.held /\ c.addr = q /\ c.onStack = d.onStack
        /\ c.force = d.force /\ c.aborted = d.aborted
    BY <1>7, <1>8, <1>9, <2>1 DEF Alike, States
  <2>3. PICK v \in Vals : v = Read(c, a)
    BY <2>2, ReadType
  <2>4. OnceMore(f, a, r) = [c EXCEPT !.reg[r] = v]
    BY <2>1, <2>3 DEF OnceMore
  <2>5. [c.reg EXCEPT ![r] = v] \in [Regs -> Vals]
    BY <2>2, <2>3 DEF States
  <2>6. PICK x : x = [c EXCEPT !.reg[r] = v]
    OBVIOUS
  <2>7. /\ x \in States
        /\ x.held = c.held /\ x.addr = c.addr /\ x.onStack = c.onStack
        /\ x.force = c.force /\ x.aborted = c.aborted
    BY <2>2, <2>5, <2>6 DEF States
  <2>. QED  BY <2>2, <2>4, <2>6, <2>7
<1>10. CondOnStack(s, a) = OnceMore(d, a, r) /\ CondOnStack(t, a) = OnceMore(e, a, r)
  BY <1>1, <1>2, <1>3, <1>4, <1>5 DEF CondOnStack, OnceMore
<1>11. Alike(d, d)
  BY DEF Alike
<1>. QED  BY <1>6, <1>9, <1>10, <1>11 DEF Alike

\* compile_cond.
LEMMA ComparedAlike ==
    ASSUME NEW s \in States, NEW t \in States, Alike(s, t),
           NEW a \in Args, NEW b \in Args
    PROVE  /\ Compared(s, a, b) \in States
           /\ Alike(Compared(s, a, b), Compared(t, a, b))
<1>1. BothOnStack(s, a, b) <=> BothOnStack(t, a, b)
  BY DEF BothOnStack, Alike
<1>2. CASE BothConst(a, b)
  <2>1. PICK r \in Regs : r = PickReg(s, NoId) /\ r = PickReg(t, NoId)
    BY PickRegType, PickRegAlike DEF Keepers
  <2>2. /\ Compared(s, a, b) = WithConst(s, r, a)
        /\ Compared(t, a, b) = WithConst(t, r, a)
        /\ a \in Vals
    BY <1>2, <2>1 DEF Compared, CondConsts, WithConst, BothConst, IsConst
  <2>. QED  BY <2>2, ConstAlike
<1>3. CASE ~BothConst(a, b) /\ BothOnStack(s, a, b)
  <2>1. /\ Compared(s, a, b) = CondOnStack(s, a)
        /\ Compared(t, a, b) = CondOnStack(t, a)
        /\ a \in Ids
    BY <1>1, <1>3 DEF Compared, BothOnStack, IsConst, Args
  <2>. QED  BY <2>1, OnStackAlike
<1>4. CASE ~BothConst(a, b) /\ ~BothOnStack(s, a, b)
  <2>1. PICK n \in BOOLEAN : /\ n = (~ArgLegible(s, a) \/ ~ArgLegible(s, b))
                             /\ n = (~ArgLegible(t, a) \/ ~ArgLegible(t, b))
    <3>1. /\ ArgLegible(s, a) <=> ArgLegible(t, a)
          /\ ArgLegible(s, b) <=> ArgLegible(t, b)
      BY DEF ArgLegible, Legible, Alike
    <3>. QED  BY <3>1
  <2>2. /\ Compared(s, a, b) = [s EXCEPT !.aborted = n]
        /\ Compared(t, a, b) = [t EXCEPT !.aborted = n]
    BY <1>1, <1>4, <2>1 DEF Compared
  <2>. QED  BY <2>2 DEF Alike, States
<1>. QED  BY <1>2, <1>3, <1>4

\* print_variable: printf gets its registers saved.
LEMMA PrintAlike ==
    ASSUME NEW s \in States, NEW t \in States, Alike(s, t), NEW x \in Ids
    PROVE  LET u == [CallPrintf(s, s.reg) EXCEPT !.aborted = ~Legible(s, x)]
               v == [CallPrintf(t, t.reg) EXCEPT !.aborted = ~Legible(t, x)]
           IN  u \in States /\ Alike(u, v) /\ u.reg = s.reg /\ u.mem = s.mem
<1>1. \A g \in States : CallPrintf(g, g.reg) = g
  <2>. TAKE g \in States
  <2>1. [r \in Regs |-> IF r \in Clobbered \ Saved THEN g.reg[r] ELSE g.reg[r]] = g.reg
    BY DEF States
  <2>. QED  BY <2>1 DEF CallPrintf, States
<1>2. PICK n \in BOOLEAN : n = ~Legible(s, x) /\ n = ~Legible(t, x)
  <2>1. Legible(s, x) <=> Legible(t, x)
    BY DEF Legible, Alike
  <2>. QED  BY <2>1
<1>. QED  BY <1>1, <1>2 DEF Alike, States

\* perform_instr_actions.
LEMMA ActionsAlike ==
    ASSUME NEW s \in States, NEW t \in States, Alike(s, t),
           NEW F \in SUBSET Ids, NEW R \in SUBSET Ids
    PROVE  /\ ReleaseAll(ForceAll(s, F), R) \in States
           /\ Alike(ReleaseAll(ForceAll(s, F), R), ReleaseAll(ForceAll(t, F), R))
<1>1. PICK f \in States : f = ForceAll(s, F)
  BY ForceAllType
<1>2. PICK g \in States : g = ForceAll(t, F)
  BY ForceAllType
<1>3. Alike(f, g)
  <2>1. PICK S : S = {id \in F : ~s.onStack[id] /\ s.addr[id] # << >>}
    OBVIOUS
  <2>2. S = {id \in F : ~t.onStack[id] /\ t.addr[id] # << >>}
    BY <2>1 DEF Alike
  <2>3. /\ f.held = s.held /\ f.addr = s.addr /\ f.aborted = s.aborted
        /\ f.force = [id \in Ids |-> s.force[id] \/ id \in F]
        /\ f.onStack = [id \in Ids |-> s.onStack[id] \/ id \in S]
    BY <1>1, <2>1 DEF ForceAll, States
  <2>4. /\ g.held = t.held /\ g.addr = t.addr /\ g.aborted = t.aborted
        /\ g.force = [id \in Ids |-> t.force[id] \/ id \in F]
        /\ g.onStack = [id \in Ids |-> t.onStack[id] \/ id \in S]
    BY <1>2, <2>2 DEF ForceAll, States
  <2>. QED  BY <2>3, <2>4 DEF Alike
<1>4. [id \in Ids |-> f.force[id] /\ id \notin R] \in [Ids -> BOOLEAN]
  BY DEF States
<1>. QED  BY <1>1, <1>2, <1>3, <1>4 DEF ReleaseAll, Alike, States

-----------------------------------------------------------------------------
(* One instruction, whatever it is. *)

\* What WellFormed says of an instruction but for its target.
Shape(instr) ==
    /\ instr \in Instructions
    /\ instr.op = "PRINT" => instr.arg \in Ids /\ instr.result = None
    /\ instr.op \in CondOps => /\ instr.arg \in Args /\ instr.arg2 \in Args
                               /\ instr.target # 0 /\ instr.result = None
    /\ instr.op = "GOTO" => instr.target # 0 /\ instr.result = None
    /\ instr.op = "NOP" => instr.result = None
    /\ instr.op = "ASSIGN" => instr.arg \in Args /\ instr.result \in Ids
    /\ instr.op \notin CondOps \cup {"PRINT", "GOTO", "NOP", "ASSIGN"} =>
          /\ instr.arg \in Args /\ instr.arg2 \in Args
          /\ instr.result \in Ids

\* Each instruction of a well-formed program has the shape of its kind.
LEMMA WellFormedAt ==
    ASSUME NEW p, WellFormed(p), NEW i \in 1 .. Len(p)
    PROVE  Shape(p[i]) /\ p[i].target \in 0 .. Len(p) + 1
<1>1. p \in Seq(Instructions) /\ i \in DOMAIN p
  BY DEF WellFormed
<1>2. PICK instr \in Instructions : instr = p[i]
  BY <1>1, ElementOfSeq
<1>3. /\ instr.target =< Len(p) + 1
      /\ CASE instr.op = "PRINT"    -> instr.arg \in Ids /\ instr.result = None
           [] instr.op \in CondOps -> /\ {instr.arg, instr.arg2} \subseteq Args
                                     /\ instr.target # 0 /\ instr.result = None
           [] instr.op = "GOTO"    -> instr.target # 0 /\ instr.result = None
           [] instr.op = "NOP"     -> instr.result = None
           [] instr.op = "ASSIGN"  -> instr.arg \in Args /\ instr.result \in Ids
           [] OTHER                -> /\ {instr.arg, instr.arg2} \subseteq Args
                                     /\ instr.result \in Ids
  BY <1>1, <1>2 DEF WellFormed
<1>4. Len(p) \in Nat /\ instr.target \in Nat
  BY <1>1 DEF Instructions
<1>5. Shape(instr)
  BY <1>3 DEF Shape, CondOps, RelOps
<1>. QED  BY <1>2, <1>3, <1>4, <1>5

\* The value of an operand, and of the result, if val are the values.
Of(val, arg) == IF IsConst(arg) THEN arg ELSE val[arg]

SumOf(val, a, b) ==
    IF Unset \in {Of(val, a), Of(val, b)} THEN Unset ELSE Arith(Of(val, a), Of(val, b))

Updated(instr, val) ==
    IF instr.op = "ASSIGN"
    THEN [val EXCEPT ![instr.result] = Of(val, instr.arg)]
    ELSE IF instr.op \in CondOps \cup {"PRINT", "GOTO", "NOP"} THEN val
    ELSE [val EXCEPT ![instr.result] = SumOf(val, instr.arg, instr.arg2)]

\* Overtaken, of two states.
Lags(instr, s, u, x) ==
    /\ s.force[x]
    /\ s.onStack[x]
    /\ IF x = instr.result
       THEN Len(s.addr[x]) = 1 /\ s.reg[Head(s.addr[x])] # s.mem[x]
       ELSE u.mem[x] # s.mem[x]

\* u has the slots of t, as far as they are current.
SameSlots(t, u) == \A x \in Ids : t.onStack[x] => u.mem[x] = t.mem[x]

\* The identifiers L are right and nothing is lost that t does not show.
Sound(instr, s, u, L, val) ==
    \A x \in L : Right(s, x, val[x]) /\ ~Lags(instr, s, u, x)

Values == [Ids -> Vals \cup {Unset}]

\* An operand that is an identifier is in L.
OperandIn(L, a) == a \in Vals \/ (a \in Ids /\ a \notin Vals /\ a \in L)

\* An operand that is right can be used as one.
LEMMA OperandReady ==
    ASSUME NEW s, NEW r, NEW L \in SUBSET Ids, NEW a, OperandIn(L, a), NEW val,
           \A x \in L : Ready(s, r, x, val[x])
    PROVE  Operand(s, r, a, Of(val, a))
BY DEF Operand, Of, OperandIn, IsConst

\* After an arithmetic instruction what was right is right, and so is the result.
LEMMA BinaryStep ==
    ASSUME NEW s \in States, NEW instr, instr.result \in Ids,
           NEW a \in Args, NEW b \in Args,
           NEW t, t = BinaryOp(s, instr.result, a, b), ~t.aborted,
           NEW u, SameSlots(t, u), NEW L \in SUBSET Ids, NEW val \in Values,
           OperandIn(L, a), OperandIn(L, b), Sound(instr, s, u, L, val),
           NEW x \in Ids, x \in L \/ x = instr.result,
           NEW v, v = IF x = instr.result THEN SumOf(val, a, b) ELSE val[x]
    PROVE  Right(t, x, v)
<1>1. PICK id \in Ids : id = instr.result
  OBVIOUS
<1>2. PICK r : r = PickReg(s, id)
  OBVIOUS
<1>3. ASSUME NEW y \in L PROVE Ready(s, r, y, val[y])
  <2>1. Right(s, y, val[y]) /\ ~Lags(instr, s, u, y)
    BY <1>3 DEF Sound
  <2>2. s.force[y] /\ s.onStack[y] => InSync(s, r, y)
    <3>1. CASE y = id
      BY <1>1, <1>2, <2>1, <3>1, ResultSyncs DEF Lags
    <3>2. CASE y # id
      <4>1. SUFFICES ASSUME s.force[y], s.onStack[y] PROVE InSync(s, r, y)
        OBVIOUS
      <4>2. t.onStack[y] /\ (t.mem[y] = s.mem[y] => InSync(s, r, y))
        BY <1>1, <1>2, <3>2, <4>1, BinarySyncs
      <4>3. u.mem[y] = t.mem[y] /\ u.mem[y] = s.mem[y]
        BY <1>1, <2>1, <3>2, <4>1, <4>2 DEF Lags, SameSlots
      <4>. QED  BY <4>2, <4>3
    <3>. QED  BY <3>1, <3>2
  <2>. QED  BY <2>1, <2>2 DEF Ready, Right, Carries, Legible
<1>4. Operand(s, r, a, Of(val, a)) /\ Operand(s, r, b, Of(val, b))
  BY <1>3, OperandReady
<1>5. IF x = id
      THEN v # Unset => /\ Of(val, a) # Unset /\ Of(val, b) # Unset
                        /\ v = Arith(Of(val, a), Of(val, b))
      ELSE Ready(s, r, x, v)
  BY <1>1, <1>3 DEF SumOf
<1>. QED  BY <1>1, <1>2, <1>4, <1>5, BinaryRight

\* The same of a constant assigned to an identifier that is not forced.
LEMMA FreeConstStep ==
    ASSUME NEW s \in States, NEW instr, instr.result \in Ids, NEW c \in Vals,
           NEW t, t = AssignFreeConst(s, instr.result, c), ~t.aborted,
           NEW u, SameSlots(t, u), NEW L \in SUBSET Ids, NEW val \in Values,
           Sound(instr, s, u, L, val),
           NEW x \in Ids, x \in L \/ x = instr.result,
           NEW v, v = IF x = instr.result THEN c ELSE val[x]
    PROVE  Right(t, x, v)
<1>1. PICK id \in Ids : id = instr.result
  OBVIOUS
<1>2. PICK r : r = PickReg(s, id)
  OBVIOUS
<1>3. ASSUME x # id PROVE Ready(s, r, x, v)
  <2>1. Right(s, x, v) /\ ~Lags(instr, s, u, x)
    BY <1>1, <1>3 DEF Sound
  <2>2. s.force[x] /\ s.onStack[x] => InSync(s, r, x)
    <3>1. SUFFICES ASSUME s.force[x], s.onStack[x] PROVE InSync(s, r, x)
      OBVIOUS
    <3>2. t.onStack[x] /\ (t.mem[x] = s.mem[x] => InSync(s, r, x))
      BY <1>1, <1>2, <1>3, <3>1, FreeConstSyncs
    <3>3. u.mem[x] = t.mem[x] /\ u.mem[x] = s.mem[x]
      BY <1>1, <1>3, <2>1, <3>1, <3>2 DEF Lags, SameSlots
    <3>. QED  BY <3>2, <3>3
  <2>. QED  BY <2>1, <2>2 DEF Ready, Right, Carries, Legible
<1>. QED  BY <1>1, <1>2, <1>3, FreeConstRight

\* The same of a constant assigned to a forced identifier.
LEMMA ForcedConstStep ==
    ASSUME NEW s \in States, NEW instr, instr.result \in Ids, NEW c \in Vals,
           s.force[instr.result],
           NEW t, t = AssignForcedConst(s, instr.result, c),
           NEW u, NEW L \in SUBSET Ids, NEW val \in Values,
           Sound(instr, s, u, L, val),
           NEW x \in Ids, x \in L \/ x = instr.result,
           NEW v, v = IF x = instr.result THEN c ELSE val[x]
    PROVE  Right(t, x, v)
<1>1. PICK id \in Ids : id = instr.result
  OBVIOUS
<1>2. x # id => Right(s, x, v)
  BY <1>1 DEF Sound
<1>. QED  BY <1>1, <1>2, ForcedConstRight

\* The same of an identifier assigned to another or to itself.
LEMMA IdentStep ==
    ASSUME NEW s \in States, NEW instr, instr.result \in Ids, NEW y \in Ids,
           NEW t, t = AssignFromIdent(s, instr.result, y), ~t.aborted,
           NEW u, SameSlots(t, u), NEW L \in SUBSET Ids, NEW val \in Values,
           y \in L, Sound(instr, s, u, L, val),
           NEW x \in Ids, x \in L \/ x = instr.result,
           NEW v, v = IF x = instr.result THEN val[y] ELSE val[x]
    PROVE  Right(t, x, v)
<1>1. PICK id \in Ids : id = instr.result
  OBVIOUS
<1>2. PICK r : r = PickReg(s, y)
  OBVIOUS
<1>3. ASSUME NEW z \in L, z # id \/ z = y
      PROVE  (Loaded(s, y, r) /\ Right(s, z, val[z])) \/ Ready(s, r, z, val[z])
  <2>1. Right(s, z, val[z]) /\ ~Lags(instr, s, u, z)
    BY <1>3 DEF Sound
  <2>2. CASE ~Loaded(s, y, r)
    <3>1. s.force[z] /\ s.onStack[z] => InSync(s, r, z)
      <4>1. CASE z = id
        BY <1>1, <1>2, <1>3, <2>1, <4>1, ResultSyncs DEF Lags
      <4>2. CASE z # id
        <5>1. SUFFICES ASSUME s.force[z], s.onStack[z] PROVE InSync(s, r, z)
          OBVIOUS
        <5>2. t.onStack[z] /\ (t.mem[z] = s.mem[z] => InSync(s, r, z))
          BY <1>1, <1>2, <2>2, <4>2, <5>1, IdentSyncs
        <5>3. u.mem[z] = t.mem[z] /\ u.mem[z] = s.mem[z]
          BY <1>1, <2>1, <4>2, <5>1, <5>2 DEF Lags, SameSlots
        <5>. QED  BY <5>2, <5>3
      <4>. QED  BY <4>1, <4>2
    <3>. QED  BY <2>1, <3>1 DEF Ready, Right, Carries, Legible
  <2>. QED  BY <2>1, <2>2
<1>4. (Loaded(s, y, r) /\ Right(s, y, val[y])) \/ Ready(s, r, y, val[y])
  BY <1>3
<1>5. IF x = id THEN v = val[y]
      ELSE (Loaded(s, y, r) /\ Right(s, x, v)) \/ Ready(s, r, x, v)
  BY <1>1, <1>3
<1>. QED  BY <1>1, <1>2, <1>4, <1>5, IdentRight

\* The same of a comparison of two constants.
LEMMA ConstsStep ==
    ASSUME NEW s \in States, NEW instr, instr.result \notin Ids, NEW a \in Vals,
           NEW t, t = CondConsts(s, a), ~t.aborted,
           NEW u, SameSlots(t, u), NEW L \in SUBSET Ids, NEW val \in Values,
           Sound(instr, s, u, L, val), NEW x \in L
    PROVE  Right(t, x, val[x])
<1>1. PICK r : r = PickReg(s, NoId)
  OBVIOUS
<1>2. Right(s, x, val[x]) /\ ~Lags(instr, s, u, x)
  BY DEF Sound
<1>3. s.force[x] /\ s.onStack[x] => InSync(s, r, x)
  <2>1. SUFFICES ASSUME s.force[x], s.onStack[x] PROVE InSync(s, r, x)
    OBVIOUS
  <2>2. t.onStack[x] /\ (t.mem[x] = s.mem[x] => InSync(s, r, x))
    BY <1>1, <2>1, ConstsSyncs
  <2>3. u.mem[x] = t.mem[x] /\ u.mem[x] = s.mem[x]
    BY <1>2, <2>1, <2>2 DEF Lags, SameSlots
  <2>. QED  BY <2>2, <2>3
<1>4. Ready(s, r, x, val[x])
  BY <1>2, <1>3 DEF Ready, Right, Carries, Legible
<1>. QED  BY <1>1, <1>4, ConstsRight

\* A comparison of two identifiers on the stack compares their values.
LEMMA OnStackStep ==
    ASSUME NEW s \in States, NEW instr, instr.result \notin Ids,
           NEW a \in Ids, NEW b \in Ids,
           NEW t, t = CondOnStack(s, a), ~t.aborted,
           NEW u, SameSlots(t, u), NEW L \in SUBSET Ids, NEW val \in Values,
           a \in L, b \in L, Sound(instr, s, u, L, val),
           val[a] # Unset, val[b] # Unset
    PROVE  t.reg[PickReg(s, a)] = val[a] /\ Read(t, b) = val[b]
<1>1. PICK r : r = PickReg(s, a)
  OBVIOUS
<1>2. ASSUME NEW x \in L PROVE Ready(s, r, x, val[x])
  <2>1. Right(s, x, val[x]) /\ ~Lags(instr, s, u, x)
    BY DEF Sound
  <2>2. s.force[x] /\ s.onStack[x] => InSync(s, r, x)
    <3>1. SUFFICES ASSUME s.force[x], s.onStack[x] PROVE InSync(s, r, x)
      OBVIOUS
    <3>2. t.onStack[x] /\ (t.mem[x] = s.mem[x] => InSync(s, r, x))
      BY <1>1, <3>1, OnStackSyncs
    <3>3. u.mem[x] = t.mem[x] /\ u.mem[x] = s.mem[x]
      BY <2>1, <3>1, <3>2 DEF Lags, SameSlots
    <3>. QED  BY <3>2, <3>3
  <2>. QED  BY <2>1, <2>2 DEF Ready, Right, Carries, Legible
<1>3. PICK va : va = val[a]
  OBVIOUS
<1>4. PICK vb : vb = val[b]
  OBVIOUS
<1>5. va # Unset /\ Ready(s, r, a, va) /\ vb # Unset /\ Ready(s, r, b, vb)
  BY <1>2, <1>3, <1>4
<1>. QED  BY <1>1, <1>3, <1>4, <1>5, OnStackCompares

\* Swapping the operands and the condition.
LEMMA FlipHolds ==
    ASSUME NEW op \in CondOps, NEW a \in Int, NEW b \in Int
    PROVE  Holds(Flip(op), b, a) <=> Holds(op, a, b)
<1>1. CASE op = "LT"
  BY <1>1 DEF Holds, Flip
<1>2. CASE op = "GT"
  BY <1>2 DEF Holds, Flip
<1>3. CASE op = "LEQ"
  BY <1>3 DEF Holds, Flip
<1>4. CASE op = "GEQ"
  BY <1>4 DEF Holds, Flip
<1>5. CASE op = "EQ"
  BY <1>5 DEF Holds, Flip
<1>6. CASE op = "NEQ"
  BY <1>6 DEF Holds, Flip
<1>. QED  BY <1>1, <1>2, <1>3, <1>4, <1>5, <1>6 DEF CondOps, RelOps

\* The conditional jump is taken when the program takes it.
LEMMA TakenRight ==
    ASSUME NEW s \in States, NEW instr, instr.result \notin Ids,
           NEW op \in CondOps, NEW a \in Args, NEW b \in Args,
           NEW t, t = Compared(s, a, b), ~t.aborted,
           NEW u, SameSlots(t, u), NEW L \in SUBSET Ids, NEW val \in Values,
           OperandIn(L, a), OperandIn(L, b), Sound(instr, s, u, L, val),
           Of(val, a) # Unset, Of(val, b) # Unset
    PROVE  Taken(op, s, t, a, b) <=> Holds(op, Of(val, a), Of(val, b))
<1>1. CASE a \in Vals /\ b \in Vals
  <2>1. t = CondConsts(s, a)
    BY <1>1 DEF Compared, BothConst, IsConst
  <2>2. t.reg[PickReg(s, NoId)] = a
    BY <1>1, <2>1, ConstsRight
  <2>3. Taken(op, s, t, a, b) <=> Holds(op, t.reg[PickReg(s, NoId)], b)
    BY <1>1 DEF Taken, BothConst, IsConst
  <2>. QED  BY <1>1, <2>2, <2>3 DEF Of, IsConst
<1>2. CASE ~(a \in Vals /\ b \in Vals) /\ BothOnStack(s, a, b)
  <2>1. t = CondOnStack(s, a)
    BY <1>2 DEF Compared, BothConst, IsConst
  <2>2. a \in Ids /\ b \in Ids /\ a \in L /\ b \in L /\ a \notin Vals /\ b \notin Vals
    BY <1>2 DEF OperandIn, BothOnStack, IsConst
  <2>3. val[a] = Of(val, a) /\ val[b] = Of(val, b)
    BY <2>2 DEF Of, IsConst
  <2>4. t.reg[PickReg(s, a)] = val[a] /\ Read(t, b) = val[b]
    BY <2>1, <2>2, <2>3, OnStackStep
  <2>5. Taken(op, s, t, a, b) <=> Holds(op, t.reg[PickReg(s, a)], Read(t, b))
    BY <1>2 DEF Taken, BothConst, IsConst
  <2>. QED  BY <2>3, <2>4, <2>5
<1>3. CASE ~(a \in Vals /\ b \in Vals) /\ ~BothOnStack(s, a, b)
  <2>1. ASSUME NEW c, OperandIn(L, c), Of(val, c) # Unset
        PROVE  ArgValue(s, c) = Of(val, c) /\ Of(val, c) \in Int
    <3>1. CASE c \in Vals
      BY <3>1, AllocatorAssumption DEF ArgValue, Of, IsConst
    <3>2. CASE c \notin Vals
      <4>1. c \in L /\ c \in Ids /\ Of(val, c) = val[c]
        BY <2>1, <3>2 DEF OperandIn, Of, IsConst
      <4>2. Right(s, c, val[c]) /\ val[c] # Unset
        BY <2>1, <4>1 DEF Sound
      <4>3. Read(s, c) = val[c]
        BY <4>1, <4>2, ReadRight
      <4>4. val[c] \in Int
        BY <4>1, <4>2, AllocatorAssumption DEF Values
      <4>. QED  BY <3>2, <4>1, <4>3, <4>4 DEF ArgValue, IsConst
    <3>. QED  BY <3>1, <3>2
  <2>2. CASE a \in Vals
    <3>1. Taken(op, s, t, a, b) <=> Holds(Flip(op), ArgValue(s, b), a)
      BY <1>3, <2>2 DEF Taken, BothConst, IsConst
    <3>2. Of(val, a) = a
      BY <2>2 DEF Of, IsConst
    <3>. QED  BY <2>1, <3>1, <3>2, FlipHolds
  <2>3. CASE a \notin Vals
    <3>1. Taken(op, s, t, a, b) <=> Holds(op, ArgValue(s, a), ArgValue(s, b))
      BY <1>3, <2>3 DEF Taken, BothConst, IsConst
    <3>. QED  BY <2>1, <3>1
  <2>. QED  BY <2>2, <2>3
<1>. QED  BY <1>1, <1>2, <1>3

\* The registers are saved around printf: a print changes nothing.
LEMMA PrintfKeeps ==
    ASSUME NEW s \in States
    PROVE  CallPrintf(s, s.reg) = s
<1>1. [r \in Regs |-> IF r \in Clobbered \ Saved THEN s.reg[r] ELSE s.reg[r]] = s.reg
  BY DEF States
<1>. QED  BY <1>1 DEF CallPrintf, States

\* What the code of an instruction is, by its kind.
LEMMA AfterIs ==
    ASSUME NEW s \in States, NEW instr, Shape(instr), NEW t, t = After(instr, s)
    PROVE  /\ instr.op = "ASSIGN" /\ instr.arg \notin Vals =>
                t = AssignFromIdent(s, instr.result, instr.arg)
           /\ instr.op = "ASSIGN" /\ instr.arg \in Vals /\ s.force[instr.result] =>
                t = AssignForcedConst(s, instr.result, instr.arg)
           /\ instr.op = "ASSIGN" /\ instr.arg \in Vals /\ ~s.force[instr.result] =>
                t = AssignFreeConst(s, instr.result, instr.arg)
           /\ instr.op = "PRINT" =>
                t = [CallPrintf(s, s.reg) EXCEPT !.aborted = ~Legible(s, instr.arg)]
           /\ instr.op \in CondOps => t = Compared(s, instr.arg, instr.arg2)
           /\ instr.op \in {"GOTO", "NOP"} => t = s
           /\ instr.op \notin CondOps \cup {"PRINT", "GOTO", "NOP", "ASSIGN"} =>
                t = BinaryOp(s, instr.result, instr.arg, instr.arg2)
BY DEF After, IsConst, CondOps, RelOps

\* The code of an instruction: as far as its descriptors go they are those of
\* any state alike.
LEMMA AfterAlike ==
    ASSUME NEW s \in States, NEW t \in States, Alike(s, t), NEW instr, Shape(instr)
    PROVE  After(instr, s) \in States /\ Alike(After(instr, s), After(instr, t))
<1>1. PICK u : u = After(instr, s)
  OBVIOUS
<1>2. PICK v : v = After(instr, t)
  OBVIOUS
<1>3. instr.arg \in Args \/ instr.op \in {"GOTO", "NOP"}
  BY DEF Shape, Args
<1>4. CASE instr.op = "ASSIGN"
  <2>1. instr.result \in Ids /\ (instr.arg \in Vals \/ instr.arg \in Ids \ Vals)
    BY <1>4 DEF Shape, Args
  <2>2. s.force[instr.result] = t.force[instr.result]
    BY DEF Alike
  <2>3. CASE instr.arg \notin Vals
    <3>1. /\ u = AssignFromIdent(s, instr.result, instr.arg)
          /\ v = AssignFromIdent(t, instr.result, instr.arg)
      BY <1>1, <1>2, <1>4, <2>3, AfterIs
    <3>. QED  BY <1>1, <1>2, <2>1, <2>3, <3>1, IdentAlike
  <2>4. CASE instr.arg \in Vals /\ s.force[instr.result]
    <3>1. /\ u = AssignForcedConst(s, instr.result, instr.arg)
          /\ v = AssignForcedConst(t, instr.result, instr.arg)
      BY <1>1, <1>2, <1>4, <2>2, <2>4, AfterIs
    <3>. QED  BY <1>1, <1>2, <2>1, <2>4, <3>1, ForcedConstAlike
  <2>5. CASE instr.arg \in Vals /\ ~s.force[instr.result]
    <3>1. /\ u = AssignFreeConst(s, instr.result, instr.arg)
          /\ v = AssignFreeConst(t, instr.result, instr.arg)
      BY <1>1, <1>2, <1>4, <2>2, <2>5, AfterIs
    <3>. QED  BY <1>1, <1>2, <2>1, <2>5, <3>1, FreeConstAlike
  <2>. QED  BY <2>3, <2>4, <2>5
<1>5. CASE instr.op = "PRINT"
  <2>1. instr.arg \in Ids
    BY <1>5 DEF Shape
  <2>2. /\ u = [CallPrintf(s, s.reg) EXCEPT !.aborted = ~Legible(s, instr.arg)]
        /\ v = [CallPrintf(t, t.reg) EXCEPT !.aborted = ~Legible(t, instr.arg)]
    BY <1>1, <1>2, <1>5, AfterIs
  <2>. QED  BY <1>1, <1>2, <2>1, <2>2, PrintAlike
<1>6. CASE instr.op \in CondOps
  <2>1. instr.arg \in Args /\ instr.arg2 \in Args
    BY <1>6 DEF Shape
  <2>2. u = Compared(s, instr.arg, instr.arg2) /\ v = Compared(t, instr.arg, instr.arg2)
    BY <1>1, <1>2, <1>6, AfterIs
  <2>. QED  BY <1>1, <1>2, <2>1, <2>2, ComparedAlike
<1>7. CASE instr.op \in {"GOTO", "NOP"}
  <2>1. u = s /\ v = t
    BY <1>1, <1>2, <1>7, AfterIs
  <2>. QED  BY <1>1, <1>2, <2>1
<1>8. CASE instr.op \notin CondOps \cup {"PRINT", "GOTO", "NOP", "ASSIGN"}
  <2>1. instr.result \in Ids /\ instr.arg \in Args /\ instr.arg2 \in Args
    BY <1>8 DEF Shape
  <2>2. /\ u = BinaryOp(s, instr.result, instr.arg, instr.arg2)
        /\ v = BinaryOp(t, instr.result, instr.arg, instr.arg2)
    BY <1>1, <1>2, <1>8, AfterIs
  <2>. QED  BY <1>1, <1>2, <2>1, <2>2, BinaryAlike
<1>. QED  BY <1>4, <1>5, <1>6, <1>7, <1>8

\* After an instruction everything is right that was right before it, and its
\* result; only a comparison of two operands on the stack cannot tell.
LEMMA AfterRight ==
    ASSUME NEW s \in States, NEW instr, Shape(instr),
           NEW t, t = After(instr, s), ~t.aborted,
           NEW u, SameSlots(t, u), NEW L \in SUBSET Ids, NEW val \in Values,
           Named(instr) \subseteq L, Sound(instr, s, u, L, val),
           ~(instr.op \in CondOps /\ BothOnStack(s, instr.arg, instr.arg2)),
           NEW x \in Ids, x \in L \/ x = instr.result,
           NEW v, v = Updated(instr, val)[x]
    PROVE  Right(t, x, v)
<1>1. instr.arg \in Ids => OperandIn(L, instr.arg)
  BY AllocatorAssumption DEF Named, OperandIn
<1>2. instr.arg2 \in Ids => OperandIn(L, instr.arg2)
  BY AllocatorAssumption DEF Named, OperandIn
<1>3. None \notin Ids
  BY CodegenAssumption DEF Args
<1>4. ASSUME NEW n, t = [s EXCEPT !.aborted = n], instr.result \notin Ids, v = val[x]
      PROVE  Right(t, x, v)
  <2>1. Right(s, x, v)
    BY <1>4 DEF Sound
  <2>2. /\ t.held = s.held /\ t.addr = s.addr /\ t.reg = s.reg
        /\ t.onStack = s.onStack /\ t.mem = s.mem /\ t.force = s.force
    BY <1>4 DEF States
  <2>3. t \in States
    BY AfterAlike DEF Alike
  <2>. QED  BY <2>1, <2>2, <2>3, RightSame
<1>5. CASE instr.op = "ASSIGN"
  <2>1. instr.result \in Ids /\ (instr.arg \in Vals \/ instr.arg \in Ids \ Vals)
    BY <1>5 DEF Shape, Args
  <2>2. Updated(instr, val) = [val EXCEPT ![instr.result] = Of(val, instr.arg)]
    BY <1>5 DEF Updated
  <2>3. v = IF x = instr.result THEN Of(val, instr.arg) ELSE val[x]
    BY <2>1, <2>2 DEF Values
  <2>4. CASE instr.arg \notin Vals
    <3>1. t = AssignFromIdent(s, instr.result, instr.arg)
      BY <1>5, <2>4, AfterIs
    <3>2. v = IF x = instr.result THEN val[instr.arg] ELSE val[x]
      BY <2>3, <2>4 DEF Of, IsConst
    <3>3. instr.arg \in L
      BY <1>1, <2>1, <2>4 DEF OperandIn
    <3>. QED  BY <2>1, <2>4, <3>1, <3>2, <3>3, IdentStep
  <2>5. CASE instr.arg \in Vals /\ s.force[instr.result]
    <3>1. t = AssignForcedConst(s, instr.result, instr.arg)
      BY <1>5, <2>5, AfterIs
    <3>2. v = IF x = instr.result THEN instr.arg ELSE val[x]
      BY <2>3, <2>5 DEF Of, IsConst
    <3>. QED  BY <2>1, <2>5, <3>1, <3>2, ForcedConstStep
  <2>6. CASE instr.arg \in Vals /\ ~s.force[instr.result]
    <3>1. t = AssignFreeConst(s, instr.result, instr.arg)
      BY <1>5, <2>6, AfterIs
    <3>2. v = IF x = instr.result THEN instr.arg ELSE val[x]
      BY <2>3, <2>6 DEF Of, IsConst
    <3>. QED  BY <2>1, <2>6, <3>1, <3>2, FreeConstStep
  <2>. QED  BY <2>4, <2>5, <2>6
<1>6. CASE instr.op \in {"PRINT", "GOTO", "NOP"}
  <2>1. instr.result \notin Ids /\ v = val[x]
    BY <1>3, <1>6 DEF Shape, Updated
  <2>2. CASE instr.op = "PRINT"
    <3>1. t = [s EXCEPT !.aborted = ~Legible(s, instr.arg)]
      BY <2>2, AfterIs, PrintfKeeps
    <3>. QED  BY <1>4, <2>1, <3>1
  <2>3. CASE instr.op \in {"GOTO", "NOP"}
    <3>1. t = s
      BY <2>3, AfterIs
    <3>. QED  BY <2>1, <3>1 DEF Sound
  <2>. QED  BY <1>6, <2>2, <2>3
<1>7. CASE instr.op \in CondOps
  <2>1. instr.result \notin Ids /\ v = val[x] /\ x \in L
    BY <1>3, <1>7 DEF Shape, Updated, CondOps, RelOps
  <2>2. t = Compared(s, instr.arg, instr.arg2)
    BY <1>7, AfterIs
  <2>3. CASE BothConst(instr.arg, instr.arg2)
    <3>1. t = CondConsts(s, instr.arg) /\ instr.arg \in Vals
      BY <2>2, <2>3 DEF Compared, BothConst, IsConst
    <3>. QED  BY <2>1, <3>1, ConstsStep
  <2>4. CASE ~BothConst(instr.arg, instr.arg2)
    <3>1. t = [s EXCEPT !.aborted = ~ArgLegible(s, instr.arg) \/ ~ArgLegible(s, instr.arg2)]
      BY <1>7, <2>2, <2>4 DEF Compared
    <3>. QED  BY <1>4, <2>1, <3>1
  <2>. QED  BY <2>3, <2>4
<1>8. CASE instr.op \notin CondOps \cup {"PRINT", "GOTO", "NOP", "ASSIGN"}
  <2>1. instr.result \in Ids /\ instr.arg \in Args /\ instr.arg2 \in Args
    BY <1>8 DEF Shape
  <2>2. t = BinaryOp(s, instr.result, instr.arg, instr.arg2)
    BY <1>8, AfterIs
  <2>3. OperandIn(L, instr.arg) /\ OperandIn(L, instr.arg2)
    BY <1>1, <1>2, <2>1 DEF OperandIn, Args
  <2>4. Updated(instr, val) = [val EXCEPT ![instr.result] = SumOf(val, instr.arg, instr.arg2)]
    BY <1>8 DEF Updated, CondOps, RelOps
  <2>5. v = IF x = instr.result THEN SumOf(val, instr.arg, instr.arg2) ELSE val[x]
    BY <2>1, <2>4 DEF Values
  <2>. QED  BY <2>1, <2>2, <2>3, <2>5, BinaryStep
<1>. QED  BY <1>5, <1>6, <1>7, <1>8

-----------------------------------------------------------------------------
(* The inductive invariant. *)

\* The code has been generated as basic_compile does it, and not aborted.
Generated ==
    \A i \in 1 .. Len(desc) - 1 :
        LET t == After(program[i], desc[i])
        IN  ~t.aborted /\ Alike(desc[i + 1], Actions(i + 1, t))

\* While the descriptors can be trusted, they are right of what is read.
AllRight == \A x \in live[pc] : Right(Machine(pc), x, store[x])

IInv ==
    /\ TypeOK
    /\ Closed(live)
    /\ pc =< Len(desc)
    /\ Generated
    /\ trusted => AllRight

\* Where a program goes on, and what its actions are.
LEMMA InstructionAt ==
    ASSUME WellFormed(program), NEW i \in 1 .. Len(program)
    PROVE  /\ Shape(program[i])
           /\ program[i].forced \in SUBSET Ids
           /\ program[i].released \in SUBSET Ids
           /\ program[i].target \in 0 .. End
BY WellFormedAt DEF Shape, Instructions, End

\* Positions in a well-formed program.
LEMMA EndType ==
    ASSUME WellFormed(program)
    PROVE  /\ Len(program) \in Nat
           /\ \A i \in 1 .. End : i = End \/ i \in 1 .. Len(program)
<1>1. Len(program) \in Nat
  BY DEF WellFormed
<1>. DEFINE n == Len(program)
<1>2. n \in Nat /\ End = n + 1
  BY <1>1 DEF End
<1>. HIDE DEF n
<1>3. \A i \in 1 .. End : i = End \/ i \in 1 .. n
  BY <1>2
<1>. QED  BY <1>2, <1>3 DEF n

\* The actions of an instruction yield states, and depend on the descriptors only.
LEMMA ActionsType ==
    ASSUME WellFormed(program), NEW k \in 1 .. End,
           NEW s \in States, NEW t \in States, Alike(s, t)
    PROVE  Actions(k, s) \in States /\ Alike(Actions(k, s), Actions(k, t))
<1>1. CASE k = End
  BY <1>1 DEF Actions
<1>2. CASE k # End
  <2>1. k \in 1 .. Len(program)
    BY <1>2, EndType
  <2>2. PICK F \in SUBSET Ids : F = program[k].forced
    BY <2>1, InstructionAt
  <2>3. PICK R \in SUBSET Ids : R = program[k].released
    BY <2>1, InstructionAt
  <2>4. /\ Actions(k, s) = ReleaseAll(ForceAll(s, F), R)
        /\ Actions(k, t) = ReleaseAll(ForceAll(t, F), R)
    BY <1>2, <2>2, <2>3 DEF Actions, ActionsOf
  <2>. QED  BY <2>4, ActionsAlike
<1>. QED  BY <1>1, <1>2

\* perform_instr_actions changes no slot that is current.
LEMMA ActionsSlots ==
    ASSUME WellFormed(program), NEW k \in 1 .. End, NEW s \in States
    PROVE  SameSlots(s, Actions(k, s)) /\ Actions(k, s).addr = s.addr
<1>1. CASE k = End
  BY <1>1 DEF Actions, SameSlots
<1>2. CASE k # End
  <2>1. k \in 1 .. Len(program)
    BY <1>2, EndType
  <2>2. PICK F \in SUBSET Ids : F = program[k].forced
    BY <2>1, InstructionAt
  <2>3. PICK R \in SUBSET Ids : R = program[k].released
    BY <2>1, InstructionAt
  <2>4. PICK f \in States : f = ForceAll(s, F)
    BY ForceAllType
  <2>5. Actions(k, s) = ReleaseAll(f, R)
    BY <1>2, <2>2, <2>3, <2>4 DEF Actions, ActionsOf
  <2>6. Actions(k, s).addr = f.addr /\ Actions(k, s).mem = f.mem
    BY <2>5 DEF ReleaseAll, States
  <2>7. f.addr = s.addr /\ \A x \in Ids : s.onStack[x] => f.mem[x] = s.mem[x]
    BY <2>4 DEF ForceAll, States
  <2>. QED  BY <2>6, <2>7 DEF SameSlots
<1>. QED  BY <1>1, <1>2

\* In front of an instruction that releases nothing they keep what is right.
LEMMA ActionsKeep ==
    ASSUME WellFormed(program), NEW k \in 1 .. End, NEW s \in States,
           ~(k # End /\ program[k].released # {}),
           NEW x \in Ids, NEW v, Right(s, x, v)
    PROVE  Right(Actions(k, s), x, v)
<1>1. CASE k = End
  BY <1>1 DEF Actions
<1>2. CASE k # End
  <2>1. k \in 1 .. Len(program)
    BY <1>2, EndType
  <2>2. PICK F \in SUBSET Ids : F = program[k].forced
    BY <2>1, InstructionAt
  <2>3. PICK f \in States : f = ForceAll(s, F)
    BY ForceAllType
  <2>4. PICK t : t = Actions(k, s) /\ t = ReleaseAll(ForceAll(s, F), {})
    BY <1>2, <2>2 DEF Actions, ActionsOf
  <2>5. t \in States
    BY <2>4, ActionsAlike DEF Alike
  <2>. QED  BY <2>3, <2>4, <2>5, ActionsRight
<1>. QED  BY <1>1, <1>2

\* What is right is honest, and the other way round.
LEMMA RightHonest ==
    ASSUME NEW s \in States, NEW L \in SUBSET Ids, NEW val
    PROVE  (\A x \in L : Right(s, x, val[x])) <=> HonestIn(s, L, val) /\ ListedIn(s, L)
<1>1. \A x \in L : val[x] # Unset =>
          (Carries(s, x, val[x]) <=> Legible(s, x) /\ Places(s, x) = {val[x]})
  BY CarriesOne
<1>2. (\A x \in L : val[x] # Unset => Carries(s, x, val[x])) <=> HonestIn(s, L, val)
  BY <1>1 DEF HonestIn
<1>3. (\A x \in L : ListedAt(s, x)) <=> ListedIn(s, L)
  BY DEF ListedAt, ListedIn
<1>. QED  BY <1>2, <1>3 DEF Right

-----------------------------------------------------------------------------
\* In the initial states no descriptor names a register.
LEMMA InitialType ==
    ASSUME NEW s \in InitStates
    PROVE  s \in States /\ \A x \in Ids : s.addr[x] = << >>
<1>1. PICK g \in [Regs -> Vals], m \in [Ids -> Vals] :
         s = [held    |-> [r \in Regs |-> [id \in Ids |-> 0]],
              addr    |-> [id \in Ids |-> << >>],
              onStack |-> [id \in Ids |-> FALSE],
              force   |-> [id \in Ids |-> FALSE],
              reg     |-> g,
              mem     |-> m,
              aborted |-> FALSE]
  BY DEF InitStates
<1>2. << >> \in Seq(Regs)
  OBVIOUS
<1>. QED  BY <1>1, <1>2 DEF States

\* The invariant holds in the beginning.
LEMMA InitInvariant == Init => IInv
<1>. SUFFICES ASSUME Init PROVE IInv
  OBVIOUS
<1>1. PICK s \in InitStates : Load(program, live, Actions(1, s))
  BY DEF Init
<1>2. WellFormed(program) /\ program \in Programs
  BY CodegenAssumption DEF Init
<1>3. s \in States /\ \A x \in Ids : s.addr[x] = << >>
  BY InitialType
<1>4. 1 \in 1 .. End /\ Len(program) \in Nat
  BY <1>2, EndType DEF End
<1>5. PICK d \in States : d = Actions(1, s) /\ d.addr = s.addr
  BY <1>2, <1>3, <1>4, ActionsType, ActionsSlots DEF Alike
<1>6. /\ desc = << d >> /\ pc = 1 /\ reg = d.reg /\ mem = d.mem
      /\ printed = << >> /\ store = [id \in Ids |-> Unset]
      /\ trusted = TRUE /\ phase = "compile"
  BY <1>1, <1>5 DEF Load
<1>7. TypeOK
  <2>1. live \in [1 .. End -> SUBSET Ids]
    BY DEF Init
  <2>2. desc \in Seq(States) /\ Len(desc) = 1
    BY <1>6
  <2>3. reg \in [Regs -> Vals] /\ mem \in [Ids -> Vals]
    BY <1>6 DEF States
  <2>4. store \in [Ids -> Vals \cup {Unset}]
    BY <1>6
  <2>5. printed \in Seq(Vals)
    BY <1>6
  <2>. QED  BY <1>2, <1>4, <1>6, <2>1, <2>2, <2>3, <2>4, <2>5 DEF TypeOK, Phases
<1>8. pc =< Len(desc) /\ Generated
  BY <1>6 DEF Generated
<1>9. AllRight
  <2>1. Machine(pc) = d
    BY <1>6 DEF Machine, States
  <2>2. \A x \in Ids : Right(d, x, store[x])
    BY <1>3, <1>5, <1>6 DEF Right, ListedAt
  <2>3. live[pc] \subseteq Ids
    BY <1>4, <1>6 DEF Init
  <2>. QED  BY <2>1, <2>2, <2>3 DEF AllRight
<1>. QED  BY <1>7, <1>8, <1>9 DEF Init, IInv

\* The state of the machine, and the descriptors that it runs under.
LEMMA MachineType ==
    ASSUME TypeOK, NEW i \in 1 .. Len(desc)
    PROVE  /\ desc[i] \in States
           /\ Machine(i) \in States
           /\ Alike(Machine(i), desc[i])
           /\ Machine(i).reg = reg
           /\ Machine(i).mem = mem
<1>1. desc[i] \in States
  BY ElementOfSeq DEF TypeOK
<1>. QED  BY <1>1 DEF Machine, States, TypeOK, Alike

\* Compiling one instruction keeps the invariant: nothing runs yet.
LEMMA CompileStep == IInv /\ Compile => IInv'
<1>. SUFFICES ASSUME IInv, Compile PROVE IInv'
  OBVIOUS
<1>1. TypeOK /\ Closed(live) /\ Generated /\ pc \in 1 .. Len(desc)
  BY DEF IInv, TypeOK
<1>2. WellFormed(program)
  BY <1>1, CodegenAssumption DEF TypeOK
<1>3. PICK k : k = Len(desc)
  OBVIOUS
<1>4. k \in 1 .. End /\ k # End /\ k \in 1 .. Len(program) /\ k + 1 \in 1 .. End
  BY <1>1, <1>2, <1>3, EndType DEF Compile, TypeOK, End
<1>5. PICK d \in States : d = desc[k]
  BY <1>1, <1>3, <1>4, MachineType
<1>6. PICK t \in States : t = After(program[k], d)
  <2>1. Shape(program[k]) /\ Alike(d, d)
    BY <1>2, <1>4, InstructionAt DEF Alike
  <2>. QED  BY <2>1, AfterAlike
<1>7. /\ phase = "compile"
      /\ IF t.aborted
         THEN phase' = "aborted" /\ UNCHANGED desc
         ELSE phase' = phase /\ desc' = Append(desc, Known(Actions(k + 1, t)))
      /\ UNCHANGED << program, live, pc, reg, mem, printed, store, trusted >>
  BY <1>3, <1>5, <1>6 DEF Compile
<1>8. CASE t.aborted
  <2>1. TypeOK'
    BY <1>1, <1>7, <1>8 DEF TypeOK, Phases, End
  <2>2. Closed(live)' /\ Generated' /\ (pc =< Len(desc))'
    BY <1>1, <1>7, <1>8 DEF Closed, Generated, Named, Successors, Actions, End, IInv
  <2>3. (trusted => AllRight)'
    BY <1>7, <1>8 DEF IInv, AllRight, Machine
  <2>. QED  BY <2>1, <2>2, <2>3 DEF IInv
<1>9. CASE ~t.aborted
  <2>1. PICK u \in States : u = Actions(k + 1, t)
    BY <1>2, <1>4, ActionsType DEF Alike
  <2>2. PICK w : w = Known(u)
    OBVIOUS
  <2>3. w \in States /\ Alike(w, u)
    <3>1. desc[1] \in States
      BY <1>1, MachineType
    <3>. QED  BY <2>2, <3>1 DEF Known, Alike, States
  <2>4. desc' = Append(desc, w) /\ phase' = "compile"
    BY <1>7, <1>9, <2>1, <2>2
  <2>5. /\ desc' \in Seq(States)
        /\ Len(desc') = k + 1
        /\ \A i \in 1 .. k : desc'[i] = desc[i]
        /\ desc'[k + 1] = w
    BY <1>1, <1>3, <2>3, <2>4 DEF TypeOK
  <2>6. TypeOK'
    BY <1>1, <1>4, <1>7, <2>4, <2>5 DEF TypeOK, Phases, End
  <2>7. Closed(live)'
    BY <1>1, <1>7 DEF Closed, Named, Successors
  <2>8. Generated'
    <3>1. ASSUME NEW i \in 1 .. k, NEW e, e = After(program[i], desc[i])
          PROVE  ~e.aborted /\ Alike(desc'[i + 1], Actions(i + 1, e))
      <4>1. CASE i = k
        BY <1>5, <1>6, <1>9, <2>1, <2>3, <2>5, <3>1, <4>1
      <4>2. CASE i # k
        <5>1. i \in 1 .. Len(desc) - 1 /\ i + 1 \in 1 .. k
          BY <1>3, <1>4, <4>2
        <5>. QED  BY <1>1, <2>5, <3>1, <5>1 DEF Generated
      <4>. QED  BY <4>1, <4>2
    <3>2. \A i \in 1 .. k : desc'[i] = desc[i]
      BY <2>5
    <3>3. program' = program /\ \A j, e : (Actions(j, e))' = Actions(j, e)
      BY <1>7 DEF Actions, End
    <3>4. Len(desc') - 1 = k
      BY <1>4, <2>5
    <3>. QED  BY <3>1, <3>2, <3>3, <3>4 DEF Generated
  <2>9. (pc =< Len(desc))'
    BY <1>1, <1>3, <1>4, <1>7, <2>5
  <2>10. (trusted => AllRight)'
    <3>1. desc'[pc] = desc[pc]
      BY <1>1, <1>3, <2>5
    <3>. QED  BY <1>7, <3>1 DEF IInv, AllRight, Machine
  <2>. QED  BY <2>6, <2>7, <2>8, <2>9, <2>10 DEF IInv
<1>. QED  BY <1>8, <1>9

\* Nothing but the phase changes.
LEMMA PhaseStep ==
    ASSUME IInv, phase' \in Phases,
           phase' \in {"run", "halted"} => Len(desc) = End,
           UNCHANGED << program, live, desc, pc, reg, mem, printed, store, trusted >>
    PROVE  IInv'
<1>1. TypeOK'
  BY DEF IInv, TypeOK, End
<1>2. Closed(live)' /\ (pc =< Len(desc))'
  BY DEF IInv, Closed, Named, Successors
<1>3. Generated'
  <2>1. \A j, e : (Actions(j, e))' = Actions(j, e)
    BY DEF Actions, End
  <2>. QED  BY <2>1 DEF IInv, Generated
<1>4. (trusted => AllRight)'
  BY DEF IInv, AllRight, Machine
<1>. QED  BY <1>1, <1>2, <1>3, <1>4 DEF IInv

-----------------------------------------------------------------------------
(* Running the code. *)

\* The machine is in s at an instruction, and in t after its code.
Running(instr, s, t, fallen) ==
    /\ pc \in 1 .. Len(program)
    /\ Shape(instr)
    /\ instr.target \in 0 .. End
    /\ s \in States /\ Alike(s, desc[pc]) /\ s.reg = reg /\ s.mem = mem
    /\ t \in States /\ ~t.aborted
    /\ fallen \in States /\ Alike(fallen, desc[pc + 1])
    /\ SameSlots(t, fallen) /\ SameSlots(t, t)
    /\ live[pc] \subseteq Ids
    /\ Named(instr) \subseteq live[pc]

\* All that the invariant says of the instruction about to be executed.
LEMMA RunningAt ==
    ASSUME IInv, phase = "run", pc # End,
           NEW instr, instr = program[pc], NEW s, s = Machine(pc),
           NEW t, t = After(instr, s), NEW fallen, fallen = Actions(pc + 1, t)
    PROVE  Running(instr, s, t, fallen)
<1>1. TypeOK /\ Closed(live) /\ Generated
  BY DEF IInv
<1>2. WellFormed(program)
  BY <1>1, CodegenAssumption DEF TypeOK
<1>3. pc \in 1 .. Len(program) /\ pc + 1 \in 1 .. End
  BY <1>1, <1>2, EndType DEF TypeOK, End
<1>4. Len(desc) = End /\ pc \in 1 .. Len(desc) /\ pc \in 1 .. Len(desc) - 1
  BY <1>1, <1>2, <1>3, EndType DEF TypeOK, End
<1>5. Shape(instr) /\ instr.target \in 0 .. End
  BY <1>2, <1>3, InstructionAt
<1>6. /\ s \in States /\ desc[pc] \in States /\ Alike(s, desc[pc])
      /\ s.reg = reg /\ s.mem = mem
  BY <1>1, <1>4, MachineType
<1>7. PICK d : d = After(instr, desc[pc])
  OBVIOUS
<1>8. Alike(desc[pc], s)
  BY <1>6 DEF Alike
<1>9. t \in States /\ d \in States /\ Alike(t, d)
  BY <1>5, <1>6, <1>7, <1>8, AfterAlike
<1>10. ~d.aborted /\ Alike(desc[pc + 1], Actions(pc + 1, d))
  BY <1>1, <1>4, <1>7 DEF Generated
<1>11. ~t.aborted
  BY <1>9, <1>10 DEF Alike
<1>12. fallen \in States /\ Alike(fallen, Actions(pc + 1, d))
  BY <1>2, <1>3, <1>9, ActionsType
<1>13. Alike(fallen, desc[pc + 1])
  BY <1>10, <1>12 DEF Alike
<1>14. SameSlots(t, fallen) /\ SameSlots(t, t)
  BY <1>2, <1>3, <1>9, ActionsSlots DEF SameSlots
<1>15. pc \in DOMAIN program
  BY <1>2, <1>3 DEF WellFormed
<1>16. live[pc] \subseteq Ids /\ Named(instr) \subseteq live[pc]
  BY <1>1, <1>15 DEF TypeOK, Closed
<1>. QED  BY <1>3, <1>5, <1>6, <1>9, <1>11, <1>12, <1>13, <1>14, <1>16 DEF Running

\* What Continue says of u is that nothing lags.
LEMMA SoundWhen ==
    ASSUME IInv, NEW instr, NEW s, NEW t, NEW fallen, Running(instr, s, t, fallen),
           s = Machine(pc), trusted,
           NEW u, ~\E id \in live[pc] : Overtaken(instr, u.mem, id)
    PROVE  Sound(instr, s, u, live[pc], store)
<1>1. \A x \in live[pc] : Lags(instr, s, u, x) <=> Overtaken(instr, u.mem, x)
  BY DEF Lags, Overtaken, Running, Alike
<1>2. \A x \in live[pc] : Right(s, x, store[x])
  BY DEF IInv, AllRight
<1>. QED  BY <1>1, <1>2 DEF Sound

\* Where the machine may go on, and with what.
Onward(instr, t, fallen, k, u) ==
    \/ k = pc + 1 /\ u = fallen /\ instr.op # "GOTO"
    \/ k = instr.target /\ k # 0 /\ u = t

\* Wherever the compiler makes the descriptors right they are.
LEMMA ContinueRight ==
    ASSUME IInv, phase = "run", pc # End,
           NEW instr, instr = program[pc], NEW s, s = Machine(pc),
           NEW t, t = After(instr, s), NEW fallen, fallen = Actions(pc + 1, t),
           NEW k, NEW u, Onward(instr, t, fallen, k, u),
           NEW values, values = Updated(instr, store),
           Continue(instr, k, u, values), trusted',
           NEW m \in States, m = [desc[k] EXCEPT !.reg = u.reg, !.mem = u.mem],
           NEW x \in Ids, x \in live[k]
    PROVE  Right(m, x, values[x])
<1>1. Running(instr, s, t, fallen)
  BY RunningAt
<1>2. TypeOK /\ Closed(live)
  BY DEF IInv
<1>3. WellFormed(program)
  BY <1>2, CodegenAssumption DEF TypeOK
<1>4. k \in 1 .. End
  BY <1>1, <1>2, <1>3, EndType DEF Running, Onward, End
<1>5. /\ trusted /\ ~\E id \in live[pc] : Overtaken(instr, u.mem, id)
      /\ Unchecked(instr, k) => HonestIn(m, live[k], values) /\ ListedIn(m, live[k])
  BY DEF Continue
<1>6. CASE Unchecked(instr, k)
  <2>1. live[k] \in SUBSET Ids
    BY <1>2, <1>4 DEF TypeOK
  <2>. QED  BY <1>5, <1>6, <2>1, RightHonest
<1>7. CASE ~Unchecked(instr, k)
  <2>1. /\ k = pc + 1 /\ u = fallen /\ instr.op # "GOTO"
        /\ ~(k # End /\ program[k].released # {})
        /\ ~(instr.op \in CondOps /\ BothOnStack(s, instr.arg, instr.arg2))
    BY <1>1, <1>7 DEF Unchecked, Onward, BothOnStack, Running, Alike
  <2>2. x \in live[pc] \/ x = instr.result
    <3>1. pc \in DOMAIN program
      BY <1>1, <1>3 DEF Running, WellFormed
    <3>2. k \in Successors(pc)
      BY <2>1 DEF Successors
    <3>3. (UNION {live[j] : j \in Successors(pc)}) \ {instr.result} \subseteq live[pc]
      BY <1>2, <3>1 DEF Closed
    <3>4. x \in UNION {live[j] : j \in Successors(pc)}
      BY <3>2
    <3>. QED  BY <3>3, <3>4
  <2>3. PICK v : v = values[x]
    OBVIOUS
  <2>4. Right(t, x, v)
    <3>1. store \in Values /\ live[pc] \in SUBSET Ids
      BY <1>1, <1>2 DEF TypeOK, Values, Running
    <3>2. Sound(instr, s, u, live[pc], store)
      BY <1>1, <1>5, SoundWhen
    <3>3. PICK L : L = live[pc]
      OBVIOUS
    <3>. QED  BY <1>1, <2>1, <2>2, <2>3, <3>1, <3>2, <3>3, AfterRight DEF Running
  <2>5. Right(fallen, x, v)
    BY <1>1, <1>3, <1>4, <2>1, <2>4, ActionsKeep DEF Running
  <2>6. /\ m.held = fallen.held /\ m.addr = fallen.addr /\ m.onStack = fallen.onStack
        /\ m.force = fallen.force /\ m.reg = fallen.reg /\ m.mem = fallen.mem
    <3>1. desc[k] \in States
      BY <1>2, <1>3, <1>4, MachineType DEF TypeOK
    <3>. QED  BY <1>1, <2>1, <3>1 DEF Running, Alike, States
  <2>. QED  BY <1>1, <2>3, <2>5, <2>6, RightSame DEF Running
<1>. QED  BY <1>6, <1>7

\* Going on at an instruction keeps the invariant, whether it was jumped to or
\* fallen into.
LEMMA ContinueStep ==
    ASSUME IInv, phase = "run", pc # End,
           NEW instr, instr = program[pc], NEW s, s = Machine(pc),
           NEW t, t = After(instr, s), NEW fallen, fallen = Actions(pc + 1, t),
           NEW k, NEW u, Onward(instr, t, fallen, k, u),
           NEW values \in Values, values = Updated(instr, store),
           Continue(instr, k, u, values), printed' \in Seq(Vals)
    PROVE  IInv'
<1>1. Running(instr, s, t, fallen)
  BY RunningAt
<1>2. TypeOK /\ Closed(live) /\ Generated
  BY DEF IInv
<1>3. WellFormed(program)
  BY <1>2, CodegenAssumption DEF TypeOK
<1>4. k \in 1 .. End /\ k \in 1 .. Len(desc)
  BY <1>1, <1>2, <1>3, EndType DEF Running, Onward, End, TypeOK
<1>5. u \in States
  BY <1>1 DEF Running, Onward
<1>6. /\ pc' = k /\ reg' = u.reg /\ mem' = u.mem /\ store' = values
      /\ UNCHANGED << program, live, desc, phase >>
      /\ trusted' \in BOOLEAN
  BY <1>2 DEF Continue, TypeOK
<1>7. TypeOK'
  <2>1. reg' \in [Regs -> Vals] /\ mem' \in [Ids -> Vals]
    BY <1>5, <1>6 DEF States
  <2>2. store' \in [Ids -> Vals \cup {Unset}]
    BY <1>6 DEF Values
  <2>. QED  BY <1>2, <1>4, <1>6, <2>1, <2>2 DEF TypeOK, End
<1>8. Closed(live)' /\ (pc =< Len(desc))'
  <2>1. Closed(live)'
    BY <1>2, <1>6 DEF Closed, Named, Successors
  <2>2. k =< Len(desc)
    BY <1>2, <1>4 DEF TypeOK
  <2>. QED  BY <1>6, <2>1, <2>2
<1>9. Generated'
  <2>1. \A j, e : (Actions(j, e))' = Actions(j, e)
    BY <1>6 DEF Actions, End
  <2>. QED  BY <1>2, <1>6, <2>1 DEF Generated
<1>10. (trusted => AllRight)'
  <2>1. SUFFICES ASSUME trusted' PROVE AllRight'
    OBVIOUS
  <2>2. PICK m \in States : m = [desc[k] EXCEPT !.reg = u.reg, !.mem = u.mem]
    <3>1. desc[k] \in States
      BY <1>2, <1>4, MachineType
    <3>. QED  BY <1>5, <3>1 DEF States
  <2>3. Machine(k)' = m
    BY <1>6, <2>2 DEF Machine
  <2>4. live[k] \subseteq Ids
    BY <1>2, <1>4 DEF TypeOK
  <2>5. \A x \in live[k] : Right(m, x, values[x])
    BY <2>1, <2>2, <2>4, ContinueRight
  <2>. QED  BY <1>6, <2>3, <2>5 DEF AllRight
<1>. QED  BY <1>7, <1>8, <1>9, <1>10 DEF IInv

\* The store after an instruction.
LEMMA UpdatedStore ==
    ASSUME NEW instr
    PROVE  Stored(instr) = Updated(instr, store)
BY DEF Stored, Updated, Of, SumOf, Value, Sum, CondOps, RelOps

\* Executing an instruction directly yields a store.
LEMMA UpdatedType ==
    ASSUME NEW instr, Shape(instr), store \in Values
    PROVE  Updated(instr, store) \in Values
<1>1. ASSUME NEW a \in Args PROVE Of(store, a) \in Vals \cup {Unset}
  BY DEF Of, IsConst, Values, Args
<1>2. ASSUME NEW a \in Args, NEW b \in Args
      PROVE  SumOf(store, a, b) \in Vals \cup {Unset}
  <2>1. CASE Unset \in {Of(store, a), Of(store, b)}
    BY <2>1 DEF SumOf
  <2>2. CASE Unset \notin {Of(store, a), Of(store, b)}
    <3>1. Of(store, a) \in Vals /\ Of(store, b) \in Vals
      BY <1>1, <2>2
    <3>. QED  BY <2>2, <3>1, AllocatorAssumption DEF SumOf
  <2>. QED  BY <2>1, <2>2
<1>3. CASE instr.op = "ASSIGN"
  BY <1>1, <1>3 DEF Shape, Updated, Values
<1>4. CASE instr.op \in CondOps \cup {"PRINT", "GOTO", "NOP"}
  BY <1>4 DEF Updated, CondOps, RelOps
<1>5. CASE instr.op \notin CondOps \cup {"PRINT", "GOTO", "NOP", "ASSIGN"}
  <2>1. instr.arg \in Args /\ instr.arg2 \in Args
    BY <1>5 DEF Shape
  <2>2. PICK v \in Vals \cup {Unset} : v = SumOf(store, instr.arg, instr.arg2)
    BY <1>2, <2>1
  <2>3. Updated(instr, store) = [store EXCEPT ![instr.result] = v]
    BY <1>5, <2>2 DEF Updated
  <2>. QED  BY <2>3 DEF Values
<1>. QED  BY <1>3, <1>4, <1>5

\* Whether the machine jumps.
Jumps(instr, s, t) ==
    \/ instr.op = "GOTO"
    \/ instr.op \in CondOps /\ Taken(instr.op, s, t, instr.arg, instr.arg2)

\* What Execute does, in these terms.
LEMMA ExecuteIs ==
    ASSUME Execute, NEW instr, instr = program[pc], NEW s, s = Machine(pc),
           NEW t, t = After(instr, s), NEW fallen, fallen = Actions(pc + 1, t)
    PROVE  /\ Jumps(instr, s, t) => Continue(instr, instr.target, t, Stored(instr))
           /\ ~Jumps(instr, s, t) => Continue(instr, pc + 1, fallen, Stored(instr))
           /\ printed' = IF instr.op = "PRINT" /\ Len(printed) < MaxPrints
                         THEN Append(printed, Read(s, instr.arg)) ELSE printed
BY DEF Execute, Jumps

\* Executing an instruction keeps the invariant.
LEMMA ExecuteStep == IInv /\ Execute => IInv'
<1>. SUFFICES ASSUME IInv, Execute PROVE IInv'
  OBVIOUS
<1>1. PICK instr : instr = program[pc]
  OBVIOUS
<1>2. PICK s : s = Machine(pc)
  OBVIOUS
<1>3. PICK t : t = After(instr, s)
  OBVIOUS
<1>4. PICK fallen : fallen = Actions(pc + 1, t)
  OBVIOUS
<1>5. phase = "run" /\ pc # End
  BY DEF Execute
<1>6. Running(instr, s, t, fallen) /\ Shape(instr)
  BY <1>1, <1>2, <1>3, <1>4, <1>5, RunningAt DEF Running
<1>7. PICK values \in Values : values = Updated(instr, store)
  <2>1. store \in Values
    BY DEF IInv, TypeOK, Values
  <2>. QED  BY <1>6, <2>1, UpdatedType
<1>8. printed \in Seq(Vals)
  BY DEF IInv, TypeOK
<1>9. PICK jumps : jumps <=> Jumps(instr, s, t)
  OBVIOUS
<1>10. /\ jumps => Continue(instr, instr.target, t, values)
       /\ ~jumps => Continue(instr, pc + 1, fallen, values)
       /\ printed' = IF instr.op = "PRINT" /\ Len(printed) < MaxPrints
                     THEN Append(printed, Read(s, instr.arg)) ELSE printed
  BY <1>1, <1>2, <1>3, <1>4, <1>6, <1>7, <1>9, ExecuteIs, UpdatedStore
<1>11. printed' \in Seq(Vals)
  <2>1. CASE instr.op = "PRINT"
    <3>1. Read(s, instr.arg) \in Vals
      BY <1>6, <2>1, ReadType DEF Running, Shape
    <3>. QED  BY <1>8, <1>10, <3>1
  <2>2. CASE instr.op # "PRINT"
    BY <1>8, <1>10, <2>2
  <2>. QED  BY <2>1, <2>2
<1>12. /\ jumps => Onward(instr, t, fallen, instr.target, t)
       /\ ~jumps => Onward(instr, t, fallen, pc + 1, fallen)
  BY <1>6, <1>9 DEF Onward, Jumps, Shape, CondOps, RelOps
<1>13. ASSUME NEW k, NEW u, Onward(instr, t, fallen, k, u),
              Continue(instr, k, u, values)
       PROVE  IInv'
  BY <1>1, <1>2, <1>3, <1>4, <1>5, <1>7, <1>11, <1>13, ContinueStep
<1>. QED  BY <1>10, <1>12, <1>13

\* Every step keeps the invariant.
LEMMA NextInvariant == IInv /\ [Next]_vars => IInv'
<1>. SUFFICES ASSUME IInv, [Next]_vars PROVE IInv'
  OBVIOUS
<1>1. CASE Compile
  BY <1>1, CompileStep
<1>2. CASE Start
  BY <1>2, PhaseStep DEF Start, Phases
<1>3. CASE Execute
  BY <1>3, ExecuteStep
<1>4. CASE Halt
  <2>1. phase' = "halted" /\ Len(desc) = End
    BY <1>4 DEF Halt, IInv, TypeOK
  <2>. QED  BY <1>4, <2>1, PhaseStep DEF Halt, Phases
<1>5. CASE UNCHANGED vars
  BY <1>5, PhaseStep DEF vars, IInv, TypeOK
<1>. QED  BY <1>1, <1>2, <1>3, <1>4, <1>5 DEF Next

-----------------------------------------------------------------------------
(* What an instruction does that is seen outside. *)

\* Operands that are identifiers are among those that are still read.
LEMMA OperandsRead ==
    ASSUME NEW instr, NEW L, Named(instr) \subseteq L
    PROVE  /\ instr.arg \in Args => OperandIn(L, instr.arg)
           /\ instr.arg2 \in Args => OperandIn(L, instr.arg2)
BY AllocatorAssumption DEF Named, OperandIn, Args

\* A comparison jumps when the values in the store say so.
LEMMA JumpObeys ==
    ASSUME IInv, phase = "run", pc # End,
           NEW instr, instr = program[pc], NEW s, s = Machine(pc),
           NEW t, t = After(instr, s), NEW fallen, fallen = Actions(pc + 1, t),
           NEW u, u = t \/ u = fallen,
           instr.op \in CondOps, trusted,
           ~\E id \in live[pc] : Overtaken(instr, u.mem, id),
           \A id \in Named(instr) : store[id] # Unset
    PROVE  Taken(instr.op, s, t, instr.arg, instr.arg2)
             <=> Holds(instr.op, Value(instr.arg), Value(instr.arg2))
<1>1. Running(instr, s, t, fallen)
  BY RunningAt
<1>2. Shape(instr) /\ s \in States /\ ~t.aborted /\ SameSlots(t, u)
  BY <1>1 DEF Running
<1>3. /\ instr.arg \in Args /\ instr.arg2 \in Args /\ instr.result \notin Ids
      /\ t = Compared(s, instr.arg, instr.arg2)
  <2>1. None \notin Ids
    BY CodegenAssumption DEF Args
  <2>. QED  BY <1>2, <2>1, AfterIs DEF Shape
<1>4. PICK L \in SUBSET Ids : L = live[pc]
  BY <1>1 DEF Running
<1>5. OperandIn(L, instr.arg) /\ OperandIn(L, instr.arg2)
  BY <1>1, <1>3, <1>4, OperandsRead DEF Running
<1>6. Sound(instr, s, u, L, store)
  BY <1>1, <1>4, SoundWhen
<1>7. store \in Values
  BY DEF IInv, TypeOK, Values
<1>8. Of(store, instr.arg) # Unset /\ Of(store, instr.arg2) # Unset
  BY <1>5, CodegenAssumption DEF Of, OperandIn, Named, IsConst, Args
<1>9. PICK op \in CondOps, a \in Args, b \in Args :
         op = instr.op /\ a = instr.arg /\ b = instr.arg2
  BY <1>3
<1>10. Taken(op, s, t, a, b) <=> Holds(op, Of(store, a), Of(store, b))
  BY <1>2, <1>3, <1>5, <1>6, <1>7, <1>8, <1>9, TakenRight
<1>11. Of(store, a) = Value(a) /\ Of(store, b) = Value(b)
  BY DEF Of, Value
<1>. QED  BY <1>9, <1>10, <1>11

\* What is printed is the value in the store.
LEMMA PrintObeys ==
    ASSUME IInv, phase = "run", pc # End,
           NEW instr, instr = program[pc], NEW s, s = Machine(pc),
           instr.op = "PRINT", trusted,
           \A id \in Named(instr) : store[id] # Unset
    PROVE  Read(s, instr.arg) = Value(instr.arg)
<1>1. PICK t : t = After(instr, s)
  OBVIOUS
<1>2. PICK fallen : fallen = Actions(pc + 1, t)
  OBVIOUS
<1>3. Running(instr, s, t, fallen)
  BY <1>1, <1>2, RunningAt
<1>4. instr.arg \in Ids /\ instr.arg \in Named(instr) /\ ~IsConst(instr.arg)
  BY <1>3, AllocatorAssumption DEF Running, Shape, Named, IsConst
<1>5. s \in States /\ Right(s, instr.arg, store[instr.arg]) /\ store[instr.arg] # Unset
  BY <1>3, <1>4 DEF IInv, AllRight, Running
<1>6. Read(s, instr.arg) = store[instr.arg]
  BY <1>4, <1>5, ReadRight
<1>. QED  BY <1>4, <1>6 DEF Value

\* Executing an instruction obeys the program.
LEMMA ExecuteObeys == IInv /\ Execute => ObeysStep
<1>. SUFFICES ASSUME IInv, Execute, phase' = "run", trusted',
                     \A id \in Named(program[pc]) : store[id] # Unset
              PROVE  /\ program[pc].op \in CondOps =>
                          pc' = IF Holds(program[pc].op, Value(program[pc].arg),
                                         Value(program[pc].arg2))
                                THEN program[pc].target ELSE pc + 1
                     /\ program[pc].op = "PRINT" =>
                          printed' = IF Len(printed) < MaxPrints
                                     THEN Append(printed, Value(program[pc].arg))
                                     ELSE printed
  BY DEF ObeysStep
<1>1. PICK instr : instr = program[pc]
  OBVIOUS
<1>2. PICK s : s = Machine(pc)
  OBVIOUS
<1>3. PICK t : t = After(instr, s)
  OBVIOUS
<1>4. PICK fallen : fallen = Actions(pc + 1, t)
  OBVIOUS
<1>5. phase = "run" /\ pc # End
  BY DEF Execute
<1>6. ASSUME instr.op \in CondOps
      PROVE  pc' = IF Holds(instr.op, Value(instr.arg), Value(instr.arg2))
                   THEN instr.target ELSE pc + 1
  <2>1. IF Taken(instr.op, s, t, instr.arg, instr.arg2)
        THEN Continue(instr, instr.target, t, Stored(instr))
        ELSE Continue(instr, pc + 1, fallen, Stored(instr))
    BY <1>1, <1>2, <1>3, <1>4, <1>6, ExecuteIs DEF Jumps, CondOps, RelOps
  <2>2. PICK u : /\ u = t \/ u = fallen
                 /\ trusted /\ ~\E id \in live[pc] : Overtaken(instr, u.mem, id)
    BY <2>1 DEF Continue
  <2>3. \A id \in Named(instr) : store[id] # Unset
    BY <1>1
  <2>4. Taken(instr.op, s, t, instr.arg, instr.arg2)
          <=> Holds(instr.op, Value(instr.arg), Value(instr.arg2))
    BY <1>1, <1>2, <1>3, <1>4, <1>5, <1>6, <2>2, <2>3, JumpObeys
  <2>. QED  BY <2>1, <2>4 DEF Continue
<1>7. ASSUME instr.op = "PRINT"
      PROVE  printed' = IF Len(printed) < MaxPrints
                        THEN Append(printed, Value(instr.arg)) ELSE printed
  <2>1. /\ Continue(instr, pc + 1, fallen, Stored(instr))
        /\ printed' = IF Len(printed) < MaxPrints
                      THEN Append(printed, Read(s, instr.arg)) ELSE printed
    BY <1>1, <1>2, <1>3, <1>4, <1>7, ExecuteIs DEF Jumps, CondOps, RelOps
  <2>2. trusted
    BY <2>1 DEF Continue
  <2>3. \A id \in Named(instr) : store[id] # Unset
    BY <1>1
  <2>4. Read(s, instr.arg) = Value(instr.arg)
    BY <1>1, <1>2, <1>5, <1>7, <2>2, <2>3, PrintObeys
  <2>. QED  BY <2>1, <2>4
<1>. QED  BY <1>1, <1>6, <1>7

\* Every step obeys the program.
LEMMA NextObeys == IInv /\ [Next]_vars => [ObeysStep]_vars
<1>. SUFFICES ASSUME IInv, [Next]_vars PROVE [ObeysStep]_vars
  OBVIOUS
<1>1. CASE Compile
  BY <1>1 DEF Compile, ObeysStep
<1>2. CASE Start
  BY <1>2 DEF Start, ObeysStep
<1>3. CASE Execute
  BY <1>3, ExecuteObeys
<1>4. CASE Halt
  BY <1>4 DEF Halt, ObeysStep
<1>5. CASE UNCHANGED vars
  BY <1>5
<1>. QED  BY <1>1, <1>2, <1>3, <1>4, <1>5 DEF Next

\* What the invariant says of each identifier is what Honest says of all.
LEMMA InvariantHonest == IInv => Honest
<1>. SUFFICES ASSUME IInv, trusted PROVE HonestIn(Machine(pc), live[pc], store)
  BY DEF Honest
<1>1. TypeOK /\ pc \in 1 .. Len(desc)
  BY DEF IInv, TypeOK
<1>2. Machine(pc) \in States /\ live[pc] \in SUBSET Ids
  BY <1>1, MachineType DEF TypeOK
<1>3. \A x \in live[pc] : Right(Machine(pc), x, store[x])
  BY DEF IInv, AllRight
<1>. QED  BY <1>2, <1>3, RightHonest

-----------------------------------------------------------------------------
(* The theorems. *)

\* The inductive invariant holds of every program.
THEOREM Invariance == Spec => []IInv
<1>1. Init => IInv
  BY InitInvariant
<1>2. IInv /\ [Next]_vars => IInv'
  BY NextInvariant
<1>. QED  BY <1>1, <1>2, PTL DEF Spec

\* Every variable keeps its type: whatever the program, basic_compile leaves
\* descriptors that name registers, and the code changes registers and slots
\* only to machine words and goes on at an instruction or at the end.
THEOREM TypeCorrect == Spec => []TypeOK
<1>1. IInv => TypeOK
  BY DEF IInv
<1>. QED  BY <1>1, Invariance, PTL

\* on_stack and address_descriptor say where the current value is, along every
\* jump of every program, as long as they were right where basic_compile does
\* not make them so.
THEOREM DescriptorsHonest == Spec => []Honest
<1>. QED  BY InvariantHonest, Invariance, PTL

\* compile_cond and print_variable: as long as that holds the code jumps where
\* the program jumps and prints what the program prints.
THEOREM CodeObeys == Spec => Obeys
<1>1. IInv /\ [Next]_vars => [ObeysStep]_vars
  BY NextObeys
<1>. QED  BY <1>1, Invariance, PTL DEF Spec, Obeys
===============================================================================

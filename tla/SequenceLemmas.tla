--------------------------- MODULE SequenceLemmas ---------------------------
(***************************************************************************)
(* Facts about sequences that hold each element once - descriptors, the    *)
(* identifiers of a node, lists of roots - and about least elements.       *)
(***************************************************************************)
EXTENDS Naturals, Sequences, FiniteSets, SequencesExt,
        SequenceTheorems, FiniteSetTheorems, WellFoundedInduction, TLAPS

\* No element occurs twice.
Distinct(q) == \A i, j \in 1 .. Len(q) : q[i] = q[j] => i = j

-----------------------------------------------------------------------------
\* A nonempty set of numbers has a least element.
LEMMA NatMinimum ==
    ASSUME NEW S, S \subseteq Nat, S # {}
    PROVE  \E m \in S : \A k \in S : m =< k
<1>. DEFINE R == {ss \in Nat \X Nat : ss[1] < ss[2]}
<1>1. IsWellFoundedOn(R, Nat)
  BY NatLessThanWellFounded, Zenon DEF OpToRel
<1>2. PICK m \in S : \A k \in S : ~ (<< k, m >> \in R)
  <2>. HIDE DEF R
  <2>. QED  BY <1>1, WFMin
<1>3. \A k \in S : m =< k
  <2>. TAKE k \in S
  <2>1. ~ (<< k, m >> \in R)  BY <1>2
  <2>2. k \in Nat /\ m \in Nat  OBVIOUS
  <2>. QED  BY <2>1, <2>2
<1>. QED  BY <1>3

\* What Min returns, of FiniteSetsExt, for a set of numbers.
LEMMA NatMinimum2 ==
    ASSUME NEW S, S \subseteq Nat, S # {}
    PROVE  Min(S) \in S /\ \A k \in S : Min(S) =< k
BY NatMinimum DEF Min

\* Removing what is not there changes nothing.
LEMMA RemoveFirstAbsent ==
    ASSUME NEW q, NEW r, ~Contains(q, r)
    PROVE  RemoveFirst(q, r) = q
BY DEF Contains, RemoveFirst

\* Removing takes one entry out and keeps the order of the rest.
LEMMA RemoveFirstPresent ==
    ASSUME NEW S, NEW q \in Seq(S), NEW r, Contains(q, r)
    PROVE  \E m \in 1 .. Len(q) :
              /\ q[m] = r
              /\ RemoveFirst(q, r) \in Seq(S)
              /\ Len(RemoveFirst(q, r)) = Len(q) - 1
              /\ \A i \in 1 .. Len(q) - 1 :
                   RemoveFirst(q, r)[i] = IF i < m THEN q[i] ELSE q[i + 1]
<1>. DEFINE I == {i \in 1 .. Len(q) : q[i] = r}
            m == Min(I)
<1>1. I # {} /\ I \subseteq Nat
  BY DEF Contains
<1>2. m \in I
  <2>. HIDE DEF I
  <2>. QED  BY <1>1, NatMinimum2
<1>3. RemoveFirst(q, r) = RemoveAt(q, m)
  BY <1>1 DEF RemoveFirst, SelectInSeq
<1>. HIDE DEF m
<1>4. m \in 1 .. Len(q) /\ q[m] = r
  BY <1>2
<1>5. /\ SubSeq(q, 1, m - 1) \in Seq(S)
      /\ Len(SubSeq(q, 1, m - 1)) = m - 1
      /\ \A i \in 1 .. m - 1 : SubSeq(q, 1, m - 1)[i] = q[i]
  BY <1>4, SubSeqProperties
<1>6. /\ SubSeq(q, m + 1, Len(q)) \in Seq(S)
      /\ Len(SubSeq(q, m + 1, Len(q))) = Len(q) - m
      /\ \A i \in 1 .. Len(q) - m : SubSeq(q, m + 1, Len(q))[i] = q[m + i]
  BY <1>4, SubSeqProperties
<1>. DEFINE a == SubSeq(q, 1, m - 1)
            b == SubSeq(q, m + 1, Len(q))
<1>7. RemoveFirst(q, r) = a \o b
  BY <1>3 DEF RemoveAt
<1>8. a \in Seq(S) /\ b \in Seq(S) /\ Len(a) = m - 1 /\ Len(b) = Len(q) - m
  BY <1>5, <1>6
<1>9. /\ \A i \in 1 .. m - 1 : a[i] = q[i]
      /\ \A i \in 1 .. Len(q) - m : b[i] = q[m + i]
  BY <1>5, <1>6
<1>. HIDE DEF a, b
<1>10. /\ a \o b \in Seq(S)
       /\ Len(a \o b) = Len(a) + Len(b)
       /\ \A i \in 1 .. Len(a) + Len(b) :
             (a \o b)[i] = IF i <= Len(a) THEN a[i] ELSE b[i - Len(a)]
  BY <1>8, ConcatProperties
<1>11. Len(q) \in Nat /\ m \in Nat
  BY <1>4
<1>. DEFINE c == a \o b
<1>12. c = a \o b  OBVIOUS
<1>. HIDE DEF c
<1>13. ASSUME NEW i \in 1 .. Len(q) - 1
       PROVE  c[i] = IF i < m THEN q[i] ELSE q[i + 1]
  <2>1. CASE i < m
    BY <2>1, <1>4, <1>8, <1>9, <1>10, <1>11, <1>12
  <2>2. CASE ~(i < m)
    <3>1. c[i] = b[i - (m - 1)] /\ i - (m - 1) \in 1 .. Len(q) - m
      BY <2>2, <1>4, <1>8, <1>10, <1>11, <1>12
    <3>2. b[i - (m - 1)] = q[m + (i - (m - 1))] /\ m + (i - (m - 1)) = i + 1
      BY <3>1, <1>9, <1>11
    <3>. QED  BY <2>2, <3>1, <3>2
  <2>. QED  BY <2>1, <2>2
<1>14. c \in Seq(S) /\ Len(c) = Len(q) - 1
  <2>1. c \in Seq(S)
    BY <1>10, <1>12
  <2>2. Len(c) = Len(a) + Len(b)
    BY <1>10, <1>12, Zenon
  <2>. QED  BY <2>1, <2>2, <1>8, <1>11
<1>15. RemoveFirst(q, r) = c
  BY <1>7, <1>12
<1>16. /\ q[m] = r
       /\ RemoveFirst(q, r) \in Seq(S)
       /\ Len(RemoveFirst(q, r)) = Len(q) - 1
       /\ \A i \in 1 .. Len(q) - 1 :
            RemoveFirst(q, r)[i] = IF i < m THEN q[i] ELSE q[i + 1]
  BY <1>4, <1>13, <1>14, <1>15, Zenon
<1>. QED  BY <1>4, <1>16, Zenon

\* When nothing occurs twice, removing an element removes it altogether and
\* nothing else.
LEMMA RemoveFirstDistinct ==
    ASSUME NEW S, NEW q \in Seq(S), NEW r,
           \A i, j \in 1 .. Len(q) : q[i] = q[j] => i = j,
           NEW p, p = RemoveFirst(q, r)
    PROVE  /\ p \in Seq(S)
           /\ \A i, j \in 1 .. Len(p) : p[i] = p[j] => i = j
           /\ \A i \in 1 .. Len(p) :
                 /\ p[i] # r
                 /\ \E j \in 1 .. Len(q) : p[i] = q[j]
           /\ Len(q) > 1 => Len(p) > 0
           /\ Len(q) = 1 /\ Contains(q, r) => p = << >>
<1>1. CASE ~Contains(q, r)
  BY <1>1, RemoveFirstAbsent DEF Contains
<1>2. CASE Contains(q, r)
  <2>1. PICK m \in 1 .. Len(q) :
              /\ q[m] = r
              /\ p \in Seq(S)
              /\ Len(p) = Len(q) - 1
              /\ \A i \in 1 .. Len(q) - 1 :
                   p[i] = IF i < m THEN q[i] ELSE q[i + 1]
    BY <1>2, RemoveFirstPresent
  <2>2. ASSUME NEW i \in 1 .. Len(p), NEW j \in 1 .. Len(p), p[i] = p[j] PROVE i = j
    <3>1. PICK a : a = IF i < m THEN i ELSE i + 1
      OBVIOUS
    <3>2. PICK b : b = IF j < m THEN j ELSE j + 1
      OBVIOUS
    <3>3. a \in 1 .. Len(q) /\ b \in 1 .. Len(q) /\ p[i] = q[a] /\ p[j] = q[b]
      BY <2>1, <3>1, <3>2
    <3>4. a = b
      BY <2>2, <3>3
    <3>. QED  BY <3>1, <3>2, <3>4
  <2>3. \A i \in 1 .. Len(p) : p[i] # r /\ \E j \in 1 .. Len(q) : p[i] = q[j]
    BY <2>1
  <2>4. Len(q) = 1 => p = << >>
    BY <2>1, EmptySeq
  <2>. QED  BY <2>1, <2>2, <2>3, <2>4
<1>. QED  BY <1>1, <1>2

\* What is left when an element is removed.
LEMMA RemoveFirstElements ==
    ASSUME NEW S, NEW q \in Seq(S), Distinct(q), NEW r, NEW p, p = RemoveFirst(q, r)
    PROVE  /\ p \in Seq(S)
           /\ Distinct(p)
           /\ \A e : Contains(p, e) <=> Contains(q, e) /\ e # r
<1>1. CASE ~Contains(q, r)
  BY <1>1, RemoveFirstAbsent DEF Contains
<1>2. CASE Contains(q, r)
  <2>1. PICK m \in 1 .. Len(q) :
              /\ q[m] = r
              /\ p \in Seq(S)
              /\ Len(p) = Len(q) - 1
              /\ \A i \in 1 .. Len(q) - 1 :
                   p[i] = IF i < m THEN q[i] ELSE q[i + 1]
    BY <1>2, RemoveFirstPresent
  <2>2. Distinct(p)
    BY RemoveFirstDistinct DEF Distinct
  <2>3. \A e : Contains(p, e) => Contains(q, e) /\ e # r
    BY <2>1 DEF Distinct, Contains
  <2>4. ASSUME NEW e, Contains(q, e), e # r PROVE Contains(p, e)
    <3>1. PICK i \in 1 .. Len(q) : q[i] = e
      BY <2>4 DEF Contains
    <3>2. CASE i < m
      BY <2>1, <3>1, <3>2 DEF Contains
    <3>3. CASE i > m
      <4>1. i - 1 \in 1 .. Len(p) /\ p[i - 1] = q[(i - 1) + 1] /\ (i - 1) + 1 = i
        BY <2>1, <3>3
      <4>. QED  BY <3>1, <4>1 DEF Contains
    <3>4. i # m
      BY <2>1, <2>4, <3>1
    <3>. QED  BY <3>2, <3>3, <3>4
  <2>. QED  BY <2>1, <2>2, <2>3, <2>4
<1>. QED  BY <1>1, <1>2

\* Removing an entry leaves the other elements.
LEMMA RemoveFirstOthers ==
    ASSUME NEW S, NEW q \in Seq(S), NEW r, NEW p, p = RemoveFirst(q, r)
    PROVE  /\ p \in Seq(S)
           /\ \A e : /\ Contains(p, e) => Contains(q, e)
                     /\ Contains(q, e) /\ e # r => Contains(p, e)
<1>1. CASE ~Contains(q, r)
  BY <1>1, RemoveFirstAbsent DEF Contains
<1>2. CASE Contains(q, r)
  <2>1. PICK m \in 1 .. Len(q) :
              /\ q[m] = r
              /\ p \in Seq(S)
              /\ Len(p) = Len(q) - 1
              /\ \A i \in 1 .. Len(q) - 1 :
                   p[i] = IF i < m THEN q[i] ELSE q[i + 1]
    BY <1>2, RemoveFirstPresent
  <2>2. ASSUME NEW e, Contains(p, e) PROVE Contains(q, e)
    <3>1. PICK i \in 1 .. Len(p) : p[i] = e
      BY <2>2 DEF Contains
    <3>2. i \in 1 .. Len(q) - 1 /\ i \in 1 .. Len(q) /\ i + 1 \in 1 .. Len(q)
      BY <2>1, <3>1
    <3>3. p[i] = q[i] \/ p[i] = q[i + 1]
      BY <2>1, <3>2
    <3>. QED  BY <3>1, <3>2, <3>3 DEF Contains
  <2>3. ASSUME NEW e, Contains(q, e), e # r PROVE Contains(p, e)
    <3>1. PICK i \in 1 .. Len(q) : q[i] = e
      BY <2>3 DEF Contains
    <3>2. CASE i < m
      BY <2>1, <3>1, <3>2 DEF Contains
    <3>3. CASE i > m
      <4>1. i - 1 \in 1 .. Len(p) /\ p[i - 1] = q[(i - 1) + 1] /\ (i - 1) + 1 = i
        BY <2>1, <3>3
      <4>. QED  BY <3>1, <4>1 DEF Contains
    <3>4. i # m
      BY <2>1, <2>3, <3>1
    <3>. QED  BY <3>2, <3>3, <3>4
  <2>. QED  BY <2>1, <2>2, <2>3
<1>. QED  BY <1>1, <1>2

\* Prepending an element that is not there.
LEMMA ConsDistinct ==
    ASSUME NEW S, NEW q \in Seq(S), Distinct(q), NEW r \in S, ~Contains(q, r),
           NEW p, p = Cons(r, q)
    PROVE  /\ p \in Seq(S)
           /\ Distinct(p)
           /\ \A e : Contains(p, e) <=> Contains(q, e) \/ e = r
<1>1. << r >> \in Seq(S) /\ Len(<< r >>) = 1 /\ << r >>[1] = r /\ Len(q) \in Nat
  OBVIOUS
<1>2. /\ p \in Seq(S) /\ Len(p) = Len(q) + 1 /\ p[1] = r
      /\ \A i \in 1 .. Len(q) : p[i + 1] = q[i]
  <2>1. /\ p \in Seq(S)
        /\ Len(p) = 1 + Len(q)
        /\ \A i \in 1 .. 1 + Len(q) : p[i] = IF i <= 1 THEN << r >>[i] ELSE q[i - 1]
    BY <1>1, ConcatProperties DEF Cons
  <2>. QED  BY <1>1, <2>1
<1>3. \A k \in 2 .. Len(p) : k - 1 \in 1 .. Len(q) /\ p[k] = q[k - 1]
  <2>. TAKE k \in 2 .. Len(p)
  <2>1. k - 1 \in 1 .. Len(q) /\ (k - 1) + 1 = k
    BY <1>2
  <2>. QED  BY <1>2, <2>1
<1>4. Distinct(p)
  <2>. SUFFICES ASSUME NEW i \in 1 .. Len(p), NEW j \in 1 .. Len(p), p[i] = p[j]
                PROVE  i = j
    BY DEF Distinct
  <2>1. i \in Nat /\ j \in Nat
    OBVIOUS
  <2>2. ASSUME NEW k \in 1 .. Len(p), k # 1
        PROVE  k \in 2 .. Len(p) /\ p[k] # p[1]
    <3>1. k \in 2 .. Len(p)
      BY <1>2, <2>2
    <3>2. p[k] = q[k - 1] /\ k - 1 \in 1 .. Len(q)
      BY <1>3, <3>1
    <3>. QED  BY <1>2, <3>1, <3>2 DEF Contains
  <2>3. CASE i = 1 \/ j = 1
    BY <2>2, <2>3
  <2>4. CASE i # 1 /\ j # 1
    <3>1. i \in 2 .. Len(p) /\ j \in 2 .. Len(p)
      BY <2>2, <2>4
    <3>2. i - 1 = j - 1
      BY <1>3, <3>1 DEF Distinct
    <3>. QED  BY <2>1, <3>2
  <2>. QED  BY <2>3, <2>4
<1>5. ASSUME NEW e PROVE Contains(p, e) <=> Contains(q, e) \/ e = r
  <2>1. ASSUME Contains(p, e), e # r PROVE Contains(q, e)
    <3>1. PICK k \in 1 .. Len(p) : p[k] = e
      BY <2>1 DEF Contains
    <3>2. k \in 2 .. Len(p)
      BY <1>2, <2>1, <3>1
    <3>. QED  BY <1>3, <3>1, <3>2 DEF Contains
  <2>2. ASSUME Contains(q, e) PROVE Contains(p, e)
    BY <1>2, <2>2 DEF Contains
  <2>3. Contains(p, r)
    BY <1>2 DEF Contains
  <2>. QED  BY <2>1, <2>2, <2>3
<1>. QED  BY <1>2, <1>4, <1>5

\* A sequence without repetitions has as many elements as entries.
LEMMA DistinctCardinality ==
    ASSUME NEW S, NEW q \in Seq(S), Distinct(q)
    PROVE  Cardinality(ToSet(q)) = Len(q)
<1>. DEFINE I == 1 .. Len(q)
<1>1. Len(q) \in Nat /\ DOMAIN q = I /\ ToSet(q) = {q[i] : i \in I}
  BY DEF ToSet
<1>2. IsFiniteSet(I) /\ Cardinality(I) = Len(q)
  BY <1>1, FS_Interval
<1>3. q \in Bijection(I, ToSet(q))
  <2>1. q \in [I -> ToSet(q)]
    BY <1>1
  <2>2. \A i, j \in I : q[i] = q[j] => i = j
    BY DEF Distinct
  <2>3. \A e \in ToSet(q) : \E i \in I : q[i] = e
    BY <1>1
  <2>. HIDE DEF I
  <2>. QED  BY <2>1, <2>2, <2>3 DEF Bijection, Injection, Surjection, IsInjective
<1>4. ExistsBijection(I, ToSet(q))
  BY <1>3 DEF ExistsBijection
<1>. QED  BY <1>2, <1>4, FS_Bijection
=============================================================================

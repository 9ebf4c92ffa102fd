------------------------- MODULE Optimizer_proofs -------------------------
(***************************************************************************)
(* Proofs about the optimizer's graph, for every block and every number of *)
(* variables, constants and operations.                                    *)
(*                                                                         *)
(* The inductive invariant has two parts.  Ordinary is about the graph     *)
(* alone: where nodes, identifiers and entries of dag_table may be.  It    *)
(* gives TypeOK and OneHome.  Meaning relates the graph to the block:      *)
(* there is a value for every node such that the identifiers on it have    *)
(* that value, every temporary has a node that computes it, and a node     *)
(* with an identifier is a root or an operand of an operation that keeps   *)
(* its temporary.  It gives DagFaithful.                                   *)
(*                                                                         *)
(* The lemmas go from the operators of Dag up: what Drop, Add, Root and    *)
(* Unroot do to a graph, what a leaf and a new node do, the four outcomes  *)
(* of Assign and Binary (AssignStep, BinaryStep), and then that each       *)
(* outcome keeps Graph (AppendedGraph, JoinedGraph) and the meaning        *)
(* (AppendedFaith, JoinedFaith, AppendedBound, JoinedBound).               *)
(***************************************************************************)
EXTENDS Optimizer, SequenceLemmas

\* What the nodes of a graph are.
NodeRecs ==
    [op : {"NONE", "ASSIGN"} \cup Operations, arg : Ids \cup Consts \cup {None},
     left : Nat, right : Nat, ids : Seq(Ids)]

\* The graph is a record, and no node and no list of roots is malformed.
Shape(d) ==
    /\ d = [nodes |-> d.nodes, recent |-> d.recent, table |-> d.table,
            roots |-> d.roots, aborted |-> d.aborted]
    /\ d.nodes \in Seq(NodeRecs)
    /\ d.recent \in [Ids -> Nat]
    /\ d.roots \in Seq(Nat)
    /\ \A k \in 1 .. Len(d.nodes) : Distinct(d.nodes[k].ids)

\* The identifier x is on node k.
On(d, k, x) == Contains(d.nodes[k].ids, x)

\* Only identifiers move.
SameNodes(d, e) ==
    /\ Len(e.nodes) = Len(d.nodes)
    /\ \A k \in 1 .. Len(d.nodes) :
          /\ e.nodes[k].op = d.nodes[k].op
          /\ e.nodes[k].arg = d.nodes[k].arg
          /\ e.nodes[k].left = d.nodes[k].left
          /\ e.nodes[k].right = d.nodes[k].right

SameLists(d, e) ==
    /\ e.recent = d.recent
    /\ e.table = d.table
    /\ e.roots = d.roots

-----------------------------------------------------------------------------
\* The nodes with the identifiers of one replaced.
LEMMA WithIds ==
    ASSUME NEW d, Shape(d), NEW k \in 1 .. Len(d.nodes), NEW q \in Seq(Ids), Distinct(q),
           NEW e, e = [d EXCEPT !.nodes[k].ids = q]
    PROVE  /\ Shape(e)
           /\ SameNodes(d, e)
           /\ SameLists(d, e)
           /\ e.nodes[k].ids = q
           /\ \A j \in 1 .. Len(d.nodes) : j # k => e.nodes[j] = d.nodes[j]
<1>. DEFINE n == [d.nodes EXCEPT ![k] = [d.nodes[k] EXCEPT !.ids = q]]
<1>1. /\ e = [nodes |-> n, recent |-> d.recent, table |-> d.table,
              roots |-> d.roots, aborted |-> d.aborted]
  BY DEF Shape
<1>2. d.nodes \in Seq(NodeRecs) /\ d.nodes[k] \in NodeRecs
  BY DEF Shape
<1>3. [d.nodes[k] EXCEPT !.ids = q] \in NodeRecs
  BY <1>2 DEF NodeRecs
<1>4. n \in Seq(NodeRecs) /\ Len(n) = Len(d.nodes)
  BY <1>2, <1>3
<1>5. n[k] = [d.nodes[k] EXCEPT !.ids = q] /\ \A j \in 1 .. Len(d.nodes) : j # k => n[j] = d.nodes[j]
  BY <1>2
<1>6. /\ n[k].ids = q
      /\ n[k].op = d.nodes[k].op
      /\ n[k].arg = d.nodes[k].arg
      /\ n[k].left = d.nodes[k].left
      /\ n[k].right = d.nodes[k].right
  <2>1. PICK m : m = d.nodes[k]
    OBVIOUS
  <2>2. m = [op |-> m.op, arg |-> m.arg, left |-> m.left, right |-> m.right, ids |-> m.ids]
    BY <1>2, <2>1 DEF NodeRecs
  <2>3. n[k] = [m EXCEPT !.ids = q]
    BY <1>5, <2>1
  <2>4. n[k] = [op |-> m.op, arg |-> m.arg, left |-> m.left, right |-> m.right, ids |-> q]
    BY ONLY <2>2, <2>3
  <2>. QED  BY ONLY <2>1, <2>4
<1>7. /\ e.nodes = n /\ e.recent = d.recent /\ e.table = d.table
      /\ e.roots = d.roots /\ e.aborted = d.aborted
  BY <1>1
<1>. HIDE DEF n
<1>8. SameNodes(d, e) /\ SameLists(d, e)
  BY <1>4, <1>5, <1>6, <1>7 DEF SameNodes, SameLists
<1>9. Shape(e)
  BY <1>1, <1>4, <1>5, <1>6, <1>7 DEF Shape
<1>. QED  BY <1>5, <1>6, <1>7, <1>8, <1>9

\* The identifiers of a node are a sequence without repetitions.
LEMMA IdsInShape ==
    ASSUME NEW d, Shape(d), NEW k \in 1 .. Len(d.nodes)
    PROVE  /\ d.nodes[k] \in NodeRecs
           /\ d.nodes[k].ids \in Seq(Ids)
           /\ Distinct(d.nodes[k].ids)
<1>1. d.nodes \in Seq(NodeRecs)
  BY DEF Shape
<1>2. d.nodes[k] \in NodeRecs
  BY <1>1
<1>3. d.nodes[k].ids \in Seq(Ids)
  BY <1>2 DEF NodeRecs
<1>. QED  BY <1>2, <1>3 DEF Shape

\* Drop takes an identifier off a node.
LEMMA DropEffect ==
    ASSUME NEW d, Shape(d), NEW k \in 1 .. Len(d.nodes), NEW id,
           NEW e, e = Drop(d, k, id)
    PROVE  /\ Shape(e)
           /\ SameNodes(d, e)
           /\ SameLists(d, e)
           /\ \A j \in 1 .. Len(d.nodes) : \A x :
                 On(e, j, x) <=> On(d, j, x) /\ ~(j = k /\ x = id)
<1>. DEFINE q == RemoveFirst(d.nodes[k].ids, id)
<1>1. d.nodes[k].ids \in Seq(Ids) /\ Distinct(d.nodes[k].ids)
  BY IdsInShape
<1>2. q \in Seq(Ids) /\ Distinct(q)
      /\ \A x : Contains(q, x) <=> Contains(d.nodes[k].ids, x) /\ x # id
  BY <1>1, RemoveFirstElements
<1>3. e = [d EXCEPT !.nodes[k].ids = q]
  BY DEF Drop
<1>. HIDE DEF q
<1>4. /\ Shape(e) /\ SameNodes(d, e) /\ SameLists(d, e)
      /\ e.nodes[k].ids = q
      /\ \A j \in 1 .. Len(d.nodes) : j # k => e.nodes[j] = d.nodes[j]
  BY <1>2, <1>3, WithIds
<1>. QED  BY <1>2, <1>4 DEF On

\* Add puts an identifier on a node, once.
LEMMA AddEffect ==
    ASSUME NEW d, Shape(d), NEW k \in 1 .. Len(d.nodes), NEW id \in Ids,
           NEW e, e = Add(d, k, id)
    PROVE  /\ Shape(e)
           /\ SameNodes(d, e)
           /\ SameLists(d, e)
           /\ \A j \in 1 .. Len(d.nodes) : \A x :
                 On(e, j, x) <=> On(d, j, x) \/ (j = k /\ x = id)
<1>. DEFINE i == d.nodes[k].ids
            q == IF Contains(i, id) THEN i ELSE Cons(id, i)
<1>1. i \in Seq(Ids) /\ Distinct(i)
  BY IdsInShape
<1>2. q \in Seq(Ids) /\ Distinct(q)
      /\ \A x : Contains(q, x) <=> Contains(i, x) \/ x = id
  <2>1. CASE Contains(i, id)
    BY <1>1, <2>1
  <2>2. CASE ~Contains(i, id)
    <3>. HIDE DEF i
    <3>. QED  BY <1>1, <2>2, ConsDistinct
  <2>. QED  BY <2>1, <2>2
<1>3. e = [d EXCEPT !.nodes[k].ids = q]
  BY DEF Add
<1>. HIDE DEF q
<1>4. /\ Shape(e) /\ SameNodes(d, e) /\ SameLists(d, e)
      /\ e.nodes[k].ids = q
      /\ \A j \in 1 .. Len(d.nodes) : j # k => e.nodes[j] = d.nodes[j]
  BY <1>2, <1>3, WithIds
<1>. QED  BY <1>2, <1>4 DEF On

\* Leave takes an identifier off the node of its latest value.
LEMMA LeaveEffect ==
    ASSUME NEW d, Shape(d), NEW id \in Ids, d.recent[id] \in 0 .. Len(d.nodes),
           NEW e, e = Leave(d, id)
    PROVE  /\ Shape(e)
           /\ SameNodes(d, e)
           /\ SameLists(d, e)
           /\ \A j \in 1 .. Len(d.nodes) : \A x :
                 On(e, j, x) <=> On(d, j, x) /\ ~(j = d.recent[id] /\ x = id)
<1>1. CASE d.recent[id] = 0
  BY <1>1 DEF Leave, SameNodes, SameLists
<1>2. CASE d.recent[id] # 0
  <2>1. d.recent[id] \in 1 .. Len(d.nodes) /\ e = Drop(d, d.recent[id], id)
    BY <1>2 DEF Leave, Shape
  <2>. QED  BY <2>1, DropEffect
<1>. QED  BY <1>1, <1>2

\* The roots change and nothing else.
SameButRoots(d, e) ==
    /\ e.nodes = d.nodes
    /\ e.recent = d.recent
    /\ e.table = d.table

\* Root makes a node a root, once.
LEMMA RootEffect ==
    ASSUME NEW d, Shape(d), NEW k \in Nat, NEW e, e = Root(d, k)
    PROVE  /\ Shape(e)
           /\ SameButRoots(d, e)
           /\ \A x : Contains(e.roots, x) <=> Contains(d.roots, x) \/ x = k
<1>1. CASE Contains(d.roots, k)
  BY <1>1 DEF Root, SameButRoots
<1>2. CASE ~Contains(d.roots, k)
  <2>. DEFINE q == Append(d.roots, k)
  <2>1. /\ e = [nodes |-> d.nodes, recent |-> d.recent, table |-> d.table,
                roots |-> q, aborted |-> d.aborted]
    BY <1>2 DEF Root, Shape
  <2>2. d.roots \in Seq(Nat)
    BY DEF Shape
  <2>3. q \in Seq(Nat) /\ Len(q) = Len(d.roots) + 1 /\ q[Len(d.roots) + 1] = k
        /\ \A i \in 1 .. Len(d.roots) : q[i] = d.roots[i]
    BY <2>2
  <2>. HIDE DEF q
  <2>4. \A x : Contains(q, x) <=> Contains(d.roots, x) \/ x = k
    <3>1. Len(d.roots) \in Nat
      BY <2>2
    <3>2. \A i \in 1 .. Len(q) : i \in 1 .. Len(d.roots) \/ i = Len(d.roots) + 1
      BY <3>1, <2>3
    <3>3. Len(d.roots) + 1 \in 1 .. Len(q) /\ 1 .. Len(d.roots) \subseteq 1 .. Len(q)
      BY <3>1, <2>3
    <3>. QED  BY <3>2, <3>3, <2>3 DEF Contains
  <2>5. /\ e.nodes = d.nodes /\ e.recent = d.recent /\ e.table = d.table
        /\ e.roots = q /\ e.aborted = d.aborted
    BY <2>1
  <2>6. Shape(e)
    BY <2>1, <2>3, <2>5 DEF Shape
  <2>. QED  BY <2>4, <2>5, <2>6 DEF SameButRoots
<1>. QED  BY <1>1, <1>2

\* Unroot takes a node out of the roots and leaves the others.
LEMMA UnrootEffect ==
    ASSUME NEW d, Shape(d), NEW k \in Nat, NEW e, e = Unroot(d, k)
    PROVE  /\ Shape(e)
           /\ SameButRoots(d, e)
           /\ \A x : Contains(e.roots, x) => Contains(d.roots, x)
           /\ \A x : Contains(d.roots, x) /\ x # k => Contains(e.roots, x)
<1>. DEFINE q == RemoveFirst(d.roots, k)
<1>1. /\ e = [nodes |-> d.nodes, recent |-> d.recent, table |-> d.table,
              roots |-> q, aborted |-> d.aborted]
  BY DEF Unroot, Shape
<1>2. d.roots \in Seq(Nat)
  BY DEF Shape
<1>3. /\ q \in Seq(Nat)
      /\ \A x : /\ Contains(q, x) => Contains(d.roots, x)
                /\ Contains(d.roots, x) /\ x # k => Contains(q, x)
  BY <1>2, RemoveFirstOthers
<1>. HIDE DEF q
<1>4. /\ e.nodes = d.nodes /\ e.recent = d.recent /\ e.table = d.table
      /\ e.roots = q /\ e.aborted = d.aborted
  BY <1>1
<1>5. Shape(e)
  BY <1>1, <1>3, <1>4 DEF Shape
<1>6. /\ \A x : Contains(e.roots, x) => Contains(d.roots, x)
      /\ \A x : Contains(d.roots, x) /\ x # k => Contains(e.roots, x)
  <2>1. e.roots = q
    BY <1>4
  <2>. QED  BY ONLY <1>3, <2>1
<1>. QED  BY <1>4, <1>5, <1>6 DEF SameButRoots

-----------------------------------------------------------------------------
\* What holds of the graph whatever has been compiled into it: every node
\* comes after its children, dag_table has operations, an identifier is on
\* one interior node at most, on the node of its latest value, and on its own
\* leaf only.  made: the temporaries there are.
Placed(d) ==
    /\ \A k \in 1 .. Len(d.nodes) :
          /\ d.nodes[k].left \in 0 .. k - 1
          /\ d.nodes[k].right \in 0 .. k - 1
          /\ d.nodes[k].op # "NONE" => d.nodes[k].left # 0
          /\ d.nodes[k].op \in Operations => d.nodes[k].right # 0
    /\ \A id \in Ids : d.recent[id] \in 0 .. Len(d.nodes)
    /\ \A k : Contains(d.roots, k) => k \in 1 .. Len(d.nodes)

Entries(d) ==
    \A h \in DOMAIN d.table :
        /\ d.table[h] \in 1 .. Len(d.nodes)
        /\ d.nodes[d.table[h]].op \in Operations

Homes(d) ==
    /\ \A j, k \in 1 .. Len(d.nodes) : \A x :
          /\ d.nodes[j].op # "NONE" /\ d.nodes[k].op # "NONE"
          /\ On(d, j, x) /\ On(d, k, x)
          => j = k
    /\ \A id \in Ids : d.recent[id] # 0 => On(d, d.recent[id], id)
    /\ \A j \in 1 .. Len(d.nodes) : \A v \in Vars :
          d.nodes[j].op # "NONE" /\ On(d, j, v) => d.recent[v] = j
    /\ \A j \in 1 .. Len(d.nodes) : \A x :
          d.nodes[j].op = "NONE" /\ On(d, j, x) => x = d.nodes[j].arg

Known(d, made) ==
    \A j \in 1 .. Len(d.nodes) :
        /\ \A x : On(d, j, x) => x \in Vars \cup made
        /\ d.nodes[j].arg \in Vars \cup made \cup Consts \cup {None}
        /\ d.nodes[j].op = "NONE" => d.nodes[j].arg # None

Graph(d, made) ==
    /\ Shape(d)
    /\ Placed(d)
    /\ Entries(d)
    /\ Homes(d)
    /\ Known(d, made)

\* d grows: the nodes that were there stay as they are.
Grown(d, w) ==
    /\ Len(d.nodes) =< Len(w.nodes)
    /\ \A j \in 1 .. Len(d.nodes) : w.nodes[j] = d.nodes[j]
    /\ w.table = d.table
    /\ w.roots = d.roots
    /\ w.aborted = d.aborted

\* w is d with a leaf for arg.
Leafed(d, w, arg) ==
    /\ Grown(d, w)
    /\ Len(w.nodes) = Len(d.nodes) + 1
    /\ w.nodes[Len(d.nodes) + 1] = Leaf(arg)
    /\ \A id \in Ids : w.recent[id] = IF id = arg THEN Len(d.nodes) + 1 ELSE d.recent[id]

\* A graph in order is in order with one more leaf.
LEMMA NewLeaf ==
    ASSUME NEW made, made \subseteq Ids \ Vars,
           NEW d, Graph(d, made), NEW arg \in Vars \cup made \cup Consts,
           NeedsLeaf(d, arg),
           NEW w, w = WithArg(d, arg)
    PROVE  Graph(w, made) /\ Leafed(d, w, arg)
<1>. DEFINE n == Len(d.nodes) + 1
<1>0. Vars \subseteq Ids /\ Consts \cap Ids = {} /\ None \notin Ids /\ None \notin Consts
      /\ "NONE" \notin Operations /\ "ASSIGN" \notin Operations
  BY OptimizerAssumption, DagAssumption
<1>. DEFINE q == Append(d.nodes, Leaf(arg))
            r == [id \in Ids |-> IF id = arg THEN n ELSE d.recent[id]]
<1>1. /\ w = [nodes |-> q, recent |-> r, table |-> d.table,
              roots |-> d.roots, aborted |-> d.aborted]
  BY DEF WithArg, Graph, Shape
<1>2. Leaf(arg) \in NodeRecs
  BY <1>0 DEF Leaf, NodeRecs
<1>3. d.nodes \in Seq(NodeRecs) /\ n \in Nat /\ Len(d.nodes) \in Nat
  BY DEF Graph, Shape
<1>4. /\ q \in Seq(NodeRecs) /\ Len(q) = n
      /\ q[n] = Leaf(arg)
      /\ \A j \in 1 .. Len(d.nodes) : q[j] = d.nodes[j]
  BY <1>2, <1>3
<1>5. r \in [Ids -> Nat]
  BY <1>3 DEF Graph, Shape
<1>6. /\ w.nodes = q /\ w.recent = r /\ w.table = d.table
      /\ w.roots = d.roots /\ w.aborted = d.aborted
  BY <1>1
<1>7. \A id \in Ids : w.recent[id] = IF id = arg THEN n ELSE d.recent[id]
  BY <1>6
<1>. HIDE DEF q, r
<1>8. Grown(d, w) /\ Len(w.nodes) = n /\ w.nodes[n] = Leaf(arg)
  BY <1>3, <1>4, <1>6 DEF Grown
<1>9. \A j \in 1 .. n : j \in 1 .. Len(d.nodes) \/ j = n
  BY <1>3
<1>10. /\ Leaf(arg).op = "NONE" /\ Leaf(arg).arg = arg
       /\ Leaf(arg).left = 0 /\ Leaf(arg).right = 0
       /\ Leaf(arg).ids = IF arg \in Ids THEN << arg >> ELSE << >>
  BY DEF Leaf
<1>11. /\ Distinct(Leaf(arg).ids)
       /\ \A x : Contains(Leaf(arg).ids, x) <=> arg \in Ids /\ x = arg
  BY <1>10 DEF Distinct, Contains
<1>12. Shape(w)
  <2>1. \A k \in 1 .. Len(d.nodes) : Distinct(d.nodes[k].ids)
    BY DEF Graph, Shape
  <2>2. \A k \in 1 .. Len(w.nodes) : Distinct(w.nodes[k].ids)
    BY <2>1, <1>8, <1>9, <1>11 DEF Grown
  <2>3. d.roots \in Seq(Nat)
    BY DEF Graph, Shape
  <2>. QED  BY <2>2, <2>3, <1>1, <1>4, <1>5, <1>6 DEF Shape
<1>13. Placed(w)
  <2>1. Placed(d)
    BY DEF Graph
  <2>2. \A k \in 1 .. n :
          /\ w.nodes[k].left \in 0 .. k - 1
          /\ w.nodes[k].right \in 0 .. k - 1
          /\ w.nodes[k].op # "NONE" => w.nodes[k].left # 0
          /\ w.nodes[k].op \in Operations => w.nodes[k].right # 0
    <3>. TAKE k \in 1 .. n
    <3>1. CASE k = n
      BY <3>1, <1>0, <1>3, <1>8, <1>10
    <3>2. CASE k # n
      BY <3>2, <2>1, <1>3, <1>8, <1>9 DEF Placed, Grown
    <3>. QED  BY <3>1, <3>2
  <2>3. \A id \in Ids : w.recent[id] \in 0 .. n
    BY <2>1, <1>3, <1>7 DEF Placed
  <2>4. \A k : Contains(w.roots, k) => k \in 1 .. n
    BY <2>1, <1>3, <1>8 DEF Placed, Grown
  <2>. QED  BY <2>2, <2>3, <2>4, <1>8 DEF Placed
<1>14. Entries(w)
  BY <1>3, <1>8 DEF Graph, Entries, Grown
<1>15. \A j \in 1 .. n : \A x : On(w, j, x) <=> IF j = n THEN arg \in Ids /\ x = arg
                                                        ELSE On(d, j, x)
  BY <1>3, <1>8, <1>9, <1>11 DEF On, Grown
<1>16. /\ w.nodes[n].op = "NONE" /\ w.nodes[n].arg = arg
       /\ \A j \in 1 .. n : j # n => w.nodes[j] = d.nodes[j]
  BY <1>8, <1>9, <1>10 DEF Grown
<1>17. Homes(w)
  <2>1. Homes(d) /\ Placed(d)
    BY DEF Graph
  <2>2. \A j, k \in 1 .. n : \A x :
          /\ w.nodes[j].op # "NONE" /\ w.nodes[k].op # "NONE"
          /\ On(w, j, x) /\ On(w, k, x)
          => j = k
    BY <2>1, <1>3, <1>9, <1>15, <1>16 DEF Homes
  <2>3. \A id \in Ids : w.recent[id] # 0 => On(w, w.recent[id], id)
    <3>. SUFFICES ASSUME NEW id \in Ids, w.recent[id] # 0
                  PROVE  On(w, w.recent[id], id)
      OBVIOUS
    <3>1. CASE id = arg
      <4>1. w.recent[id] = n /\ n \in 1 .. n
        BY <3>1, <1>3, <1>7
      <4>. QED  BY <3>1, <4>1, <1>15
    <3>2. CASE id # arg
      <4>1. w.recent[id] = d.recent[id] /\ d.recent[id] \in 1 .. Len(d.nodes)
        BY <3>2, <2>1, <1>3, <1>7 DEF Placed
      <4>2. d.recent[id] # n /\ d.recent[id] \in 1 .. n
        BY <4>1, <1>3
      <4>. QED  BY <4>1, <4>2, <2>1, <1>15 DEF Homes
    <3>. QED  BY <3>1, <3>2
  <2>4. \A j \in 1 .. n : \A v \in Vars :
          w.nodes[j].op # "NONE" /\ On(w, j, v) => w.recent[v] = j
    <3>. SUFFICES ASSUME NEW j \in 1 .. n, NEW v \in Vars,
                         w.nodes[j].op # "NONE", On(w, j, v)
                  PROVE  w.recent[v] = j
      OBVIOUS
    <3>1. j # n /\ j \in 1 .. Len(d.nodes) /\ On(d, j, v) /\ d.nodes[j].op # "NONE"
      BY <1>9, <1>15, <1>16
    <3>2. d.recent[v] = j
      BY <3>1, <2>1 DEF Homes
    <3>3. v # arg
      BY <3>1, <3>2, <1>0, <1>3 DEF NeedsLeaf
    <3>. QED  BY <3>2, <3>3, <1>0, <1>7
  <2>5. \A j \in 1 .. n : \A x :
          w.nodes[j].op = "NONE" /\ On(w, j, x) => x = w.nodes[j].arg
    BY <2>1, <1>9, <1>15, <1>16 DEF Homes
  <2>. QED  BY <2>2, <2>3, <2>4, <2>5, <1>8 DEF Homes
<1>18. Known(w, made)
  <2>1. Known(d, made)
    BY DEF Graph
  <2>2. arg # None /\ (arg \in Ids => arg \in Vars \cup made)
    BY <1>0
  <2>. QED  BY <2>1, <2>2, <1>8, <1>9, <1>15, <1>16 DEF Known
<1>. QED  BY <1>7, <1>8, <1>12, <1>13, <1>14, <1>17, <1>18 DEF Graph, Leafed

\* k is the node of arg in w.
Looked(d, w, arg, k) ==
    /\ Grown(d, w)
    /\ k \in 1 .. Len(w.nodes)
    /\ arg \in Ids => w.recent[arg] = k
    /\ \A id \in Ids : id # arg => w.recent[id] = d.recent[id]
    /\ \A j \in 1 .. Len(w.nodes) : j \in 1 .. Len(d.nodes) \/ w.nodes[j].op = "NONE"

\* get_arg_node: the node of an argument, with a new leaf where it has none.
LEMMA ArgumentNode ==
    ASSUME NEW made, made \subseteq Ids \ Vars,
           NEW d, Graph(d, made), NEW arg \in Vars \cup made \cup Consts,
           NEW w, w = WithArg(d, arg), NEW k, k = ArgNode(d, arg)
    PROVE  Graph(w, made) /\ Looked(d, w, arg, k)
<1>1. CASE NeedsLeaf(d, arg)
  <2>1. k = Len(d.nodes) + 1 /\ Len(d.nodes) \in Nat
    BY <1>1 DEF ArgNode, Graph, Shape
  <2>2. Graph(w, made) /\ Leafed(d, w, arg)
    BY <1>1, NewLeaf
  <2>3. \A j \in 1 .. Len(w.nodes) : j \in 1 .. Len(d.nodes) \/ w.nodes[j].op = "NONE"
    BY <2>1, <2>2 DEF Leafed, Leaf
  <2>. QED  BY <2>1, <2>2, <2>3 DEF Leafed, Looked
<1>2. CASE ~NeedsLeaf(d, arg)
  <2>1. w = d /\ k = d.recent[arg] /\ arg \in Ids /\ d.recent[arg] # 0
    BY <1>2 DEF WithArg, ArgNode, NeedsLeaf
  <2>2. d.recent[arg] \in 0 .. Len(d.nodes) /\ Len(d.nodes) \in Nat
    BY <2>1 DEF Graph, Placed, Shape
  <2>. QED  BY <2>1, <2>2 DEF Grown, Looked
<1>. QED  BY <1>1, <1>2

-----------------------------------------------------------------------------
\* f is w with a node more, which has the latest value of id; id leaves the
\* nodes gone, and the nodes freed may stop being roots.
Appended(w, f, node, id, gone, freed) ==
    /\ Shape(f)
    /\ Len(f.nodes) = Len(w.nodes) + 1
    /\ f.nodes[Len(w.nodes) + 1] = node
    /\ \A j \in 1 .. Len(w.nodes) :
          /\ f.nodes[j].op = w.nodes[j].op
          /\ f.nodes[j].arg = w.nodes[j].arg
          /\ f.nodes[j].left = w.nodes[j].left
          /\ f.nodes[j].right = w.nodes[j].right
          /\ \A x : On(f, j, x) <=> On(w, j, x) /\ ~(x = id /\ j \in gone)
    /\ f.recent = [w.recent EXCEPT ![id] = Len(w.nodes) + 1]
    /\ \A x : /\ Contains(f.roots, x) => Contains(w.roots, x) \/ x = Len(w.nodes) + 1
              /\ Contains(w.roots, x) /\ x \notin freed => Contains(f.roots, x)
    /\ Contains(f.roots, Len(w.nodes) + 1)

\* The node alone.
WithNode(d, e, node, id) ==
    /\ Len(e.nodes) = Len(d.nodes) + 1
    /\ e.nodes[Len(d.nodes) + 1] = node
    /\ \A j \in 1 .. Len(d.nodes) : e.nodes[j] = d.nodes[j]
    /\ e.recent = [d.recent EXCEPT ![id] = Len(d.nodes) + 1]
    /\ e.table = d.table
    /\ e.roots = d.roots

\* With nothing gone but what has the latest value of id, and after two nodes.
AppendedAlone(w, f, node, id) == Appended(w, f, node, id, {w.recent[id]}, {})
AppendedOver(w, f, node, id, l, r) ==
    Appended(w, f, node, id, {l, r, w.recent[id]}, {l, r})

\* A new node at the end of the graph, the latest one of its identifier.
LEMMA AppendNode ==
    ASSUME NEW d, Shape(d), NEW node \in NodeRecs, Distinct(node.ids), NEW id \in Ids,
           NEW e, e = [d EXCEPT !.nodes = Append(d.nodes, node),
                                !.recent[id] = Len(d.nodes) + 1]
    PROVE  Shape(e) /\ WithNode(d, e, node, id)
<1>. DEFINE n == Len(d.nodes) + 1
            q == Append(d.nodes, node)
            r == [d.recent EXCEPT ![id] = n]
<1>1. /\ e = [nodes |-> q, recent |-> r, table |-> d.table,
              roots |-> d.roots, aborted |-> d.aborted]
  BY DEF Shape
<1>2. d.nodes \in Seq(NodeRecs) /\ Len(d.nodes) \in Nat /\ n \in Nat
  BY DEF Shape
<1>3. /\ q \in Seq(NodeRecs) /\ Len(q) = n /\ q[n] = node
      /\ \A j \in 1 .. Len(d.nodes) : q[j] = d.nodes[j]
  BY <1>2
<1>4. r \in [Ids -> Nat]
  BY <1>2 DEF Shape
<1>5. /\ e.nodes = q /\ e.recent = r /\ e.table = d.table
      /\ e.roots = d.roots /\ e.aborted = d.aborted
  BY <1>1
<1>. HIDE DEF q, r
<1>6. \A j \in 1 .. n : j \in 1 .. Len(d.nodes) \/ j = n
  BY <1>2
<1>7. \A j \in 1 .. n : Distinct(q[j].ids)
  BY <1>3, <1>6 DEF Shape
<1>8. Shape(e)
  BY <1>1, <1>3, <1>4, <1>5, <1>7 DEF Shape
<1>. QED  BY <1>3, <1>5, <1>8 DEF r, WithNode

\* NewNode: the identifier leaves the node it was on, the new one is a root.
LEMMA NewNodeEffect ==
    ASSUME NEW d, Shape(d), NEW node \in NodeRecs, Distinct(node.ids), NEW id \in Ids,
           d.recent[id] \in 0 .. Len(d.nodes),
           NEW f, f = NewNode(d, node, id)
    PROVE  AppendedAlone(d, f, node, id) /\ f.table = d.table
<1>. DEFINE n == Len(d.nodes) + 1
            e == Leave(d, id)
            a == [e EXCEPT !.nodes = Append(@, node), !.recent[id] = Len(e.nodes) + 1]
<1>1. /\ Shape(e)
      /\ SameNodes(d, e)
      /\ SameLists(d, e)
      /\ \A j \in 1 .. Len(d.nodes) : \A x :
            On(e, j, x) <=> On(d, j, x) /\ ~(j = d.recent[id] /\ x = id)
  BY LeaveEffect
<1>2. Len(e.nodes) = Len(d.nodes) /\ n \in Nat
  BY <1>1 DEF SameNodes, Shape
<1>3. f = Root(a, n)
  BY <1>2 DEF NewNode
<1>. HIDE DEF e
<1>10. a = [e EXCEPT !.nodes = Append(e.nodes, node), !.recent[id] = Len(e.nodes) + 1]
  OBVIOUS
<1>. HIDE DEF a
<1>4. Shape(a) /\ WithNode(e, a, node, id)
  BY <1>1, <1>10, AppendNode
<1>5. /\ Shape(f)
      /\ SameButRoots(a, f)
      /\ \A x : Contains(f.roots, x) <=> Contains(a.roots, x) \/ x = n
  BY <1>2, <1>3, <1>4, RootEffect
<1>6. Len(f.nodes) = n /\ f.nodes[n] = node /\ f.table = d.table
      /\ f.recent = [d.recent EXCEPT ![id] = n]
  BY <1>1, <1>2, <1>4, <1>5 DEF WithNode, SameButRoots, SameLists
<1>7. \A j \in 1 .. Len(d.nodes) : f.nodes[j] = e.nodes[j]
  BY <1>2, <1>4, <1>5 DEF WithNode, SameButRoots
<1>8. \A j \in 1 .. Len(d.nodes) :
          /\ f.nodes[j].op = d.nodes[j].op
          /\ f.nodes[j].arg = d.nodes[j].arg
          /\ f.nodes[j].left = d.nodes[j].left
          /\ f.nodes[j].right = d.nodes[j].right
          /\ \A x : On(f, j, x) <=> On(d, j, x) /\ ~(x = id /\ j \in {d.recent[id]})
  <2>1. \A j \in 1 .. Len(d.nodes) :
           /\ e.nodes[j].op = d.nodes[j].op
           /\ e.nodes[j].arg = d.nodes[j].arg
           /\ e.nodes[j].left = d.nodes[j].left
           /\ e.nodes[j].right = d.nodes[j].right
    BY ONLY <1>1 DEF SameNodes
  <2>2. \A j \in 1 .. Len(d.nodes) : \A x : On(f, j, x) <=> On(e, j, x)
    BY ONLY <1>7 DEF On
  <2>3. \A j \in 1 .. Len(d.nodes) : \A x :
           On(f, j, x) <=> On(d, j, x) /\ ~(x = id /\ j \in {d.recent[id]})
    BY ONLY <1>1, <2>2
  <2>. QED  BY ONLY <1>7, <2>1, <2>3
<1>9. \A x : Contains(f.roots, x) <=> Contains(d.roots, x) \/ x = n
  BY <1>1, <1>4, <1>5 DEF WithNode, SameLists
<1>. QED  BY <1>5, <1>6, <1>8, <1>9 DEF Appended, AppendedAlone

\* An interior node is a node.
LEMMA NewInterior ==
    ASSUME NEW op \in {"ASSIGN"} \cup Operations, NEW l \in Nat, NEW r \in Nat,
           NEW id \in Ids, NEW node, node = Interior(op, l, r, id)
    PROVE  node \in NodeRecs /\ Distinct(node.ids)
BY DEF Interior, NodeRecs, Distinct

\* dag_assign of a leaf: the leaf loses id and may stop being a root.
LEMMA AssignLeafEffect ==
    ASSUME NEW w, Shape(w), NEW k \in 1 .. Len(w.nodes), NEW id \in Ids,
           w.recent[id] \in 0 .. Len(w.nodes),
           NEW node \in NodeRecs, Distinct(node.ids),
           NEW e, e = Drop(w, k, id), NEW u, u = Unroot(e, k),
           NEW f, f = NewNode(u, node, id)
    PROVE  AppendedOver(w, f, node, id, k, k) /\ f.table = w.table
<1>1. /\ Shape(e)
      /\ SameNodes(w, e)
      /\ SameLists(w, e)
      /\ \A j \in 1 .. Len(w.nodes) : \A x :
            On(e, j, x) <=> On(w, j, x) /\ ~(j = k /\ x = id)
  BY DropEffect
<1>2. k \in Nat /\ Len(w.nodes) \in Nat
  BY DEF Shape
<1>3. /\ Shape(u)
      /\ SameButRoots(e, u)
      /\ \A x : Contains(u.roots, x) => Contains(e.roots, x)
      /\ \A x : Contains(e.roots, x) /\ x # k => Contains(u.roots, x)
  BY <1>1, <1>2, UnrootEffect
<1>4. /\ Len(u.nodes) = Len(w.nodes) /\ u.recent = w.recent
      /\ u.table = w.table
  BY <1>1, <1>3 DEF SameButRoots, SameNodes, SameLists
<1>5. f = NewNode(u, node, id)
  OBVIOUS
<1>9. u.recent[id] \in 0 .. Len(u.nodes)
  BY <1>4
<1>10. AppendedAlone(u, f, node, id) /\ f.table = u.table
  BY <1>3, <1>5, <1>9, NewNodeEffect
<1>6. Appended(u, f, node, id, {w.recent[id]}, {}) /\ f.table = u.table
  BY <1>4, <1>10 DEF AppendedAlone
<1>11. \A j \in 1 .. Len(w.nodes) : \A x :
          On(u, j, x) <=> On(w, j, x) /\ ~(x = id /\ j = k)
  BY <1>1, <1>3 DEF On, SameButRoots
<1>12. \A j \in 1 .. Len(w.nodes) :
          /\ u.nodes[j].op = w.nodes[j].op
          /\ u.nodes[j].arg = w.nodes[j].arg
          /\ u.nodes[j].left = w.nodes[j].left
          /\ u.nodes[j].right = w.nodes[j].right
  BY <1>1, <1>3 DEF SameNodes, SameButRoots
<1>7. \A j \in 1 .. Len(w.nodes) :
          /\ f.nodes[j].op = w.nodes[j].op
          /\ f.nodes[j].arg = w.nodes[j].arg
          /\ f.nodes[j].left = w.nodes[j].left
          /\ f.nodes[j].right = w.nodes[j].right
          /\ \A x : On(f, j, x) <=> On(w, j, x) /\ ~(x = id /\ j \in {k, k, w.recent[id]})
  BY <1>4, <1>6, <1>11, <1>12 DEF Appended
<1>8. \A x : /\ Contains(f.roots, x) => Contains(w.roots, x) \/ x = Len(w.nodes) + 1
             /\ Contains(w.roots, x) /\ x \notin {k, k} => Contains(f.roots, x)
  BY <1>1, <1>3, <1>4, <1>6 DEF Appended, SameLists
<1>. QED  BY <1>4, <1>6, <1>7, <1>8 DEF Appended, AppendedOver

\* dag_binary: both operands may stop being roots.
LEMMA BinaryEffect ==
    ASSUME NEW w, Shape(w), NEW l \in 1 .. Len(w.nodes), NEW r \in 1 .. Len(w.nodes),
           NEW id \in Ids, w.recent[id] \in 0 .. Len(w.nodes),
           NEW node \in NodeRecs, Distinct(node.ids),
           NEW f, f = NewNode(Drop(Drop(Unroot(Unroot(w, l), r), l, id), r, id), node, id)
    PROVE  AppendedOver(w, f, node, id, l, r) /\ f.table = w.table
<1>. DEFINE u == Unroot(w, l)
            v == Unroot(u, r)
            d == Drop(v, l, id)
            e == Drop(d, r, id)
<1>1. l \in Nat /\ r \in Nat /\ Len(w.nodes) \in Nat
  BY DEF Shape
<1>2. /\ Shape(u)
      /\ SameButRoots(w, u)
      /\ \A x : Contains(u.roots, x) => Contains(w.roots, x)
      /\ \A x : Contains(w.roots, x) /\ x # l => Contains(u.roots, x)
  BY <1>1, UnrootEffect
<1>. HIDE DEF u
<1>3. /\ Shape(v)
      /\ SameButRoots(u, v)
      /\ \A x : Contains(v.roots, x) => Contains(u.roots, x)
      /\ \A x : Contains(u.roots, x) /\ x # r => Contains(v.roots, x)
  BY <1>1, <1>2, UnrootEffect
<1>. HIDE DEF v
<1>4. v.nodes = w.nodes /\ v.recent = w.recent /\ v.table = w.table
  BY <1>2, <1>3 DEF SameButRoots
<1>5. l \in 1 .. Len(v.nodes)
  BY <1>4
<1>6. /\ Shape(d)
      /\ SameNodes(v, d)
      /\ SameLists(v, d)
      /\ \A j \in 1 .. Len(v.nodes) : \A x :
            On(d, j, x) <=> On(v, j, x) /\ ~(j = l /\ x = id)
  BY <1>3, <1>5, DropEffect
<1>. HIDE DEF d
<1>7. Len(d.nodes) = Len(w.nodes) /\ r \in 1 .. Len(d.nodes)
  BY <1>4, <1>6 DEF SameNodes
<1>8. /\ Shape(e)
      /\ SameNodes(d, e)
      /\ SameLists(d, e)
      /\ \A j \in 1 .. Len(d.nodes) : \A x :
            On(e, j, x) <=> On(d, j, x) /\ ~(j = r /\ x = id)
  BY <1>6, <1>7, DropEffect
<1>9. f = NewNode(e, node, id)
  BY DEF e, d, v, u
<1>. HIDE DEF e
<1>10. Len(e.nodes) = Len(w.nodes) /\ e.recent = w.recent /\ e.table = w.table
       /\ e.roots = v.roots
  BY <1>4, <1>6, <1>7, <1>8 DEF SameNodes, SameLists
<1>16. e.recent[id] \in 0 .. Len(e.nodes)
  BY <1>10
<1>17. AppendedAlone(e, f, node, id) /\ f.table = e.table
  BY <1>8, <1>9, <1>16, NewNodeEffect
<1>11. Appended(e, f, node, id, {w.recent[id]}, {}) /\ f.table = e.table
  BY <1>10, <1>17 DEF AppendedAlone
<1>12. \A j \in 1 .. Len(w.nodes) : \A x :
          On(e, j, x) <=> On(w, j, x) /\ ~(x = id /\ j \in {l, r})
  BY <1>4, <1>6, <1>7, <1>8 DEF On
<1>13. \A j \in 1 .. Len(w.nodes) :
          /\ e.nodes[j].op = w.nodes[j].op
          /\ e.nodes[j].arg = w.nodes[j].arg
          /\ e.nodes[j].left = w.nodes[j].left
          /\ e.nodes[j].right = w.nodes[j].right
  BY <1>4, <1>6, <1>7, <1>8 DEF SameNodes
<1>14. \A j \in 1 .. Len(w.nodes) :
          /\ f.nodes[j].op = w.nodes[j].op
          /\ f.nodes[j].arg = w.nodes[j].arg
          /\ f.nodes[j].left = w.nodes[j].left
          /\ f.nodes[j].right = w.nodes[j].right
          /\ \A x : On(f, j, x) <=> On(w, j, x) /\ ~(x = id /\ j \in {l, r, w.recent[id]})
  <2>1. \A j \in 1 .. Len(w.nodes) :
           /\ f.nodes[j].op = e.nodes[j].op
           /\ f.nodes[j].arg = e.nodes[j].arg
           /\ f.nodes[j].left = e.nodes[j].left
           /\ f.nodes[j].right = e.nodes[j].right
    BY ONLY <1>10, <1>11 DEF Appended
  <2>2. \A j \in 1 .. Len(w.nodes) : \A x :
           On(f, j, x) <=> On(e, j, x) /\ ~(x = id /\ j \in {w.recent[id]})
    BY ONLY <1>10, <1>11 DEF Appended
  <2>3. \A j \in 1 .. Len(w.nodes) : \A x :
           On(f, j, x) <=> On(w, j, x) /\ ~(x = id /\ j \in {l, r, w.recent[id]})
    BY ONLY <1>12, <2>2
  <2>. QED  BY ONLY <1>13, <2>1, <2>3
<1>15. \A x : /\ Contains(f.roots, x) => Contains(w.roots, x) \/ x = Len(w.nodes) + 1
              /\ Contains(w.roots, x) /\ x \notin {l, r} => Contains(f.roots, x)
  BY <1>2, <1>3, <1>10, <1>11 DEF Appended
<1>. QED  BY <1>10, <1>11, <1>14, <1>15 DEF Appended, AppendedOver

-----------------------------------------------------------------------------
\* A new interior node over nodes that are there keeps the graph in order, if
\* id was on no other interior node than those it leaves.
LEMMA AppendedGraph ==
    ASSUME NEW made, NEW more, made \subseteq more, more \subseteq Ids \ Vars,
           NEW w, Graph(w, made), NEW f, NEW op \in {"ASSIGN"} \cup Operations,
           NEW l \in 1 .. Len(w.nodes), NEW r \in 0 .. Len(w.nodes),
           op \in Operations => r # 0,
           NEW id \in Vars \cup more, NEW m \in Nat,
           AppendedOver(w, f, Interior(op, l, r, id), id, l, m),
           \A j \in 1 .. Len(w.nodes) :
              w.nodes[j].op # "NONE" /\ On(w, j, id) => j \in {l, m, w.recent[id]},
           \A h \in DOMAIN f.table :
              \/ h \in DOMAIN w.table /\ f.table[h] = w.table[h]
              \/ f.table[h] = Len(w.nodes) + 1 /\ op \in Operations
    PROVE  Graph(f, more)
<1>0. Vars \subseteq Ids /\ None \notin Ids /\ id \in Ids
      /\ "NONE" \notin Operations /\ "ASSIGN" \notin Operations
  BY OptimizerAssumption, DagAssumption
<1>. DEFINE n == Len(w.nodes) + 1
            gone == {l, m, w.recent[id]}
<1>1. Shape(w) /\ Placed(w) /\ Entries(w) /\ Homes(w) /\ Known(w, made)
  BY DEF Graph
<1>2. Len(w.nodes) \in Nat /\ n \in Nat /\ n \in 1 .. n
  BY <1>1 DEF Shape
<1>3. \A j \in 1 .. n : j \in 1 .. Len(w.nodes) \/ j = n
  BY <1>2
<1>4. /\ f.nodes[n].op = op /\ f.nodes[n].arg = None
      /\ f.nodes[n].left = l /\ f.nodes[n].right = r
      /\ \A x : On(f, n, x) <=> x = id
  <2>1. PICK node : node = Interior(op, l, r, id)
    OBVIOUS
  <2>2. f.nodes[n] = node
    BY <2>1 DEF Appended, AppendedOver
  <2>3. l \in Nat /\ r \in Nat
    BY <1>2
  <2>4. /\ node.op = op /\ node.arg = None /\ node.left = l /\ node.right = r
        /\ \A x : Contains(node.ids, x) <=> x = id
    BY <2>1 DEF Interior, Contains
  <2>. QED  BY <2>2, <2>4 DEF On
<1>5. \A j \in 1 .. Len(w.nodes) :
          /\ f.nodes[j].op = w.nodes[j].op
          /\ f.nodes[j].arg = w.nodes[j].arg
          /\ f.nodes[j].left = w.nodes[j].left
          /\ f.nodes[j].right = w.nodes[j].right
          /\ \A x : On(f, j, x) <=> On(w, j, x) /\ ~(x = id /\ j \in gone)
  BY DEF Appended, AppendedOver
<1>6. \A x \in Ids : f.recent[x] = IF x = id THEN n ELSE w.recent[x]
  BY <1>0, <1>1 DEF Appended, AppendedOver, Shape
<1>7. Shape(f) /\ Len(f.nodes) = n
  BY DEF Appended, AppendedOver
<1>8. Placed(f)
  <2>1. ASSUME NEW k \in 1 .. n
        PROVE  /\ f.nodes[k].left \in 0 .. k - 1
               /\ f.nodes[k].right \in 0 .. k - 1
               /\ f.nodes[k].op # "NONE" => f.nodes[k].left # 0
               /\ f.nodes[k].op \in Operations => f.nodes[k].right # 0
    <3>1. CASE k = n
      <4>1. /\ l \in 0 .. n - 1 /\ l # 0
            /\ r \in 0 .. n - 1 /\ (op \in Operations => r # 0)
        BY <1>2
      <4>. QED  BY ONLY <3>1, <4>1, <1>4
    <3>2. CASE k # n
      <4>1. k \in 1 .. Len(w.nodes)
        BY <3>2, <1>3
      <4>2. /\ w.nodes[k].left \in 0 .. k - 1
            /\ w.nodes[k].right \in 0 .. k - 1
            /\ w.nodes[k].op # "NONE" => w.nodes[k].left # 0
            /\ w.nodes[k].op \in Operations => w.nodes[k].right # 0
        BY ONLY <4>1, <1>1 DEF Placed
      <4>. QED  BY ONLY <4>1, <4>2, <1>5
    <3>. QED  BY <3>1, <3>2
  <2>2. \A x \in Ids : f.recent[x] \in 0 .. n
    <3>1. \A x \in Ids : w.recent[x] \in 0 .. Len(w.nodes)
      BY ONLY <1>1 DEF Placed
    <3>. QED  BY ONLY <3>1, <1>2, <1>6
  <2>3. \A k : Contains(f.roots, k) => k \in 1 .. n
    BY <1>1, <1>2 DEF Placed, Appended, AppendedOver
  <2>. QED  BY <2>1, <2>2, <2>3, <1>7 DEF Placed
<1>9. Entries(f)
  <2>. SUFFICES ASSUME NEW h \in DOMAIN f.table
                PROVE  f.table[h] \in 1 .. n /\ f.nodes[f.table[h]].op \in Operations
    BY <1>7 DEF Entries
  <2>1. CASE h \in DOMAIN w.table /\ f.table[h] = w.table[h]
    <3>1. PICK p : p = w.table[h]
      OBVIOUS
    <3>2. p \in 1 .. Len(w.nodes) /\ w.nodes[p].op \in Operations
      BY ONLY <2>1, <3>1, <1>1 DEF Entries
    <3>3. p \in 1 .. n /\ f.nodes[p].op \in Operations
      BY ONLY <3>2, <1>2, <1>5
    <3>. QED  BY ONLY <2>1, <3>1, <3>3
  <2>2. CASE f.table[h] = n /\ op \in Operations
    BY <2>2, <1>2, <1>4
  <2>. QED  BY <2>1, <2>2
<1>10. Homes(f)
  <2>1. ASSUME NEW j \in 1 .. n, NEW k \in 1 .. n, NEW x,
               f.nodes[j].op # "NONE", f.nodes[k].op # "NONE",
               On(f, j, x), On(f, k, x)
        PROVE  j = k
    <3>1. CASE x = id
      <4>1. \A i \in 1 .. Len(w.nodes) :
                ~(f.nodes[i].op # "NONE" /\ On(f, i, id))
        BY <1>5
      <4>. QED  BY <2>1, <3>1, <4>1, <1>3
    <3>2. CASE x # id
      <4>1. j # n /\ k # n
        BY <2>1, <3>2, <1>4
      <4>2. /\ j \in 1 .. Len(w.nodes) /\ k \in 1 .. Len(w.nodes)
            /\ w.nodes[j].op # "NONE" /\ w.nodes[k].op # "NONE"
            /\ On(w, j, x) /\ On(w, k, x)
        BY <2>1, <4>1, <1>3, <1>5
      <4>. QED  BY <4>2, <1>1 DEF Homes
    <3>. QED  BY <3>1, <3>2
  <2>2. ASSUME NEW x \in Ids, f.recent[x] # 0 PROVE On(f, f.recent[x], x)
    <3>1. CASE x = id
      BY <3>1, <1>4, <1>6
    <3>2. CASE x # id
      <4>1. f.recent[x] = w.recent[x] /\ w.recent[x] \in 1 .. Len(w.nodes)
        BY <2>2, <3>2, <1>1, <1>2, <1>6 DEF Placed
      <4>2. On(w, w.recent[x], x)
        BY <2>2, <4>1, <1>1 DEF Homes
      <4>. QED  BY <3>2, <4>1, <4>2, <1>5
    <3>. QED  BY <3>1, <3>2
  <2>3. ASSUME NEW j \in 1 .. n, NEW v \in Vars, f.nodes[j].op # "NONE", On(f, j, v)
        PROVE  f.recent[v] = j
    <3>1. CASE v = id
      <4>1. j = n
        BY <2>3, <3>1, <1>3, <1>5
      <4>. QED  BY <3>1, <4>1, <1>0, <1>6
    <3>2. CASE v # id
      <4>1. j \in 1 .. Len(w.nodes)
        BY <2>3, <3>2, <1>3, <1>4
      <4>2. w.recent[v] = j
        BY <2>3, <4>1, <1>1, <1>5 DEF Homes
      <4>. QED  BY <3>2, <4>2, <1>0, <1>6
    <3>. QED  BY <3>1, <3>2
  <2>4. ASSUME NEW j \in 1 .. n, NEW x, f.nodes[j].op = "NONE", On(f, j, x)
        PROVE  x = f.nodes[j].arg
    <3>1. j \in 1 .. Len(w.nodes)
      BY <2>4, <1>0, <1>3, <1>4
    <3>. QED  BY <2>4, <3>1, <1>1, <1>5 DEF Homes
  <2>. QED  BY <2>1, <2>2, <2>3, <2>4, <1>7 DEF Homes
<1>11. Known(f, more)
  <2>. SUFFICES ASSUME NEW j \in 1 .. n
                PROVE  /\ \A x : On(f, j, x) => x \in Vars \cup more
                       /\ f.nodes[j].arg \in Vars \cup more \cup Consts \cup {None}
                       /\ f.nodes[j].op = "NONE" => f.nodes[j].arg # None
    BY <1>7 DEF Known
  <2>1. CASE j = n
    BY <2>1, <1>0, <1>4
  <2>2. CASE j # n
    BY <2>2, <1>1, <1>3, <1>5 DEF Known
  <2>. QED  BY <2>1, <2>2
<1>. QED  BY <1>7, <1>8, <1>9, <1>10, <1>11 DEF Graph

-----------------------------------------------------------------------------
\* f is w with id on the node k, a root now; id leaves the node gone.
Joined(w, f, k, id, gone) ==
    /\ Shape(f)
    /\ SameNodes(w, f)
    /\ f.table = w.table
    /\ \A j \in 1 .. Len(w.nodes) : \A x :
          On(f, j, x) <=> (On(w, j, x) /\ ~(x = id /\ j = gone)) \/ (j = k /\ x = id)
    /\ \A x : Contains(f.roots, x) <=> Contains(w.roots, x) \/ x = k

Renewed(d, e, id, k) ==
    /\ e.nodes = d.nodes
    /\ e.recent = [d.recent EXCEPT ![id] = k]
    /\ e.table = d.table
    /\ e.roots = d.roots

\* The latest node of an identifier is set.
LEMMA NewRecent ==
    ASSUME NEW d, Shape(d), NEW id \in Ids, NEW k \in Nat,
           NEW e, e = [d EXCEPT !.recent[id] = k]
    PROVE  Shape(e) /\ Renewed(d, e, id, k)
<1>. DEFINE r == [d.recent EXCEPT ![id] = k]
<1>1. /\ e = [nodes |-> d.nodes, recent |-> r, table |-> d.table,
              roots |-> d.roots, aborted |-> d.aborted]
  BY DEF Shape
<1>2. r \in [Ids -> Nat]
  BY DEF Shape
<1>3. /\ e.nodes = d.nodes /\ e.recent = r /\ e.table = d.table
      /\ e.roots = d.roots /\ e.aborted = d.aborted
  BY <1>1
<1>. HIDE DEF r
<1>4. Shape(e)
  BY <1>1, <1>2, <1>3 DEF Shape
<1>. QED  BY <1>3, <1>4 DEF r, Renewed

\* dag_assign of an interior node.
LEMMA AssignInnerEffect ==
    ASSUME NEW w, Shape(w), NEW k \in 1 .. Len(w.nodes), NEW id \in Ids,
           w.recent[id] \in 0 .. Len(w.nodes),
           NEW e, e = IF w.recent[id] = k THEN w ELSE Leave(w, id),
           NEW f, f = Root([Add(e, k, id) EXCEPT !.recent[id] = k], k)
    PROVE  /\ Joined(w, f, k, id, w.recent[id])
           /\ f.recent = [w.recent EXCEPT ![id] = k]
<1>. DEFINE a == Add(e, k, id)
            b == [a EXCEPT !.recent[id] = k]
<1>1. /\ Shape(e)
      /\ SameNodes(w, e)
      /\ SameLists(w, e)
      /\ \A j \in 1 .. Len(w.nodes) : \A x :
            (j # k \/ x # id) =>
                (On(e, j, x) <=> On(w, j, x) /\ ~(j = w.recent[id] /\ x = id))
  <2>1. CASE w.recent[id] = k
    BY <2>1 DEF SameNodes, SameLists
  <2>2. CASE w.recent[id] # k
    <3>1. e = Leave(w, id)
      BY <2>2
    <3>. QED  BY <3>1, LeaveEffect
  <2>. QED  BY <2>1, <2>2
<1>2. k \in 1 .. Len(e.nodes) /\ k \in Nat
  BY <1>1 DEF SameNodes
<1>3. /\ Shape(a)
      /\ SameNodes(e, a)
      /\ SameLists(e, a)
      /\ \A j \in 1 .. Len(e.nodes) : \A x :
            On(a, j, x) <=> On(e, j, x) \/ (j = k /\ x = id)
  BY <1>1, <1>2, AddEffect
<1>4. b = [a EXCEPT !.recent[id] = k]
  OBVIOUS
<1>5. f = Root(b, k)
  OBVIOUS
<1>. HIDE DEF a, b
<1>6. Shape(b) /\ Renewed(a, b, id, k)
  BY <1>2, <1>3, <1>4, NewRecent
<1>7. /\ Shape(f)
      /\ SameButRoots(b, f)
      /\ \A x : Contains(f.roots, x) <=> Contains(b.roots, x) \/ x = k
  BY <1>2, <1>5, <1>6, RootEffect
<1>8. f.nodes = a.nodes /\ f.table = w.table /\ f.recent = [w.recent EXCEPT ![id] = k]
      /\ b.roots = w.roots
  BY <1>1, <1>3, <1>6, <1>7 DEF SameButRoots, SameLists, Renewed
<1>9. SameNodes(w, f)
  <2>1. Len(e.nodes) = Len(w.nodes) /\ Len(a.nodes) = Len(w.nodes)
    BY <1>1, <1>3 DEF SameNodes
  <2>2. ASSUME NEW j \in 1 .. Len(w.nodes)
        PROVE  /\ a.nodes[j].op = w.nodes[j].op
               /\ a.nodes[j].arg = w.nodes[j].arg
               /\ a.nodes[j].left = w.nodes[j].left
               /\ a.nodes[j].right = w.nodes[j].right
    BY <1>1, <1>3, <2>1 DEF SameNodes
  <2>3. f.nodes = a.nodes
    BY <1>8
  <2>. QED  BY ONLY <2>1, <2>2, <2>3 DEF SameNodes
<1>10. ASSUME NEW j \in 1 .. Len(w.nodes), NEW x
       PROVE  On(f, j, x) <=> (On(w, j, x) /\ ~(x = id /\ j = w.recent[id]))
                              \/ (j = k /\ x = id)
  <2>1. On(f, j, x) <=> On(e, j, x) \/ (j = k /\ x = id)
    <3>1. On(f, j, x) <=> On(a, j, x)
      BY ONLY <1>8 DEF On
    <3>2. Len(e.nodes) = Len(w.nodes)
      BY ONLY <1>1 DEF SameNodes
    <3>. QED  BY ONLY <1>3, <3>1, <3>2
  <2>. QED  BY <1>1, <2>1
<1>. QED  BY <1>7, <1>8, <1>9, <1>10 DEF Joined

\* dag_binary on a node of dag_table.
LEMMA ReuseEffect ==
    ASSUME NEW d, Shape(d), NEW k \in 1 .. Len(d.nodes), NEW id \in Ids,
           NEW f, f = Root(Add(d, k, id), k)
    PROVE  Joined(d, f, k, id, 0) /\ f.recent = d.recent
<1>. DEFINE a == Add(d, k, id)
<1>1. /\ Shape(a)
      /\ SameNodes(d, a)
      /\ SameLists(d, a)
      /\ \A j \in 1 .. Len(d.nodes) : \A x :
            On(a, j, x) <=> On(d, j, x) \/ (j = k /\ x = id)
  BY AddEffect
<1>2. f = Root(a, k) /\ k \in Nat
  OBVIOUS
<1>. HIDE DEF a
<1>3. /\ Shape(f)
      /\ SameButRoots(a, f)
      /\ \A x : Contains(f.roots, x) <=> Contains(a.roots, x) \/ x = k
  BY <1>1, <1>2, RootEffect
<1>4. SameNodes(d, f) /\ f.table = d.table /\ f.recent = d.recent
  BY <1>1, <1>3 DEF SameNodes, SameLists, SameButRoots
<1>5. \A j \in 1 .. Len(d.nodes) : \A x :
         On(f, j, x) <=> (On(d, j, x) /\ ~(x = id /\ j = 0)) \/ (j = k /\ x = id)
  <2>. SUFFICES ASSUME NEW j \in 1 .. Len(d.nodes), NEW x
                PROVE  On(f, j, x) <=> On(d, j, x) \/ (j = k /\ x = id)
    <3>1. Len(d.nodes) \in Nat
      BY DEF Shape
    <3>. QED  BY <3>1
  <2>1. f.nodes[j].ids = a.nodes[j].ids
    BY <1>3 DEF SameButRoots
  <2>. QED  BY <1>1, <2>1 DEF On
<1>6. \A x : Contains(f.roots, x) <=> Contains(d.roots, x) \/ x = k
  BY <1>1, <1>3 DEF SameLists
<1>. QED  BY <1>3, <1>4, <1>5, <1>6 DEF Joined

\* Joining a node keeps the graph in order, under the same condition.
LEMMA JoinedGraph ==
    ASSUME NEW made, NEW more, made \subseteq more, more \subseteq Ids \ Vars,
           NEW w, Graph(w, made), NEW f, NEW k \in 1 .. Len(w.nodes),
           w.nodes[k].op # "NONE",
           NEW id \in Vars \cup more, NEW gone \in Nat,
           Joined(w, f, k, id, gone),
           \A j \in 1 .. Len(w.nodes) :
              w.nodes[j].op # "NONE" /\ On(w, j, id) => j \in {gone, k},
           \A x \in Ids : x # id => f.recent[x] = w.recent[x],
           f.recent[id] \in {0, k}, id \in Vars => f.recent[id] = k
    PROVE  Graph(f, more)
<1>0. Vars \subseteq Ids /\ None \notin Ids /\ id \in Ids
  BY OptimizerAssumption, DagAssumption
<1>1. Shape(w) /\ Placed(w) /\ Entries(w) /\ Homes(w) /\ Known(w, made)
  BY DEF Graph
<1>. DEFINE n == Len(w.nodes)
<1>2. n \in Nat
  BY <1>1 DEF Shape
<1>3. /\ Shape(f) /\ Len(f.nodes) = n
      /\ f.table = w.table
      /\ \A j \in 1 .. n :
          /\ f.nodes[j].op = w.nodes[j].op
          /\ f.nodes[j].arg = w.nodes[j].arg
          /\ f.nodes[j].left = w.nodes[j].left
          /\ f.nodes[j].right = w.nodes[j].right
  BY DEF Joined, SameNodes
<1>4. \A j \in 1 .. n : \A x :
        On(f, j, x) <=> (On(w, j, x) /\ ~(x = id /\ j = gone)) \/ (j = k /\ x = id)
  BY DEF Joined
<1>5. Placed(f)
  <2>1. \A j \in 1 .. n :
          /\ f.nodes[j].left \in 0 .. j - 1
          /\ f.nodes[j].right \in 0 .. j - 1
          /\ f.nodes[j].op # "NONE" => f.nodes[j].left # 0
          /\ f.nodes[j].op \in Operations => f.nodes[j].right # 0
    BY <1>1, <1>3 DEF Placed
  <2>2. \A x \in Ids : f.recent[x] \in 0 .. n
    BY <1>1, <1>2 DEF Placed
  <2>3. \A j : Contains(f.roots, j) => j \in 1 .. n
    BY <1>1 DEF Placed, Joined
  <2>. QED  BY <2>1, <2>2, <2>3, <1>3 DEF Placed
<1>6. Entries(f)
  BY <1>1, <1>3 DEF Entries
<1>7. Homes(f)
  <2>1. ASSUME NEW i \in 1 .. n, NEW j \in 1 .. n, NEW x,
               f.nodes[i].op # "NONE", f.nodes[j].op # "NONE",
               On(f, i, x), On(f, j, x)
        PROVE  i = j
    <3>1. CASE x = id
      BY <2>1, <3>1, <1>3, <1>4
    <3>2. CASE x # id
      BY <2>1, <3>2, <1>1, <1>3, <1>4 DEF Homes
    <3>. QED  BY <3>1, <3>2
  <2>2. ASSUME NEW x \in Ids, f.recent[x] # 0 PROVE On(f, f.recent[x], x)
    <3>1. CASE x = id
      BY <2>2, <3>1, <1>4
    <3>2. CASE x # id
      <4>1. f.recent[x] = w.recent[x] /\ w.recent[x] \in 1 .. n
        BY <2>2, <3>2, <1>1, <1>2 DEF Placed
      <4>2. On(w, w.recent[x], x)
        BY <2>2, <4>1, <1>1 DEF Homes
      <4>. QED  BY <3>2, <4>1, <4>2, <1>4
    <3>. QED  BY <3>1, <3>2
  <2>3. ASSUME NEW j \in 1 .. n, NEW v \in Vars, f.nodes[j].op # "NONE", On(f, j, v)
        PROVE  f.recent[v] = j
    <3>1. CASE v = id
      BY <2>3, <3>1, <1>3, <1>4
    <3>2. CASE v # id
      <4>1. w.recent[v] = j
        BY <2>3, <3>2, <1>1, <1>3, <1>4 DEF Homes
      <4>. QED  BY <3>2, <4>1, <1>0
    <3>. QED  BY <3>1, <3>2
  <2>4. ASSUME NEW j \in 1 .. n, NEW x, f.nodes[j].op = "NONE", On(f, j, x)
        PROVE  x = f.nodes[j].arg
    <3>1. j # k /\ On(w, j, x) /\ w.nodes[j].op = "NONE"
      BY <2>4, <1>3, <1>4
    <3>. QED  BY <3>1, <1>1, <1>3 DEF Homes
  <2>. QED  BY <2>1, <2>2, <2>3, <2>4, <1>3 DEF Homes
<1>8. Known(f, more)
  <2>. SUFFICES ASSUME NEW j \in 1 .. n
                PROVE  /\ \A x : On(f, j, x) => x \in Vars \cup more
                       /\ f.nodes[j].arg \in Vars \cup more \cup Consts \cup {None}
                       /\ f.nodes[j].op = "NONE" => f.nodes[j].arg # None
    BY <1>3 DEF Known
  <2>1. \A x : On(f, j, x) => x \in Vars \cup more
    BY <1>1, <1>4 DEF Known
  <2>. QED  BY <2>1, <1>1, <1>3 DEF Known
<1>. QED  BY <1>3, <1>5, <1>6, <1>7, <1>8 DEF Graph

-----------------------------------------------------------------------------
\* dag_unary and dag_assign: the two ways they can go, and what they leave.
AssignsLeaf(d, f, id, arg) ==
    LET w == WithArg(d, arg)
        k == ArgNode(d, arg)
    IN  /\ w.nodes[k].op = "NONE"
        /\ AppendedOver(w, f, Interior("ASSIGN", k, 0, id), id, k, k)

AssignsInner(d, f, id, arg) ==
    LET w == WithArg(d, arg)
        k == ArgNode(d, arg)
    IN  /\ w.nodes[k].op # "NONE"
        /\ Joined(w, f, k, id, w.recent[id])
        /\ f.recent = [w.recent EXCEPT ![id] = k]

\* Assign does one of the two and keeps the graph in order.
LEMMA AssignStep ==
    ASSUME NEW made, made \subseteq Ids \ Vars,
           NEW d, Graph(d, made), NEW arg \in Vars \cup made \cup Consts,
           NEW id \in Vars, NEW f, f = Assign(d, id, arg)
    PROVE  /\ Graph(f, made)
           /\ AssignsLeaf(d, f, id, arg) \/ AssignsInner(d, f, id, arg)
<1>0. id \in Ids /\ id \in Vars \cup made /\ made \subseteq made
  BY OptimizerAssumption
<1>. DEFINE w == WithArg(d, arg)
            k == ArgNode(d, arg)
<1>1. Graph(w, made) /\ k \in 1 .. Len(w.nodes)
  BY ArgumentNode DEF Looked
<1>2. /\ f = IF w.nodes[k].op = "NONE"
             THEN NewNode(Unroot(Drop(w, k, id), k), Interior("ASSIGN", k, 0, id), id)
             ELSE Root([Add(IF w.recent[id] = k THEN w ELSE Leave(w, id), k, id)
                            EXCEPT !.recent[id] = k], k)
  BY DEF Assign
<1>3. AssignsLeaf(d, f, id, arg) <=>
         /\ w.nodes[k].op = "NONE"
         /\ AppendedOver(w, f, Interior("ASSIGN", k, 0, id), id, k, k)
  BY DEF AssignsLeaf
<1>4. AssignsInner(d, f, id, arg) <=>
         /\ w.nodes[k].op # "NONE"
         /\ Joined(w, f, k, id, w.recent[id])
         /\ f.recent = [w.recent EXCEPT ![id] = k]
  BY DEF AssignsInner
<1>. HIDE DEF w, k
<1>5. Shape(w) /\ Placed(w) /\ Homes(w)
  BY <1>1 DEF Graph
<1>6. /\ w.recent[id] \in 0 .. Len(w.nodes) /\ Len(w.nodes) \in Nat /\ k \in Nat
      /\ w.recent \in [Ids -> Nat] /\ w.recent[id] \in Nat
  BY <1>0, <1>1, <1>5 DEF Placed, Shape
<1>7. \A j \in 1 .. Len(w.nodes) :
         w.nodes[j].op # "NONE" /\ On(w, j, id) => j = w.recent[id]
  BY <1>5 DEF Homes
<1>8. CASE w.nodes[k].op = "NONE"
  <2>1. PICK node : node = Interior("ASSIGN", k, 0, id)
    OBVIOUS
  <2>2. node \in NodeRecs /\ Distinct(node.ids)
    <3>1. PICK op \in {"ASSIGN"} \cup Operations : op = "ASSIGN"
      OBVIOUS
    <3>2. PICK r \in Nat : r = 0
      OBVIOUS
    <3>3. node = Interior(op, k, r, id)
      BY <2>1, <3>1, <3>2
    <3>. QED  BY <1>0, <1>6, <3>3, NewInterior
  <2>3. f = NewNode(Unroot(Drop(w, k, id), k), node, id)
    BY <1>2, <1>8, <2>1
  <2>4. AppendedOver(w, f, node, id, k, k) /\ f.table = w.table
    <3>1. /\ k \in 1 .. Len(w.nodes) /\ id \in Ids /\ Shape(w)
          /\ w.recent[id] \in 0 .. Len(w.nodes)
      BY <1>0, <1>1, <1>5, <1>6
    <3>2. PICK e : e = Drop(w, k, id)
      OBVIOUS
    <3>3. PICK u : u = Unroot(e, k)
      OBVIOUS
    <3>4. f = NewNode(u, node, id)
      BY <2>3, <3>2, <3>3
    <3>. QED  BY ONLY <3>1, <3>2, <3>3, <3>4, <2>2, AssignLeafEffect
  <2>6. PICK op : op = "ASSIGN" /\ op \in {"ASSIGN"} \cup Operations /\ op \notin Operations
    BY OptimizerAssumption
  <2>7. AppendedOver(w, f, Interior(op, k, 0, id), id, k, k)
    BY <2>1, <2>4, <2>6
  <2>8. 0 \in 0 .. Len(w.nodes)
    BY <1>6
  <2>9. Graph(f, made)
    BY <1>0, <1>1, <1>7, <2>4, <2>6, <2>7, <2>8, AppendedGraph
  <2>. QED  BY <1>3, <1>8, <2>1, <2>4, <2>9
<1>9. CASE w.nodes[k].op # "NONE"
  <2>1. PICK e : e = IF w.recent[id] = k THEN w ELSE Leave(w, id)
    OBVIOUS
  <2>2. f = Root([Add(e, k, id) EXCEPT !.recent[id] = k], k)
    BY <1>2, <1>9, <2>1
  <2>3. /\ Joined(w, f, k, id, w.recent[id])
        /\ f.recent = [w.recent EXCEPT ![id] = k]
    BY <1>0, <1>1, <1>5, <1>6, <2>1, <2>2, AssignInnerEffect
  <2>4. f.recent[id] = k /\ \A x \in Ids : x # id => f.recent[x] = w.recent[x]
    BY <1>0, <1>6, <2>3
  <2>5. \A j \in 1 .. Len(w.nodes) :
         w.nodes[j].op # "NONE" /\ On(w, j, id) => j \in {w.recent[id], k}
    BY <1>7
  <2>6. Graph(f, made)
    BY <1>0, <1>1, <1>6, <1>9, <2>3, <2>4, <2>5, JoinedGraph
  <2>. QED  BY <1>4, <1>9, <2>3, <2>6
<1>. QED  BY <1>8, <1>9

-----------------------------------------------------------------------------
\* dag_binary: the three ways it can go.
Aborts(d, f) ==
    /\ f.nodes = d.nodes /\ f.recent = d.recent /\ f.table = d.table
    /\ f.roots = d.roots
    /\ f.aborted

Reuses(d, f, op, id, a, b) ==
    LET p == Reused(d, op, a, b)
    IN  /\ p \in 1 .. Len(d.nodes)
        /\ d.nodes[p].op \in Operations
        /\ Joined(d, f, p, id, 0)
        /\ f.recent = d.recent

Makes(d, f, op, id, a, b) ==
    LET v == WithArg(d, a)
        w == WithArg(v, b)
        l == ArgNode(d, a)
        r == ArgNode(v, b)
    IN  /\ Reused(d, op, a, b) = 0
        /\ AppendedOver(w, f, Interior(op, l, r, id), id, l, r)

\* An operation that enters dag_table changes no node.
LEMMA Recorded ==
    ASSUME NEW g, Shape(g), NEW hash, NEW n, NEW f, f = Record(g, hash, n)
    PROVE  /\ Shape(f)
           /\ f.nodes = g.nodes /\ f.recent = g.recent /\ f.roots = g.roots
           /\ \A h \in DOMAIN f.table :
                 \/ h \in DOMAIN g.table /\ f.table[h] = g.table[h]
                 \/ f.table[h] = n
<1>. DEFINE q == [h \in DOMAIN g.table \cup {hash} |-> IF h = hash THEN n ELSE g.table[h]]
<1>1. /\ f = [nodes |-> g.nodes, recent |-> g.recent, table |-> q,
              roots |-> g.roots, aborted |-> g.aborted]
  BY DEF Record, Shape
<1>2. /\ f.nodes = g.nodes /\ f.recent = g.recent /\ f.table = q
      /\ f.roots = g.roots /\ f.aborted = g.aborted
  BY <1>1
<1>3. \A h \in DOMAIN q : \/ h \in DOMAIN g.table /\ q[h] = g.table[h]
                          \/ q[h] = n
  OBVIOUS
<1>. HIDE DEF q
<1>. QED  BY <1>1, <1>2, <1>3 DEF Shape

\* Binary does one of the three and keeps the graph in order.
LEMMA BinaryStep ==
    ASSUME NEW made, NEW more, made \subseteq more, more \subseteq Ids \ Vars,
           NEW d, Graph(d, made), NEW op \in Operations, NEW id \in more, id \notin made,
           NEW a \in Vars \cup made \cup Consts, NEW b \in Vars \cup made \cup Consts,
           NEW f, f = Binary(d, op, id, a, b)
    PROVE  /\ Graph(f, more)
           /\ Aborts(d, f) \/ Reuses(d, f, op, id, a, b) \/ Makes(d, f, op, id, a, b)
<1>0. /\ id \in Ids /\ id \notin Vars /\ id \in Vars \cup more
      /\ made \subseteq Ids \ Vars
      /\ id # a /\ id # b
  BY OptimizerAssumption
<1>1. Shape(d) /\ Placed(d) /\ Entries(d) /\ Homes(d) /\ Known(d, made)
  BY DEF Graph
<1>2. /\ d.recent[id] = 0
      /\ \A j \in 1 .. Len(d.nodes) : ~On(d, j, id)
  <2>1. \A j \in 1 .. Len(d.nodes) : ~On(d, j, id)
    BY <1>0, <1>1 DEF Known
  <2>2. d.recent[id] \in 0 .. Len(d.nodes) /\ Len(d.nodes) \in Nat
    BY <1>0, <1>1 DEF Placed, Shape
  <2>3. d.recent[id] # 0 => On(d, d.recent[id], id)
    BY <1>0, <1>1 DEF Homes
  <2>. QED  BY <2>1, <2>2, <2>3
<1>. DEFINE p == Reused(d, op, a, b)
<1>3. p # 0 => p \in 1 .. Len(d.nodes) /\ d.nodes[p].op \in Operations
  BY <1>1 DEF Reused, HashHit, Entries
<1>4. CASE HitAborts(d, op, a, b)
  <2>1. f = [nodes |-> d.nodes, recent |-> d.recent, table |-> d.table,
             roots |-> d.roots, aborted |-> TRUE]
    BY <1>1, <1>4 DEF Binary, Shape
  <2>2. /\ f.nodes = d.nodes /\ f.recent = d.recent /\ f.table = d.table
        /\ f.roots = d.roots /\ f.aborted = TRUE
    BY <2>1
  <2>3. Shape(f)
    BY <1>1, <2>1, <2>2 DEF Shape
  <2>4. Placed(f) /\ Entries(f)
    BY <1>1, <2>2 DEF Placed, Entries
  <2>5. Homes(f)
    BY <1>1, <2>2 DEF Homes, On
  <2>6. Known(f, more)
    BY <1>1, <2>2 DEF Known, On
  <2>7. Aborts(d, f)
    BY <2>2 DEF Aborts
  <2>. QED  BY <2>3, <2>4, <2>5, <2>6, <2>7 DEF Graph
<1>5. CASE ~HitAborts(d, op, a, b) /\ p # 0
  <2>1. f = Root(Add(d, p, id), p)
    BY <1>5 DEF Binary
  <2>. HIDE DEF p
  <2>2. Joined(d, f, p, id, 0) /\ f.recent = d.recent
    BY <1>0, <1>1, <1>3, <1>5, <2>1, ReuseEffect
  <2>3. d.nodes[p].op # "NONE" /\ 0 \in Nat /\ f.recent[id] \in {0, p}
    BY <1>2, <1>3, <1>5, <2>2, OptimizerAssumption
  <2>4. \A j \in 1 .. Len(d.nodes) :
           d.nodes[j].op # "NONE" /\ On(d, j, id) => j \in {0, p}
    BY <1>2
  <2>5. p \in 1 .. Len(d.nodes) /\ d.nodes[p].op \in Operations
    BY <1>3, <1>5
  <2>6. \A x \in Ids : x # id => f.recent[x] = d.recent[x]
    BY <2>2
  <2>7. Graph(f, more)
    BY <1>0, <2>2, <2>3, <2>4, <2>5, <2>6, JoinedGraph
  <2>8. Reuses(d, f, op, id, a, b)
    BY <2>2, <2>5 DEF Reuses, p
  <2>. QED  BY <2>7, <2>8
<1>6. CASE ~HitAborts(d, op, a, b) /\ p = 0
  <2>. DEFINE v == WithArg(d, a)
              w == WithArg(v, b)
              l == ArgNode(d, a)
              r == ArgNode(v, b)
              e == Drop(Drop(Unroot(Unroot(w, l), r), l, id), r, id)
  <2>1. f = Record(NewNode(e, Interior(op, l, r, id), id), Hash(op, a, b), Len(w.nodes) + 1)
    BY <1>6 DEF Binary, NewBinary
  <2>2. Makes(d, f, op, id, a, b) <=>
          AppendedOver(w, f, Interior(op, l, r, id), id, l, r)
    BY <1>6 DEF Makes
  <2>3. Graph(v, made) /\ Looked(d, v, a, l)
    BY <1>0, ArgumentNode
  <2>. HIDE DEF v
  <2>19. w = WithArg(v, b) /\ r = ArgNode(v, b)
    OBVIOUS
  <2>20. e = Drop(Drop(Unroot(Unroot(w, l), r), l, id), r, id)
    OBVIOUS
  <2>. HIDE DEF w, l, r, e
  <2>4. Graph(w, made) /\ Looked(v, w, b, r)
    BY <1>0, <2>3, <2>19, ArgumentNode
  <2>6. w.recent[id] = 0
    BY <1>0, <1>2, <2>3, <2>4 DEF Looked
  <2>7. Shape(w) /\ Known(w, made) /\ Len(w.nodes) \in Nat /\ Len(v.nodes) \in Nat
        /\ Len(v.nodes) =< Len(w.nodes)
    BY <2>3, <2>4 DEF Graph, Shape, Grown, Looked
  <2>8. l \in 1 .. Len(w.nodes) /\ w.recent[id] \in 0 .. Len(w.nodes)
        /\ l \in Nat /\ r \in Nat /\ r \in 0 .. Len(w.nodes) /\ r # 0
    BY <2>3, <2>4, <2>6, <2>7 DEF Looked
  <2>9. PICK node : node = Interior(op, l, r, id)
    OBVIOUS
  <2>10. node \in NodeRecs /\ Distinct(node.ids) /\ op \in {"ASSIGN"} \cup Operations
    BY <1>0, <2>8, <2>9, NewInterior
  <2>11. PICK g : g = NewNode(e, node, id)
    OBVIOUS
  <2>22. g = NewNode(Drop(Drop(Unroot(Unroot(w, l), r), l, id), r, id), node, id)
    BY <2>11, <2>20
  <2>12. AppendedOver(w, g, node, id, l, r) /\ g.table = w.table
    BY <1>0, <2>4, <2>7, <2>8, <2>10, <2>22, BinaryEffect
  <2>13. f = Record(g, Hash(op, a, b), Len(w.nodes) + 1) /\ Shape(g)
    BY <2>1, <2>9, <2>11, <2>12 DEF Appended, AppendedOver
  <2>14. /\ Shape(f)
         /\ f.nodes = g.nodes /\ f.recent = g.recent /\ f.roots = g.roots
         /\ \A h \in DOMAIN f.table :
               \/ h \in DOMAIN g.table /\ f.table[h] = g.table[h]
               \/ f.table[h] = Len(w.nodes) + 1
    BY <2>13, Recorded
  <2>15. AppendedOver(w, f, node, id, l, r)
    BY <2>12, <2>14 DEF Appended, AppendedOver, On
  <2>16. \A h \in DOMAIN f.table :
            \/ h \in DOMAIN w.table /\ f.table[h] = w.table[h]
            \/ f.table[h] = Len(w.nodes) + 1 /\ op \in Operations
    BY <2>12, <2>14
  <2>17. \A j \in 1 .. Len(w.nodes) :
            w.nodes[j].op # "NONE" /\ On(w, j, id) => j \in {l, r, w.recent[id]}
    BY <1>0, <2>7 DEF Known
  <2>18. Graph(f, more)
    BY <1>0, <2>4, <2>8, <2>9, <2>10, <2>15, <2>16, <2>17, AppendedGraph
  <2>. QED  BY <2>2, <2>9, <2>15, <2>18
<1>. QED  BY <1>4, <1>5, <1>6

-----------------------------------------------------------------------------
(***************************************************************************)
(* The state machine                                                       *)
(***************************************************************************)
\* The first n temporaries.
Made(n) == {Temps[i] : i \in 1 .. n}

\* get_temp_symbol: the next temporary is a new one.
LEMMA NextTemp ==
    ASSUME NEW n \in Nat, n < Len(Temps)
    PROVE  /\ Made(n) \subseteq Ids \ Vars
           /\ Made(n + 1) = Made(n) \cup {Temps[n + 1]}
           /\ Made(n + 1) \subseteq Ids \ Vars
           /\ Temps[n + 1] \notin Made(n)
           /\ Temps[n + 1] \in ToSet(Temps)
<1>1. /\ Temps \in Seq(Ids)
      /\ \A i, j \in 1 .. Len(Temps) : Temps[i] = Temps[j] => i = j
      /\ Vars \cap ToSet(Temps) = {}
  BY DagAssumption, OptimizerAssumption
<1>2. \A i \in 1 .. Len(Temps) : Temps[i] \in Ids /\ Temps[i] \in ToSet(Temps)
  BY <1>1 DEF ToSet
<1>3. \A i \in 1 .. n + 1 : i \in 1 .. Len(Temps)
  BY <1>1
<1>4. 1 .. n + 1 = 1 .. n \cup {n + 1}
  OBVIOUS
<1>5. Made(n + 1) = Made(n) \cup {Temps[n + 1]}
  BY <1>4 DEF Made
<1>6. Made(n + 1) \subseteq Ids \ Vars
  BY <1>1, <1>2, <1>3 DEF Made
<1>7. Temps[n + 1] \notin Made(n)
  BY <1>1, <1>3 DEF Made
<1>. QED  BY <1>2, <1>3, <1>5, <1>6, <1>7

\* What is left of a sequence without its last element.
LEMMA FrontLast ==
    ASSUME NEW S, NEW q \in Seq(S), q # << >>
    PROVE  Last(q) \in S /\ Front(q) \in Seq(S) /\ Len(Front(q)) = Len(q) - 1
<1>1. Len(q) \in Nat /\ Len(q) # 0
  BY EmptySeq
<1>2. Last(q) = q[Len(q)] /\ Len(q) \in 1 .. Len(q)
  BY <1>1 DEF Last
<1>3. Front(q) = SubSeq(q, 1, Len(q) - 1)
  BY DEF Front
<1>4. SubSeq(q, 1, Len(q) - 1) \in Seq(S) /\ Len(SubSeq(q, 1, Len(q) - 1)) = Len(q) - 1
  <2>. DEFINE m == Len(q) - 1
  <2>1. m \in 0 .. Len(q) /\ m = Len(q) - 1 /\ 1 \in 1 .. Len(q) + 1 /\ m \in 1 - 1 .. Len(q)
    BY <1>1
  <2>. HIDE DEF m
  <2>2. SubSeq(q, 1, m) \in Seq(S) /\ Len(SubSeq(q, 1, m)) = m
    BY <1>1, <2>1, SubSeqProperties
  <2>. QED  BY <2>1, <2>2
<1>. QED  BY <1>2, <1>3, <1>4, ElementOfSeq

\* An operand is a variable, a constant or a temporary that is pending.
LEMMA SingleFrom ==
    ASSUME NEW made, pending \in Seq(made), NEW s \in Single
    PROVE  s[1] \in Vars \cup made \cup Consts /\ s[2] \in Seq(made)
<1>1. CASE \E v \in Plain : s = << v, pending >>
  BY <1>1 DEF Plain
<1>2. CASE pending # << >> /\ s = << Last(pending), Front(pending) >>
  BY <1>2, FrontLast
<1>. QED  BY <1>1, <1>2 DEF Single

\* The same of two operands.
LEMMA OperandsFrom ==
    ASSUME NEW made, pending \in Seq(made), NEW s \in Operands
    PROVE  /\ s[1] \in Vars \cup made \cup Consts
           /\ s[2] \in Vars \cup made \cup Consts
           /\ s[3] \in Seq(made)
<1>1. CASE \E r \in Single : \E l \in Plain : s = << l, r[1], r[2] >>
  <2>1. PICK r \in Single, l \in Plain : s = << l, r[1], r[2] >>
    BY <1>1
  <2>2. r[1] \in Vars \cup made \cup Consts /\ r[2] \in Seq(made)
    BY SingleFrom
  <2>3. s[1] = l /\ s[2] = r[1] /\ s[3] = r[2]
    BY <2>1
  <2>. QED  BY <2>2, <2>3 DEF Plain
<1>2. CASE pending # << >> /\ \E v \in Plain : s = << Last(pending), v, Front(pending) >>
  BY <1>2, FrontLast DEF Plain
<1>3. CASE /\ ~(Len(pending) < 2)
           /\ s = << Last(Front(pending)), Last(pending), Front(Front(pending)) >>
  <2>1. Len(pending) \in Nat /\ pending # << >>
    BY <1>3
  <2>2. Last(pending) \in made /\ Front(pending) \in Seq(made)
        /\ Len(Front(pending)) = Len(pending) - 1
    BY <2>1, FrontLast
  <2>. DEFINE q == Front(pending)
  <2>3. q \in Seq(made) /\ q # << >>
    BY <1>3, <2>1, <2>2
  <2>. HIDE DEF q
  <2>4. Last(q) \in made /\ Front(q) \in Seq(made)
    BY <2>3, FrontLast
  <2>. QED  BY <1>3, <2>2, <2>4 DEF q
<1>4. \/ \E r \in Single : \E l \in Plain : s = << l, r[1], r[2] >>
      \/ pending # << >> /\ \E v \in Plain : s = << Last(pending), v, Front(pending) >>
      \/ /\ ~(Len(pending) < 2)
         /\ s = << Last(Front(pending)), Last(pending), Front(Front(pending)) >>
  BY DEF Operands
<1>. QED  BY <1>1, <1>2, <1>3, <1>4

\* The part of the inductive invariant that is about the graph alone.
Ordinary ==
    /\ Graph(dag, Made(used))
    /\ used \in Nat /\ count \in Nat /\ used =< count /\ count =< MaxBlock
    /\ pending \in Seq(Made(used))
    /\ sound \in BOOLEAN
    /\ exit \subseteq Ids
    /\ phase \in {"block", "compiled", "aborted"}

\* There is a temporary left for every instruction that may still come.
LEMMA RoomForTemps ==
    ASSUME Ordinary
    PROVE  used =< Len(Temps) /\ (count < MaxBlock => used < Len(Temps))
<1>1. MaxBlock \in Nat /\ Len(Temps) \in Nat /\ Len(Temps) >= 2 * MaxBlock
  BY OptimizerAssumption, DagAssumption
<1>. QED  BY <1>1 DEF Ordinary

\* The temporaries made so far are no variables.
LEMMA MadeAreTemps ==
    ASSUME Ordinary
    PROVE  Made(used) \subseteq Ids \ Vars
<1>1. /\ Temps \in Seq(Ids)
      /\ Vars \cap ToSet(Temps) = {}
  BY DagAssumption, OptimizerAssumption
<1>2. used =< Len(Temps) /\ used \in Nat
  BY RoomForTemps DEF Ordinary
<1>3. \A i \in 1 .. used : i \in 1 .. Len(Temps) /\ Temps[i] \in Ids /\ Temps[i] \in ToSet(Temps)
  BY <1>1, <1>2 DEF ToSet
<1>. QED  BY <1>1, <1>3 DEF Made

\* The empty graph is in order.
LEMMA InitOrdinary ==
    Init => Ordinary
<1>. SUFFICES ASSUME Init PROVE Ordinary
  OBVIOUS
<1>1. /\ dag = [nodes |-> << >>, recent |-> [id \in Ids |-> 0], table |-> << >>,
                roots |-> << >>, aborted |-> FALSE]
  BY DEF Init, EmptyDag
<1>2. /\ dag.nodes = << >> /\ dag.recent = [id \in Ids |-> 0] /\ dag.table = << >>
      /\ dag.roots = << >> /\ dag.aborted = FALSE
  BY <1>1
<1>3. Shape(dag)
  BY <1>1, <1>2 DEF Shape
<1>4. Placed(dag) /\ Entries(dag) /\ Homes(dag) /\ Known(dag, Made(used))
  BY <1>2 DEF Placed, Entries, Homes, Known, Contains
<1>5. MaxBlock \in Nat
  BY OptimizerAssumption
<1>. QED  BY <1>3, <1>4, <1>5 DEF Init, Ordinary, Graph

\* No instruction brings the graph out of order.
LEMMA NextOrdinary ==
    Ordinary /\ [Next]_vars => Ordinary'
<1>. SUFFICES ASSUME Ordinary, [Next]_vars PROVE Ordinary'
  OBVIOUS
<1>1. Made(used) \subseteq Ids \ Vars /\ Graph(dag, Made(used))
      /\ pending \in Seq(Made(used))
  BY MadeAreTemps DEF Ordinary
<1>2. ASSUME NEW id \in Vars, NEW s \in Single, TakeAssign(id, s)
      PROVE  Ordinary'
  <2>1. s[1] \in Vars \cup Made(used) \cup Consts /\ s[2] \in Seq(Made(used))
    BY <1>1, SingleFrom
  <2>2. PICK f : f = Assign(dag, id, s[1])
    OBVIOUS
  <2>3. Graph(f, Made(used))
    BY <1>1, <2>1, <2>2, AssignStep
  <2>4. /\ dag' = f /\ pending' = s[2] /\ count' = count + 1 /\ count < MaxBlock
        /\ phase' \in {"block", "compiled", "aborted"}
        /\ UNCHANGED << used, sound, exit >>
    BY <1>2, <2>2 DEF TakeAssign, Take
  <2>5. MaxBlock \in Nat
    BY OptimizerAssumption
  <2>. QED  BY <2>1, <2>3, <2>4, <2>5 DEF Ordinary
<1>3. ASSUME NEW op \in Operations, NEW s \in Operands, TakeBinary(op, s)
      PROVE  Ordinary'
  <2>1. /\ s[1] \in Vars \cup Made(used) \cup Consts
        /\ s[2] \in Vars \cup Made(used) \cup Consts
        /\ s[3] \in Seq(Made(used))
    BY <1>1, OperandsFrom
  <2>2. PICK t : t = Temps[used + 1]
    OBVIOUS
  <2>3. PICK f : f = Binary(dag, op, t, s[1], s[2])
    OBVIOUS
  <2>4. /\ dag' = f /\ pending' = Append(s[3], t) /\ count' = count + 1
        /\ count < MaxBlock /\ used' = used + 1
        /\ phase' \in {"block", "compiled", "aborted"}
        /\ sound' \in BOOLEAN
        /\ UNCHANGED exit
    BY <1>3, <2>2, <2>3 DEF TakeBinary, Take
  <2>5. used \in Nat /\ used < Len(Temps)
    BY <2>4, RoomForTemps DEF Ordinary
  <2>6. PICK more : more = Made(used + 1)
    OBVIOUS
  <2>7. /\ more = Made(used) \cup {t} /\ more \subseteq Ids \ Vars
        /\ t \notin Made(used) /\ t \in more /\ Made(used) \subseteq more
    BY <2>2, <2>5, <2>6, NextTemp
  <2>8. Graph(f, more)
    BY <1>1, <2>1, <2>3, <2>7, BinaryStep
  <2>9. Append(s[3], t) \in Seq(more)
    BY <2>1, <2>7
  <2>10. MaxBlock \in Nat /\ Made(used)' = more
    BY <2>4, <2>6, OptimizerAssumption DEF Made
  <2>. QED  BY <2>4, <2>8, <2>9, <2>10 DEF Ordinary
<1>4. CASE TakeExit
  <2>1. ToSet(pending) \subseteq Ids
    BY <1>1 DEF ToSet
  <2>. QED  BY <1>4, <2>1 DEF TakeExit, Ordinary
<1>5. CASE UNCHANGED vars
  BY <1>5 DEF vars, Ordinary
<1>. QED  BY <1>2, <1>3, <1>4, <1>5 DEF Next

\* The graph stays in order whatever block is fed to it: dag_assign and
\* dag_binary keep Ordinary (optimization.c:140-286).
THEOREM OrdinaryInvariance == Spec => []Ordinary
<1>. QED  BY InitOrdinary, NextOrdinary, PTL DEF Spec

\* A graph in order has the right types.
LEMMA OrdinaryImpliesTypeOK ==
    Ordinary => TypeOK
<1>. SUFFICES ASSUME Ordinary PROVE TypeOK
  OBVIOUS
<1>1. Shape(dag) /\ Placed(dag)
  BY DEF Ordinary, Graph
<1>2. Nodes = 1 .. Len(dag.nodes) /\ Len(dag.nodes) \in Nat
  BY <1>1 DEF Nodes, Shape
<1>3. ASSUME NEW k \in Nodes
      PROVE  /\ dag.nodes[k].left \in 0 .. k - 1
             /\ dag.nodes[k].right \in 0 .. k - 1
             /\ IdsOf(k) \subseteq Ids
  <2>1. dag.nodes[k].ids \in Seq(Ids)
    BY <1>1, <1>2, IdsInShape
  <2>. QED  BY <1>1, <1>2, <2>1 DEF Placed, IdsOf, ToSet
<1>4. dag.recent \in [Ids -> {0} \cup Nodes]
  <2>1. \A id \in Ids : dag.recent[id] \in 0 .. Len(dag.nodes)
    BY <1>1 DEF Placed
  <2>. QED  BY <1>1, <1>2, <2>1 DEF Shape
<1>5. ToSet(dag.roots) \subseteq Nodes
  <2>1. dag.roots \in Seq(Nat)
    BY <1>1 DEF Shape
  <2>2. \A i \in 1 .. Len(dag.roots) : Contains(dag.roots, dag.roots[i])
    BY DEF Contains
  <2>3. \A i \in 1 .. Len(dag.roots) : dag.roots[i] \in Nodes
    BY <1>1, <1>2, <2>2 DEF Placed
  <2>. QED  BY <2>1, <2>3 DEF ToSet
<1>6. ToSet(pending) \subseteq MadeTemps
  <2>1. pending \in Seq(Made(used)) /\ MadeTemps = Made(used)
    BY DEF Ordinary, MadeTemps, Made
  <2>. QED  BY <2>1 DEF ToSet
<1>7. used \in 0 .. MaxBlock /\ count \in 0 .. MaxBlock
  BY OptimizerAssumption DEF Ordinary
<1>. QED  BY <1>3, <1>4, <1>5, <1>6, <1>7 DEF TypeOK, Ordinary

\* In a graph in order an identifier has one home.
LEMMA OrdinaryImpliesOneHome ==
    Ordinary => OneHome
<1>. SUFFICES ASSUME Ordinary PROVE OneHome
  OBVIOUS
<1>1. Shape(dag) /\ Placed(dag) /\ Homes(dag)
  BY DEF Ordinary, Graph
<1>2. Nodes = 1 .. Len(dag.nodes) /\ Len(dag.nodes) \in Nat
  BY <1>1 DEF Nodes, Shape
<1>3. ASSUME NEW k \in Nodes
      PROVE  /\ \A x : x \in IdsOf(k) <=> On(dag, k, x)
             /\ Cardinality(IdsOf(k)) = Len(dag.nodes[k].ids)
  <2>1. dag.nodes[k].ids \in Seq(Ids) /\ Distinct(dag.nodes[k].ids)
    BY <1>1, <1>2, IdsInShape
  <2>2. Cardinality(IdsOf(k)) = Len(dag.nodes[k].ids)
    BY <2>1, DistinctCardinality DEF IdsOf
  <2>. QED  BY <2>1, <2>2 DEF IdsOf, ToSet, On, Contains
<1>4. ASSUME NEW k \in Nodes, NEW l \in Nodes, Inner(k), Inner(l), k # l
      PROVE  IdsOf(k) \cap IdsOf(l) = {}
  BY <1>1, <1>2, <1>3, <1>4 DEF Homes, Inner
<1>5. ASSUME NEW id \in Ids, dag.recent[id] # 0 PROVE id \in IdsOf(dag.recent[id])
  <2>1. dag.recent[id] \in Nodes /\ On(dag, dag.recent[id], id)
    BY <1>1, <1>2, <1>5 DEF Placed, Homes
  <2>. QED  BY <1>3, <2>1
<1>. QED  BY <1>3, <1>4, <1>5 DEF OneHome

\* Every node comes after its children, and most_recents, root_nodes and the
\* pending temporaries are what they are declared to be.
THEOREM TypeCorrect == Spec => []TypeOK
BY OrdinaryInvariance, OrdinaryImpliesTypeOK, PTL

\* An identifier is on one interior node at most and on the node that
\* most_recents has for it, and no node lists it twice.
THEOREM OneHomeEach == Spec => []OneHome
BY OrdinaryInvariance, OrdinaryImpliesOneHome, PTL

-----------------------------------------------------------------------------
(***************************************************************************)
(* The meaning of the graph                                                *)
(***************************************************************************)

\* T has the value of every node, where s has those of the identifiers.
Valued(d, s, T) ==
    \A k \in 1 .. Len(d.nodes) :
        /\ d.nodes[k].op = "NONE" /\ d.nodes[k].arg \in Vars
              => T[k] = Initial(d.nodes[k].arg)
        /\ d.nodes[k].op = "NONE" /\ d.nodes[k].arg \in Ids \ Vars
              => T[k] = s[d.nodes[k].arg]
        /\ d.nodes[k].op = "NONE" /\ d.nodes[k].arg \notin Ids
              => T[k] = << "constant", d.nodes[k].arg >>
        /\ d.nodes[k].op = "ASSIGN" => T[k] = T[d.nodes[k].left]
        /\ d.nodes[k].op \in Operations
              => T[k] = << d.nodes[k].op, T[d.nodes[k].left], T[d.nodes[k].right] >>

\* The identifiers of a node have its value, so has the one whose latest node
\* it is, and a variable without a node has the value it had on entry.
Faith(d, s, T) ==
    /\ Valued(d, s, T)
    /\ \A k \in 1 .. Len(d.nodes) : \A x :
          d.nodes[k].op # "NONE" /\ On(d, k, x) => s[x] = T[k]
    /\ \A x \in Ids : d.recent[x] # 0 => s[x] = T[d.recent[x]]
    /\ \A v \in Vars : d.recent[v] = 0 => s[v] = Initial(v)

Faithful(d, s) == \E T : Faith(d, s, T)

\* An operation keeps the temporary it was made for, and a node with
\* identifiers is compiled: it is a root, or an operand of an operation.
Bound(d, made) ==
    /\ \A k \in 1 .. Len(d.nodes) :
          d.nodes[k].op \in Operations => \E t \in made : On(d, k, t)
    /\ \A k \in 1 .. Len(d.nodes) : \A x :
          d.nodes[k].op # "NONE" /\ On(d, k, x) =>
              \/ Contains(d.roots, k)
              \/ \E p \in 1 .. Len(d.nodes) :
                    /\ d.nodes[p].op \in Operations
                    /\ k \in {d.nodes[p].left, d.nodes[p].right}

\* Every temporary has a node that computes it.
Computed(d, made) ==
    \A t \in made : \E k \in 1 .. Len(d.nodes) : d.nodes[k].op # "NONE" /\ On(d, k, t)

\* w is d with the argument looked up at node k, whose value is the one of arg.
Sees(d, w, s, T, arg, k) ==
    \E U : /\ Faith(w, s, U)
           /\ U[k] = Term(s, arg)
           /\ \A j \in 1 .. Len(d.nodes) : U[j] = T[j]

\* The node of an argument has the value of the argument.
LEMMA ArgumentSeen ==
    ASSUME NEW made, made \subseteq Ids \ Vars,
           NEW d, Graph(d, made), NEW arg \in Vars \cup made \cup Consts,
           NEW w, w = WithArg(d, arg), NEW k, k = ArgNode(d, arg),
           NEW s, NEW T, Faith(d, s, T)
    PROVE  Sees(d, w, s, T, arg, k)
<1>0. Vars \subseteq Ids /\ Consts \cap Ids = {} /\ "NONE" \notin Operations
  BY OptimizerAssumption
<1>1. Shape(d) /\ Placed(d) /\ Len(d.nodes) \in Nat
  BY DEF Graph, Shape
<1>2. CASE NeedsLeaf(d, arg)
  <2>. DEFINE n == Len(d.nodes) + 1
              U == [j \in 1 .. n |-> IF j = n THEN Term(s, arg) ELSE T[j]]
  <2>1. k = n
    BY <1>2 DEF ArgNode
  <2>2. Leafed(d, w, arg)
    BY <1>2, NewLeaf
  <2>3. U[n] = Term(s, arg) /\ \A j \in 1 .. Len(d.nodes) : U[j] = T[j]
    BY <1>1
  <2>. HIDE DEF U
  <2>4. /\ \A j \in 1 .. n : j \in 1 .. Len(d.nodes) \/ j = n
        /\ n \notin 1 .. Len(d.nodes)
        /\ Len(w.nodes) = n
        /\ \A j \in 1 .. Len(d.nodes) : w.nodes[j] = d.nodes[j]
        /\ w.nodes[n].op = "NONE" /\ w.nodes[n].arg = arg
        /\ \A x \in Ids : w.recent[x] = IF x = arg THEN n ELSE d.recent[x]
    BY <1>1, <2>2 DEF Leafed, Leaf, Grown
  <2>5. /\ arg \in Vars => d.recent[arg] = 0 /\ s[arg] = Initial(arg)
        /\ arg \in Ids => Term(s, arg) = s[arg]
        /\ arg \notin Ids => Term(s, arg) = << "constant", arg >>
    BY <1>0, <1>2 DEF NeedsLeaf, Faith, Term
  <2>6. Valued(w, s, U)
    <3>. SUFFICES ASSUME NEW j \in 1 .. n
         PROVE  /\ w.nodes[j].op = "NONE" /\ w.nodes[j].arg \in Vars
                      => U[j] = Initial(w.nodes[j].arg)
                /\ w.nodes[j].op = "NONE" /\ w.nodes[j].arg \in Ids \ Vars
                      => U[j] = s[w.nodes[j].arg]
                /\ w.nodes[j].op = "NONE" /\ w.nodes[j].arg \notin Ids
                      => U[j] = << "constant", w.nodes[j].arg >>
                /\ w.nodes[j].op = "ASSIGN" => U[j] = U[w.nodes[j].left]
                /\ w.nodes[j].op \in Operations
                      => U[j] = << w.nodes[j].op, U[w.nodes[j].left], U[w.nodes[j].right] >>
      BY <2>4 DEF Valued
    <3>1. CASE j = n
      BY <3>1, <1>0, <2>3, <2>4, <2>5
    <3>2. CASE j \in 1 .. Len(d.nodes)
      <4>1. /\ w.nodes[j] = d.nodes[j] /\ U[j] = T[j]
            /\ d.nodes[j].op # "NONE" =>
                  d.nodes[j].left \in 1 .. Len(d.nodes)
            /\ d.nodes[j].op \in Operations =>
                  d.nodes[j].right \in 1 .. Len(d.nodes)
        <5>1. w.nodes[j] = d.nodes[j] /\ U[j] = T[j]
          BY <3>2, <2>3, <2>4
        <5>2. /\ d.nodes[j].left \in 0 .. j - 1
              /\ d.nodes[j].right \in 0 .. j - 1
              /\ d.nodes[j].op # "NONE" => d.nodes[j].left # 0
              /\ d.nodes[j].op \in Operations => d.nodes[j].right # 0
          BY ONLY <3>2, <1>1 DEF Placed
        <5>. QED  BY ONLY <3>2, <1>1, <5>1, <5>2
      <4>2. /\ d.nodes[j].op # "NONE" => U[d.nodes[j].left] = T[d.nodes[j].left]
            /\ d.nodes[j].op \in Operations => U[d.nodes[j].right] = T[d.nodes[j].right]
        BY <4>1, <2>3
      <4>3. Valued(d, s, T)
        BY DEF Faith
      <4>. QED  BY <3>2, <4>1, <4>2, <4>3, <1>0 DEF Valued
    <3>. QED  BY <3>1, <3>2, <2>4
  <2>7. ASSUME NEW j \in 1 .. n, NEW x, w.nodes[j].op # "NONE", On(w, j, x)
        PROVE  s[x] = U[j]
    <3>1. j \in 1 .. Len(d.nodes) /\ d.nodes[j].op # "NONE" /\ On(d, j, x)
      BY <2>4, <2>7 DEF On
    <3>. QED  BY <3>1, <2>3 DEF Faith
  <2>8. ASSUME NEW x \in Ids, w.recent[x] # 0 PROVE s[x] = U[w.recent[x]]
    <3>1. CASE x = arg
      BY <3>1, <2>3, <2>4, <2>5
    <3>2. CASE x # arg
      <4>1. w.recent[x] = d.recent[x] /\ d.recent[x] \in 1 .. Len(d.nodes)
        BY <2>4, <2>8, <3>2, <1>1 DEF Placed
      <4>. QED  BY <4>1, <2>3, <2>8 DEF Faith
    <3>. QED  BY <3>1, <3>2
  <2>9. ASSUME NEW v \in Vars, w.recent[v] = 0 PROVE s[v] = Initial(v)
    BY <1>0, <1>1, <2>4, <2>9 DEF Faith
  <2>10. Faith(w, s, U)
    BY <2>4, <2>6, <2>7, <2>8, <2>9 DEF Faith
  <2>. QED  BY <2>1, <2>3, <2>10 DEF Sees
<1>3. CASE ~NeedsLeaf(d, arg)
  <2>1. w = d /\ k = d.recent[arg] /\ arg \in Ids /\ d.recent[arg] # 0
    BY <1>3 DEF WithArg, ArgNode, NeedsLeaf
  <2>2. T[k] = Term(s, arg)
    BY <2>1 DEF Faith, Term
  <2>. QED  BY <2>1, <2>2 DEF Sees
<1>. QED  BY <1>2, <1>3

\* The value of a node over l and r, and the store in which id has a value.
ValueOf(op, T, l, r) == IF op = "ASSIGN" THEN T[l] ELSE << op, T[l], T[r] >>
Stored(s, id, val)   == [s EXCEPT ![id] = val]

\* A new node whose value id takes.
LEMMA AppendedFaith ==
    ASSUME NEW made, made \subseteq Ids \ Vars,
           NEW w, Graph(w, made), NEW f, NEW op \in {"ASSIGN"} \cup Operations,
           NEW l \in 1 .. Len(w.nodes), NEW r \in 0 .. Len(w.nodes),
           op \in Operations => r # 0,
           NEW id \in Ids \ made, NEW m \in Nat,
           AppendedOver(w, f, Interior(op, l, r, id), id, l, m),
           \A j \in 1 .. Len(w.nodes) :
              w.nodes[j].op # "NONE" /\ On(w, j, id) => j \in {l, m, w.recent[id]},
           NEW s, s = [x \in Ids |-> s[x]], NEW T, Faith(w, s, T),
           NEW s2, s2 = Stored(s, id, ValueOf(op, T, l, r))
    PROVE  Faithful(f, s2)
<1>13. PICK val : val = ValueOf(op, T, l, r)
  OBVIOUS
<1>14. /\ op = "ASSIGN" => val = T[l]
       /\ op \in Operations => val = << op, T[l], T[r] >>
       /\ s2 = [s EXCEPT ![id] = val]
  BY <1>13, OptimizerAssumption DEF ValueOf, Stored
<1>0. Vars \subseteq Ids /\ "NONE" \notin Operations /\ "ASSIGN" \notin Operations
      /\ None \notin Ids
  BY OptimizerAssumption, DagAssumption
<1>1. Shape(w) /\ Placed(w) /\ Known(w, made) /\ Len(w.nodes) \in Nat
  BY DEF Graph, Shape
<1>. DEFINE n == Len(w.nodes) + 1
            U == [j \in 1 .. n |-> IF j = n THEN val ELSE T[j]]
<1>2. U[n] = val /\ \A j \in 1 .. Len(w.nodes) : U[j] = T[j]
  BY <1>1
<1>. HIDE DEF U
<1>3. /\ \A j \in 1 .. n : j \in 1 .. Len(w.nodes) \/ j = n
      /\ n \notin 1 .. Len(w.nodes) /\ n \in 1 .. n /\ n # 0
  BY <1>1
<1>4. /\ f.nodes[n].op = op /\ f.nodes[n].arg = None
      /\ f.nodes[n].left = l /\ f.nodes[n].right = r
      /\ \A x : On(f, n, x) <=> x = id
  BY DEF Appended, AppendedOver, Interior, On, Contains
<1>5. \A j \in 1 .. Len(w.nodes) :
          /\ f.nodes[j].op = w.nodes[j].op
          /\ f.nodes[j].arg = w.nodes[j].arg
          /\ f.nodes[j].left = w.nodes[j].left
          /\ f.nodes[j].right = w.nodes[j].right
          /\ \A x : On(f, j, x) <=> On(w, j, x) /\ ~(x = id /\ j \in {l, m, w.recent[id]})
  BY DEF Appended, AppendedOver
<1>6. /\ Len(f.nodes) = n
      /\ \A x \in Ids : f.recent[x] = IF x = id THEN n ELSE w.recent[x]
  BY <1>1 DEF Appended, AppendedOver, Shape
<1>7. s2[id] = val /\ \A x : x # id /\ x \in Ids => s2[x] = s[x]
  BY <1>14
<1>8. Valued(f, s2, U)
  <2>. SUFFICES ASSUME NEW j \in 1 .. n
       PROVE  /\ f.nodes[j].op = "NONE" /\ f.nodes[j].arg \in Vars
                    => U[j] = Initial(f.nodes[j].arg)
              /\ f.nodes[j].op = "NONE" /\ f.nodes[j].arg \in Ids \ Vars
                    => U[j] = s2[f.nodes[j].arg]
              /\ f.nodes[j].op = "NONE" /\ f.nodes[j].arg \notin Ids
                    => U[j] = << "constant", f.nodes[j].arg >>
              /\ f.nodes[j].op = "ASSIGN" => U[j] = U[f.nodes[j].left]
              /\ f.nodes[j].op \in Operations
                    => U[j] = << f.nodes[j].op, U[f.nodes[j].left], U[f.nodes[j].right] >>
    BY <1>6 DEF Valued
  <2>1. CASE j = n
    <3>1. U[l] = T[l] /\ (op \in Operations => U[r] = T[r])
      BY <1>1, <1>2
    <3>. QED  BY <2>1, <3>1, <1>0, <1>2, <1>4, <1>14
  <2>2. CASE j \in 1 .. Len(w.nodes)
    <3>1. /\ U[j] = T[j]
          /\ w.nodes[j].op # "NONE" => w.nodes[j].left \in 1 .. Len(w.nodes)
          /\ w.nodes[j].op \in Operations => w.nodes[j].right \in 1 .. Len(w.nodes)
      BY <2>2, <1>1, <1>2 DEF Placed
    <3>2. /\ w.nodes[j].op # "NONE" => U[w.nodes[j].left] = T[w.nodes[j].left]
          /\ w.nodes[j].op \in Operations => U[w.nodes[j].right] = T[w.nodes[j].right]
      BY <3>1, <1>2
    <3>3. Valued(w, s, T)
      BY DEF Faith
    <3>6. /\ w.nodes[j].op = "NONE" /\ w.nodes[j].arg \in Vars
                => T[j] = Initial(w.nodes[j].arg)
          /\ w.nodes[j].op = "NONE" /\ w.nodes[j].arg \in Ids \ Vars
                => T[j] = s[w.nodes[j].arg]
          /\ w.nodes[j].op = "NONE" /\ w.nodes[j].arg \notin Ids
                => T[j] = << "constant", w.nodes[j].arg >>
          /\ w.nodes[j].op = "ASSIGN" => T[j] = T[w.nodes[j].left]
          /\ w.nodes[j].op \in Operations
                => T[j] = << w.nodes[j].op, T[w.nodes[j].left], T[w.nodes[j].right] >>
      BY ONLY <2>2, <3>3 DEF Valued
    <3>4. w.nodes[j].arg \in Ids \ Vars => w.nodes[j].arg # id
      BY <2>2, <1>0, <1>1, OptimizerAssumption DEF Known
    <3>5. /\ f.nodes[j].op = w.nodes[j].op /\ f.nodes[j].arg = w.nodes[j].arg
          /\ f.nodes[j].left = w.nodes[j].left /\ f.nodes[j].right = w.nodes[j].right
      BY <2>2, <1>5
    <3>. QED  BY ONLY <3>1, <3>2, <3>6, <3>4, <3>5, <1>0, <1>7
  <2>. QED  BY <2>1, <2>2, <1>3
<1>9. ASSUME NEW j \in 1 .. n, NEW x, f.nodes[j].op # "NONE", On(f, j, x)
      PROVE  s2[x] = U[j]
  <2>1. CASE j = n
    BY <2>1, <1>2, <1>4, <1>7, <1>9
  <2>2. CASE j \in 1 .. Len(w.nodes)
    <3>1. On(w, j, x) /\ w.nodes[j].op # "NONE" /\ x # id
      BY <2>2, <1>5, <1>9
    <3>2. x \in Ids
      BY <2>2, <3>1, <1>0, <1>1 DEF Known
    <3>. QED  BY <2>2, <3>1, <3>2, <1>2, <1>7 DEF Faith
  <2>. QED  BY <2>1, <2>2, <1>3
<1>10. ASSUME NEW x \in Ids, f.recent[x] # 0 PROVE s2[x] = U[f.recent[x]]
  <2>1. CASE x = id
    BY <2>1, <1>2, <1>6, <1>7
  <2>2. CASE x # id
    <3>1. f.recent[x] = w.recent[x] /\ w.recent[x] \in 1 .. Len(w.nodes)
      BY <1>6, <1>10, <2>2, <1>1 DEF Placed
    <3>. QED  BY <3>1, <2>2, <1>2, <1>7, <1>10 DEF Faith
  <2>. QED  BY <2>1, <2>2
<1>11. ASSUME NEW v \in Vars, f.recent[v] = 0 PROVE s2[v] = Initial(v)
  <2>1. v # id /\ v \in Ids /\ w.recent[v] = 0
    BY <1>0, <1>3, <1>6, <1>11
  <2>. QED  BY <2>1, <1>7 DEF Faith
<1>12. Faith(f, s2, U)
  BY <1>6, <1>8, <1>9, <1>10, <1>11 DEF Faith
<1>. QED  BY <1>12 DEF Faithful

\* A node that has the value id takes.
LEMMA JoinedFaith ==
    ASSUME NEW made, made \subseteq Ids \ Vars,
           NEW w, Graph(w, made), NEW f, NEW k \in 1 .. Len(w.nodes),
           w.nodes[k].op # "NONE",
           NEW id \in Ids \ made, NEW gone \in Nat,
           Joined(w, f, k, id, gone),
           \A j \in 1 .. Len(w.nodes) :
              w.nodes[j].op # "NONE" /\ On(w, j, id) => j \in {gone, k},
           \A x \in Ids : x # id => f.recent[x] = w.recent[x],
           f.recent[id] \in {0, k}, id \in Vars => f.recent[id] = k,
           NEW s, s = [x \in Ids |-> s[x]], NEW T, Faith(w, s, T),
           NEW s2, s2 = [s EXCEPT ![id] = T[k]]
    PROVE  Faithful(f, s2)
<1>0. Vars \subseteq Ids /\ "NONE" \notin Operations /\ None \notin Ids
  BY OptimizerAssumption, DagAssumption
<1>1. Shape(w) /\ Placed(w) /\ Known(w, made) /\ Len(w.nodes) \in Nat
  BY DEF Graph, Shape
<1>2. /\ Len(f.nodes) = Len(w.nodes)
      /\ \A j \in 1 .. Len(w.nodes) :
          /\ f.nodes[j].op = w.nodes[j].op
          /\ f.nodes[j].arg = w.nodes[j].arg
          /\ f.nodes[j].left = w.nodes[j].left
          /\ f.nodes[j].right = w.nodes[j].right
  BY DEF Joined, SameNodes
<1>3. \A j \in 1 .. Len(w.nodes) : \A x :
        On(f, j, x) <=> (On(w, j, x) /\ ~(x = id /\ j = gone)) \/ (j = k /\ x = id)
  BY DEF Joined
<1>4. s2[id] = T[k] /\ \A x : x # id /\ x \in Ids => s2[x] = s[x]
  OBVIOUS
<1>5. Valued(f, s2, T)
  <2>1. ASSUME NEW j \in 1 .. Len(w.nodes), w.nodes[j].arg \in Ids \ Vars
        PROVE  s2[w.nodes[j].arg] = s[w.nodes[j].arg]
    <3>1. w.nodes[j].arg # id
      BY <2>1, <1>0, <1>1, OptimizerAssumption DEF Known
    <3>. QED  BY <2>1, <3>1, <1>4
  <2>2. Valued(w, s, T)
    BY DEF Faith
  <2>. SUFFICES ASSUME NEW j \in 1 .. Len(w.nodes)
       PROVE  /\ f.nodes[j].op = "NONE" /\ f.nodes[j].arg \in Vars
                    => T[j] = Initial(f.nodes[j].arg)
              /\ f.nodes[j].op = "NONE" /\ f.nodes[j].arg \in Ids \ Vars
                    => T[j] = s2[f.nodes[j].arg]
              /\ f.nodes[j].op = "NONE" /\ f.nodes[j].arg \notin Ids
                    => T[j] = << "constant", f.nodes[j].arg >>
              /\ f.nodes[j].op = "ASSIGN" => T[j] = T[f.nodes[j].left]
              /\ f.nodes[j].op \in Operations
                    => T[j] = << f.nodes[j].op, T[f.nodes[j].left], T[f.nodes[j].right] >>
    BY <1>2 DEF Valued
  <2>3. /\ f.nodes[j].op = w.nodes[j].op /\ f.nodes[j].arg = w.nodes[j].arg
        /\ f.nodes[j].left = w.nodes[j].left /\ f.nodes[j].right = w.nodes[j].right
    BY <1>2
  <2>. QED  BY <2>1, <2>2, <2>3 DEF Valued
<1>6. ASSUME NEW j \in 1 .. Len(w.nodes), NEW x, f.nodes[j].op # "NONE", On(f, j, x)
      PROVE  s2[x] = T[j]
  <2>1. CASE x = id
    <3>1. j = k
      BY <2>1, <1>2, <1>3, <1>6
    <3>. QED  BY <2>1, <3>1, <1>4
  <2>2. CASE x # id
    <3>1. On(w, j, x) /\ w.nodes[j].op # "NONE"
      BY <2>2, <1>2, <1>3, <1>6
    <3>2. x \in Ids
      BY <3>1, <1>0, <1>1 DEF Known
    <3>. QED  BY <2>2, <3>1, <3>2, <1>4 DEF Faith
  <2>. QED  BY <2>1, <2>2
<1>7. ASSUME NEW x \in Ids, f.recent[x] # 0 PROVE s2[x] = T[f.recent[x]]
  BY <1>4, <1>7 DEF Faith
<1>8. ASSUME NEW v \in Vars, f.recent[v] = 0 PROVE s2[v] = Initial(v)
  <2>1. v # id /\ v \in Ids /\ w.recent[v] = 0
    BY <1>0, <1>8
  <2>. QED  BY <2>1, <1>4 DEF Faith
<1>9. Faith(f, s2, T)
  BY <1>2, <1>5, <1>6, <1>7, <1>8 DEF Faith
<1>. QED  BY <1>9 DEF Faithful

-----------------------------------------------------------------------------
\* Looking up an argument changes nothing that is compiled.
LEMMA ArgumentBound ==
    ASSUME NEW made, NEW d, Bound(d, made), Graph(d, made),
           NEW w, NEW arg, NEW k, Looked(d, w, arg, k)
    PROVE  Bound(w, made) /\ (Computed(d, made) => Computed(w, made))
<1>1. /\ Len(d.nodes) \in Nat
      /\ w.roots = d.roots
      /\ \A j \in 1 .. Len(d.nodes) : w.nodes[j] = d.nodes[j]
      /\ 1 .. Len(d.nodes) \subseteq 1 .. Len(w.nodes)
      /\ \A j \in 1 .. Len(w.nodes) : j \in 1 .. Len(d.nodes) \/ w.nodes[j].op = "NONE"
  <2>1. Len(d.nodes) \in Nat
    BY DEF Graph, Shape
  <2>2. \A j \in 1 .. Len(d.nodes) : j \in 1 .. Len(w.nodes)
    BY <2>1 DEF Looked, Grown
  <2>. QED  BY <2>1, <2>2 DEF Looked, Grown
<1>2. "NONE" \notin Operations
  BY OptimizerAssumption
<1>3. \A j \in 1 .. Len(d.nodes) : \A x : On(w, j, x) <=> On(d, j, x)
  BY <1>1 DEF On
<1>4. Bound(w, made)
  <2>1. ASSUME NEW j \in 1 .. Len(w.nodes), w.nodes[j].op \in Operations
        PROVE  \E t \in made : On(w, j, t)
    BY <2>1, <1>1, <1>2, <1>3 DEF Bound
  <2>2. ASSUME NEW j \in 1 .. Len(w.nodes), NEW x, w.nodes[j].op # "NONE", On(w, j, x)
        PROVE  \/ Contains(w.roots, j)
               \/ \E p \in 1 .. Len(w.nodes) :
                     /\ w.nodes[p].op \in Operations
                     /\ j \in {w.nodes[p].left, w.nodes[p].right}
    <3>1. j \in 1 .. Len(d.nodes) /\ d.nodes[j].op # "NONE" /\ On(d, j, x)
      BY <2>2, <1>1, <1>3
    <3>2. CASE Contains(d.roots, j)
      BY <3>2, <1>1
    <3>3. CASE \E p \in 1 .. Len(d.nodes) :
                  /\ d.nodes[p].op \in Operations
                  /\ j \in {d.nodes[p].left, d.nodes[p].right}
      BY <3>3, <1>1
    <3>. QED  BY <3>1, <3>2, <3>3 DEF Bound
  <2>. QED  BY <2>1, <2>2 DEF Bound
<1>5. ASSUME Computed(d, made) PROVE Computed(w, made)
  <2>. SUFFICES ASSUME NEW t \in made
                PROVE  \E j \in 1 .. Len(w.nodes) : w.nodes[j].op # "NONE" /\ On(w, j, t)
    BY DEF Computed
  <2>1. PICK j \in 1 .. Len(d.nodes) : d.nodes[j].op # "NONE" /\ On(d, j, t)
    BY <1>5 DEF Computed
  <2>. QED  BY <2>1, <1>1, <1>3
<1>. QED  BY <1>4, <1>5

\* A new node, over leaves or as an operation, is a root; the operands that
\* stop being roots are reached from it.
LEMMA AppendedBound ==
    ASSUME NEW made, NEW more, made \subseteq more,
           NEW w, Graph(w, made), Bound(w, made), NEW f, NEW op \in {"ASSIGN"} \cup Operations,
           NEW l \in 1 .. Len(w.nodes), NEW r \in 0 .. Len(w.nodes),
           NEW id, id \notin made, more \subseteq made \cup {id},
           op \in Operations => id \in more,
           NEW m \in Nat,
           \/ op \in Operations /\ m = r
           \/ w.nodes[l].op = "NONE" /\ m = l,
           AppendedOver(w, f, Interior(op, l, r, id), id, l, m)
    PROVE  Bound(f, more) /\ (Computed(w, made) => Computed(f, more))
<1>0. "NONE" \notin Operations /\ "ASSIGN" \notin Operations /\ op # "NONE"
  BY OptimizerAssumption
<1>1. Len(w.nodes) \in Nat
  BY DEF Graph, Shape
<1>. DEFINE n == Len(w.nodes) + 1
<1>2. /\ \A j \in 1 .. n : j \in 1 .. Len(w.nodes) \/ j = n
      /\ n \in 1 .. n /\ 1 .. Len(w.nodes) \subseteq 1 .. n
  BY <1>1
<1>3. /\ f.nodes[n].op = op
      /\ f.nodes[n].left = l /\ f.nodes[n].right = r
      /\ \A x : On(f, n, x) <=> x = id
  BY DEF Appended, AppendedOver, Interior, On, Contains
<1>4. \A j \in 1 .. Len(w.nodes) :
          /\ f.nodes[j].op = w.nodes[j].op
          /\ f.nodes[j].left = w.nodes[j].left
          /\ f.nodes[j].right = w.nodes[j].right
          /\ \A x : On(f, j, x) <=> On(w, j, x) /\ ~(x = id /\ j \in {l, m, w.recent[id]})
  BY DEF Appended, AppendedOver
<1>5. /\ Len(f.nodes) = n
      /\ \A x : Contains(w.roots, x) /\ x \notin {l, m} => Contains(f.roots, x)
      /\ Contains(f.roots, n)
  BY DEF Appended, AppendedOver
<1>6. ASSUME NEW j \in 1 .. n, f.nodes[j].op \in Operations
      PROVE  \E t \in more : On(f, j, t)
  <2>1. CASE j = n
    BY <2>1, <1>3, <1>6
  <2>2. CASE j \in 1 .. Len(w.nodes)
    <3>1. PICK t \in made : On(w, j, t)
      BY <2>2, <1>4, <1>6 DEF Bound
    <3>. QED  BY <2>2, <3>1, <1>4
  <2>. QED  BY <2>1, <2>2, <1>2
<1>7. ASSUME NEW j \in 1 .. n, NEW x, f.nodes[j].op # "NONE", On(f, j, x)
      PROVE  \/ Contains(f.roots, j)
             \/ \E p \in 1 .. n :
                   /\ f.nodes[p].op \in Operations
                   /\ j \in {f.nodes[p].left, f.nodes[p].right}
  <2>1. CASE j = n
    BY <2>1, <1>5
  <2>2. CASE j \in 1 .. Len(w.nodes) /\ j \in {l, m}
    <3>1. w.nodes[j].op # "NONE"
      BY <2>2, <1>4, <1>7
    <3>2. op \in Operations /\ m = r
      BY <2>2, <3>1
    <3>. QED  BY <2>2, <3>2, <1>2, <1>3
  <2>3. CASE j \in 1 .. Len(w.nodes) /\ j \notin {l, m}
    <3>1. w.nodes[j].op # "NONE" /\ On(w, j, x)
      BY <2>3, <1>4, <1>7
    <3>2. CASE Contains(w.roots, j)
      BY <2>3, <3>2, <1>5
    <3>3. CASE \E p \in 1 .. Len(w.nodes) :
                  /\ w.nodes[p].op \in Operations
                  /\ j \in {w.nodes[p].left, w.nodes[p].right}
      BY <3>3, <1>2, <1>4
    <3>. QED  BY <2>3, <3>1, <3>2, <3>3 DEF Bound
  <2>. QED  BY <2>1, <2>2, <2>3, <1>2
<1>8. ASSUME Computed(w, made) PROVE Computed(f, more)
  <2>. SUFFICES ASSUME NEW t \in more
                PROVE  \E j \in 1 .. n : f.nodes[j].op # "NONE" /\ On(f, j, t)
    BY <1>5 DEF Computed
  <2>1. CASE t = id
    BY <2>1, <1>0, <1>2, <1>3
  <2>2. CASE t \in made
    <3>1. PICK j \in 1 .. Len(w.nodes) : w.nodes[j].op # "NONE" /\ On(w, j, t)
      BY <1>8, <2>2 DEF Computed
    <3>. QED  BY <2>2, <3>1, <1>2, <1>4
  <2>. QED  BY <2>1, <2>2
<1>9. Bound(f, more)
  BY <1>5, <1>6, <1>7 DEF Bound
<1>. QED  BY <1>8, <1>9

\* A node that gets an identifier is a root.
LEMMA JoinedBound ==
    ASSUME NEW made, NEW more, made \subseteq more,
           NEW w, Bound(w, made), NEW f, NEW k \in 1 .. Len(w.nodes),
           w.nodes[k].op # "NONE",
           NEW id, id \notin made, more \subseteq made \cup {id}, NEW gone,
           Joined(w, f, k, id, gone)
    PROVE  Bound(f, more) /\ (Computed(w, made) => Computed(f, more))
<1>. DEFINE n == Len(w.nodes)
<1>1. /\ Len(f.nodes) = n
      /\ \A j \in 1 .. n :
          /\ f.nodes[j].op = w.nodes[j].op
          /\ f.nodes[j].left = w.nodes[j].left
          /\ f.nodes[j].right = w.nodes[j].right
  BY DEF Joined, SameNodes
<1>2. /\ \A j \in 1 .. n : \A x :
            On(f, j, x) <=> (On(w, j, x) /\ ~(x = id /\ j = gone)) \/ (j = k /\ x = id)
      /\ \A x : Contains(f.roots, x) <=> Contains(w.roots, x) \/ x = k
  BY DEF Joined
<1>3. ASSUME NEW j \in 1 .. n, f.nodes[j].op \in Operations
      PROVE  \E t \in more : On(f, j, t)
  <2>1. PICK t \in made : On(w, j, t)
    BY <1>1, <1>3 DEF Bound
  <2>. QED  BY <2>1, <1>2
<1>4. ASSUME NEW j \in 1 .. n, NEW x, f.nodes[j].op # "NONE", On(f, j, x)
      PROVE  \/ Contains(f.roots, j)
             \/ \E p \in 1 .. n :
                   /\ f.nodes[p].op \in Operations
                   /\ j \in {f.nodes[p].left, f.nodes[p].right}
  <2>1. CASE j = k
    BY <2>1, <1>2
  <2>2. CASE j # k
    <3>1. w.nodes[j].op # "NONE" /\ On(w, j, x)
      BY <2>2, <1>1, <1>2, <1>4
    <3>2. CASE Contains(w.roots, j)
      BY <3>2, <1>2
    <3>3. CASE \E p \in 1 .. n :
                  /\ w.nodes[p].op \in Operations
                  /\ j \in {w.nodes[p].left, w.nodes[p].right}
      BY <3>3, <1>1
    <3>. QED  BY <3>1, <3>2, <3>3 DEF Bound
  <2>. QED  BY <2>1, <2>2
<1>5. ASSUME Computed(w, made) PROVE Computed(f, more)
  <2>. SUFFICES ASSUME NEW t \in more
                PROVE  \E j \in 1 .. n : f.nodes[j].op # "NONE" /\ On(f, j, t)
    BY <1>1 DEF Computed
  <2>1. CASE t = id
    BY <2>1, <1>1, <1>2
  <2>2. CASE t \in made
    <3>1. PICK j \in 1 .. n : w.nodes[j].op # "NONE" /\ On(w, j, t)
      BY <1>5, <2>2 DEF Computed
    <3>. QED  BY <2>2, <3>1, <1>1, <1>2
  <2>. QED  BY <2>1, <2>2
<1>6. Bound(f, more)
  BY <1>1, <1>3, <1>4 DEF Bound
<1>. QED  BY <1>5, <1>6

-----------------------------------------------------------------------------
\* What an assignment and an operation keep of the meaning.
AssignKeeps(made, d, f, s, s2) ==
    /\ Bound(f, made)
    /\ Computed(d, made) => Computed(f, made)
    /\ Faithful(d, s) => Faithful(f, s2)

\* The node p that was found has the value wanted.
Apt(d, s, p, term) == p = 0 \/ \A x \in ToSet(d.nodes[p].ids) : s[x] = term

BinaryKeeps(made, more, d, f, s, s2, p, term) ==
    /\ Bound(f, more)
    /\ ~f.aborted /\ Computed(d, made) => Computed(f, more)
    /\ ~f.aborted /\ Faithful(d, s) /\ Apt(d, s, p, term) => Faithful(f, s2)

\* An assignment keeps the meaning of the graph.
LEMMA AssignMeans ==
    ASSUME NEW made, made \subseteq Ids \ Vars,
           NEW d, Graph(d, made), Bound(d, made),
           NEW arg \in Vars \cup made \cup Consts,
           NEW id \in Vars, NEW f, f = Assign(d, id, arg),
           NEW s, s = [x \in Ids |-> s[x]], NEW s2, s2 = [s EXCEPT ![id] = Term(s, arg)]
    PROVE  AssignKeeps(made, d, f, s, s2)
<1>. SUFFICES /\ Bound(f, made)
              /\ Computed(d, made) => Computed(f, made)
              /\ Faithful(d, s) => Faithful(f, s2)
  BY DEF AssignKeeps
<1>0. id \in Ids /\ id \notin made /\ id \in Ids \ made /\ made \subseteq made
      /\ made \subseteq made \cup {id}
  BY OptimizerAssumption
<1>1. PICK w : w = WithArg(d, arg)
  OBVIOUS
<1>2. PICK k : k = ArgNode(d, arg)
  OBVIOUS
<1>3. Graph(w, made) /\ Looked(d, w, arg, k)
  BY <1>1, <1>2, ArgumentNode
<1>4. Bound(w, made) /\ (Computed(d, made) => Computed(w, made))
  BY <1>3, ArgumentBound
<1>5. ASSUME NEW T, Faith(d, s, T) PROVE Sees(d, w, s, T, arg, k)
  BY <1>1, <1>2, <1>5, ArgumentSeen
<1>6. /\ Shape(w) /\ Homes(w) /\ Placed(w) /\ Len(w.nodes) \in Nat
      /\ k \in 1 .. Len(w.nodes) /\ k \in Nat /\ 0 \in 0 .. Len(w.nodes)
      /\ w.recent[id] \in Nat /\ w.recent \in [Ids -> Nat]
  BY <1>0, <1>3 DEF Graph, Shape, Looked
<1>7. \A j \in 1 .. Len(w.nodes) :
         w.nodes[j].op # "NONE" /\ On(w, j, id) => j = w.recent[id]
  BY <1>6 DEF Homes
<1>8. AssignsLeaf(d, f, id, arg) \/ AssignsInner(d, f, id, arg)
  BY AssignStep
<1>9. CASE AssignsLeaf(d, f, id, arg)
  <2>1. /\ w.nodes[k].op = "NONE"
        /\ AppendedOver(w, f, Interior("ASSIGN", k, 0, id), id, k, k)
    BY <1>1, <1>2, <1>9 DEF AssignsLeaf
  <2>2. PICK op : op = "ASSIGN" /\ op \in {"ASSIGN"} \cup Operations /\ op \notin Operations
    BY OptimizerAssumption
  <2>3. PICK r : r = 0 /\ r \in 0 .. Len(w.nodes)
    BY <1>6
  <2>4. AppendedOver(w, f, Interior(op, k, r, id), id, k, k)
    BY <2>1, <2>2, <2>3
  <2>5. Bound(f, made) /\ (Computed(w, made) => Computed(f, made))
    BY <1>0, <1>3, <1>4, <1>6, <2>1, <2>2, <2>3, <2>4, AppendedBound
  <2>6. ASSUME NEW T, Faith(d, s, T) PROVE Faithful(f, s2)
    <3>1. PICK U : Faith(w, s, U) /\ U[k] = Term(s, arg)
      BY <1>5, <2>6 DEF Sees
    <3>2. s2 = Stored(s, id, ValueOf(op, U, k, r))
      BY <2>2, <3>1 DEF Stored, ValueOf
    <3>3. \A j \in 1 .. Len(w.nodes) :
              w.nodes[j].op # "NONE" /\ On(w, j, id) => j \in {k, k, w.recent[id]}
      BY <1>7
    <3>. QED  BY <1>0, <1>3, <1>6, <2>2, <2>3, <2>4, <3>1, <3>2, <3>3, AppendedFaith
  <2>. QED  BY <1>4, <2>5, <2>6 DEF Faithful
<1>10. CASE AssignsInner(d, f, id, arg)
  <2>1. /\ w.nodes[k].op # "NONE"
        /\ Joined(w, f, k, id, w.recent[id])
        /\ f.recent = [w.recent EXCEPT ![id] = k]
    BY <1>1, <1>2, <1>10 DEF AssignsInner
  <2>2. Bound(f, made) /\ (Computed(w, made) => Computed(f, made))
    BY <1>0, <1>4, <1>6, <2>1, JoinedBound
  <2>3. ASSUME NEW T, Faith(d, s, T) PROVE Faithful(f, s2)
    <3>1. PICK U : Faith(w, s, U) /\ U[k] = Term(s, arg)
      BY <1>5, <2>3 DEF Sees
    <3>2. s2 = [s EXCEPT ![id] = U[k]]
      BY <3>1
    <3>3. f.recent[id] = k /\ f.recent[id] \in {0, k}
          /\ \A x \in Ids : x # id => f.recent[x] = w.recent[x]
      BY <1>0, <1>6, <2>1
    <3>4. \A j \in 1 .. Len(w.nodes) :
              w.nodes[j].op # "NONE" /\ On(w, j, id) => j \in {w.recent[id], k}
      BY <1>7
    <3>. QED  BY <1>0, <1>3, <1>6, <2>1, <3>1, <3>2, <3>3, <3>4, JoinedFaith
  <2>. QED  BY <1>4, <2>2, <2>3 DEF Faithful
<1>. QED  BY <1>8, <1>9, <1>10

\* So does an operation, unless it takes a node with another value.
LEMMA BinaryMeans ==
    ASSUME NEW made, NEW more, made \subseteq more, more \subseteq Ids \ Vars,
           NEW d, Graph(d, made), Bound(d, made),
           NEW op \in Operations, NEW id \in more, id \notin made,
           more \subseteq made \cup {id},
           NEW a \in Vars \cup made \cup Consts, NEW b \in Vars \cup made \cup Consts,
           NEW f, f = Binary(d, op, id, a, b),
           NEW s, s = [x \in Ids |-> s[x]], NEW term, term = << op, Term(s, a), Term(s, b) >>,
           NEW s2, s2 = [s EXCEPT ![id] = term],
           NEW q, q = Reused(d, op, a, b)
    PROVE  BinaryKeeps(made, more, d, f, s, s2, q, term)
<1>. SUFFICES /\ Bound(f, more)
              /\ ~f.aborted /\ Computed(d, made) => Computed(f, more)
              /\ /\ ~f.aborted
                 /\ Faithful(d, s)
                 /\ \/ q = 0
                    \/ \A x \in ToSet(d.nodes[q].ids) : s[x] = term
                 => Faithful(f, s2)
  BY DEF BinaryKeeps, Apt
<1>0. id \in Ids /\ id \in Ids \ made /\ made \subseteq Ids \ Vars
      /\ id # a /\ id # b /\ id \notin Vars
  BY OptimizerAssumption
<1>1. Shape(d) /\ Known(d, made) /\ Placed(d) /\ Homes(d) /\ Len(d.nodes) \in Nat
  BY DEF Graph, Shape
<1>2. \A j \in 1 .. Len(d.nodes) : ~On(d, j, id)
  BY <1>0, <1>1 DEF Known
<1>3. d.recent[id] = 0
  <2>1. d.recent[id] \in 0 .. Len(d.nodes) /\ (d.recent[id] # 0 => On(d, d.recent[id], id))
    BY <1>0, <1>1 DEF Placed, Homes
  <2>. QED  BY <1>1, <1>2, <2>1
<1>4. Aborts(d, f) \/ Reuses(d, f, op, id, a, b) \/ Makes(d, f, op, id, a, b)
  BY BinaryStep
<1>5. CASE Aborts(d, f)
  <2>1. Bound(f, more)
    BY <1>5 DEF Aborts, Bound, On
  <2>. QED  BY <1>5, <2>1 DEF Aborts
<1>6. CASE Reuses(d, f, op, id, a, b)
  <2>1. PICK p : p = Reused(d, op, a, b)
    OBVIOUS
  <2>2. /\ p \in 1 .. Len(d.nodes) /\ p # 0
        /\ d.nodes[p].op \in Operations
        /\ Joined(d, f, p, id, 0)
        /\ f.recent = d.recent
    BY <1>6, <2>1 DEF Reuses
  <2>3. d.nodes[p].op # "NONE" /\ 0 \in Nat
    BY <2>2, OptimizerAssumption
  <2>4. Bound(f, more) /\ (Computed(d, made) => Computed(f, more))
    BY <1>0, <2>2, <2>3, JoinedBound
  <2>5. ASSUME NEW T, Faith(d, s, T), \A x \in ToSet(d.nodes[p].ids) : s[x] = term
        PROVE  Faithful(f, s2)
    <3>1. PICK t \in made : On(d, p, t)
      <4>1. Bound(d, made) /\ p \in 1 .. Len(d.nodes) /\ d.nodes[p].op \in Operations
        BY <2>2
      <4>. QED  BY ONLY <4>1 DEF Bound
    <3>2. t \in ToSet(d.nodes[p].ids)
      <4>1. d.nodes[p].ids \in Seq(Ids)
        BY <1>1, <2>2, IdsInShape
      <4>. QED  BY <3>1, <4>1 DEF On, Contains, ToSet
    <3>3. T[p] = term
      <4>1. s[t] = T[p]
        BY ONLY <2>2, <2>3, <2>5, <3>1 DEF Faith
      <4>. QED  BY ONLY <2>5, <3>2, <4>1
    <3>4. s2 = [s EXCEPT ![id] = T[p]]
      BY <3>3
    <3>5. f.recent[id] \in {0, p} /\ (id \in Vars => f.recent[id] = p)
          /\ \A x \in Ids : x # id => f.recent[x] = d.recent[x]
      BY <1>0, <1>3, <2>2
    <3>6. \A j \in 1 .. Len(d.nodes) :
              d.nodes[j].op # "NONE" /\ On(d, j, id) => j \in {0, p}
      BY <1>2
    <3>. QED  BY <1>0, <2>2, <2>3, <2>5, <3>4, <3>5, <3>6, JoinedFaith
  <2>. QED  BY <2>1, <2>2, <2>4, <2>5 DEF Faithful
<1>7. CASE Makes(d, f, op, id, a, b)
  <2>1. PICK v : v = WithArg(d, a)
    OBVIOUS
  <2>2. PICK w : w = WithArg(v, b)
    OBVIOUS
  <2>3. PICK l : l = ArgNode(d, a)
    OBVIOUS
  <2>4. PICK r : r = ArgNode(v, b)
    OBVIOUS
  <2>5. AppendedOver(w, f, Interior(op, l, r, id), id, l, r)
    BY <1>7, <2>1, <2>2, <2>3, <2>4 DEF Makes
  <2>6. Graph(v, made) /\ Looked(d, v, a, l)
    BY <1>0, <2>1, <2>3, ArgumentNode
  <2>7. Graph(w, made) /\ Looked(v, w, b, r)
    BY <1>0, <2>2, <2>4, <2>6, ArgumentNode
  <2>8. Bound(v, made) /\ (Computed(d, made) => Computed(v, made))
    BY <2>6, ArgumentBound
  <2>9. Bound(w, made) /\ (Computed(v, made) => Computed(w, made))
    BY <2>6, <2>7, <2>8, ArgumentBound
  <2>10. /\ Known(w, made) /\ Len(w.nodes) \in Nat
         /\ l \in 1 .. Len(v.nodes)
         /\ l \in 1 .. Len(w.nodes) /\ r \in 1 .. Len(w.nodes)
         /\ r \in 0 .. Len(w.nodes) /\ r \in Nat /\ r # 0
    <3>1. Len(w.nodes) \in Nat /\ Len(v.nodes) \in Nat /\ Len(v.nodes) =< Len(w.nodes)
      BY <2>6, <2>7 DEF Graph, Shape, Looked, Grown
    <3>. QED  BY <3>1, <2>6, <2>7 DEF Graph, Looked
  <2>11. op \in {"ASSIGN"} \cup Operations /\ op # "ASSIGN"
    BY OptimizerAssumption
  <2>12. Bound(f, more) /\ (Computed(w, made) => Computed(f, more))
    BY <1>0, <2>5, <2>7, <2>9, <2>10, <2>11, AppendedBound
  <2>13. ASSUME NEW T, Faith(d, s, T) PROVE Faithful(f, s2)
    <3>1. Sees(d, v, s, T, a, l)
      BY <1>0, <2>1, <2>3, <2>13, ArgumentSeen
    <3>2. PICK V : Faith(v, s, V) /\ V[l] = Term(s, a)
      BY <3>1 DEF Sees
    <3>3. Sees(v, w, s, V, b, r)
      BY <1>0, <2>2, <2>4, <2>6, <3>2, ArgumentSeen
    <3>4. PICK U : /\ Faith(w, s, U) /\ U[r] = Term(s, b)
                   /\ \A j \in 1 .. Len(v.nodes) : U[j] = V[j]
      BY <3>3 DEF Sees
    <3>5. U[l] = Term(s, a)
      BY <2>10, <3>2, <3>4
    <3>6. s2 = Stored(s, id, ValueOf(op, U, l, r))
      BY <2>11, <3>4, <3>5 DEF Stored, ValueOf
    <3>7. \A j \in 1 .. Len(w.nodes) :
              w.nodes[j].op # "NONE" /\ On(w, j, id) => j \in {l, r, w.recent[id]}
      BY <1>0, <2>10 DEF Known
    <3>8. /\ Graph(w, made) /\ made \subseteq Ids \ Vars /\ id \in Ids \ made
          /\ op \in {"ASSIGN"} \cup Operations
          /\ l \in 1 .. Len(w.nodes) /\ r \in 0 .. Len(w.nodes) /\ r \in Nat /\ r # 0
          /\ s = [x \in Ids |-> s[x]] /\ Faith(w, s, U)
      BY <1>0, <2>7, <2>10, <2>11, <3>4
    <3>. QED  BY ONLY <2>5, <3>6, <3>7, <3>8, AppendedFaith
  <2>. QED  BY <2>8, <2>9, <2>12, <2>13 DEF Faithful
<1>. QED  BY <1>4, <1>5, <1>6, <1>7

-----------------------------------------------------------------------------
\* The part of the inductive invariant that has the meaning of the graph.
Meaning ==
    /\ Bound(dag, Made(used))
    /\ phase # "aborted" => Computed(dag, Made(used))
    /\ store = [x \in Ids |-> store[x]]
    /\ \A x \in Ids \ (Vars \cup Made(used)) : store[x] = Initial(x)
    /\ sound /\ phase = "block" => Faithful(dag, store)

\* The empty graph means the empty block.
LEMMA InitMeaning ==
    Init => Meaning
<1>. SUFFICES ASSUME Init PROVE Meaning
  OBVIOUS
<1>1. /\ dag = [nodes |-> << >>, recent |-> [id \in Ids |-> 0], table |-> << >>,
                roots |-> << >>, aborted |-> FALSE]
      /\ store = [x \in Ids |-> Initial(x)] /\ used = 0
  BY DEF Init, EmptyDag
<1>2. /\ dag.nodes = << >> /\ dag.recent = [id \in Ids |-> 0]
  BY <1>1
<1>3. Made(used) = {}
  BY <1>1 DEF Made
<1>4. Bound(dag, Made(used)) /\ Computed(dag, Made(used))
  BY <1>2, <1>3 DEF Bound, Computed
<1>5. store = [x \in Ids |-> store[x]] /\ \A x \in Ids : store[x] = Initial(x)
  BY <1>1
<1>6. Faith(dag, store, << >>)
  BY <1>2, <1>5, OptimizerAssumption DEF Faith, Valued
<1>. QED  BY <1>4, <1>5, <1>6 DEF Meaning, Faithful

\* No instruction makes the graph mean something else than the block.
LEMMA NextMeaning ==
    Ordinary /\ Meaning /\ [Next]_vars => Meaning'
<1>. SUFFICES ASSUME Ordinary, Meaning, [Next]_vars PROVE Meaning'
  OBVIOUS
<1>1. /\ Made(used) \subseteq Ids \ Vars /\ Graph(dag, Made(used))
      /\ pending \in Seq(Made(used)) /\ Bound(dag, Made(used))
      /\ store = [x \in Ids |-> store[x]]
      /\ \A x \in Ids \ (Vars \cup Made(used)) : store[x] = Initial(x)
  BY MadeAreTemps DEF Ordinary, Meaning
<1>2. ASSUME NEW id \in Vars, NEW a \in Single, TakeAssign(id, a)
      PROVE  Meaning'
  <2>1. a[1] \in Vars \cup Made(used) \cup Consts
    BY <1>1, SingleFrom
  <2>2. PICK f : f = Assign(dag, id, a[1])
    OBVIOUS
  <2>3. PICK s2 : s2 = [store EXCEPT ![id] = Term(store, a[1])]
    OBVIOUS
  <2>4. AssignKeeps(Made(used), dag, f, store, s2)
    BY <1>1, <2>1, <2>2, <2>3, AssignMeans
  <2>5. /\ dag' = f /\ store' = s2 /\ phase = "block" /\ used' = used /\ sound' = sound
    BY <1>2, <2>2, <2>3 DEF TakeAssign, Take
  <2>6. Made(used)' = Made(used)
    BY <2>5 DEF Made
  <2>7. Computed(dag, Made(used)) /\ (sound => Faithful(dag, store))
    BY <2>5 DEF Meaning
  <2>8. s2 = [x \in Ids |-> s2[x]] /\ \A x \in Ids : x # id => s2[x] = store[x]
    BY <1>1, <2>3
  <2>9. \A x \in Ids \ (Vars \cup Made(used)) : s2[x] = Initial(x)
    BY <1>1, <2>8
  <2>. QED  BY <2>4, <2>5, <2>6, <2>7, <2>8, <2>9 DEF Meaning, AssignKeeps
<1>3. ASSUME NEW op \in Operations, NEW a \in Operands, TakeBinary(op, a)
      PROVE  Meaning'
  <2>1. /\ a[1] \in Vars \cup Made(used) \cup Consts
        /\ a[2] \in Vars \cup Made(used) \cup Consts
    BY <1>1, OperandsFrom
  <2>2. PICK t : t = Temps[used + 1]
    OBVIOUS
  <2>3. PICK f : f = Binary(dag, op, t, a[1], a[2])
    OBVIOUS
  <2>4. PICK term : term = << op, Term(store, a[1]), Term(store, a[2]) >>
    OBVIOUS
  <2>5. PICK s2 : s2 = [store EXCEPT ![t] = term]
    OBVIOUS
  <2>6. PICK p : p = Reused(dag, op, a[1], a[2])
    OBVIOUS
  <2>7. /\ dag' = f /\ store' = s2 /\ phase = "block" /\ used' = used + 1
        /\ count < MaxBlock
        /\ phase' = IF f.aborted THEN "aborted" ELSE "block"
        /\ sound' = (sound /\ (p = 0 \/ \A x \in ToSet(dag.nodes[p].ids) : store[x] = term))
    BY <1>3, <2>2, <2>3, <2>4, <2>5, <2>6 DEF TakeBinary, Take
  <2>8. used \in Nat /\ used < Len(Temps)
    BY <2>7, RoomForTemps DEF Ordinary
  <2>9. PICK more : more = Made(used + 1)
    OBVIOUS
  <2>10. /\ more = Made(used) \cup {t} /\ more \subseteq Ids \ Vars
         /\ t \notin Made(used) /\ t \in more /\ Made(used) \subseteq more
         /\ more \subseteq Made(used) \cup {t} /\ t \in Ids
    BY <2>2, <2>8, <2>9, NextTemp
  <2>11. BinaryKeeps(Made(used), more, dag, f, store, s2, p, term)
    BY <1>1, <2>1, <2>3, <2>4, <2>5, <2>6, <2>10, BinaryMeans
  <2>12. Made(used)' = more
    BY <2>7, <2>9 DEF Made
  <2>13. Computed(dag, Made(used)) /\ (sound => Faithful(dag, store))
    BY <2>7 DEF Meaning
  <2>14. s2 = [x \in Ids |-> s2[x]] /\ \A x \in Ids : x # t => s2[x] = store[x]
    BY <1>1, <2>5
  <2>15. \A x \in Ids \ (Vars \cup more) : s2[x] = Initial(x)
    BY <1>1, <2>10, <2>14
  <2>16. phase' # "aborted" => ~f.aborted
    BY <2>7
  <2>17. sound' => sound /\ Apt(dag, store, p, term)
    BY <2>7 DEF Apt
  <2>. QED  BY <2>7, <2>11, <2>12, <2>13, <2>14, <2>15, <2>16, <2>17 DEF Meaning, BinaryKeeps
<1>4. CASE TakeExit
  BY <1>4 DEF TakeExit, Meaning
<1>5. CASE UNCHANGED vars
  BY <1>5 DEF vars, Meaning
<1>. QED  BY <1>2, <1>3, <1>4, <1>5 DEF Next

-----------------------------------------------------------------------------
\* NodeTerm is the value that the invariant has for every node.
TermOf(F, k) ==
    CASE dag.nodes[k].op = "NONE"   -> IF dag.nodes[k].arg \in ToSet(Temps)
                                       THEN store[dag.nodes[k].arg]
                                       ELSE IF dag.nodes[k].arg \in Ids
                                       THEN Initial(dag.nodes[k].arg)
                                       ELSE Term(store, dag.nodes[k].arg)
      [] dag.nodes[k].op = "ASSIGN" -> F[dag.nodes[k].left]
      [] OTHER -> << dag.nodes[k].op, F[dag.nodes[k].left], F[dag.nodes[k].right] >>

\* NodeTerm satisfies its equation once something does.
LEMMA NodeTermFix ==
    ASSUME NEW F, F = [k \in Nodes |-> TermOf(F, k)]
    PROVE  NodeTerm = [k \in Nodes |-> TermOf(NodeTerm, k)]
<1>1. NodeTerm = CHOOSE G : G = [k \in Nodes |-> TermOf(G, k)]
  BY DEF NodeTerm, TermOf
<1>. QED  BY <1>1

\* The value of a node follows from those of its children.
LEMMA TermOfNode ==
    ASSUME Ordinary, NEW T, Faith(dag, store, T), NEW k \in Nodes, NEW F,
           \A j \in Nodes : j < k => F[j] = T[j]
    PROVE  TermOf(F, k) = T[k]
<1>1. /\ Shape(dag) /\ Placed(dag) /\ Known(dag, Made(used))
      /\ Nodes = 1 .. Len(dag.nodes) /\ Len(dag.nodes) \in Nat /\ k \in 1 .. Len(dag.nodes)
  BY DEF Ordinary, Graph, Shape, Nodes
<1>2. PICK n : n = dag.nodes[k]
  OBVIOUS
<1>3. /\ n.op \in {"NONE", "ASSIGN"} \cup Operations
      /\ n.left \in 0 .. k - 1 /\ n.right \in 0 .. k - 1
      /\ n.op # "NONE" => n.left # 0
      /\ n.op \in Operations => n.right # 0
      /\ n.op = "NONE" => n.arg \in Vars \cup Made(used) \cup Consts
  <2>1. n \in NodeRecs
    BY <1>1, <1>2, IdsInShape
  <2>2. n.op \in {"NONE", "ASSIGN"} \cup Operations
    BY <2>1 DEF NodeRecs
  <2>. QED  BY <1>1, <1>2, <2>2 DEF Placed, Known
<1>4. /\ n.op # "NONE" => F[n.left] = T[n.left]
      /\ n.op \in Operations => F[n.right] = T[n.right]
  <2>1. n.op # "NONE" => n.left \in Nodes /\ n.left < k
    BY <1>1, <1>3
  <2>2. n.op \in Operations => n.right \in Nodes /\ n.right < k
    BY <1>1, <1>3
  <2>. QED  BY <2>1, <2>2
<1>5. /\ n.op = "NONE" /\ n.arg \in Vars => T[k] = Initial(n.arg)
      /\ n.op = "NONE" /\ n.arg \in Ids \ Vars => T[k] = store[n.arg]
      /\ n.op = "NONE" /\ n.arg \notin Ids => T[k] = << "constant", n.arg >>
      /\ n.op = "ASSIGN" => T[k] = T[n.left]
      /\ n.op \in Operations => T[k] = << n.op, T[n.left], T[n.right] >>
  BY <1>1, <1>2 DEF Faith, Valued
<1>6. /\ "NONE" \notin Operations /\ "ASSIGN" \notin Operations
      /\ Vars \subseteq Ids /\ Vars \cap ToSet(Temps) = {} /\ Consts \cap Ids = {}
  BY OptimizerAssumption
<1>7. Made(used) \subseteq ToSet(Temps) /\ ToSet(Temps) \subseteq Ids
  <2>1. Temps \in Seq(Ids) /\ used \in Nat /\ used =< Len(Temps)
    BY DagAssumption, RoomForTemps DEF Ordinary
  <2>. QED  BY <2>1 DEF Made, ToSet
<1>8. CASE n.op = "NONE"
  <2>1. TermOf(F, k) = IF n.arg \in ToSet(Temps) THEN store[n.arg]
                       ELSE IF n.arg \in Ids THEN Initial(n.arg) ELSE Term(store, n.arg)
    BY <1>2, <1>8 DEF TermOf
  <2>2. CASE n.arg \in Vars
    BY <1>5, <1>6, <1>8, <2>1, <2>2
  <2>3. CASE n.arg \in Made(used)
    BY <1>5, <1>6, <1>7, <1>8, <2>1, <2>3
  <2>4. CASE n.arg \in Consts
    BY <1>5, <1>6, <1>7, <1>8, <2>1, <2>4 DEF Term
  <2>. QED  BY <1>3, <1>8, <2>2, <2>3, <2>4
<1>9. CASE n.op = "ASSIGN"
  BY <1>2, <1>4, <1>5, <1>9 DEF TermOf
<1>10. CASE n.op \in Operations
  <2>1. n.op # "NONE" /\ n.op # "ASSIGN"
    BY <1>6, <1>10
  <2>2. TermOf(F, k) = << n.op, F[n.left], F[n.right] >>
    BY <1>2, <2>1 DEF TermOf
  <2>. QED  BY <1>4, <1>5, <1>10, <2>1, <2>2
<1>. QED  BY <1>3, <1>8, <1>9, <1>10

\* NodeTerm is the value the invariant speaks of.
LEMMA NodeTermIs ==
    ASSUME Ordinary, NEW T, Faith(dag, store, T)
    PROVE  \A k \in Nodes : NodeTerm[k] = T[k]
<1>1. Nodes = 1 .. Len(dag.nodes) /\ Len(dag.nodes) \in Nat
  BY DEF Ordinary, Graph, Shape, Nodes
<1>2. PICK F : F = [k \in Nodes |-> T[k]]
  OBVIOUS
<1>3. \A k \in Nodes : F[k] = T[k]
  BY <1>2
<1>4. \A k \in Nodes : TermOf(F, k) = T[k]
  BY <1>3, TermOfNode
<1>5. F = [k \in Nodes |-> TermOf(F, k)]
  BY <1>2, <1>4
<1>6. NodeTerm = [k \in Nodes |-> TermOf(NodeTerm, k)]
  BY <1>5, NodeTermFix
<1>7. \A k \in Nodes : NodeTerm[k] = TermOf(NodeTerm, k)
  BY <1>6
<1>8. SUFFICES ASSUME \E k \in Nodes : NodeTerm[k] # T[k] PROVE FALSE
  OBVIOUS
<1>9. PICK S : S = {k \in Nodes : NodeTerm[k] # T[k]}
  OBVIOUS
<1>10. S \subseteq Nat /\ S # {}
  BY <1>1, <1>8, <1>9
<1>11. PICK k \in S : \A j \in S : k =< j
  BY <1>10, NatMinimum
<1>12. k \in Nodes /\ k \in Nat /\ NodeTerm[k] # T[k]
  BY <1>9, <1>10, <1>11
<1>13. \A j \in Nodes : j < k => NodeTerm[j] = T[j]
  BY <1>1, <1>9, <1>11, <1>12
<1>14. TermOf(NodeTerm, k) = T[k]
  BY <1>12, <1>13, TermOfNode
<1>. QED  BY <1>7, <1>12, <1>14

-----------------------------------------------------------------------------
\* Reached: k is compiled for itself, or p has it as an operand.
IsRoot(k)      == k \in ToSet(dag.roots) /\ dag.nodes[k].ids # << >>
Operand(k, p)  == k < p /\ k \in {dag.nodes[p].left, dag.nodes[p].right}
AboveOf(F, k)  ==
    \/ k \in ToSet(dag.roots) /\ dag.nodes[k].ids # << >>
    \/ \E p \in Nodes : /\ k < p
                        /\ k \in {dag.nodes[p].left, dag.nodes[p].right}
                        /\ F[p]
HasAbove(A, k) == IsRoot(k) \/ \E p \in Nodes : Operand(k, p) /\ p \in A
Closed(S)      == \A k \in Nodes : HasAbove(S, k) => k \in S
Least          == {k \in Nodes : \A S \in SUBSET Nodes : Closed(S) => k \in S}

\* The least set closed under being above satisfies the equation of Reached.
LEMMA LeastFix ==
    \A k \in Nodes : k \in Least <=> HasAbove(Least, k)
<1>1. ASSUME NEW k \in Nodes, HasAbove(Least, k) PROVE k \in Least
  <2>1. SUFFICES ASSUME NEW S \in SUBSET Nodes, Closed(S) PROVE k \in S
    BY DEF Least
  <2>2. \A p \in Least : p \in S
    BY <2>1 DEF Least
  <2>3. HasAbove(S, k)
    BY <1>1, <2>2 DEF HasAbove
  <2>. QED  BY <2>1, <2>3 DEF Closed
<1>2. PICK B : B = {k \in Nodes : HasAbove(Least, k)}
  OBVIOUS
<1>3. \A k \in B : k \in Nodes /\ k \in Least
  BY <1>1, <1>2
<1>4. ASSUME NEW k \in Nodes, HasAbove(B, k) PROVE k \in B
  <2>1. HasAbove(Least, k)
    BY <1>3, <1>4 DEF HasAbove
  <2>. QED  BY <1>2, <2>1
<1>5. B \in SUBSET Nodes /\ Closed(B)
  BY <1>2, <1>4 DEF Closed
<1>6. \A k \in Least : k \in B
  BY <1>5 DEF Least
<1>. QED  BY <1>1, <1>2, <1>6

\* Reached has what AboveOf says of it.
LEMMA ReachedFix ==
    \A k \in Nodes : HasAbove(Reached, k) => k \in Reached
<1>1. PICK F : F = [k \in Nodes |-> k \in Least]
  OBVIOUS
<1>2. ASSUME NEW k \in Nodes PROVE F[k] = AboveOf(F, k)
  <2>1. \A p \in Nodes : F[p] = (p \in Least)
    BY <1>1
  <2>2. AboveOf(F, k) = HasAbove(Least, k)
    BY <2>1 DEF AboveOf, HasAbove, IsRoot, Operand
  <2>3. F[k] = (k \in Least)
    BY <2>1
  <2>4. (k \in Least) = HasAbove(Least, k)
    BY LeastFix DEF HasAbove
  <2>. QED  BY <2>2, <2>3, <2>4
<1>3. F = [k \in Nodes |-> AboveOf(F, k)]
  BY <1>1, <1>2
<1>4. PICK G : G = CHOOSE H : H = [k \in Nodes |-> AboveOf(H, k)]
  OBVIOUS
<1>5. G = [k \in Nodes |-> AboveOf(G, k)]
  BY <1>3, <1>4
<1>6. Reached = {k \in Nodes : G[k]}
  <2>1. Reached = {k \in Nodes : (CHOOSE H : H = [j \in Nodes |-> AboveOf(H, j)])[k]}
    BY DEF Reached, AboveOf
  <2>. QED  BY <1>4, <2>1
<1>7. \A k \in Nodes : G[k] = AboveOf(G, k)
  BY <1>5
<1>8. ASSUME NEW k \in Nodes, HasAbove(Reached, k) PROVE k \in Reached
  <2>1. AboveOf(G, k)
    BY <1>6, <1>8 DEF AboveOf, HasAbove, IsRoot, Operand
  <2>. QED  BY <1>6, <1>7, <2>1
<1>. QED  BY <1>8

\* A node that computes something and has an identifier is compiled.
LEMMA InnerReached ==
    ASSUME Ordinary, Meaning
    PROVE  \A k \in Nodes : \A x : Inner(k) /\ On(dag, k, x) => k \in Reached
<1>1. /\ Nodes = 1 .. Len(dag.nodes) /\ Len(dag.nodes) \in Nat
      /\ Shape(dag) /\ Placed(dag) /\ Bound(dag, Made(used))
  BY DEF Ordinary, Meaning, Graph, Shape, Nodes
<1>2. SUFFICES ASSUME \E k \in Nodes : k \notin Reached /\ \E x : Inner(k) /\ On(dag, k, x)
               PROVE  FALSE
  OBVIOUS
<1>3. PICK N \in Nat : N = Len(dag.nodes)
  BY <1>1
<1>4. PICK S : S = {m \in Nat : \E k \in Nodes : /\ k = N - m /\ k \notin Reached
                                                 /\ \E x : Inner(k) /\ On(dag, k, x)}
  OBVIOUS
<1>5. S \subseteq Nat /\ S # {}
  <2>1. PICK k \in Nodes : k \notin Reached /\ \E x : Inner(k) /\ On(dag, k, x)
    BY <1>2
  <2>2. N - k \in Nat /\ k = N - (N - k)
    BY <1>1, <1>3
  <2>3. N - k \in S
    BY <1>4, <2>1, <2>2
  <2>. QED  BY <1>4, <2>3
<1>6. PICK m \in S : \A j \in S : m =< j
  BY <1>5, NatMinimum
<1>7. PICK k \in Nodes : /\ k = N - m /\ k \notin Reached
                         /\ \E x : Inner(k) /\ On(dag, k, x)
  BY <1>4, <1>6
<1>8. PICK x : Inner(k) /\ On(dag, k, x)
  BY <1>7
<1>9. \/ Contains(dag.roots, k)
      \/ \E p \in 1 .. Len(dag.nodes) :
            /\ dag.nodes[p].op \in Operations
            /\ k \in {dag.nodes[p].left, dag.nodes[p].right}
  BY <1>1, <1>8 DEF Bound, Inner
<1>10. CASE Contains(dag.roots, k)
  <2>1. k \in ToSet(dag.roots)
    BY <1>1, <1>10 DEF Shape, Contains, ToSet
  <2>2. dag.nodes[k].ids # << >>
    BY <1>8 DEF On, Contains
  <2>. QED  BY <1>7, <2>1, <2>2, ReachedFix DEF HasAbove, IsRoot
<1>11. CASE \E p \in 1 .. Len(dag.nodes) :
                /\ dag.nodes[p].op \in Operations
                /\ k \in {dag.nodes[p].left, dag.nodes[p].right}
  <2>1. PICK p \in 1 .. Len(dag.nodes) :
                /\ dag.nodes[p].op \in Operations
                /\ k \in {dag.nodes[p].left, dag.nodes[p].right}
    BY <1>11
  <2>2. k < p /\ p \in Nodes
    BY <1>1, <2>1 DEF Placed
  <2>3. Inner(p) /\ \E t : On(dag, p, t)
    BY <1>1, <2>1, OptimizerAssumption DEF Bound, Inner
  <2>4. p \in Reached
    <3>1. SUFFICES ASSUME p \notin Reached PROVE FALSE
      OBVIOUS
    <3>2. N - p \in Nat /\ p = N - (N - p) /\ N - p < m
      BY <1>1, <1>3, <1>5, <1>7, <2>2
    <3>3. N - p \in S
      BY <1>4, <2>2, <2>3, <3>1, <3>2
    <3>. QED  BY <1>5, <1>6, <3>2, <3>3
  <2>5. HasAbove(Reached, k)
    BY <2>1, <2>2, <2>4 DEF HasAbove, Operand
  <2>. QED  BY <1>7, <2>5, ReachedFix
<1>. QED  BY <1>9, <1>10, <1>11

\* The invariant says what DagFaithful says.
LEMMA MeaningImpliesDagFaithful ==
    Ordinary /\ Meaning => DagFaithful
<1>. SUFFICES ASSUME Ordinary, Meaning, sound, phase = "block"
              PROVE  /\ \A k \in Nodes : Inner(k) => \A id \in IdsOf(k) : store[id] = NodeTerm[k]
                     /\ \A id \in Ids : store[id] # Initial(id) =>
                           \E k \in Reached : Inner(k) /\ id \in IdsOf(k)
  BY DEF DagFaithful
<1>1. /\ Nodes = 1 .. Len(dag.nodes) /\ Len(dag.nodes) \in Nat
      /\ Shape(dag) /\ Placed(dag) /\ Homes(dag)
      /\ Computed(dag, Made(used))
      /\ \A x \in Ids \ (Vars \cup Made(used)) : store[x] = Initial(x)
  BY DEF Ordinary, Meaning, Graph, Shape, Nodes
<1>2. PICK T : Faith(dag, store, T)
  BY DEF Meaning, Faithful
<1>3. \A k \in Nodes : NodeTerm[k] = T[k]
  BY <1>2, NodeTermIs
<1>4. ASSUME NEW k \in Nodes PROVE \A x : x \in IdsOf(k) <=> On(dag, k, x)
  <2>1. dag.nodes[k].ids \in Seq(Ids)
    BY <1>1, IdsInShape
  <2>. QED  BY <2>1 DEF IdsOf, ToSet, On, Contains
<1>5. ASSUME NEW k \in Nodes, Inner(k), NEW id \in IdsOf(k)
      PROVE  store[id] = NodeTerm[k]
  BY <1>1, <1>2, <1>3, <1>4, <1>5 DEF Faith, Inner
<1>6. ASSUME NEW id \in Ids, store[id] # Initial(id)
      PROVE  \E k \in Nodes : Inner(k) /\ On(dag, k, id)
  <2>1. id \in Vars \/ id \in Made(used)
    BY <1>1, <1>6
  <2>2. CASE id \in Vars
    <3>1. PICK r : r = dag.recent[id]
      OBVIOUS
    <3>2. r # 0 /\ r \in Nodes /\ On(dag, r, id) /\ store[id] = T[r]
      BY <1>1, <1>2, <1>6, <2>2, <3>1 DEF Faith, Placed, Homes
    <3>3. dag.nodes[r].op # "NONE"
      <4>1. SUFFICES ASSUME dag.nodes[r].op = "NONE" PROVE FALSE
        OBVIOUS
      <4>2. dag.nodes[r].arg = id
        BY <1>1, <3>2, <4>1 DEF Homes
      <4>3. T[r] = Initial(id)
        BY <1>1, <1>2, <2>2, <3>2, <4>1, <4>2 DEF Faith, Valued
      <4>. QED  BY <1>6, <3>2, <4>3
    <3>. QED  BY <3>2, <3>3 DEF Inner
  <2>3. CASE id \in Made(used)
    BY <1>1, <2>3 DEF Computed, Inner
  <2>. QED  BY <2>1, <2>2, <2>3
<1>7. ASSUME NEW id \in Ids, store[id] # Initial(id)
      PROVE  \E k \in Reached : Inner(k) /\ id \in IdsOf(k)
  <2>1. PICK k \in Nodes : Inner(k) /\ On(dag, k, id)
    BY <1>6, <1>7
  <2>2. k \in Reached
    BY <2>1, InnerReached
  <2>. QED  BY <1>4, <2>1, <2>2
<1>. QED  BY <1>5, <1>7

\* The graph means what the block means as long as every node that was used
\* again had the value wanted.
THEOREM MeaningInvariance == Spec => [](Ordinary /\ Meaning)
<1>1. Init => Ordinary /\ Meaning
  BY InitOrdinary, InitMeaning
<1>2. Ordinary /\ Meaning /\ [Next]_vars => (Ordinary /\ Meaning)'
  BY NextOrdinary, NextMeaning
<1>. QED  BY <1>1, <1>2, PTL DEF Spec

\* The identifiers of a node have its value, and every identifier that was
\* written is on a node that compile_dag comes to, while sound: what
\* dag_assign and dag_binary owe to compile_dag (optimization.c:140-286).
THEOREM GraphMeansBlock == Spec => []DagFaithful
BY MeaningInvariance, MeaningImpliesDagFaithful, PTL
=============================================================================

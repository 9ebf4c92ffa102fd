-------------------------------- MODULE Dag --------------------------------
(***************************************************************************)
(* The optimizer's graph of one basic block (optimization.c): a leaf is a  *)
(* constant or the value an identifier has on entry, an interior node is   *)
(* an assignment or an operation, and the identifiers of a node are those  *)
(* that have its value now.                                                *)
(*                                                                         *)
(* This is the data module: operators on a record d.  Optimizer is the     *)
(* state machine that feeds it one instruction per step, Compiler uses it  *)
(* on the blocks of a whole program.                                       *)
(*                                                                         *)
(*   nodes         the nodes in the order of their creation, so that a     *)
(*                 node comes after its children                           *)
(*   recent[id]    most_recents: the node of id's latest value, 0 for NULL *)
(*   table         dag_table: the operation with a given hash              *)
(*   roots         root_nodes, in the order in which they are compiled     *)
(*   aborted       an assert has failed                                    *)
(***************************************************************************)
EXTENDS Naturals, Sequences, FiniteSets, SequencesExt

CONSTANTS
    Ids,          \* identifiers: variables and temporaries
    None,         \* no argument
    Temps,        \* the temporaries in the order get_temp_symbol makes them
    Text(_)       \* how an identifier or a constant is written: a sequence

ASSUME DagAssumption ==
    /\ None \notin Ids
    /\ Temps \in Seq(Ids)
    /\ \A i, j \in 1 .. Len(Temps) : Temps[i] = Temps[j] => i = j

Leaf(arg) ==
    [op |-> "NONE", arg |-> arg, left |-> 0, right |-> 0,
     ids |-> IF arg \in Ids THEN << arg >> ELSE << >>]

Interior(op, left, right, id) ==
    [op |-> op, arg |-> None, left |-> left, right |-> right, ids |-> << id >>]

EmptyDag ==
    [nodes |-> << >>, recent |-> [id \in Ids |-> 0], table |-> << >>,
     roots |-> << >>, aborted |-> FALSE]

-----------------------------------------------------------------------------
(***************************************************************************)
(* Building the graph                                                      *)
(***************************************************************************)

\* get_arg_node and get_most_recent_or_new: an identifier is looked up and
\* gets a leaf the first time, a constant gets a leaf of its own.
NeedsLeaf(d, arg) == arg \in Ids => d.recent[arg] = 0
ArgNode(d, arg)   == IF NeedsLeaf(d, arg) THEN Len(d.nodes) + 1 ELSE d.recent[arg]

WithArg(d, arg) ==
    IF NeedsLeaf(d, arg)
    THEN [d EXCEPT !.nodes  = Append(@, Leaf(arg)),
                   !.recent = [id \in Ids |-> IF id = arg THEN Len(d.nodes) + 1
                                                          ELSE @[id]]]
    ELSE d

Root(d, k)   == IF Contains(d.roots, k) THEN d ELSE [d EXCEPT !.roots = Append(@, k)]
Unroot(d, k) == [d EXCEPT !.roots = RemoveFirst(@, k)]

Drop(d, k, id) == [d EXCEPT !.nodes[k].ids = RemoveFirst(@, id)]
Add(d, k, id)  == [d EXCEPT !.nodes[k].ids = IF Contains(@, id) THEN @ ELSE Cons(id, @)]

\* id gets a new value: it leaves the node of its latest one.
Leave(d, id) == IF d.recent[id] = 0 THEN d ELSE Drop(d, d.recent[id], id)

\* Faulty variants of NewNode: id stays on the node of its value before; the
\* new node is counted twice.
NewNodeKeepsOld(d, node, id) ==
    Root([d EXCEPT !.nodes = Append(@, node), !.recent[id] = Len(d.nodes) + 1],
         Len(d.nodes) + 1)

NewNodeCountedTwice(d, node, id) ==
    LET e == Leave(d, id)
    IN  Root([e EXCEPT !.nodes = Append(@, node), !.recent[id] = Len(d.nodes) + 2],
             Len(d.nodes) + 1)

\* A new node with the latest value of id.
NewNode(d, node, id) ==
    LET e == Leave(d, id)
    IN  Root([e EXCEPT !.nodes = Append(@, node), !.recent[id] = Len(d.nodes) + 1],
             Len(d.nodes) + 1)

\* A faulty variant of Assign: id stays on the node of its value before.
AssignKeepsOld(d, id, arg) ==
    LET w == WithArg(d, arg)
        k == ArgNode(d, arg)
    IN  IF w.nodes[k].op = "NONE"
        THEN NewNode(Drop(w, k, id), Interior("ASSIGN", k, 0, id), id)
        ELSE Root([Add(w, k, id) EXCEPT !.recent[id] = k], k)

\* dag_assign, which dag_unary always reaches: dag_table has no assignments.
Assign(d, id, arg) ==
    LET w == WithArg(d, arg)
        k == ArgNode(d, arg)
        e == IF w.recent[id] = k THEN w ELSE Leave(w, id)
    IN  IF w.nodes[k].op = "NONE"
        THEN NewNode(Unroot(Drop(w, k, id), k), Interior("ASSIGN", k, 0, id), id)
        ELSE Root([Add(e, k, id) EXCEPT !.recent[id] = k], k)

\* hash_instr of an operation: its text, without anything in between.
Hash(op, a, b) == << op >> \o Text(a) \o Text(b)

\* arg_is_valid: any child will do.
Valid(d, arg, p) ==
    arg \in Ids => d.recent[arg] \in {d.nodes[p].left, d.nodes[p].right}

\* The node dag_binary takes for the operation, 0 when it makes a new one;
\* on a hit the assert in arg_is_valid wants both operands to have a node.
HashHit(d, op, a, b)  == Hash(op, a, b) \in DOMAIN d.table
Unknown(d, arg)       == arg \in Ids /\ d.recent[arg] = 0
HitAborts(d, op, a, b) ==
    HashHit(d, op, a, b) /\ (Unknown(d, a) \/ Unknown(d, b))
Reused(d, op, a, b) ==
    IF /\ HashHit(d, op, a, b)
       /\ Valid(d, a, d.table[Hash(op, a, b)])
       /\ Valid(d, b, d.table[Hash(op, a, b)])
    THEN d.table[Hash(op, a, b)]
    ELSE 0

Record(d, hash, k) ==
    [d EXCEPT !.table = [h \in DOMAIN @ \cup {hash} |-> IF h = hash THEN k ELSE @[h]]]

NewBinary(d, op, id, a, b) ==
    LET v == WithArg(d, a)
        w == WithArg(v, b)
        l == ArgNode(d, a)
        r == ArgNode(v, b)
        e == Drop(Drop(Unroot(Unroot(w, l), r), l, id), r, id)
    IN  Record(NewNode(e, Interior(op, l, r, id), id),
               Hash(op, a, b), Len(w.nodes) + 1)

\* dag_binary.  The identifier joins the node found, but the node does not
\* become its most recent one.
Binary(d, op, id, a, b) ==
    LET p == Reused(d, op, a, b)
    IN  IF HitAborts(d, op, a, b) THEN [d EXCEPT !.aborted = TRUE]
        ELSE IF p # 0 THEN Root(Add(d, p, id), p)
        ELSE NewBinary(d, op, id, a, b)

-----------------------------------------------------------------------------
(***************************************************************************)
(* Compiling the graph                                                     *)
(***************************************************************************)

\* An instruction of the new block.  initial: the identifiers it reads from
\* a leaf, that is with the value they have on entry.
Emitted(op, arg, arg2, result, initial) ==
    [op |-> op, arg |-> arg, arg2 |-> arg2, result |-> result, initial |-> initial]

Copies(results, arg, initial) ==
    [i \in DOMAIN results |-> Emitted("ASSIGN", arg, None, results[i], initial)]

LeafIds(d, k) ==
    IF k = 0 THEN {}
    ELSE IF d.nodes[k].op = "NONE" THEN {d.nodes[k].arg} \cap Ids ELSE {}

\* traverse_dag.  A node that no identifier names any more is computed into a
\* new temporary; used counts the temporaries made so far.
Traverse(d) ==
    LET visit[k \in 0 .. Len(d.nodes), used \in Nat] ==
          IF k = 0 THEN [code |-> << >>, ret |-> None, used |-> used]
          ELSE LET n == d.nodes[k]
                   l == visit[n.left, used]
                   r == visit[n.right, l.used]
                   initial == LeafIds(d, n.left) \cup LeafIds(d, n.right)
                   results == IF n.ids = << >> THEN << Temps[r.used + 1] >> ELSE n.ids
               IN  CASE n.op = "NONE" ->
                          [code |-> << >>, ret |-> n.arg, used |-> used]
                     [] n.op = "ASSIGN" ->
                          [code |-> l.code \o Copies(results, l.ret, initial),
                           ret  |-> Last(results),
                           used |-> IF n.ids = << >> THEN r.used + 1 ELSE r.used]
                     [] OTHER ->
                          [code |-> l.code \o r.code
                                      \o << Emitted(n.op, l.ret, r.ret, results[1], initial) >>
                                      \o Copies(Tail(results), results[1], {}),
                           ret  |-> results[1],
                           used |-> IF n.ids = << >> THEN r.used + 1 ELSE r.used]
    IN  visit

\* The roots that still have identifiers, at the end of generate_dag.
LiveRoots(d) == SelectSeq(d.roots, LAMBDA k : d.nodes[k].ids # << >>)

\* A faulty variant of CompileDag: the temporaries are counted from 0 again.
CompileDagFromZero(d, used) ==
    LET visit == Traverse(d)
    IN  FoldLeft(LAMBDA acc, k :
                    LET v == visit[k, acc.used]
                    IN  [code |-> acc.code \o v.code, used |-> v.used],
                 [code |-> << >>, used |-> 0], LiveRoots(d))

\* compile_dag, without the exit instruction; used temporaries exist already.
CompileDag(d, used) ==
    LET visit == Traverse(d)
    IN  FoldLeft(LAMBDA acc, k :
                    LET v == visit[k, acc.used]
                    IN  [code |-> acc.code \o v.code, used |-> v.used],
                 [code |-> << >>, used |-> used], LiveRoots(d))
=============================================================================

----------------------------- MODULE Optimizer -----------------------------
(***************************************************************************)
(* The optimizer on one basic block: generate_dag takes the instructions   *)
(* one by one, compile_dag emits the new ones (optimization.c).            *)
(*                                                                         *)
(* The blocks are those the parser can produce: an operation stores into a *)
(* fresh temporary, and every temporary is read once, later in the same    *)
(* expression.  pending holds the temporaries not read yet.                *)
(*                                                                         *)
(* What the instructions mean is kept beside the graph: store has the      *)
(* value of every identifier, as a term over the values on entry.          *)
(***************************************************************************)
EXTENDS Dag

CONSTANTS
    Vars,         \* the variables of the program; the other Ids are temporaries
    Consts,       \* the constants of the program
    Operations,   \* the operations considered
    MaxBlock      \* bound on the instructions of the block before its exit

ASSUME OptimizerAssumption ==
    /\ Vars \subseteq Ids
    /\ Vars \cap ToSet(Temps) = {}
    /\ Consts \cap Ids = {}
    /\ None \notin Consts
    /\ Operations \cap {"NONE", "ASSIGN"} = {}
    /\ MaxBlock \in Nat
    /\ Len(Temps) >= 2 * MaxBlock

VARIABLES
    dag,          \* the graph: most_recents, dag_table and root_nodes
    store,        \* the value each identifier should have now
    pending,      \* the temporaries that the expression has yet to read
    used,         \* how many temporaries there are
    count,        \* the instructions taken so far
    sound,        \* every node that was used again had the value wanted
    exit,         \* the temporaries that the exit instruction reads
    out,          \* the instructions of the new block
    phase

vars == << dag, store, pending, used, count, sound, exit, out, phase >>

Initial(id)   == << "initial", id >>
Term(s, arg)  == IF arg \in Ids THEN s[arg] ELSE << "constant", arg >>

Init ==
    /\ dag = EmptyDag
    /\ store = [id \in Ids |-> Initial(id)]
    /\ pending = << >>
    /\ used = 0
    /\ count = 0
    /\ sound = TRUE
    /\ exit = {}
    /\ out = << >>
    /\ phase = "block"

-----------------------------------------------------------------------------
Plain == Vars \cup Consts

\* The arguments of a statement with one operand, with what it leaves pending.
Single ==
    {<< v, pending >> : v \in Plain} \cup
    (IF pending = << >> THEN {} ELSE {<< Last(pending), Front(pending) >>})

\* The same of two operands; the right one was generated last.
Operands ==
    (UNION {{<< l, r[1], r[2] >> : l \in Plain} : r \in Single}) \cup
    (IF pending = << >> THEN {}
     ELSE {<< Last(pending), v, Front(pending) >> : v \in Plain}) \cup
    (IF Len(pending) < 2 THEN {}
     ELSE {<< Last(Front(pending)), Last(pending), Front(Front(pending)) >>})

Take(d, result, term, rest) ==
    /\ phase = "block"
    /\ count < MaxBlock
    /\ dag' = d
    /\ store' = [store EXCEPT ![result] = term]
    /\ pending' = rest
    /\ count' = count + 1
    /\ phase' = IF d.aborted THEN "aborted" ELSE "block"
    /\ UNCHANGED << exit, out >>

\* dag_unary: the end of an assignment statement.
TakeAssign(id, s) ==
    /\ s[2] = << >>
    /\ Take(Assign(dag, id, s[1]), id, Term(store, s[1]), s[2])
    /\ UNCHANGED << used, sound >>

\* dag_binary.
TakeBinary(op, s) ==
    LET t    == Temps[used + 1]
        term == << op, Term(store, s[1]), Term(store, s[2]) >>
        p    == Reused(dag, op, s[1], s[2])
    IN  /\ Take(Binary(dag, op, t, s[1], s[2]), t, term, Append(s[3], t))
        /\ used' = used + 1
        /\ sound' = (sound /\ (p = 0 \/ \A id \in ToSet(dag.nodes[p].ids) :
                                            store[id] = term))

\* The end of the block: the graph is compiled.  The exit instruction is a
\* comparison, which reads what is pending, or none, PRINT, GOTO or NOP.
TakeExit ==
    /\ phase = "block"
    /\ Len(pending) =< 2
    /\ exit' = ToSet(pending)
    /\ out' = CompileDag(dag, used).code
    /\ phase' = "compiled"
    /\ UNCHANGED << dag, store, pending, used, count, sound >>

Next ==
    \/ \E id \in Vars : \E s \in Single : TakeAssign(id, s)
    \/ \E op \in Operations : \E s \in Operands : TakeBinary(op, s)
    \/ TakeExit

Spec == Init /\ [][Next]_vars

-----------------------------------------------------------------------------
(***************************************************************************)
(* Properties.                                                             *)
(***************************************************************************)
Nodes       == DOMAIN dag.nodes
Inner(k)    == dag.nodes[k].op # "NONE"
IdsOf(k)    == ToSet(dag.nodes[k].ids)
MadeTemps   == {Temps[i] : i \in 1 .. used}

TypeOK ==
    /\ \A k \in Nodes :
          /\ dag.nodes[k].left \in 0 .. k - 1
          /\ dag.nodes[k].right \in 0 .. k - 1
          /\ IdsOf(k) \subseteq Ids
    /\ dag.recent \in [Ids -> {0} \cup Nodes]
    /\ ToSet(dag.roots) \subseteq Nodes
    /\ ToSet(pending) \subseteq MadeTemps
    /\ used \in 0 .. MaxBlock
    /\ count \in 0 .. MaxBlock
    /\ sound \in BOOLEAN
    /\ exit \subseteq Ids
    /\ phase \in {"block", "compiled", "aborted"}

\* An identifier is on one node at most that computes something, and on the
\* node that most_recents has for it; no node lists it twice.
OneHome ==
    /\ \A k \in Nodes, l \in Nodes :
          Inner(k) /\ Inner(l) /\ k # l => IdsOf(k) \cap IdsOf(l) = {}
    /\ \A id \in Ids : dag.recent[id] # 0 => id \in IdsOf(dag.recent[id])
    /\ \A k \in Nodes : Cardinality(IdsOf(k)) = Len(dag.nodes[k].ids)

\* The value of a node.  The leaf of a temporary of this block stands for what
\* the temporary has by now.
NodeTerm ==
    LET term[k \in Nodes] ==
          LET n == dag.nodes[k]
          IN  CASE n.op = "NONE"   -> IF n.arg \in ToSet(Temps) THEN store[n.arg]
                                      ELSE IF n.arg \in Ids THEN Initial(n.arg)
                                      ELSE Term(store, n.arg)
                [] n.op = "ASSIGN" -> term[n.left]
                [] OTHER           -> << n.op, term[n.left], term[n.right] >>
    IN  term

\* The nodes that compile_dag comes to.
Reached ==
    LET above[k \in Nodes] ==
          \/ k \in ToSet(dag.roots) /\ dag.nodes[k].ids # << >>
          \/ \E p \in Nodes : /\ k < p
                              /\ k \in {dag.nodes[p].left, dag.nodes[p].right}
                              /\ above[p]
    IN  {k \in Nodes : above[k]}

\* While every node that was used again was the right one, the identifiers on
\* a node have its value, and every identifier that was written is on a node
\* that will be compiled (the two sides of most_recents and root_nodes that
\* dag_assign and dag_binary update separately, optimization.c:140-286).
DagFaithful ==
    sound /\ phase = "block" =>
        /\ \A k \in Nodes : Inner(k) => \A id \in IdsOf(k) : store[id] = NodeTerm[k]
        /\ \A id \in Ids : store[id] # Initial(id) =>
              \E k \in Reached : Inner(k) /\ id \in IdsOf(k)

\* What the new block leaves in every identifier.
After ==
    FoldLeft(LAMBDA s, i :
                [s EXCEPT ![i.result] =
                    IF i.op = "ASSIGN" THEN Term(s, i.arg)
                    ELSE << i.op, Term(s, i.arg), Term(s, i.arg2) >>],
             [id \in Ids |-> Initial(id)], out)

SameEffectOf(ids) == \A id \in ids : After[id] = store[id]

\* An instruction that reads the value an identifier has on entry comes
\* before the ones that change it; a temporary is made before it is read.
Ordered ==
    \A j \in DOMAIN out : \A id \in out[j].initial :
        (id \in MadeTemps) <=> \E i \in 1 .. j - 1 : out[i].result = id

\* The new block leaves in every variable, and in the temporaries that the
\* exit instruction reads, what the old one does - as long as every node used
\* again was the right one and no root overtook a reader of an initial value.
SameEffectWhenOrdered ==
    phase = "compiled" /\ sound /\ Ordered => SameEffectOf(Vars \cup exit)

\* The same of every block: "For now assign all variables correctly"
\* (optimization.c:400).
SameEffect == phase = "compiled" /\ sound => SameEffectOf(Vars \cup exit)
=============================================================================

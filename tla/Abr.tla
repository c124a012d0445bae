-------------------------------- MODULE Abr ---------------------------------
(***************************************************************************)
(* The binary search tree behind NEIGHBORS and POTENTIAL (abr.c), node by  *)
(* node, shown to behave as the table that module Tables works with.       *)
(*                                                                         *)
(* A tree is a pointer to its root and the nodes in the heap, by block:    *)
(* the entries of the flood lists point to nodes, so what happens to those *)
(* the tree is not asked about matters as much as what a lookup returns.   *)
(* The functions of abr.c recur along one chain of pointers each; such a   *)
(* chain is the least set of blocks that is closed under the next pointer. *)
(***************************************************************************)
EXTENDS Integers, FiniteSets, Sequences

CONSTANTS
  Key,    \* addresses, ordered as compare_n() orders them
  Id,     \* peer identifiers
  Date,   \* dates of hellos
  Block,  \* blocks of the heap
  NULL    \* the null pointer

Ident == [id : Id, last_hello : Date, last_hello_long : Date]

ASSUME AbrAssumption == Key \subseteq Nat /\ NULL \notin Block \cup Ident

VARIABLES
  tree   \* NEIGHBORS or POTENTIAL

Node == [key : Key, val : Ident, left : Block \cup {NULL}, right : Block \cup {NULL}]

Leaf(key, val) == [key |-> key, val |-> val, left |-> NULL, right |-> NULL]
-----------------------------------------------------------------------------
\* The blocks met from x on, when next leads from each to the one after it ...
Chain(next, x) ==
  {b \in DOMAIN next :
     \A S \in SUBSET DOMAIN next :
       /\ x # NULL => x \in S
       /\ \A c \in S : next[c] # NULL => next[c] \in S
       => b \in S}

\* ... and the last of them.
End(next, x) == CHOOSE b \in Chain(next, x) : next[b] = NULL

\* Where the comparison of a node's key with the one looked for leads.
Search(t, key) ==
  [b \in DOMAIN t.node |->
     LET n == t.node[b]
     IN  IF n.key = key THEN NULL ELSE IF n.key > key THEN n.left ELSE n.right]

Path(t, key) == Chain(Search(t, key), t.root)

\* The node with the key, or the one that it would be hung on.
Place(t, key) == End(Search(t, key), t.root)

Known(t, key) == t.root # NULL /\ t.node[Place(t, key)].key = key

get_ident(t, key) == IF Known(t, key) THEN t.node[Place(t, key)].val ELSE NULL

\* init() of a node in block, hung on a place where the key is not.
Hung(t, key, val, block) ==
  [b \in DOMAIN t.node \cup {block} |->
     IF b = block THEN Leaf(key, val)
     ELSE IF b # Place(t, key) THEN t.node[b]
     ELSE IF t.node[b].key > key THEN [t.node[b] EXCEPT !.left = block]
     ELSE [t.node[b] EXCEPT !.right = block]]

add_neighbor_aux(t, key, val, block) ==
  IF Known(t, key)
  THEN [t EXCEPT !.node[Place(t, key)].val.last_hello = val.last_hello,
                 !.node[Place(t, key)].val.last_hello_long = val.last_hello_long]
  ELSE [root |-> IF t.root = NULL THEN block ELSE t.root,
        node |-> Hung(t, key, val, block)]

Left(h) == [b \in DOMAIN h |-> h[b].left]

\* The node on whose left remove_min(r) finds the least.
BeforeMin(h, r) ==
  CHOOSE b \in Chain(Left(h), r) : h[b].left = End(Left(h), r)

\* Mutant: the right branch of the least node is forgotten.
Promoted_branch(h, l, r) ==
  LET min == End(Left(h), r)
  IN  [h EXCEPT ![BeforeMin(h, r)].left = NULL, ![min].left = l, ![min].right = r]

\* Mutant: the two branches are exchanged.
Promoted_swapped(h, l, r) ==
  LET min == End(Left(h), r)
  IN  [h EXCEPT ![BeforeMin(h, r)].left = h[min].right, ![min].left = r, ![min].right = l]

\* Mutant: the least node is moved by copying its contents into the other's block.
Promoted_copied(h, l, r) ==
  LET min == End(Left(h), r)
  IN  [h EXCEPT ![BeforeMin(h, r)].left = h[min].right,
                ![min] = [h[r] EXCEPT !.key = h[min].key, !.left = l, !.right = r],
                ![r].key = h[min].key]

\* remove_min(r), and what is done to the node that it returns.
Promoted(h, l, r) ==
  LET min == End(Left(h), r)
  IN  [h EXCEPT ![BeforeMin(h, r)].left = h[min].right, ![min].left = l, ![min].right = r]

\* What replaces a node that is freed, by relinking the other nodes.
Joined(h, l, r) ==
  IF r = NULL THEN [root |-> l, node |-> h]
  ELSE IF h[r].left = NULL THEN [root |-> r, node |-> [h EXCEPT ![r].left = l]]
  ELSE [root |-> End(Left(h), r), node |-> Promoted(h, l, r)]

\* The pointer that led to node n leads to block x.
Redirected(n, key, x) ==
  IF n.key > key THEN [n EXCEPT !.left = x] ELSE [n EXCEPT !.right = x]

remove_neighbor_aux(t, key) ==
  LET n == Place(t, key)
      j == Joined(t.node, t.node[n].left, t.node[n].right)
  IN  IF ~Known(t, key) THEN t
      ELSE [root |-> IF t.root = n THEN j.root ELSE t.root,
            node |-> [b \in DOMAIN t.node \ {n} |->
                        IF b \in Path(t, key) /\ Search(t, key)[b] = n
                        THEN Redirected(j.node[b], key, j.root)
                        ELSE j.node[b]]]
-----------------------------------------------------------------------------
AbrInit == tree = [root |-> NULL, node |-> [b \in {} |-> Leaf(0, NULL)]]

\* add_neighbor() and add_potential(); malloc() returns a block that is not in use.
add_neighbor(key, val) ==
  \E block \in Block \ DOMAIN tree.node : tree' = add_neighbor_aux(tree, key, val, block)

\* remove_neighbor() and remove_potential().
remove_neighbor(key) == tree' = remove_neighbor_aux(tree, key)

AbrNext ==
  \/ \E k \in Key, v \in Ident : add_neighbor(k, v)
  \/ \E k \in Key : remove_neighbor(k)

AbrSpec == AbrInit /\ [][AbrNext]_tree
-----------------------------------------------------------------------------
\* The table that the tree stands for, as lookups see it, and the operations of
\* Tables on it.
Table(t) == [k \in {k \in Key : get_ident(t, k) # NULL} |-> get_ident(t, k)]

T == INSTANCE Tables WITH
       Addr <- Key, NoId <- NULL, ID <- NULL, NoDest <- NULL, OldAge <- 120,
       Uptime <- 1, MaxTime <- 1, now <- 1,
       NEIGHBORS <- Table(tree), POTENTIAL <- [k \in {} |-> NULL],
       heard <- [k \in Key |-> 0]

\* The blocks that find_by_aux() goes through from x on, and which of two comes
\* first: after the left branch of a node the node, and then its right branch.
Under(t, x) ==
  {b \in DOMAIN t.node :
     \A S \in SUBSET DOMAIN t.node :
       /\ x # NULL => x \in S
       /\ \A c \in S : {t.node[c].left, t.node[c].right} \ {NULL} \subseteq S
       => b \in S}

Before(t, a, b) ==
  \/ a \in Under(t, t.node[b].left)
  \/ b \in Under(t, t.node[a].right)
  \/ \E c \in DOMAIN t.node :
       a \in Under(t, t.node[c].left) /\ b \in Under(t, t.node[c].right)

TreeOK ==
  /\ tree = [root |-> tree.root, node |-> tree.node]
  /\ DOMAIN tree.node \subseteq Block
  /\ tree.node \in [DOMAIN tree.node -> Node]
  /\ \A x \in {tree.root} \cup {tree.node[b].left : b \in DOMAIN tree.node}
                          \cup {tree.node[b].right : b \in DOMAIN tree.node} :
       x \in DOMAIN tree.node \cup {NULL}

\* The list that find_by() returns is in strictly increasing order of address, and
\* holds every node there is, each of which a lookup of its address finds: the tree
\* stays a search tree, without a node that is lost or pointed to after it was
\* freed, through any sequence of insertions and removals (check() of abr.c).
Ordered ==
  /\ TreeOK
  /\ DOMAIN tree.node = Under(tree, tree.root)
  /\ \A a, b \in DOMAIN tree.node :
       Before(tree, a, b) => tree.node[a].key < tree.node[b].key
  /\ \A b \in DOMAIN tree.node : get_ident(tree, tree.node[b].key) = tree.node[b].val

\* Insertion and removal in the tree are insertion and removal in the table that
\* lookups see: no other address is lost or found at the same time.
ActsAsTable ==
  [][/\ \A k \in Key, v \in Ident : add_neighbor(k, v) =>
            Table(tree') = T!add_neighbor_aux(Table(tree), k, v)
     /\ \A k \in Key : remove_neighbor(k) =>
            Table(tree') = T!remove_neighbor_aux(Table(tree), k)]_tree

\* Nodes that stay keep their heap block: a removal relinks the others, it never
\* copies a key into another node, so the pointers that the flood lists hold to
\* the other neighbours stay valid (remove_neighbor_aux, remove_min).
PointersStable ==
  [][\A b \in DOMAIN tree.node, c \in DOMAIN tree'.node :
       tree.node[b].key = tree'.node[c].key => b = c]_tree
=============================================================================

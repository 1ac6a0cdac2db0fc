----------------------------- MODULE BTreePrint -----------------------------
(***************************************************************************)
(* The output functions of benchmarks/btree/btree.c on the trees that      *)
(* insertions and deletions leave behind: print_tree with the queue it     *)
(* threads through the nodes' next pointers, print_leaves and height.      *)
(* What is printed of a node is its keys.                                  *)
(***************************************************************************)
EXTENDS BTree

VARIABLES at,       \* the output function that runs, and "no" when none does
          queue,
          next,     \* the next pointer of every node, in use or free
          rank,     \* the rank print_tree is in
          c,        \* the leaf print_leaves is at
          out       \* the lines printed, each a sequence of nodes' keys

printer == <<at, queue, next, rank, c, out>>

(***************************************************************************)
(* The slab.  The nodes that are free are on the list free_nodes, which    *)
(* uses the same field: alloc_node takes the first of them.  The list is   *)
(* kept in the order in which BTree's alloc_node takes the nodes; the      *)
(* code's free_node puts a node in front, which is this order up to the    *)
(* names of the nodes.                                                     *)
(***************************************************************************)
RECURSIVE free_nodes(_)
free_nodes(S) ==
    IF S = {} THEN <<>>
    ELSE LET n == CHOOSE m \in S : TRUE
             rest == S \ {n}
         IN  (n :> IF rest = {} THEN NULL ELSE CHOOSE m \in rest : TRUE) @@ free_nodes(rest)

\* What alloc_node with make_node, which sets next to NULL, and free_node do to the field.
slab ==
    /\ next' = IF free' = free THEN next
               ELSE free_nodes(free') @@ [n \in Node |-> IF n \in free THEN NULL ELSE next[n]]
    /\ UNCHANGED <<at, queue, rank, c, out>>

PrintInit ==
    /\ Init
    /\ at = "no"
    /\ queue = NULL
    /\ next = free_nodes(Node)
    /\ rank = 0
    /\ c = NULL
    /\ out = <<>>

(***************************************************************************)
(* The queue: l is its head and the next pointers.                         *)
(***************************************************************************)
RECURSIVE LastOf(_, _)
LastOf(l, n) == IF l.next[n] = NULL THEN n ELSE LastOf(l, l.next[n])

\* Mutant: the new node goes in front.
enqueue_front(l, n) == [queue |-> n, next |-> [l.next EXCEPT ![n] = l.queue]]

enqueue(l, n) ==
    IF l.queue = NULL
    THEN [queue |-> n, next |-> [l.next EXCEPT ![n] = NULL]]
    ELSE [l EXCEPT !.next = [@ EXCEPT ![LastOf(l, l.queue)] = n, ![n] = NULL]]

dequeue(l) == [queue |-> l.next[l.queue], next |-> [l.next EXCEPT ![l.queue] = NULL]]

(***************************************************************************)
(* Climbs and descents.                                                    *)
(***************************************************************************)
RECURSIVE path_to_root(_)
path_to_root(n) == IF n = root THEN 0 ELSE 1 + path_to_root(heap[n].parent)

RECURSIVE Leftmost(_)
Leftmost(n) == IF heap[n].is_leaf THEN n ELSE Leftmost(heap[n].kids[1])

RECURSIVE HeightOf(_)
HeightOf(n) == IF heap[n].is_leaf THEN 0 ELSE 1 + HeightOf(heap[n].kids[1])

height == HeightOf(root)

(***************************************************************************)
(* print_tree.                                                             *)
(***************************************************************************)
print_tree ==
    /\ at = "no" /\ call.pc = "idle"
    /\ at' = "tree"
    /\ rank' = 0
    /\ \/ root = NULL /\ queue' = NULL /\ out' = <<>> /\ UNCHANGED next
       \/ /\ root # NULL
          /\ out' = <<<<>>>>
          /\ LET l == enqueue([queue |-> NULL, next |-> next], root)
             IN  queue' = l.queue /\ next' = l.next
    /\ UNCHANGED <<vars, c>>

\* A leftmost child of another rank than the last starts a line.
NewRank(n) ==
    IF heap[n].parent # NULL /\ n = heap[heap[n].parent].kids[1]
    THEN path_to_root(n) ELSE rank

\* One iteration of `while (queue != NULL)'.
print_tree_node ==
    /\ at = "tree" /\ queue # NULL
    /\ LET n == queue
           l == FoldLeft(enqueue, dequeue([queue |-> queue, next |-> next]),
                         heap[n].kids)
           lines == IF NewRank(n) # rank THEN Append(out, <<>>) ELSE out
       IN  /\ rank' = NewRank(n)
           /\ out' = [lines EXCEPT ![Len(lines)] = Append(@, heap[n].keys)]
           /\ queue' = l.queue
           /\ next' = l.next
    /\ UNCHANGED <<vars, at, c>>

(***************************************************************************)
(* print_leaves.                                                           *)
(***************************************************************************)
print_leaves ==
    /\ at = "no" /\ call.pc = "idle"
    /\ at' = "leaves"
    /\ \/ root = NULL /\ c' = NULL /\ out' = <<>>
       \/ root # NULL /\ c' = Leftmost(root) /\ out' = <<<<>>>>
    /\ UNCHANGED <<vars, queue, next, rank>>

print_leaves_leaf ==
    /\ at = "leaves" /\ c # NULL
    /\ out' = [out EXCEPT ![1] = Append(@, heap[c].keys)]
    /\ c' = heap[c].link
    /\ UNCHANGED <<vars, at, queue, next, rank>>

\* Either function has come to its end and returns.
Printed(f) == at = f /\ (IF f = "tree" THEN queue ELSE c) = NULL

print_return ==
    /\ Printed("tree") \/ Printed("leaves")
    /\ at' = "no"
    /\ out' = <<>>
    /\ UNCHANGED <<vars, queue, next, rank, c>>

PrintNext ==
    \/ at = "no" /\ Next /\ slab
    \/ print_tree \/ print_tree_node
    \/ print_leaves \/ print_leaves_leaf
    \/ print_return

PrintSpec == PrintInit /\ [][PrintNext]_<<vars, printer>>

\* The program is one thread that is never stopped in the middle of a call.
FairPrintSpec ==
    PrintSpec /\ WF_<<vars, printer>>(at = "no" /\ Step /\ slab)
-----------------------------------------------------------------------------
(***************************************************************************)
(* Properties.                                                             *)
(***************************************************************************)
RECURSIVE Levels(_)
Levels(s) ==
    IF s = <<>> THEN <<>>
    ELSE <<[i \in DOMAIN s |-> heap[s[i]].keys]>>
         \o Levels(FlattenSeq([i \in DOMAIN s |-> heap[s[i]].kids]))

\* print_tree prints every node once, a rank of the tree on each line and the
\* nodes of a rank from left to right: the queue threaded through the nodes
\* loses none, and the climb from a leftmost child finds every new rank; there
\* are as many lines below the first as height, which only looks at the leftmost
\* nodes, counts edges.  The queue starts from pointers the slab has used, and leaves
\* the list of the free nodes as it was (lines 653 and 665).
PrintsLevels ==
    Printed("tree") =>
        /\ \/ root = NULL /\ out = <<>>
           \/ root # NULL /\ out = Levels(<<root>>) /\ Len(out) = height + 1
        /\ next = free_nodes(free) @@ [n \in Node |-> NULL]

\* print_leaves, which follows the chain of leaves, prints what print_tree
\* prints on its last line, in ascending order.
PrintsLeaves ==
    Printed("leaves") /\ root # NULL =>
        /\ out[1] = Last(Levels(<<root>>))
        /\ LET ks == FlattenSeq(out[1])
           IN  \A i, j \in DOMAIN ks : i < j => ks[i] < ks[j]
=============================================================================

------------------------------- MODULE BTree --------------------------------
(***************************************************************************)
(* The B+ tree of benchmarks/btree/btree.c (and btree_throughput, which is *)
(* the same code): nodes in a heap with parent pointers and a chain of     *)
(* leaves, node and record slabs, find, find_range, insert and delete.     *)
(*                                                                         *)
(* The program is sequential.  One action is one iteration of the search   *)
(* loop or one C function of the update path; `call' is the activation     *)
(* that runs next, so an operation always runs to its end before another   *)
(* begins, and the states between two functions are visible.               *)
(*                                                                         *)
(* A node's keys[0 .. num_keys-1] is the sequence keys, 1-based.  The C    *)
(* array `pointers' is three things: kids (the children of an internal     *)
(* node), recs (the records of a leaf, each abstracted to its value) and   *)
(* link (pointers[order - 1] of a leaf: the leaf to the right).            *)
(***************************************************************************)
EXTENDS Integers, Sequences, FiniteSets, SequencesExt

CONSTANTS Order,    \* most pointers a node may have: `order'
          Key, Val,
          Node,     \* addresses the node slab can hand out
          Ops,      \* operations the client calls
          NULL, Void

ASSUME OrderAssumption == Order \in Nat /\ Order >= 3     \* MIN_ORDER
ASSUME KeyAssumption == Key \subseteq Nat
ASSUME NodeAssumption == IsFiniteSet(Node)
ASSUME NullAssumption == NULL \notin Node /\ NULL \notin Val /\ NULL \notin Key
ASSUME VoidAssumption == Void \notin Val \cup {NULL}
ASSUME OpsAssumption == Ops \subseteq {"insert", "delete", "find", "range"}

VARIABLES root,     \* NULL when the tree is empty
          heap,     \* the contents of every node
          free,     \* the nodes on the list free_nodes
          nrec,     \* records taken from the record slab and not returned
          doomed,   \* merged nodes that wait for delete_entry to return
          call,     \* the activation that runs next
          ret,      \* the answer of the last find
          rng       \* returned_keys of the running find_range

vars == <<root, heap, free, nrec, doomed, call, ret, rng>>

cut(length) == (length + 1) \div 2

min_keys(n) == IF n.is_leaf THEN cut(Order - 1) ELSE cut(Order) - 1

(***************************************************************************)
(* Where the C loops stop.                                                 *)
(***************************************************************************)
\* Mutant: a key equal to the separator goes left.
StopsAbove_strict(ks, k, i) ==
    /\ \A j \in 1..(i - 1) : ks[j] < k
    /\ i <= Len(ks) => k <= ks[i]

\* while (i < num_keys && key >= keys[i]) i++
StopsAbove(ks, k, i) ==
    /\ \A j \in 1..(i - 1) : ks[j] <= k
    /\ i <= Len(ks) => k < ks[i]

\* while (i < num_keys && keys[i] < key) i++
StopsAtOrAbove(ks, k, i) ==
    /\ \A j \in 1..(i - 1) : ks[j] < k
    /\ i <= Len(ks) => k <= ks[i]

\* while (s[i] != e) i++: e has to be there.  Only get_left_index also stops at the end
\* of the array (line 758), with an index its callers would take for the left one.
FirstIndex(s, e, i) ==
    /\ s[i] = e
    /\ \A j \in 1..(i - 1) : s[j] # e

(***************************************************************************)
(* Activations.                                                            *)
(***************************************************************************)
Idle == [pc |-> "idle", key |-> NULL, val |-> NULL, hi |-> NULL,
         node |-> NULL, right |-> NULL, at |-> 0]

Searching == {"insert", "delete", "find", "range"}

\* The null pointer is no call either.
ASSUME RequestAssumption == NULL \notin Searching \X Key \X (Val \cup {NULL})

Blank == [is_leaf |-> FALSE, keys |-> <<>>, kids |-> <<>>, recs |-> <<>>,
          parent |-> NULL, link |-> NULL]

make_node == Blank

make_leaf == [make_node EXCEPT !.is_leaf = TRUE]

\* Any free node: addresses are only compared for equality, so which one
\* the LIFO list hands out makes no difference to what is checked.
alloc_node == CHOOSE n \in free : TRUE

Init ==
    /\ root = NULL
    /\ heap = [n \in Node |-> Blank]
    /\ free = Node
    /\ nrec = 0
    /\ doomed = {}
    /\ call = Idle
    /\ ret = Void
    /\ rng = <<>>

Begin(op, k, v, hi) ==
    /\ op \in Ops
    /\ call.pc = "idle"
    /\ call' = [Idle EXCEPT !.pc = op, !.key = k, !.val = v, !.hi = hi,
                            !.node = root]
    /\ ret' = Void
    /\ UNCHANGED <<root, heap, free, nrec, doomed, rng>>

\* Mutant: the loop does not move to the child.
find_leaf_no_descent ==
    /\ call.pc \in Searching
    /\ call.node # NULL
    /\ ~heap[call.node].is_leaf
    /\ call' = [call EXCEPT !.node = root]
    /\ UNCHANGED <<root, heap, free, nrec, doomed, ret, rng>>

\* One iteration of the loop of find_leaf.
find_leaf ==
    /\ call.pc \in Searching
    /\ call.node # NULL
    /\ ~heap[call.node].is_leaf
    /\ \E i \in 1..Len(heap[call.node].kids) :
          /\ StopsAbove(heap[call.node].keys, call.key, i)
          /\ call' = [call EXCEPT !.node = heap[call.node].kids[i]]
    /\ UNCHANGED <<root, heap, free, nrec, doomed, ret, rng>>

\* The search for op has ended in a leaf, or in an empty tree.
AtLeaf(op) == call.pc = op /\ call.node # NULL /\ heap[call.node].is_leaf
NoTree(op) == call.pc = op /\ call.node = NULL

Present(k) == \E i \in 1..Len(heap[call.node].keys) : heap[call.node].keys[i] = k

(***************************************************************************)
(* find and find_range.                                                    *)
(***************************************************************************)
find ==
    /\ \/ NoTree("find") /\ ret' = NULL
       \/ AtLeaf("find") /\ ~Present(call.key) /\ ret' = NULL
       \/ /\ AtLeaf("find")
          /\ \E i \in 1..Len(heap[call.node].keys) :
                /\ FirstIndex(heap[call.node].keys, call.key, i)
                /\ ret' = heap[call.node].recs[i]
    /\ call' = Idle
    /\ UNCHANGED <<root, heap, free, nrec, doomed, rng>>

\* The first loop of find_range; a leaf with nothing at or above key_start
\* ends the search with zero entries.
find_range ==
    /\ \/ NoTree("range") /\ call' = [call EXCEPT !.pc = "ranged"]
       \/ /\ AtLeaf("range")
          /\ \E i \in 1..(Len(heap[call.node].keys) + 1) :
                /\ StopsAtOrAbove(heap[call.node].keys, call.key, i)
                /\ call' = [call EXCEPT
                              !.pc = IF i > Len(heap[call.node].keys)
                                     THEN "ranged" ELSE "scan",
                              !.at = i]
    /\ UNCHANGED <<root, heap, free, nrec, doomed, ret, rng>>

\* Mutant: the end of the range is not tested.
find_range_scan_no_end ==
    /\ call.pc = "scan"
    /\ LET n == heap[call.node]
       IN  /\ rng' = rng \o SubSeq(n.keys, call.at, Len(n.keys))
           /\ call' = [call EXCEPT
                         !.pc = IF n.link = NULL THEN "ranged" ELSE "scan",
                         !.node = n.link, !.at = 1]
    /\ UNCHANGED <<root, heap, free, nrec, doomed, ret>>

\* One iteration of `while (n != NULL)': one leaf.
find_range_scan ==
    /\ call.pc = "scan"
    /\ LET n == heap[call.node]
       IN  \E j \in call.at..(Len(n.keys) + 1) :
              /\ \A m \in call.at..(j - 1) : n.keys[m] <= call.hi
              /\ j <= Len(n.keys) => call.hi < n.keys[j]
              /\ rng' = rng \o SubSeq(n.keys, call.at, j - 1)
              /\ call' = [call EXCEPT
                            !.pc = IF n.link = NULL THEN "ranged" ELSE "scan",
                            !.node = n.link, !.at = 1]
    /\ UNCHANGED <<root, heap, free, nrec, doomed, ret>>

find_range_return ==
    /\ call.pc = "ranged"
    /\ call' = Idle
    /\ rng' = <<>>
    /\ UNCHANGED <<root, heap, free, nrec, doomed, ret>>

(***************************************************************************)
(* insert.                                                                 *)
(***************************************************************************)
\* Mutant: the record is found and not written.
insert_update_no_write ==
    /\ AtLeaf("insert")
    /\ Present(call.key)
    /\ call' = Idle
    /\ UNCHANGED <<root, heap, free, nrec, doomed, ret, rng>>

\* The key is there: its record gets the new value.
insert_update ==
    /\ AtLeaf("insert")
    /\ \E i \in 1..Len(heap[call.node].keys) :
          /\ FirstIndex(heap[call.node].keys, call.key, i)
          /\ heap' = [heap EXCEPT ![call.node].recs[i] = call.val]
    /\ call' = Idle
    /\ UNCHANGED <<root, free, nrec, doomed, ret, rng>>

start_new_tree ==
    /\ NoTree("insert")
    /\ free # {}
    /\ root' = alloc_node
    /\ free' = free \ {alloc_node}
    /\ heap' = [heap EXCEPT ![alloc_node] =
                   [make_leaf EXCEPT !.keys = <<call.key>>, !.recs = <<call.val>>]]
    /\ nrec' = nrec + 1
    /\ call' = Idle
    /\ UNCHANGED <<doomed, ret, rng>>

insert_into_leaf ==
    /\ AtLeaf("insert")
    /\ ~Present(call.key)
    /\ Len(heap[call.node].keys) < Order - 1
    /\ \E i \in 1..(Len(heap[call.node].keys) + 1) :
          /\ StopsAtOrAbove(heap[call.node].keys, call.key, i)
          /\ heap' = [heap EXCEPT ![call.node].keys = InsertAt(@, i, call.key),
                                  ![call.node].recs = InsertAt(@, i, call.val)]
    /\ nrec' = nrec + 1
    /\ call' = Idle
    /\ UNCHANGED <<root, free, doomed, ret, rng>>

insert_into_leaf_after_splitting ==
    /\ AtLeaf("insert")
    /\ ~Present(call.key)
    /\ Len(heap[call.node].keys) >= Order - 1
    /\ free # {}
    /\ LET leaf == call.node
           new_leaf == alloc_node
           split == cut(Order - 1)
       IN  \E i \in 1..(Len(heap[leaf].keys) + 1) :
              LET ks == InsertAt(heap[leaf].keys, i, call.key)
                  rs == InsertAt(heap[leaf].recs, i, call.val)
              IN  /\ StopsAtOrAbove(heap[leaf].keys, call.key, i)
                  /\ heap' = [heap EXCEPT
                       ![leaf] = [@ EXCEPT !.keys = SubSeq(ks, 1, split),
                                           !.recs = SubSeq(rs, 1, split),
                                           !.link = new_leaf],
                       ![new_leaf] = [make_leaf EXCEPT
                                           !.keys = SubSeq(ks, split + 1, Order),
                                           !.recs = SubSeq(rs, split + 1, Order),
                                           !.parent = heap[leaf].parent,
                                           !.link = heap[leaf].link]]
                  /\ call' = [Idle EXCEPT !.pc = "insert_into_parent",
                                          !.key = ks[split + 1],
                                          !.node = leaf, !.right = new_leaf]
    /\ free' = free \ {alloc_node}
    /\ nrec' = nrec + 1
    /\ UNCHANGED <<root, doomed, ret, rng>>

insert_into_new_root ==
    /\ call.pc = "insert_into_parent"
    /\ heap[call.node].parent = NULL
    /\ free # {}
    /\ root' = alloc_node
    /\ free' = free \ {alloc_node}
    /\ heap' = [heap EXCEPT
          ![alloc_node] = [make_node EXCEPT !.keys = <<call.key>>,
                                            !.kids = <<call.node, call.right>>],
          ![call.node].parent = alloc_node,
          ![call.right].parent = alloc_node]
    /\ call' = Idle
    /\ UNCHANGED <<nrec, doomed, ret, rng>>

insert_into_node ==
    /\ call.pc = "insert_into_parent"
    /\ heap[call.node].parent # NULL
    /\ LET parent == heap[call.node].parent
       IN  /\ Len(heap[parent].keys) < Order - 1
           /\ \E i \in 1..Len(heap[parent].kids) :
                 /\ FirstIndex(heap[parent].kids, call.node, i)
                 /\ heap' = [heap EXCEPT
                               ![parent].keys = InsertAt(@, i, call.key),
                               ![parent].kids = InsertAt(@, i + 1, call.right)]
    /\ call' = Idle
    /\ UNCHANGED <<root, free, nrec, doomed, ret, rng>>

\* Mutant: moved children keep their old parent.
Adopt_no_rehang(h, S, p) == h

\* h with every node of S hung under p.
Adopt(h, S, p) == [n \in Node |-> IF n \in S THEN [h[n] EXCEPT !.parent = p] ELSE h[n]]

insert_into_node_after_splitting ==
    /\ call.pc = "insert_into_parent"
    /\ heap[call.node].parent # NULL
    /\ LET old_node == heap[call.node].parent
           new_node == alloc_node
           split == cut(Order)
       IN  /\ Len(heap[old_node].keys) >= Order - 1
           /\ free # {}
           /\ \E i \in 1..Len(heap[old_node].kids) :
                 LET ks == InsertAt(heap[old_node].keys, i, call.key)
                     cs == InsertAt(heap[old_node].kids, i + 1, call.right)
                     moved == SubSeq(cs, split + 1, Order + 1)
                     h == [heap EXCEPT
                             ![old_node] = [@ EXCEPT !.keys = SubSeq(ks, 1, split - 1),
                                                     !.kids = SubSeq(cs, 1, split)],
                             ![new_node] = [make_node EXCEPT
                                              !.keys = SubSeq(ks, split + 1, Order),
                                              !.kids = moved,
                                              !.parent = heap[old_node].parent]]
                 IN  /\ FirstIndex(heap[old_node].kids, call.node, i)
                     /\ heap' = Adopt(h, Range(moved), new_node)
                     /\ call' = [call EXCEPT !.key = ks[split], !.node = old_node,
                                             !.right = new_node]
    /\ free' = free \ {alloc_node}
    /\ UNCHANGED <<root, nrec, doomed, ret, rng>>

(***************************************************************************)
(* delete.                                                                 *)
(***************************************************************************)
\* Entry ki is the key's, pi the pointer's: in a leaf the record of a key
\* has the key's index.
remove_entry_from_node(n, ki, pi) ==
    IF heap[n].is_leaf
    THEN [heap EXCEPT ![n].keys = RemoveAt(@, ki), ![n].recs = RemoveAt(@, pi)]
    ELSE [heap EXCEPT ![n].keys = RemoveAt(@, ki), ![n].kids = RemoveAt(@, pi)]

Returning == [Idle EXCEPT !.pc = "return"]

\* Mutant: the new root keeps its parent pointer.
adjust_root_keeps_parent(h) ==
    /\ call' = Returning
    /\ UNCHANGED doomed
    /\ \/ /\ Len(h[root].keys) > 0
          /\ heap' = h
          /\ UNCHANGED <<root, free>>
       \/ /\ Len(h[root].keys) = 0
          /\ root' = IF h[root].is_leaf THEN NULL ELSE h[root].kids[1]
          /\ heap' = [h EXCEPT ![root] = Blank]
          /\ free' = free \cup {root}

\* Below, h is the heap after remove_entry_from_node.
adjust_root(h) ==
    /\ call' = Returning
    /\ UNCHANGED doomed
    /\ \/ /\ Len(h[root].keys) > 0
          /\ heap' = h
          /\ UNCHANGED <<root, free>>
       \/ /\ Len(h[root].keys) = 0
          /\ root' = IF h[root].is_leaf THEN NULL ELSE h[root].kids[1]
          /\ heap' = [Adopt(h, {root'} \ {NULL}, NULL) EXCEPT ![root] = Blank]
          /\ free' = free \cup {root}

\* Mutant: the chain of leaves still leads to the node that goes.
coalesce_nodes_old_link(h, n, neighbor, leftmost, k_prime) ==
    LET l == IF leftmost THEN n ELSE neighbor
        r == IF leftmost THEN neighbor ELSE n
        merged == IF h[n].is_leaf
                  THEN [h[l] EXCEPT !.keys = @ \o h[r].keys, !.recs = @ \o h[r].recs]
                  ELSE [h[l] EXCEPT !.keys = @ \o <<k_prime>> \o h[r].keys,
                                    !.kids = @ \o h[r].kids]
    IN  /\ heap' = Adopt([h EXCEPT ![l] = merged], Range(merged.kids), l)
        /\ doomed' = doomed \cup {r}
        /\ call' = [Idle EXCEPT !.pc = "delete_entry", !.key = k_prime,
                                !.node = h[r].parent, !.right = r]
        /\ UNCHANGED <<root, free>>

\* n absorbs its neighbour or is absorbed by it: the right one of the two
\* goes, and its entry in the parent is the next to be deleted.
coalesce_nodes(h, n, neighbor, leftmost, k_prime) ==
    LET l == IF leftmost THEN n ELSE neighbor
        r == IF leftmost THEN neighbor ELSE n
        merged == IF h[n].is_leaf
                  THEN [h[l] EXCEPT !.keys = @ \o h[r].keys,
                                    !.recs = @ \o h[r].recs,
                                    !.link = h[r].link]
                  ELSE [h[l] EXCEPT !.keys = @ \o <<k_prime>> \o h[r].keys,
                                    !.kids = @ \o h[r].kids]
    IN  /\ heap' = Adopt([h EXCEPT ![l] = merged], Range(merged.kids), l)
        /\ doomed' = doomed \cup {r}
        /\ call' = [Idle EXCEPT !.pc = "delete_entry", !.key = k_prime,
                                !.node = h[r].parent, !.right = r]
        /\ UNCHANGED <<root, free>>

\* One entry moves from the neighbour to n, through the parent's k_prime.
redistribute_nodes(h, n, neighbor, leftmost, k_prime_index, k_prime) ==
    LET nb == h[neighbor]
        p == h[n].parent
        lastKey == Len(nb.keys)
        lastKid == Len(nb.kids)
        n2 == CASE ~leftmost /\ nb.is_leaf ->
                     [h[n] EXCEPT !.keys = <<nb.keys[lastKey]>> \o @,
                                  !.recs = <<nb.recs[lastKey]>> \o @]
                [] ~leftmost /\ ~nb.is_leaf ->
                     [h[n] EXCEPT !.keys = <<k_prime>> \o @,
                                  !.kids = <<nb.kids[lastKid]>> \o @]
                [] leftmost /\ nb.is_leaf ->
                     [h[n] EXCEPT !.keys = Append(@, nb.keys[1]),
                                  !.recs = Append(@, nb.recs[1])]
                [] OTHER ->
                     [h[n] EXCEPT !.keys = Append(@, k_prime),
                                  !.kids = Append(@, nb.kids[1])]
        gone == IF leftmost THEN 1 ELSE lastKey
        nb2 == IF nb.is_leaf
               THEN [nb EXCEPT !.keys = RemoveAt(@, gone), !.recs = RemoveAt(@, gone)]
               ELSE [nb EXCEPT !.keys = RemoveAt(@, gone),
                               !.kids = RemoveAt(@, IF leftmost THEN 1 ELSE lastKid)]
        up == IF leftmost /\ nb.is_leaf THEN nb.keys[2] ELSE nb.keys[gone]
    IN  /\ heap' = Adopt([h EXCEPT ![n] = n2, ![neighbor] = nb2,
                                   ![p].keys[k_prime_index] = up],
                         Range(n2.kids), n)
        /\ call' = Returning
        /\ UNCHANGED <<root, free, doomed>>

\* Mutant: one entry too many is let into the merged node.
Fits_one_more(h, n, neighbor) ==
    Len(h[neighbor].keys) + Len(h[n].keys)
        <= IF h[n].is_leaf THEN Order ELSE Order - 1

\* The test for coalescence; otherwise an entry is redistributed.
Fits(h, n, neighbor) ==
    Len(h[neighbor].keys) + Len(h[n].keys)
        < IF h[n].is_leaf THEN Order ELSE Order - 1

\* Mutant: a node that cannot be merged is left as it is.
Rebalance_merge_only(h, n, i) ==
    LET p == h[h[n].parent]
        leftmost == i = 1
        k_prime == p.keys[IF leftmost THEN 1 ELSE i - 1]
        neighbor == p.kids[IF leftmost THEN 2 ELSE i - 1]
    IN  \/ /\ Fits(h, n, neighbor)
           /\ coalesce_nodes(h, n, neighbor, leftmost, k_prime)
        \/ /\ ~Fits(h, n, neighbor)
           /\ heap' = h
           /\ call' = Returning
           /\ UNCHANGED <<root, free, doomed>>

\* n has fallen below its minimum; i is its index in its parent, and
\* get_neighbor_index is the index to the left, -1 for the leftmost child.
Rebalance(h, n, i) ==
    LET p == h[h[n].parent]
        leftmost == i = 1
        k_prime_index == IF leftmost THEN 1 ELSE i - 1
        k_prime == p.keys[k_prime_index]
        neighbor == p.kids[IF leftmost THEN 2 ELSE i - 1]
    IN  IF Fits(h, n, neighbor)
        THEN coalesce_nodes(h, n, neighbor, leftmost, k_prime)
        ELSE redistribute_nodes(h, n, neighbor, leftmost, k_prime_index, k_prime)

delete_entry(n, ki, pi) ==
    LET h == remove_entry_from_node(n, ki, pi)
    IN  \/ n = root /\ adjust_root(h)
        \/ /\ n # root
           /\ Len(h[n].keys) >= min_keys(h[n])
           /\ heap' = h
           /\ call' = Returning
           /\ UNCHANGED <<root, free, doomed>>
        \/ /\ n # root
           /\ Len(h[n].keys) < min_keys(h[n])
           /\ \E i \in 1..Len(h[h[n].parent].kids) :
                 /\ FirstIndex(h[h[n].parent].kids, n, i)
                 /\ Rebalance(h, n, i)

delete ==
    /\ \/ /\ NoTree("delete") \/ (AtLeaf("delete") /\ ~Present(call.key))
          /\ call' = Idle
          /\ UNCHANGED <<root, heap, free, doomed>>
       \/ /\ AtLeaf("delete")
          /\ \E i \in 1..Len(heap[call.node].keys) :
                /\ FirstIndex(heap[call.node].keys, call.key, i)
                /\ delete_entry(call.node, i, i)
    /\ UNCHANGED <<nrec, ret, rng>>

\* The recursive delete_entry, from coalesce_nodes, on an internal node.
delete_entry_in_parent ==
    /\ call.pc = "delete_entry"
    /\ \E ki \in 1..Len(heap[call.node].keys), pi \in 1..Len(heap[call.node].kids) :
          /\ FirstIndex(heap[call.node].keys, call.key, ki)
          /\ FirstIndex(heap[call.node].kids, call.right, pi)
          /\ delete_entry(call.node, ki, pi)
    /\ UNCHANGED <<nrec, ret, rng>>

\* Mutant: the merged nodes are not given back to the slab.
delete_return_no_free ==
    /\ call.pc = "return"
    /\ doomed' = {}
    /\ nrec' = nrec - 1
    /\ call' = Idle
    /\ UNCHANGED <<root, heap, free, ret, rng>>

\* The activations of coalesce_nodes return, each freeing its node, and
\* delete frees the record.
delete_return ==
    /\ call.pc = "return"
    /\ heap' = [n \in Node |-> IF n \in doomed THEN Blank ELSE heap[n]]
    /\ free' = free \cup doomed
    /\ doomed' = {}
    /\ nrec' = nrec - 1
    /\ call' = Idle
    /\ UNCHANGED <<root, ret, rng>>

Client ==
    \/ \E k \in Key : \/ \E v \in Val : Begin("insert", k, v, NULL)
                      \/ Begin("delete", k, NULL, NULL)
                      \/ Begin("find", k, NULL, NULL)
                      \/ \E hi \in Key : Begin("range", k, NULL, hi)

Step ==
    \/ find_leaf \/ find
    \/ find_range \/ find_range_scan \/ find_range_return
    \/ insert_update \/ start_new_tree \/ insert_into_leaf
    \/ insert_into_leaf_after_splitting \/ insert_into_new_root
    \/ insert_into_node \/ insert_into_node_after_splitting
    \/ delete \/ delete_entry_in_parent \/ delete_return

Next == Client \/ Step

Spec == Init /\ [][Next]_vars
-----------------------------------------------------------------------------
(***************************************************************************)
(* Properties.                                                             *)
(***************************************************************************)
Live == Node \ free
InTree == Live \ doomed
Quiet == call.pc = "idle"
Leaves == {n \in InTree : heap[n].is_leaf}
Entries == {e \in Leaves \X (1..Order) : e[2] <= Len(heap[e[1]].keys)}

NodeRec == [is_leaf : BOOLEAN, keys : Seq(Key), kids : Seq(Node), recs : Seq(Val),
            parent : Node \cup {NULL}, link : Node \cup {NULL}]

CallRec == [pc : Searching \cup {"idle", "scan", "ranged", "insert_into_parent",
                                 "delete_entry", "return"},
            key : Key \cup {NULL}, val : Val \cup {NULL}, hi : Key \cup {NULL},
            node : Node \cup {NULL}, right : Node \cup {NULL}, at : Nat]

\* The types of the state.
TypeOK ==
    /\ root \in Node \cup {NULL}
    /\ heap \in [Node -> NodeRec]
    /\ free \in SUBSET Node
    /\ doomed \in SUBSET Node
    /\ nrec \in Int
    /\ call \in CallRec
    /\ ret \in Val \cup {NULL, Void}
    /\ rng \in Seq(Key)

\* make_node allocates order - 1 keys and order pointers: no insertion, merge
\* or redistribution, at any moment, puts more into a node; an internal node
\* has one child more than keys, a leaf one record per key.
ArraysFit ==
    \A n \in InTree :
        /\ Len(heap[n].keys) <= Order - 1
        /\ IF heap[n].is_leaf
           THEN heap[n].kids = <<>> /\ Len(heap[n].recs) = Len(heap[n].keys)
           ELSE Len(heap[n].kids) = Len(heap[n].keys) + 1

\* Nodes n levels below the root, by child pointers.
Level[d \in 0..Cardinality(Node)] ==
    IF d = 0 THEN {root} \ {NULL}
    ELSE UNION {Range(heap[n].kids) : n \in Level[d - 1]}

\* Between two calls the nodes taken from the slab are those of the tree,
\* and the records taken are those of its leaves: split, merge, adjust_root
\* and delete neither lose a node or a record nor keep a freed one linked.
NoLeakNoDangling ==
    Quiet => /\ Live = UNION {Level[d] : d \in 0..Cardinality(Node)}
             /\ nrec = Cardinality(Entries)
             /\ doomed = {}

\* Between two calls every child points back to its parent and has no other
\* one, the root has none: insert_into_parent and delete_entry climb by
\* these pointers, which split, merge and redistribution have to move.
ParentsAgree ==
    Quiet => /\ \A n \in Live : \A i \in 1..Len(heap[n].kids) :
                   /\ heap[heap[n].kids[i]].parent = n
                   /\ \A j \in 1..(i - 1) : heap[n].kids[j] # heap[n].kids[i]
             /\ root # NULL => heap[root].parent = NULL

\* Between two calls no node but the root is below its minimum, and an
\* internal root has a key: what coalesce_nodes and redistribute_nodes are for.
MinOccupancy ==
    Quiet => \A n \in Live :
                Len(heap[n].keys) >= IF n = root THEN 1 ELSE min_keys(heap[n])

\* Between two calls the chain of links visits the leaves in ascending key
\* order, each once: a link leads to the leaf whose keys are next above.
LeafChain ==
    Quiet => \A n \in Leaves :
        LET ks == heap[n].keys
            above == {e \in Entries : heap[e[1]].keys[e[2]] > ks[Len(ks)]}
        IN  /\ \A i \in 1..(Len(ks) - 1) : ks[i] < ks[i + 1]
            /\ IF above = {} THEN heap[n].link = NULL
               ELSE \E e \in above :
                       /\ e = <<heap[n].link, 1>>
                       /\ \A f \in above : heap[e[1]].keys[1] <= heap[f[1]].keys[f[2]]

(***************************************************************************)
(* The dictionary the tree implements.  An operation is outstanding until  *)
(* the step that changes or reads the leaf; what follows that step moves   *)
(* entries between nodes and must not change the dictionary.               *)
(***************************************************************************)
\* The places of a key: none, or one leaf and one index.
EntriesOf(k) == {e \in Entries : heap[e[1]].keys[e[2]] = k}

\* The record of every key.
Dict == [k \in Key |-> IF EntriesOf(k) = {} THEN NULL
                       ELSE LET e == CHOOSE e \in EntriesOf(k) : TRUE
                            IN  heap[e[1]].recs[e[2]]]

\* The operation that is outstanding.
Req == IF call.pc \in Searching \ {"range"}
       THEN <<call.pc, call.key, call.val>> ELSE NULL

Map == INSTANCE OrderedMap WITH dict <- Dict, req <- Req

\* find answers with the record of the key, insert and delete change exactly
\* the entry of their key, whatever splits, merges and redistributions they
\* cause, and whatever separators earlier deletions have left behind.
ImplementsMap == Map!Spec

\* What a finished find_range has to return.
KeysBetween(lo, hi) == {heap[e[1]].keys[e[2]] : e \in Entries} \cap {k \in Key : lo <= k /\ k <= hi}

\* find_range returns keys of the range in ascending order, all of them or
\* none: the scan along the chain misses nothing once it has started.
RangeSound ==
    call.pc = "ranged" =>
        /\ \A i \in 1..(Len(rng) - 1) : rng[i] < rng[i + 1]
        /\ Range(rng) \in {{}, KeysBetween(call.key, call.hi)}

\* find_range returns every key of the range, "if present" (the comment above
\* it): violated when key_start is above every key of the leaf it leads to,
\* which it is in the gap between that leaf's last key and the separator that
\* an ordinary split has put into the parent, the first key of the next leaf.
RangeComplete ==
    call.pc = "ranged" => Range(rng) = KeysBetween(call.key, call.hi)

\* Every call returns: the unbounded search of remove_entry_from_node finds what
\* it looks for, and insertions and deletions that pass to the parent end.
CallsReturn == [](call.pc # "idle" => <>(call.pc = "idle"))
=============================================================================

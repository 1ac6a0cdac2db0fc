------------------------------ MODULE BTreeInv ------------------------------
(***************************************************************************)
(* The inductive invariant of BTree: what holds of the heap between any    *)
(* two steps, in the middle of an insertion or a deletion too.  Its parts  *)
(* take the heap, the root and the set T of nodes in the tree as           *)
(* parameters, so that the proofs can use them of the heap half way        *)
(* through delete_entry.                                                   *)
(***************************************************************************)
EXTENDS BTree

Kids(h, n) == Range(h[n].kids)

\* While delete_entry is to be called for a merged node, its parent still
\* points to it; while insert_into_parent is to be called for a split one,
\* nothing points to the new node.
Dangling == IF call.pc = "delete_entry" THEN {<<call.node, call.right>>} ELSE {}
Orphan == IF call.pc = "insert_into_parent" THEN {call.right} ELSE {}

\* A node's arrays hold what they may: r is the node's contents.
ShapedNode(r) ==
    /\ Len(r.keys) <= Order - 1
    /\ r.is_leaf => r.kids = <<>> /\ Len(r.recs) = Len(r.keys)
    /\ ~r.is_leaf => Len(r.kids) = Len(r.keys) + 1

Shaped(h, T) == \A n \in T : ShapedNode(h[n])

\* Child and parent pointers agree, no child is listed twice, and every node
\* but the root and an orphan hangs in the tree.
Linked(h, rt, T, dangling, orphan) ==
    /\ rt \in T \cup {NULL}
    /\ rt # NULL => h[rt].parent = NULL
    /\ \A p \in T : IsInjective(h[p].kids)
    /\ \A p \in T : \A c \in Kids(h, p) :
          /\ h[c].parent = p
          /\ c \notin orphan
          /\ c \in T \/ <<p, c>> \in dangling
    /\ \A n \in T \ orphan :
          n # rt => h[n].parent \in T /\ n \in Kids(h, h[n].parent)

\* ht gives every node its height: the leaves are the nodes of height 0.
Graded(h, T, ht) ==
    \A p \in T :
        /\ h[p].is_leaf <=> ht[p] = 0
        /\ \A c \in Kids(h, p) : ht[p] = ht[c] + 1

Full(h, rt, T) ==
    \A n \in T : /\ Len(h[n].keys) >= 1
                 /\ n # rt => Len(h[n].keys) >= min_keys(h[n])

\* The tree inside delete_entry: remove_entry_from_node has taken an entry from
\* n, which may now be below its minimum, by one key.
Removed(h, rt, T, n, ht) ==
    /\ h \in [Node -> NodeRec]
    /\ Shaped(h, T)
    /\ Linked(h, rt, T, {}, {})
    /\ Graded(h, T, ht)
    /\ \A m \in T \ {n} : /\ Len(h[m].keys) >= 1
                          /\ m # rt => Len(h[m].keys) >= min_keys(h[m])
    /\ n # rt => Len(h[n].keys) + 1 >= min_keys(h[n])

\* The tree once the entry's removal has been dealt with; dangling is the
\* parent's pointer to a merged node, when there is one.
Tree(h, rt, T, dangling, ht) ==
    /\ h \in [Node -> NodeRec]
    /\ Shaped(h, T)
    /\ Linked(h, rt, T, dangling, {})
    /\ Full(h, rt, T)
    /\ Graded(h, T, ht)

\* n and its neighbour, as l and r in either order: two children of p.
Pair(h, rt, T, n, ht, l, r, p) ==
    /\ T \subseteq Node /\ ht \in [Node -> Nat]
    /\ Removed(h, rt, T, n, ht)
    /\ l \in T /\ r \in T /\ p \in T /\ n \in {l, r}
    /\ l # r /\ p # l /\ p # r /\ l # rt /\ r # rt
    /\ h[l].parent = p /\ h[r].parent = p
    /\ h[l].is_leaf <=> h[r].is_leaf

\* What each activation relies on.
CallOK ==
    /\ call.pc \in Searching =>
          /\ call.key \in Key
          /\ call.node \in InTree \cup {NULL}
          /\ call.node = NULL => root = NULL
    /\ call.pc = "insert" => call.val \in Val
    /\ call.pc \in {"range", "scan"} => call.hi \in Key
    /\ call.pc = "scan" => call.node \in Node /\ call.at >= 1
    /\ call.pc = "insert_into_parent" =>
          /\ call.key \in Key
          /\ call.node \in InTree
          /\ call.right \in InTree
          /\ call.node # call.right
          /\ call.right # root
          /\ heap[call.right].parent = heap[call.node].parent
          /\ Len(heap[call.node].keys) >= min_keys(heap[call.node])
    /\ call.pc = "delete_entry" =>
          /\ call.key \in Key
          /\ call.node \in InTree
          /\ call.right \in doomed
    /\ call.pc \notin {"delete_entry", "return"} => doomed = {}

HeightsOK(ht) ==
    /\ Graded(heap, InTree, ht)
    /\ call.pc = "insert_into_parent" => ht[call.node] = ht[call.right]

IndInv ==
    /\ TypeOK
    /\ CallOK
    /\ Shaped(heap, InTree)
    /\ Linked(heap, root, InTree, Dangling, Orphan)
    /\ Full(heap, root, InTree)
    /\ \E ht \in [Node -> Nat] : HeightsOK(ht)
-----------------------------------------------------------------------------
(***************************************************************************)
(* The order of the tree.  Two ghost functions give every node its span:   *)
(* node n is responsible for the keys k with lo[n] <= k, below hi[n].  The *)
(* arrays of its parent may not agree with that yet: seen[n] is the end of *)
(* the span they send to n.  It differs from hi[n] only between a split    *)
(* and insert_into_parent, and between a merge and delete_entry.           *)
(***************************************************************************)
Inf == -1                                   \* the bound above every key

Below(k, b) == b = Inf \/ k < b             \* k is in a span that ends at b
Before(b, a) == b # Inf /\ b <= a           \* a span that ends at b is before a

Ascending(ks) == \A i, j \in 1..Len(ks) : i < j => ks[i] < ks[j]

\* The keys ks of a node of span a, b.
InSpan(is_leaf, ks, a, b) ==
    /\ Below(a, b)
    /\ Ascending(ks)
    /\ \A i \in 1..Len(ks) : a <= ks[i] /\ Below(ks[i], b)
    /\ is_leaf \/ \A i \in 1..Len(ks) : a < ks[i]

\* They divide the span among its children cs.
Routes(ks, cs, a, b, lo, seen) ==
    /\ lo[cs[1]] = a
    /\ seen[cs[Len(cs)]] = b
    /\ \A i \in 1..Len(ks) : seen[cs[i]] = ks[i] /\ lo[cs[i + 1]] = ks[i]

Spans(h, T, lo, hi) == \A n \in T : InSpan(h[n].is_leaf, h[n].keys, lo[n], hi[n])

Routed(h, T, lo, hi, seen) ==
    \A p \in T : h[p].is_leaf \/ Routes(h[p].keys, h[p].kids, lo[p], hi[p], lo, seen)

Rooted(h, rt, T, lo, seen) ==
    IF rt = NULL THEN \A n \in T : ~h[n].is_leaf
    ELSE lo[rt] = 0 /\ seen[rt] = Inf

\* No key is in the spans of two leaves.
Apart(h, T, lo, hi) ==
    \A m, n \in T : h[m].is_leaf /\ h[n].is_leaf /\ m # n =>
                       Before(hi[m], lo[n]) \/ Before(hi[n], lo[m])

\* A leaf's link leads to the leaf whose span begins where its own ends.
Chained(h, T, lo, hi) ==
    \A n \in T : h[n].is_leaf =>
        IF h[n].link = NULL THEN hi[n] = Inf
        ELSE h[n].link \in T /\ h[h[n].link].is_leaf /\ hi[n] = lo[h[n].link]

Ordered(h, rt, T, lo, hi, seen) ==
    /\ Spans(h, T, lo, hi)
    /\ Routed(h, T, lo, hi, seen)
    /\ Rooted(h, rt, T, lo, seen)
    /\ Apart(h, T, lo, hi)
    /\ Chained(h, T, lo, hi)

\* What the parent's arrays do not know yet.
SplitSeen(n, r, k, lo, hi, seen) ==
    /\ hi[n] = k /\ lo[r] = k
    /\ seen = [hi EXCEPT ![n] = hi[r]]

MergeSeen(p, r, k, hi, seen) ==
    \E i \in 1..Len(p.keys) :
        /\ p.keys[i] = k /\ p.kids[i + 1] = r
        /\ hi[p.kids[i]] = hi[r]
        /\ seen = [hi EXCEPT ![p.kids[i]] = k]

Pending(lo, hi, seen) ==
    /\ call.pc = "insert_into_parent" =>
          SplitSeen(call.node, call.right, call.key, lo, hi, seen)
    /\ call.pc = "delete_entry" =>
          MergeSeen(heap[call.node], call.right, call.key, hi, seen)
    /\ call.pc \notin {"insert_into_parent", "delete_entry"} => seen = hi

\* The arrays ks and rs of a leaf hold the entry k, v; a leaf of the tree does.
Holds(ks, rs, k, v) == \E i \in 1..Len(ks) : ks[i] = k /\ rs[i] = v

Has(h, T, k, v) == \E n \in T : h[n].is_leaf /\ Holds(h[n].keys, h[n].recs, k, v)

Stored(h, T, k) == \E n \in T : h[n].is_leaf /\ k \in Range(h[n].keys)

\* A search is in a node whose span has its key; a scan has returned the keys
\* of its range that are before the leaf it is in.
Searches(lo, hi) ==
    /\ call.pc \in Searching /\ call.node # NULL =>
          lo[call.node] <= call.key /\ Below(call.key, hi[call.node])
    /\ call.pc = "scan" =>
          /\ call.node \in InTree /\ heap[call.node].is_leaf
          /\ call.key \in Key /\ call.hi \in Key
          /\ Below(call.key, hi[call.node])
          /\ \A i \in 1..Len(heap[call.node].keys) :
                i < call.at <=> heap[call.node].keys[i] < call.key
          /\ Ascending(rng)
          /\ \A k \in Key : k \in Range(rng) <=>
                /\ Stored(heap, InTree, k) /\ k < lo[call.node]
                /\ call.key <= k /\ k <= call.hi
    /\ call.pc = "ranged" =>
          /\ call.key \in Key /\ call.hi \in Key
          /\ Ascending(rng)
          /\ \/ rng = <<>>
             \/ \A k \in Key : k \in Range(rng) <=>
                   Stored(heap, InTree, k) /\ call.key <= k /\ k <= call.hi
    /\ call.pc \notin {"scan", "ranged"} => rng = <<>>

OrderOK(lo, hi, seen) ==
    /\ Ordered(heap, root, InTree, lo, hi, seen)
    /\ Pending(lo, hi, seen)
    /\ Searches(lo, hi)

\* An operation that has been called and not performed has no answer yet.
Unanswered == call.pc \in Searching => ret = Void

Bound == Nat \cup {Inf}

InOrder == \E lo \in [Node -> Nat], hi, seen \in [Node -> Bound] : OrderOK(lo, hi, seen)

OrdInv == IndInv /\ Unanswered /\ InOrder

(***************************************************************************)
(* The records taken from the slab: those of the tree, and during a        *)
(* deletion the one that delete returns to the slab last.                  *)
(***************************************************************************)
StoredKeys(h, T) == {k \in Key : Stored(h, T, k)}

Owed == IF call.pc \in {"delete_entry", "return"} THEN 1 ELSE 0

Counted ==
    /\ IsFiniteSet(StoredKeys(heap, InTree))
    /\ nrec = Cardinality(StoredKeys(heap, InTree)) + Owed
=============================================================================

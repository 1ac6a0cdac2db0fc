------------------------------ MODULE BTreeMap ------------------------------
(***************************************************************************)
(* The B+ tree implements a dictionary and loses nothing.  Every step keeps*)
(* the order of the tree (OrdInv), and changes its entries as the operation*)
(* that runs says or not at all.  Hence the chain of leaves is sorted,     *)
(* find_range returns what it should, and BTree implements OrderedMap.     *)
(* Between two calls the nodes taken from the slab are those child         *)
(* pointers reach from the root, and the records taken are those of the    *)
(* leaves.                                                                 *)
(***************************************************************************)
EXTENDS BTreeSafety, BTreeRange, FiniteSetTheorems

-----------------------------------------------------------------------------
(***************************************************************************)
(* coalesce_nodes and redistribute_nodes keep the order and the entries.   *)
(***************************************************************************)

\* l and r are children j and j + 1 of p, and the key between them is k.
Border(h, p, l, r, j, k) ==
    /\ j \in 1..Len(h[p].keys) /\ k \in Key
    /\ h[p].keys[j] = k /\ h[p].kids[j] = l /\ h[p].kids[j + 1] = r

\* What is known of two siblings and their parent.
PairFacts(h, T, lo, hi, l, r, p, k) ==
    /\ h \in [Node -> NodeRec] /\ T \in SUBSET Node
    /\ l \in T /\ r \in T /\ p \in T /\ l # r /\ p # l /\ p # r
    /\ h[l].is_leaf <=> h[r].is_leaf
    /\ h[l].keys \in Seq(Key) /\ h[l].kids \in Seq(Node) /\ h[l].recs \in Seq(Val)
    /\ h[r].keys \in Seq(Key) /\ h[r].kids \in Seq(Node) /\ h[r].recs \in Seq(Val)
    /\ h[p].keys \in Seq(Key) /\ h[p].kids \in Seq(Node)
    /\ ShapedNode(h[l]) /\ ShapedNode(h[r]) /\ Shaped(h, T)
    /\ ~h[p].is_leaf /\ Len(h[p].kids) = Len(h[p].keys) + 1
    /\ IsInjective(h[p].kids)
    /\ Kids(h, l) \cup Kids(h, r) \subseteq T \ {l, r, p}
    /\ \A q \in T \ {p} : l \notin Kids(h, q) /\ r \notin Kids(h, q)
    /\ hi[l] = k /\ lo[r] = k /\ k \in Nat
    /\ lo[l] \in Nat /\ hi[r] \in Bound
    /\ InSpan(h[l].is_leaf, h[l].keys, lo[l], k)
    /\ InSpan(h[r].is_leaf, h[r].keys, k, hi[r])

\* They follow from the shape of the tree and its order.
LEMMA PairKnown ==
  ASSUME NEW h, NEW rt, NEW T, NEW n, NEW ht, NEW l, NEW r, NEW p,
         Pair(h, rt, T, n, ht, l, r, p), NEW j, NEW k, Border(h, p, l, r, j, k),
         NEW lo \in [Node -> Nat], NEW hi \in [Node -> Bound], Ordered(h, rt, T, lo, hi, hi)
  PROVE  PairFacts(h, T, lo, hi, l, r, p, k)
<1>1. /\ h \in [Node -> NodeRec] /\ T \in SUBSET Node
      /\ l \in T /\ r \in T /\ p \in T /\ l # r /\ p # l /\ p # r
      /\ h[l].is_leaf <=> h[r].is_leaf
      /\ h[l].parent = p /\ h[r].parent = p
      /\ Linked(h, rt, T, {}, {}) /\ Shaped(h, T)
  BY DEF Pair, Removed
<1>2. h[l] \in NodeRec /\ h[r] \in NodeRec /\ h[p] \in NodeRec
  BY <1>1
<1>3. /\ h[l].keys \in Seq(Key) /\ h[l].kids \in Seq(Node) /\ h[l].recs \in Seq(Val)
      /\ h[r].keys \in Seq(Key) /\ h[r].kids \in Seq(Node) /\ h[r].recs \in Seq(Val)
      /\ h[p].keys \in Seq(Key) /\ h[p].kids \in Seq(Node)
  BY <1>2 DEF NodeRec
<1>4. ShapedNode(h[l]) /\ ShapedNode(h[r]) /\ ShapedNode(h[p])
  BY <1>1 DEF Shaped
<1>5. l \in Kids(h, p)
  BY <1>1 DEF Linked, Pair
<1>6. ~h[p].is_leaf
  <2>1. SUFFICES ASSUME h[p].is_leaf PROVE FALSE
    OBVIOUS
  <2>2. h[p].kids = <<>>
    BY <1>4, <2>1 DEF ShapedNode
  <2>3. Kids(h, p) = {}
    BY <2>2, NoKids
  <2>. QED BY <1>5, <2>3
<1>7. Len(h[p].kids) = Len(h[p].keys) + 1
  BY <1>4, <1>6 DEF ShapedNode
<1>8. IsInjective(h[p].kids)
  BY <1>1 DEF Linked
<1>9. Kids(h, l) \cup Kids(h, r) \subseteq T \ {l, r, p}
  BY SiblingKids
<1>10. \A q \in T \ {p} : l \notin Kids(h, q) /\ r \notin Kids(h, q)
  BY <1>1 DEF Linked
<1>11. hi[l] = k /\ lo[r] = k /\ k \in Nat
  <2>1. Routes(h[p].keys, h[p].kids, lo[p], hi[p], lo, hi)
    BY <1>1, <1>6 DEF Ordered, Routed
  <2>2. \A i \in 1..Len(h[p].keys) : hi[h[p].kids[i]] = h[p].keys[i] /\ lo[h[p].kids[i + 1]] = h[p].keys[i]
    BY <2>1 DEF Routes
  <2>. QED BY <2>2, KeyAssumption DEF Border
<1>12. /\ InSpan(h[l].is_leaf, h[l].keys, lo[l], hi[l])
       /\ InSpan(h[r].is_leaf, h[r].keys, lo[r], hi[r])
  BY <1>1 DEF Ordered, Spans
<1>13. lo[l] \in Nat /\ hi[r] \in Bound
  BY <1>1
<1>14. /\ InSpan(h[l].is_leaf, h[l].keys, lo[l], k)
       /\ InSpan(h[r].is_leaf, h[r].keys, k, hi[r])
  BY <1>11, <1>12
<1>. QED BY <1>1, <1>3, <1>4, <1>6, <1>7, <1>8, <1>9, <1>10, <1>11, <1>13, <1>14 DEF PairFacts

\* The contents of the merged node, in its span, with its children.
LEMMA JoinedSpan ==
  ASSUME NEW h, NEW T, NEW lo, NEW hi, NEW l, NEW r, NEW p, NEW k \in Key,
         PairFacts(h, T, lo, hi, l, r, p, k), Routed(h, T, lo, hi, hi), NEW mg, mg = Joined(h, l, r, k)
  PROVE  /\ InSpan(mg.is_leaf, mg.keys, lo[l], hi[r])
         /\ mg.is_leaf \/ Routes(mg.keys, mg.kids, lo[l], hi[r], lo, hi)
         /\ mg.is_leaf <=> h[l].is_leaf
         /\ h[l].is_leaf => mg.link = h[r].link
         /\ h[l].is_leaf => \A x, v : Holds(mg.keys, mg.recs, x, v) <=>
                               \/ Holds(h[l].keys, h[l].recs, x, v)
                               \/ Holds(h[r].keys, h[r].recs, x, v)
<1>1. h[l] \in NodeRec
  BY DEF PairFacts
<1>a. PICK kl \in Seq(Key), kr \in Seq(Key) : kl = h[l].keys /\ kr = h[r].keys
  BY DEF PairFacts
<1>b. PICK cl \in Seq(Node), cr \in Seq(Node) : cl = h[l].kids /\ cr = h[r].kids
  BY DEF PairFacts
<1>c. PICK rl \in Seq(Val), rr \in Seq(Val) : rl = h[l].recs /\ rr = h[r].recs
  BY DEF PairFacts
<1>d. PICK a \in Nat, b \in Bound : a = lo[l] /\ b = hi[r] /\ k \in Nat
  BY DEF PairFacts
<1>2. CASE h[l].is_leaf
  <2>1. PICK u : u = kl \o kr
    OBVIOUS
  <2>2. PICK ur : ur = rl \o rr
    OBVIOUS
  <2>3. mg = [h[l] EXCEPT !.keys = u, !.recs = ur, !.link = h[r].link]
    BY <1>2, <1>a, <1>c, <2>1, <2>2 DEF Joined
  <2>4. mg.keys = u /\ mg.recs = ur /\ mg.link = h[r].link
    BY <1>1, <2>3 DEF NodeRec
  <2>5. mg.is_leaf
    BY <1>1, <1>2, <2>3 DEF NodeRec
  <2>6. u \in Seq(Key) /\ Cat(u, kl, kr)
    BY <2>1, ConcatIs
  <2>7. ur \in Seq(Val) /\ Cat(ur, rl, rr)
    BY <2>2, ConcatIs
  <2>8. InSpan(TRUE, kl, a, k) /\ InSpan(TRUE, kr, k, b)
    BY <1>2, <1>a, <1>d DEF PairFacts, InSpan
  <2>9. /\ Len(u) = Len(kl) + Len(kr)
        /\ \A i \in 1..Len(kl) : u[i] = kl[i]
        /\ \A i \in 1..Len(kr) : u[Len(kl) + i] = kr[i]
    BY <2>6 DEF Cat
  <2>10. InSpan(TRUE, u, a, b)
    BY ONLY <1>d, <2>6, <2>8, <2>9, JoinLeafSpan, a \in Nat, b \in Bound, kl \in Seq(Key), kr \in Seq(Key)
  <2>11. InSpan(mg.is_leaf, mg.keys, a, b)
    BY <2>4, <2>5, <2>10 DEF InSpan
  <2>12. Len(rl) = Len(kl) /\ Len(rr) = Len(kr)
    BY <1>2, <1>a, <1>c DEF PairFacts, ShapedNode
  <2>13. ASSUME NEW x, NEW v
         PROVE  Holds(mg.keys, mg.recs, x, v) <=> \/ Holds(kl, rl, x, v)
                                                  \/ Holds(kr, rr, x, v)
    BY <2>4, <2>6, <2>7, <2>12, HoldsCat
  <2>. QED BY <1>2, <1>a, <1>c, <1>d, <2>4, <2>5, <2>11, <2>13
<1>3. CASE ~h[l].is_leaf
  <2>1. PICK u : u = kl \o <<k>> \o kr
    OBVIOUS
  <2>2. PICK cu : cu = cl \o cr
    OBVIOUS
  <2>3. mg = [h[l] EXCEPT !.keys = u, !.kids = cu]
    BY <1>3, <1>a, <1>b, <2>1, <2>2 DEF Joined
  <2>4. mg.keys = u /\ mg.kids = cu
    BY <1>1, <2>3 DEF NodeRec
  <2>5. ~mg.is_leaf
    BY <1>1, <1>3, <2>3 DEF NodeRec
  <2>6. u \in Seq(Key) /\ Cat3(u, kl, k, kr)
    BY <2>1, Concat3Is
  <2>7. cu \in Seq(Node) /\ Cat(cu, cl, cr)
    BY <2>2, ConcatIs
  <2>8. ~h[r].is_leaf /\ l \in T /\ r \in T
    BY <1>3 DEF PairFacts
  <2>9. InSpan(FALSE, kl, a, k) /\ InSpan(FALSE, kr, k, b)
    BY <1>3, <1>a, <1>d, <2>8 DEF PairFacts, InSpan
  <2>10. /\ Len(u) = Len(kl) + 1 + Len(kr)
         /\ \A i \in 1..Len(kl) : u[i] = kl[i]
         /\ u[Len(kl) + 1] = k
         /\ \A i \in 1..Len(kr) : u[Len(kl) + 1 + i] = kr[i]
    BY <2>6 DEF Cat3
  <2>11. InSpan(FALSE, u, a, b)
    BY ONLY <1>d, <2>6, <2>9, <2>10, JoinNodeSpan, a \in Nat, b \in Bound, kl \in Seq(Key), kr \in Seq(Key)
  <2>12. InSpan(mg.is_leaf, mg.keys, a, b)
    BY <2>4, <2>5, <2>11 DEF InSpan
  <2>13. /\ Routes(kl, cl, a, k, lo, hi)
         /\ Routes(kr, cr, k, b, lo, hi)
    BY <1>3, <1>a, <1>b, <1>d, <2>8 DEF Routed, PairFacts
  <2>14. Len(cl) = Len(kl) + 1 /\ Len(cr) = Len(kr) + 1
    BY <1>3, <1>a, <1>b, <2>8 DEF PairFacts, ShapedNode
  <2>16. Routes(u, cu, a, b, lo, hi)
    BY ONLY <2>6, <2>7, <2>13, <2>14, RoutesJoin, kl \in Seq(Key), kr \in Seq(Key),
            cl \in Seq(Node), cr \in Seq(Node)
  <2>. QED BY <1>3, <1>d, <2>4, <2>5, <2>12, <2>16
<1>. QED BY <1>2, <1>3

\* coalesce_nodes: l has the keys and the span of both.
LEMMA MergeOrder ==
  ASSUME NEW h, NEW rt, NEW T, NEW n, NEW ht, NEW l, NEW r, NEW p,
         Pair(h, rt, T, n, ht, l, r, p), NEW j, NEW k \in Key, Border(h, p, l, r, j, k),
         NEW lo \in [Node -> Nat], NEW hi \in [Node -> Bound], Ordered(h, rt, T, lo, hi, hi),
         NEW g \in [Node -> NodeRec], NEW mg, mg = Joined(h, l, r, k), Carries(g, l, mg),
         \A m \in Node \ {l} : Alike(h, g, m), NEW hi2, hi2 = [hi EXCEPT ![l] = hi[r]]
  PROVE  /\ Ordered(g, rt, T \ {r}, lo, hi2, hi)
         /\ MergeSeen(g[p], r, k, hi2, hi)
         /\ SameEntries(h, T, g, T \ {r})
<1>1. PairFacts(h, T, lo, hi, l, r, p, k)
  BY PairKnown
<1>2. /\ h \in [Node -> NodeRec] /\ T \in SUBSET Node
      /\ l \in T /\ r \in T /\ p \in T /\ l # r /\ p # l /\ p # r
      /\ h[l].is_leaf <=> h[r].is_leaf
      /\ Shaped(h, T) /\ hi[l] = k /\ lo[r] = k
  BY <1>1 DEF PairFacts
<1>3. /\ Spans(h, T, lo, hi) /\ Routed(h, T, lo, hi, hi) /\ Rooted(h, rt, T, lo, hi)
      /\ Apart(h, T, lo, hi) /\ Chained(h, T, lo, hi)
  BY DEF Ordered
<1>4. /\ InSpan(mg.is_leaf, mg.keys, lo[l], hi[r])
      /\ mg.is_leaf \/ Routes(mg.keys, mg.kids, lo[l], hi[r], lo, hi)
      /\ mg.is_leaf <=> h[l].is_leaf
      /\ h[l].is_leaf => mg.link = h[r].link
      /\ h[l].is_leaf => \A x, v : Holds(mg.keys, mg.recs, x, v) <=>
                            \/ Holds(h[l].keys, h[l].recs, x, v)
                            \/ Holds(h[r].keys, h[r].recs, x, v)
  BY <1>1, <1>3, JoinedSpan
<1>5. hi2[l] = hi[r] /\ \A m \in Node \ {l} : hi2[m] = hi[m]
  BY <1>2
<1>6. g[l].keys = mg.keys /\ g[l].kids = mg.kids /\ g[l].recs = mg.recs /\ g[l].link = mg.link
      /\ (g[l].is_leaf <=> mg.is_leaf)
  BY DEF Carries
<1>7. Spans(g, T \ {r}, lo, hi2) /\ Routed(g, T \ {r}, lo, hi2, hi)
  <2>1. InSpan(g[l].is_leaf, g[l].keys, lo[l], hi2[l])
    BY <1>4, <1>5, <1>6 DEF InSpan
  <2>2. g[l].is_leaf \/ Routes(g[l].keys, g[l].kids, lo[l], hi2[l], lo, hi)
    BY <1>4, <1>5, <1>6
  <2>3. PICK S : S = {l}
    OBVIOUS
  <2>4. PICK T2 \in SUBSET Node : T2 = T \ {r}
    BY <1>2
  <2>5. \A m \in T2 \ S : m \in T /\ Alike(h, g, m) /\ lo[m] = lo[m] /\ hi2[m] = hi[m]
    BY <1>2, <1>5, <2>3, <2>4
  <2>6. \A m \in T2 \ S : \A c \in Kids(h, m) : lo[c] = lo[c] /\ hi[c] = hi[c]
    OBVIOUS
  <2>7. \A m \in T2 \cap S : InSpan(g[m].is_leaf, g[m].keys, lo[m], hi2[m])
    BY <2>1, <2>3
  <2>8. \A m \in T2 \cap S : g[m].is_leaf \/ Routes(g[m].keys, g[m].kids, lo[m], hi2[m], lo, hi)
    BY <2>2, <2>3
  <2>9. h \in [Node -> NodeRec] /\ T \in SUBSET Node /\ Shaped(h, T)
    BY <1>2
  <2>10. Spans(g, T2, lo, hi2) /\ Routed(g, T2, lo, hi2, hi)
    BY ONLY <1>3, <2>5, <2>6, <2>7, <2>8, <2>9, SpansKept, g \in [Node -> NodeRec], T2 \in SUBSET Node
  <2>. QED BY <2>4, <2>10
<1>8. \A m \in Node : g[m].is_leaf <=> h[m].is_leaf
  <2>1. ASSUME NEW m \in Node PROVE g[m].is_leaf <=> h[m].is_leaf
    <3>1. CASE m = l
      BY <1>4, <1>6, <3>1
    <3>2. CASE m # l
      BY <3>2 DEF Alike
    <3>. QED BY <3>1, <3>2
  <2>. QED BY <2>1
<1>9. Rooted(g, rt, T \ {r}, lo, hi)
  BY <1>2, <1>3, <1>8 DEF Rooted
<1>10. Apart(g, T \ {r}, lo, hi2) /\ Chained(g, T \ {r}, lo, hi2) /\ SameEntries(h, T, g, T \ {r})
  <2>1. CASE h[l].is_leaf
    <3>1. \A m \in T : Below(lo[m], hi[m])
      BY <1>3, SpanBelow
    <3>2. /\ \A m \in T : g[m].is_leaf <=> h[m].is_leaf
          /\ \A m \in T \ {l} : g[m].link = h[m].link
          /\ g[l].link = h[r].link /\ h[r].is_leaf
      BY <1>2, <1>4, <1>6, <1>8, <2>1 DEF Alike
    <3>3. Apart(g, T \ {r}, lo, hi2) /\ Chained(g, T \ {r}, lo, hi2)
      BY <1>2, <1>3, <2>1, <3>1, <3>2, MergeChain
    <3>4. ASSUME NEW x, NEW v PROVE Has(g, T \ {r}, x, v) <=> Has(h, T, x, v)
      <4>1. Holds(g[l].keys, g[l].recs, x, v) <=> \/ Holds(h[l].keys, h[l].recs, x, v)
                                                  \/ Holds(h[r].keys, h[r].recs, x, v)
        BY <1>4, <1>6, <2>1
      <4>2. \A m \in T \ {l, r} : g[m].keys = h[m].keys /\ g[m].recs = h[m].recs
        BY <1>2 DEF Alike
      <4>. QED BY <1>2, <2>1, <3>2, <4>1, <4>2 DEF Has
    <3>. QED BY <3>3, <3>4 DEF SameEntries
  <2>2. CASE ~h[l].is_leaf
    <3>1. ~h[r].is_leaf
      BY <1>2, <2>2
    <3>2. SameLeaves(h, T, g, T \ {r})
      BY <1>2, <1>8, <2>2, <3>1 DEF SameLeaves
    <3>3. SameSpans(h, T, lo, hi, lo, hi2)
      BY <1>2, <1>5, <2>2 DEF SameSpans
    <3>4. Apart(h, T, lo, hi) /\ Chained(h, T, lo, hi)
      BY <1>3
    <3>. QED BY ONLY <3>2, <3>3, <3>4, LeavesKept
  <2>. QED BY <2>1, <2>2
<1>11. MergeSeen(g[p], r, k, hi2, hi)
  <2>1. g[p].keys = h[p].keys /\ g[p].kids = h[p].kids
    BY <1>2 DEF Alike
  <2>2. hi = [hi2 EXCEPT ![l] = k]
    BY <1>2
  <2>3. hi2[l] = hi2[r]
    BY <1>2, <1>5
  <2>. QED BY <2>1, <2>2, <2>3 DEF MergeSeen, Border
<1>12. Ordered(g, rt, T \ {r}, lo, hi2, hi)
  BY <1>7, <1>9, <1>10 DEF Ordered
<1>. QED BY <1>10, <1>11, <1>12

\* g has the entries and the children of the siblings l and r divided at x.
Divides(h, g, l, r, x, lo, hi) ==
    /\ x \in Key
    /\ g[l].is_leaf <=> h[l].is_leaf
    /\ g[r].is_leaf <=> h[r].is_leaf
    /\ g[l].link = h[l].link /\ g[r].link = h[r].link
    /\ InSpan(g[l].is_leaf, g[l].keys, lo[l], x)
    /\ InSpan(g[r].is_leaf, g[r].keys, x, hi[r])
    /\ g[l].is_leaf \/ Routes(g[l].keys, g[l].kids, lo[l], x, lo, hi)
    /\ g[r].is_leaf \/ Routes(g[r].keys, g[r].kids, x, hi[r], lo, hi)
    /\ Kids(g, l) \cup Kids(g, r) \subseteq Kids(h, l) \cup Kids(h, r)
    /\ ShapedNode(g[l]) /\ ShapedNode(g[r])
    /\ h[l].is_leaf => \A y, v :
          (Holds(g[l].keys, g[l].recs, y, v) \/ Holds(g[r].keys, g[r].recs, y, v))
             <=> (Holds(h[l].keys, h[l].recs, y, v) \/ Holds(h[r].keys, h[r].recs, y, v))

\* The border between the spans of l and r moves to x.
Moves(lo, hi, l, r, x, lo2, hi2) == lo2 = [lo EXCEPT ![r] = x] /\ hi2 = [hi EXCEPT ![l] = x]

\* The parent's array with the new separator x between l and r.
LEMMA NewSeparator ==
  ASSUME NEW h, NEW T, NEW lo \in [Node -> Nat], NEW hi \in [Node -> Bound], NEW l, NEW r, NEW p, NEW k,
         PairFacts(h, T, lo, hi, l, r, p, k), Routed(h, T, lo, hi, hi), Spans(h, T, lo, hi),
         NEW j, Border(h, p, l, r, j, k), NEW x \in Key, lo[l] < x, Below(x, hi[r]),
         NEW ks \in Seq(Key), Replaced(ks, h[p].keys, j, x), NEW lo2, NEW hi2, Moves(lo, hi, l, r, x, lo2, hi2)
  PROVE  /\ InSpan(FALSE, ks, lo2[p], hi2[p])
         /\ Routes(ks, h[p].kids, lo2[p], hi2[p], lo2, hi2)
<1>1. PICK kp \in Seq(Key), cp \in Seq(Node) : kp = h[p].keys /\ cp = h[p].kids
  BY DEF PairFacts
<1>2. /\ Len(cp) = Len(kp) + 1 /\ Len(kp) \in Nat /\ j \in 1..Len(kp)
      /\ cp[j] = l /\ cp[j + 1] = r
  BY <1>1 DEF PairFacts, Border
<1>3. \A a, b \in 1..Len(cp) : cp[a] = cp[b] => a = b
  BY <1>1, Injective DEF PairFacts
<1>4. Replaced(ks, kp, j, x)
  BY <1>1
<1>5. /\ l \in Node /\ r \in Node /\ p \in Node /\ p # l /\ p # r /\ l # r
      /\ ~h[p].is_leaf /\ p \in T
  BY DEF PairFacts
<1>6. /\ lo2[r] = x /\ \A m \in Node \ {r} : lo2[m] = lo[m]
      /\ hi2[l] = x /\ \A m \in Node \ {l} : hi2[m] = hi[m]
  BY <1>5 DEF Moves
<1>7. PICK a \in Nat, b \in Bound : a = lo[p] /\ b = hi[p]
  BY <1>5
<1>8. Routes(kp, cp, a, b, lo, hi) /\ InSpan(FALSE, kp, a, b)
  BY <1>1, <1>5, <1>7 DEF Routed, Spans, InSpan
<1>9. \A i \in 1..Len(cp) : cp[i] \in Node
  BY <1>1
<1>10. Routes(ks, cp, a, b, lo2, hi2)
  <2>1. hi2[cp[j]] = x /\ lo2[cp[j + 1]] = x
    BY <1>2, <1>6
  <2>2. \A i \in 1..Len(cp) : i # j => hi2[cp[i]] = hi[cp[i]]
    BY <1>2, <1>3, <1>6, <1>9
  <2>3. \A i \in 1..Len(cp) : i # j + 1 => lo2[cp[i]] = lo[cp[i]]
    BY <1>2, <1>3, <1>6, <1>9
  <2>4. MeetAt(cp, j, x, lo, hi, lo2, hi2)
    BY <2>1, <2>2, <2>3 DEF MeetAt
  <2>. QED BY ONLY <1>2, <1>4, <1>8, <2>4, RoutesReplace, kp \in Seq(Key), cp \in Seq(Node),
              ks \in Seq(Key), x \in Key
<1>11. InSpan(FALSE, ks, a, b)
  <2>1. /\ lo[l] \in Nat /\ a <= lo[l]
        /\ \A i \in 1..Len(kp) : i < j => kp[i] <= lo[l]
    <3>1. j \in 1..Len(cp)
      BY <1>2
    <3>. QED BY ONLY <1>2, <1>8, <3>1, RouteBounds, kp \in Seq(Key), cp \in Seq(Node), a \in Nat, b \in Bound
  <2>2. /\ \A i \in 1..Len(kp) : j + 1 <= i => Before(hi[r], kp[i])
        /\ \A y \in Nat : Below(y, hi[r]) => Below(y, b)
    <3>1. j + 1 \in 1..Len(cp)
      BY <1>2
    <3>2. PICK q \in 1..Len(cp) : q = j + 1
      BY <3>1
    <3>3. /\ \A i \in 1..Len(kp) : q <= i => Before(hi[cp[q]], kp[i])
          /\ \A y \in Nat : Below(y, hi[cp[q]]) => Below(y, b)
      BY ONLY <1>2, <1>8, RouteBounds, kp \in Seq(Key), cp \in Seq(Node), a \in Nat, b \in Bound, q \in 1..Len(cp)
    <3>. QED BY <1>2, <3>2, <3>3
  <2>3. x \in Nat /\ \A i \in 1..Len(kp) : kp[i] \in Nat
    BY KeyAssumption, KeyNat
  <2>4. a < x /\ Below(x, b)
    BY <2>1, <2>2, <2>3
  <2>5. hi[r] \in Bound
    BY <1>5
  <2>6. Fitting(kp, j, x)
    <3>1. ASSUME NEW i \in 1..Len(kp), i < j PROVE kp[i] < x
      <4>1. kp[i] <= lo[l] /\ lo[l] < x
        BY <2>1, <3>1
      <4>2. kp[i] \in Nat /\ lo[l] \in Nat /\ x \in Nat
        BY <2>1, <2>3
      <4>. QED BY ONLY <4>1, <4>2
    <3>2. ASSUME NEW i \in 1..Len(kp), j < i PROVE x < kp[i]
      <4>1. j + 1 <= i
        BY <1>2, <3>2
      <4>2. Before(hi[r], kp[i])
        BY <2>2, <4>1
      <4>. QED BY <2>3, <2>5, <4>2 DEF Before, Below, Bound, Inf
    <3>. QED BY <3>1, <3>2 DEF Fitting
  <2>. QED BY ONLY <1>2, <1>4, <1>8, <2>4, <2>6, ReplaceSpan, kp \in Seq(Key), a \in Nat, b \in Bound,
              ks \in Seq(Key), x \in Key
<1>. QED BY <1>1, <1>5, <1>6, <1>7, <1>10, <1>11

\* In g the separator of l and r is x, and the other nodes are those of h.
Separates(h, g, l, r, p, j, x) ==
    /\ g[p].keys = [h[p].keys EXCEPT ![j] = x]
    /\ g[p].kids = h[p].kids /\ g[p].link = h[p].link /\ ~g[p].is_leaf
    /\ \A m \in Node \ {l, r, p} : Alike(h, g, m)

\* redistribute_nodes: l and r with their entries divided at x.
LEMMA ShiftOrder ==
  ASSUME NEW h, NEW rt, NEW T, NEW n, NEW ht, NEW l, NEW r, NEW p,
         Pair(h, rt, T, n, ht, l, r, p), NEW j, NEW k \in Key, Border(h, p, l, r, j, k),
         NEW lo \in [Node -> Nat], NEW hi \in [Node -> Bound], Ordered(h, rt, T, lo, hi, hi),
         NEW g \in [Node -> NodeRec], NEW x, Divides(h, g, l, r, x, lo, hi),
         Separates(h, g, l, r, p, j, x), NEW lo2, NEW hi2, Moves(lo, hi, l, r, x, lo2, hi2)
  PROVE  Ordered(g, rt, T, lo2, hi2, hi2) /\ SameEntries(h, T, g, T)
<1>1. PairFacts(h, T, lo, hi, l, r, p, k)
  BY PairKnown
<1>2. /\ h \in [Node -> NodeRec] /\ T \in SUBSET Node
      /\ l \in T /\ r \in T /\ p \in T /\ l # r /\ p # l /\ p # r
      /\ h[l].is_leaf <=> h[r].is_leaf
      /\ Shaped(h, T) /\ hi[l] = k /\ lo[r] = k /\ ~h[p].is_leaf
      /\ Kids(h, l) \cup Kids(h, r) \subseteq T \ {l, r, p}
      /\ \A q \in T \ {p} : l \notin Kids(h, q) /\ r \notin Kids(h, q)
  BY <1>1 DEF PairFacts
<1>3. /\ Spans(h, T, lo, hi) /\ Routed(h, T, lo, hi, hi) /\ Rooted(h, rt, T, lo, hi)
      /\ Apart(h, T, lo, hi) /\ Chained(h, T, lo, hi)
  BY DEF Ordered
<1>4. /\ lo2[r] = x /\ \A m \in Node \ {r} : lo2[m] = lo[m]
      /\ hi2[l] = x /\ \A m \in Node \ {l} : hi2[m] = hi[m]
  BY <1>2 DEF Moves
<1>5. x \in Key /\ x \in Nat /\ lo[l] < x /\ Below(x, hi[r])
  <2>1. x \in Key /\ x \in Nat
    BY KeyAssumption DEF Divides
  <2>2. Below(lo[l], x) /\ Below(x, hi[r])
    BY DEF Divides, InSpan
  <2>. QED BY <2>1, <2>2 DEF Below, Inf
<1>6. InSpan(FALSE, g[p].keys, lo2[p], hi2[p]) /\ Routes(g[p].keys, g[p].kids, lo2[p], hi2[p], lo2, hi2)
  <2>1. PICK ks \in Seq(Key) : ks = g[p].keys
    BY <1>2 DEF NodeRec
  <2>2. Replaced(ks, h[p].keys, j, x) /\ Moves(lo, hi, l, r, x, lo2, hi2)
    BY <1>1, <2>1 DEF Separates, Replaced, PairFacts, Border
  <2>3. /\ InSpan(FALSE, ks, lo2[p], hi2[p])
        /\ Routes(ks, h[p].kids, lo2[p], hi2[p], lo2, hi2)
    BY ONLY <1>1, <1>3, <1>5, <2>2, NewSeparator, Border(h, p, l, r, j, k), lo \in [Node -> Nat],
            hi \in [Node -> Bound], ks \in Seq(Key)
  <2>. QED BY <2>1, <2>3 DEF Separates
<1> USE DEF Separates, Moves
<1>7. ASSUME NEW m \in {l, r}, NEW a, NEW b, g[m].is_leaf \/ Routes(g[m].keys, g[m].kids, a, b, lo, hi)
      PROVE  g[m].is_leaf \/ Routes(g[m].keys, g[m].kids, a, b, lo2, hi2)
  <2>1. SUFFICES ASSUME ~g[m].is_leaf PROVE Routes(g[m].keys, g[m].kids, a, b, lo2, hi2)
    OBVIOUS
  <2>2. PICK ks \in Seq(Key), cs \in Seq(Node) : ks = g[m].keys /\ cs = g[m].kids
    BY <1>2 DEF NodeRec
  <2>3. Len(cs) = Len(ks) + 1
    BY <2>1, <2>2 DEF Divides, ShapedNode
  <2>4. \A c \in Range(cs) : c \in T /\ c # l /\ c # r
    BY <1>2, <2>2 DEF Divides, Kids
  <2>5. \A c \in Range(cs) : lo2[c] = lo[c] /\ hi2[c] = hi[c]
    BY <1>2, <1>4, <2>4
  <2>6. Routes(ks, cs, a, b, lo, hi)
    BY <1>7, <2>1, <2>2
  <2>7. Routes(ks, cs, a, b, lo2, hi2)
    BY ONLY <2>3, <2>5, <2>6, RoutesSame, ks \in Seq(Key), cs \in Seq(Node)
  <2>. QED BY <2>2, <2>7
<1>8. Spans(g, T, lo2, hi2) /\ Routed(g, T, lo2, hi2, hi2)
  <2>1. /\ InSpan(g[l].is_leaf, g[l].keys, lo2[l], hi2[l])
        /\ InSpan(g[r].is_leaf, g[r].keys, lo2[r], hi2[r])
    BY <1>2, <1>4 DEF Divides
  <2>2. /\ g[l].is_leaf \/ Routes(g[l].keys, g[l].kids, lo2[l], hi2[l], lo2, hi2)
        /\ g[r].is_leaf \/ Routes(g[r].keys, g[r].kids, lo2[r], hi2[r], lo2, hi2)
    BY <1>2, <1>4, <1>7 DEF Divides
  <2>3. PICK S : S = {l, r, p}
    OBVIOUS
  <2>4. \A m \in T \ S : m \in T /\ Alike(h, g, m) /\ lo2[m] = lo[m] /\ hi2[m] = hi[m]
    BY <1>2, <1>4, <2>3
  <2>5. \A m \in T \ S : \A c \in Kids(h, m) : lo2[c] = lo[c] /\ hi2[c] = hi[c]
    <3>1. ASSUME NEW m \in T \ S, NEW c \in Kids(h, m) PROVE c \in Node /\ c # l /\ c # r
      BY <1>2, <2>3, <3>1, KidsAreNodes
    <3>. QED BY <1>4, <3>1
  <2>6. InSpan(g[p].is_leaf, g[p].keys, lo2[p], hi2[p])
    BY <1>6 DEF InSpan
  <2>7. \A m \in T \cap S : InSpan(g[m].is_leaf, g[m].keys, lo2[m], hi2[m])
    BY <2>1, <2>3, <2>6
  <2>8. \A m \in T \cap S : g[m].is_leaf \/ Routes(g[m].keys, g[m].kids, lo2[m], hi2[m], lo2, hi2)
    BY <1>6, <2>2, <2>3
  <2>9. h \in [Node -> NodeRec] /\ T \in SUBSET Node /\ Shaped(h, T)
    BY <1>2
  <2>. QED BY ONLY <1>3, <2>4, <2>5, <2>7, <2>8, <2>9, SpansKept, g \in [Node -> NodeRec]
<1>9. \A m \in Node : g[m].is_leaf <=> h[m].is_leaf
  <2>1. ASSUME NEW m \in Node PROVE g[m].is_leaf <=> h[m].is_leaf
    <3>1. CASE m \in {l, r, p}
      BY <1>2, <3>1 DEF Divides
    <3>2. CASE m \notin {l, r, p}
      BY <3>2 DEF Alike
    <3>. QED BY <3>1, <3>2
  <2>. QED BY <2>1
<1>10. Rooted(g, rt, T, lo2, hi2)
  <2>1. l # rt /\ r # rt /\ rt \in T \cup {NULL}
    BY DEF Pair, Removed, Linked
  <2>. QED BY <1>2, <1>3, <1>4, <1>9, <2>1 DEF Rooted
<1>11. Apart(g, T, lo2, hi2) /\ Chained(g, T, lo2, hi2) /\ SameEntries(h, T, g, T)
  <2>1. CASE h[l].is_leaf
    <3>1. \A m \in T : Below(lo[m], hi[m])
      BY <1>3, SpanBelow
    <3>2. \A m \in T : (g[m].is_leaf <=> h[m].is_leaf) /\ g[m].link = h[m].link
      BY <1>2, <1>9 DEF Alike, Divides
    <3>5. h[l].is_leaf /\ h[r].is_leaf /\ hi[l] = lo[r]
      BY <1>2, <2>1
    <3>9. Apart(g, T, lo2, hi2) /\ Chained(g, T, lo2, hi2)
      BY ONLY <1>2, <1>3, <1>5, <3>1, <3>2, <3>5, ShiftChain, lo \in [Node -> Nat],
            hi \in [Node -> Bound], lo2 = [lo EXCEPT ![r] = x], hi2 = [hi EXCEPT ![l] = x]
    <3>10. ASSUME NEW y, NEW v PROVE Has(g, T, y, v) <=> Has(h, T, y, v)
      <4>1. (Holds(g[l].keys, g[l].recs, y, v) \/ Holds(g[r].keys, g[r].recs, y, v))
              <=> (Holds(h[l].keys, h[l].recs, y, v) \/ Holds(h[r].keys, h[r].recs, y, v))
        BY <2>1 DEF Divides
      <4>2. \A m \in T \ {l, r, p} : g[m].keys = h[m].keys /\ g[m].recs = h[m].recs
        BY <1>2 DEF Alike
      <4>3. ~h[p].is_leaf /\ l \in T /\ r \in T
        BY <1>2
      <4>. QED BY ONLY <3>2, <3>5, <4>1, <4>2, <4>3 DEF Has
    <3>. QED BY <3>9, <3>10 DEF SameEntries
  <2>2. CASE ~h[l].is_leaf
    <3>1. ~h[r].is_leaf
      BY <1>2, <2>2
    <3>2. SameLeaves(h, T, g, T)
      BY <1>2, <1>9, <2>2, <3>1 DEF SameLeaves
    <3>3. SameSpans(h, T, lo, hi, lo2, hi2)
      BY <1>2, <1>4, <2>2, <3>1 DEF SameSpans
    <3>4. Apart(h, T, lo, hi) /\ Chained(h, T, lo, hi)
      BY <1>3
    <3>. QED BY ONLY <3>2, <3>3, <3>4, LeavesKept
  <2>. QED BY <2>1, <2>2
<1>. QED BY <1>8, <1>10, <1>11 DEF Ordered

\* One entry goes from the end of a node, through the separator k, to the
\* beginning of the next node.
LEMMA ShiftRight3 ==
  ASSUME NEW S, NEW s \in Seq(S), NEW k \in S, NEW t \in Seq(S), NEW u \in Seq(S), Cat3(u, s, k, t),
         Len(s) >= 1, NEW s2, s2 = RemoveAt(s, Len(s)), NEW t2, t2 = <<k>> \o t
  PROVE  /\ s2 \in Seq(S) /\ t2 \in Seq(S)
         /\ Len(s2) = Len(s) - 1 /\ Len(t2) = Len(t) + 1
         /\ Cat3(u, s2, s[Len(s)], t2)
<1>0. PICK m \in Nat : m = Len(s) /\ m >= 1
  OBVIOUS
<1>1. s2 \in Seq(S) /\ Len(s2) = m - 1 /\ \A i \in 1..(m - 1) : s2[i] = s[i]
  <2>1. m \in 1..Len(s)
    BY ONLY <1>0, m \in Nat
  <2>2. RemoveAt(s, m) \in Seq(S) /\ Shrunk(RemoveAt(s, m), s, m)
    BY <2>1, RemoveAtIs
  <2>. QED BY <1>0, <2>2 DEF Shrunk
<1>2. /\ t2 \in Seq(S) /\ Len(t2) = Len(t) + 1 /\ t2[1] = k
      /\ \A i \in 1..Len(t) : t2[1 + i] = t[i]
  <2>1. <<k>> \in Seq(S) /\ Len(<<k>>) = 1 /\ <<k>>[1] = k
    OBVIOUS
  <2>. QED BY <2>1, ConcatProps
<1>3. /\ Len(u) = m + 1 + Len(t) /\ u[m + 1] = k
      /\ \A i \in 1..m : u[i] = s[i]
      /\ \A i \in 1..Len(t) : u[m + 1 + i] = t[i]
  BY <1>0 DEF Cat3
<1>4. Len(t) \in Nat
  OBVIOUS
<1>5. Len(u) = Len(s2) + 1 + Len(t2) /\ u[Len(s2) + 1] = s[m]
  <2>1. m \in 1..m /\ m - 1 + 1 = m /\ m + 1 + Len(t) = m - 1 + 1 + (Len(t) + 1)
    BY ONLY <1>0, <1>4, m \in Nat
  <2>. QED BY <1>1, <1>2, <1>3, <2>1
<1>6. \A i \in 1..Len(s2) : u[i] = s2[i]
  BY <1>0, <1>1, <1>3
<1>7. ASSUME NEW i \in 1..Len(t2) PROVE u[Len(s2) + 1 + i] = t2[i]
  <2>1. CASE i = 1
    <3>1. Len(s2) + 1 + i = m + 1
      BY <1>1, <2>1
    <3>. QED BY <1>2, <1>3, <2>1, <3>1
  <2>2. CASE i # 1
    <3>1. PICK j \in 1..Len(t) : i = 1 + j
      <4>1. i - 1 \in 1..Len(t) /\ i = 1 + (i - 1)
        BY <1>2, <1>4, <2>2
      <4>. QED BY <4>1
    <3>2. Len(s2) + 1 + i = m + 1 + j
      BY <1>1, <3>1
    <3>. QED BY <1>2, <1>3, <3>1, <3>2
  <2>. QED BY <2>1, <2>2
<1>. QED BY <1>0, <1>1, <1>2, <1>5, <1>6, <1>7 DEF Cat3

\* One entry goes the other way.
LEMMA ShiftLeft3 ==
  ASSUME NEW S, NEW s \in Seq(S), NEW k \in S, NEW t \in Seq(S), NEW u \in Seq(S), Cat3(u, s, k, t),
         Len(t) >= 1, NEW s2, s2 = Append(s, k), NEW t2, t2 = RemoveAt(t, 1)
  PROVE  /\ s2 \in Seq(S) /\ t2 \in Seq(S)
         /\ Len(s2) = Len(s) + 1 /\ Len(t2) = Len(t) - 1
         /\ Cat3(u, s2, t[1], t2)
<1>0. PICK m \in Nat, q \in Nat : m = Len(s) /\ q = Len(t) /\ q >= 1
  OBVIOUS
<1>1. t2 \in Seq(S) /\ Len(t2) = q - 1 /\ \A i \in 1..(q - 1) : t2[i] = t[i + 1]
  <2>1. 1 \in 1..Len(t)
    BY <1>0
  <2>. QED BY ONLY <1>0, <2>1, t \in Seq(S), t2 = RemoveAt(t, 1), RemoveAtProps
<1>2. /\ s2 \in Seq(S) /\ Len(s2) = m + 1 /\ s2[m + 1] = k
      /\ \A i \in 1..m : s2[i] = s[i]
  BY <1>0
<1>3. /\ Len(u) = m + 1 + q /\ u[m + 1] = k
      /\ \A i \in 1..m : u[i] = s[i]
      /\ \A i \in 1..q : u[m + 1 + i] = t[i]
  BY <1>0 DEF Cat3
<1>5. Len(u) = Len(s2) + 1 + Len(t2) /\ u[Len(s2) + 1] = t[1]
  <2>1. 1 \in 1..q /\ m + 1 + q = m + 1 + 1 + (q - 1)
    BY ONLY <1>0, m \in Nat, q \in Nat
  <2>. QED BY <1>1, <1>2, <1>3, <2>1
<1>6. ASSUME NEW i \in 1..Len(s2) PROVE u[i] = s2[i]
  <2>1. CASE i = m + 1
    BY <1>2, <1>3, <2>1
  <2>2. CASE i # m + 1
    BY <1>2, <1>3, <2>2
  <2>. QED BY <2>1, <2>2
<1>7. ASSUME NEW i \in 1..Len(t2) PROVE u[Len(s2) + 1 + i] = t2[i]
  <2>1. i + 1 \in 1..q /\ i \in 1..(q - 1) /\ Len(s2) + 1 + i = m + 1 + (i + 1)
    BY <1>0, <1>1, <1>2
  <2>. QED BY <1>1, <1>3, <2>1
<1>. QED BY <1>0, <1>1, <1>2, <1>5, <1>6, <1>7 DEF Cat3

\* What g has of l and r in common with h, and what any rewriting respects.
Recast(h, g, l, r) ==
    /\ g[l].is_leaf <=> h[l].is_leaf
    /\ g[r].is_leaf <=> h[r].is_leaf
    /\ g[l].link = h[l].link /\ g[r].link = h[r].link
    /\ Kids(g, l) \cup Kids(g, r) \subseteq Kids(h, l) \cup Kids(h, r)
    /\ ShapedNode(g[l]) /\ ShapedNode(g[r])
    /\ g[l].keys \in Seq(Key) /\ g[l].kids \in Seq(Node) /\ g[l].recs \in Seq(Val)
    /\ g[r].keys \in Seq(Key) /\ g[r].kids \in Seq(Node) /\ g[r].recs \in Seq(Val)

\* Two leaves with the same entries, divided at another place.
LEMMA LeafDivides ==
  ASSUME NEW h, NEW T, NEW lo, NEW hi, NEW l, NEW r, NEW p, NEW k,
         PairFacts(h, T, lo, hi, l, r, p, k), h[l].is_leaf, NEW g, Recast(h, g, l, r),
         NEW u \in Seq(Key), Cat(u, h[l].keys, h[r].keys), Cat(u, g[l].keys, g[r].keys),
         NEW w \in Seq(Val), Cat(w, h[l].recs, h[r].recs), Cat(w, g[l].recs, g[r].recs),
         Len(g[l].keys) >= 1, Len(g[r].keys) >= 1, NEW x, x = g[r].keys[1]
  PROVE  Divides(h, g, l, r, x, lo, hi)
<1>1. PICK kl \in Seq(Key), kr \in Seq(Key), rl \in Seq(Val), rr \in Seq(Val) :
         kl = h[l].keys /\ kr = h[r].keys /\ rl = h[l].recs /\ rr = h[r].recs
  BY DEF PairFacts
<1>2. PICK kl2 \in Seq(Key), kr2 \in Seq(Key), rl2 \in Seq(Val), rr2 \in Seq(Val) :
         kl2 = g[l].keys /\ kr2 = g[r].keys /\ rl2 = g[l].recs /\ rr2 = g[r].recs
  BY DEF Recast
<1>3. PICK a \in Nat, b \in Bound, c \in Nat : a = lo[l] /\ b = hi[r] /\ c = k
  BY DEF PairFacts
<1>4. InSpan(TRUE, kl, a, c) /\ InSpan(TRUE, kr, c, b) /\ h[r].is_leaf
  BY <1>1, <1>3 DEF PairFacts, InSpan
<1>5. /\ Cat(u, kl, kr) /\ Cat(u, kl2, kr2) /\ Cat(w, rl, rr) /\ Cat(w, rl2, rr2)
      /\ Len(kl2) >= 1 /\ Len(kr2) >= 1 /\ x = kr2[1]
  BY <1>1, <1>2
<1>6. /\ Len(rl) = Len(kl) /\ Len(rr) = Len(kr)
      /\ Len(rl2) = Len(kl2) /\ Len(rr2) = Len(kr2)
  BY <1>1, <1>2, <1>4 DEF PairFacts, Recast, ShapedNode
<1>7. InSpan(TRUE, kl2, a, x) /\ InSpan(TRUE, kr2, x, b)
  <2>1. InSpan(TRUE, kl2, a, kr2[1]) /\ InSpan(TRUE, kr2, kr2[1], b)
    BY ONLY <1>4, <1>5, ShiftLeafSpan, kl \in Seq(Key), kr \in Seq(Key), kl2 \in Seq(Key), kr2 \in Seq(Key),
            u \in Seq(Key), a \in Nat, b \in Bound, c \in Nat
  <2>. QED BY <1>5, <2>1
<1>8. x \in Key
  BY <1>5
<1>9. ASSUME NEW y, NEW v
      PROVE  (Holds(kl2, rl2, y, v) \/ Holds(kr2, rr2, y, v)) <=> (Holds(kl, rl, y, v) \/ Holds(kr, rr, y, v))
  <2>1. Holds(u, w, y, v) <=> Holds(kl, rl, y, v) \/ Holds(kr, rr, y, v)
    BY <1>5, <1>6, HoldsCat
  <2>2. Holds(u, w, y, v) <=> Holds(kl2, rl2, y, v) \/ Holds(kr2, rr2, y, v)
    BY <1>5, <1>6, HoldsCat
  <2>. QED BY <2>1, <2>2
<1>10. g[l].is_leaf /\ g[r].is_leaf
  BY <1>4 DEF Recast
<1>11. InSpan(g[l].is_leaf, g[l].keys, lo[l], x) /\ InSpan(g[r].is_leaf, g[r].keys, x, hi[r])
  BY <1>2, <1>3, <1>7, <1>10 DEF InSpan
<1>12. \A y, v : (Holds(g[l].keys, g[l].recs, y, v) \/ Holds(g[r].keys, g[r].recs, y, v))
             <=> (Holds(h[l].keys, h[l].recs, y, v) \/ Holds(h[r].keys, h[r].recs, y, v))
  BY <1>1, <1>2, <1>9
<1>. QED BY <1>8, <1>10, <1>11, <1>12 DEF Divides, Recast

\* Two internal nodes with the same children, divided at another separator.
LEMMA NodeDivides ==
  ASSUME NEW h, NEW T, NEW lo, NEW hi, NEW l, NEW r, NEW p, NEW k \in Key,
         PairFacts(h, T, lo, hi, l, r, p, k), Routed(h, T, lo, hi, hi), ~h[l].is_leaf,
         NEW g, Recast(h, g, l, r), NEW x \in Key,
         NEW u \in Seq(Key), Cat3(u, h[l].keys, k, h[r].keys), Cat3(u, g[l].keys, x, g[r].keys),
         NEW w \in Seq(Node), Cat(w, h[l].kids, h[r].kids), Cat(w, g[l].kids, g[r].kids)
  PROVE  Divides(h, g, l, r, x, lo, hi)
<1>1. PICK kl \in Seq(Key), kr \in Seq(Key), cl \in Seq(Node), cr \in Seq(Node) :
         kl = h[l].keys /\ kr = h[r].keys /\ cl = h[l].kids /\ cr = h[r].kids
  BY DEF PairFacts
<1>2. PICK kl2 \in Seq(Key), kr2 \in Seq(Key), cl2 \in Seq(Node), cr2 \in Seq(Node) :
         kl2 = g[l].keys /\ kr2 = g[r].keys /\ cl2 = g[l].kids /\ cr2 = g[r].kids
  BY DEF Recast
<1>3. PICK a \in Nat, b \in Bound, c \in Nat : a = lo[l] /\ b = hi[r] /\ c = k
  BY DEF PairFacts
<1>4. InSpan(FALSE, kl, a, c) /\ InSpan(FALSE, kr, c, b) /\ ~h[r].is_leaf /\ l \in T /\ r \in T
      /\ hi[l] = c /\ lo[r] = c
  BY <1>1, <1>3 DEF PairFacts, InSpan
<1>5. /\ Cat3(u, kl, c, kr) /\ Cat3(u, kl2, x, kr2) /\ Cat(w, cl, cr) /\ Cat(w, cl2, cr2)
  BY <1>1, <1>2, <1>3
<1>6. /\ Len(cl) = Len(kl) + 1 /\ Len(cr) = Len(kr) + 1
      /\ Len(cl2) = Len(kl2) + 1 /\ Len(cr2) = Len(kr2) + 1
  BY <1>1, <1>2, <1>4 DEF PairFacts, Recast, ShapedNode
<1>7. InSpan(FALSE, kl2, a, x) /\ InSpan(FALSE, kr2, x, b)
  BY <1>4, <1>5, ShiftNodeSpan
<1>8. Routes(kl, cl, a, c, lo, hi) /\ Routes(kr, cr, c, b, lo, hi)
  BY <1>1, <1>3, <1>4 DEF Routed
<1>9. Routes(u, w, a, b, lo, hi)
  BY ONLY <1>5, <1>6, <1>8, RoutesJoin, u \in Seq(Key), kl \in Seq(Key), kr \in Seq(Key),
          w \in Seq(Node), cl \in Seq(Node), cr \in Seq(Node)
<1>10. Routes(kl2, cl2, a, x, lo, hi) /\ Routes(kr2, cr2, x, b, lo, hi)
  BY ONLY <1>5, <1>6, <1>9, RoutesSplit, u \in Seq(Key), kl2 \in Seq(Key), kr2 \in Seq(Key),
          w \in Seq(Node), cl2 \in Seq(Node), cr2 \in Seq(Node)
<1>11. ~g[l].is_leaf /\ ~g[r].is_leaf
  BY <1>4 DEF Recast
<1>12. InSpan(g[l].is_leaf, g[l].keys, lo[l], x) /\ InSpan(g[r].is_leaf, g[r].keys, x, hi[r])
  BY <1>2, <1>3, <1>7, <1>11 DEF InSpan
<1>. QED BY <1>2, <1>3, <1>10, <1>12 DEF Divides, Recast

\* The key redistribute_nodes writes into the parent.
Lifted(h, b, leftmost) ==
    IF leftmost /\ h[b].is_leaf THEN h[b].keys[2]
    ELSE h[b].keys[IF leftmost THEN 1 ELSE Len(h[b].keys)]

\* g has the new contents of n, which takes an entry from its neighbour b.
Shifts(h, g, n, b, leftmost, k) ==
    /\ Carries(g, n, Taken(h, n, b, leftmost, k))
    /\ Carries(g, b, Given(h, b, leftmost))

\* An entry from the last place of the left leaf goes to the right one.
LEMMA LeafFromLeft ==
  ASSUME NEW h, NEW T, NEW lo, NEW hi, NEW l, NEW r, NEW p, NEW k,
         PairFacts(h, T, lo, hi, l, r, p, k), h[l].is_leaf, NEW g, Recast(h, g, l, r),
         Len(h[l].keys) >= 2, Shifts(h, g, r, l, FALSE, k), h[r] \in NodeRec, h[l] \in NodeRec
  PROVE  Divides(h, g, l, r, Lifted(h, l, FALSE), lo, hi)
<1>1. PICK kl \in Seq(Key), kr \in Seq(Key), rl \in Seq(Val), rr \in Seq(Val) :
         kl = h[l].keys /\ kr = h[r].keys /\ rl = h[l].recs /\ rr = h[r].recs
  BY DEF PairFacts
<1>2. Len(rl) = Len(kl) /\ Len(rr) = Len(kr) /\ h[r].is_leaf /\ Len(kl) >= 2 /\ Len(kl) \in Nat
  BY <1>1 DEF PairFacts, ShapedNode
<1>3. /\ Taken(h, r, l, FALSE, k) = [h[r] EXCEPT !.keys = <<kl[Len(kl)]>> \o kr, !.recs = <<rl[Len(kl)]>> \o rr]
      /\ Given(h, l, FALSE) = [h[l] EXCEPT !.keys = RemoveAt(kl, Len(kl)), !.recs = RemoveAt(rl, Len(kl))]
  BY <1>1 DEF Taken, Given
<1>4. /\ g[r].keys = <<kl[Len(kl)]>> \o kr /\ g[r].recs = <<rl[Len(rl)]>> \o rr
      /\ g[l].keys = RemoveAt(kl, Len(kl)) /\ g[l].recs = RemoveAt(rl, Len(rl))
  BY <1>2, <1>3 DEF Shifts, Carries, NodeRec
<1>5. PICK u \in Seq(Key) : Cat(u, kl, kr)
  BY ConcatIs
<1>6. PICK w \in Seq(Val) : Cat(w, rl, rr)
  BY ConcatIs
<1>7. /\ Len(RemoveAt(kl, Len(kl))) = Len(kl) - 1 /\ Len(<<kl[Len(kl)]>> \o kr) = Len(kr) + 1
      /\ (<<kl[Len(kl)]>> \o kr)[1] = kl[Len(kl)]
      /\ Cat(u, RemoveAt(kl, Len(kl)), <<kl[Len(kl)]>> \o kr)
  <2>1. Len(kl) >= 1
    BY <1>2
  <2>. QED BY <1>5, <2>1, ShiftRight
<1>8. Cat(w, RemoveAt(rl, Len(rl)), <<rl[Len(rl)]>> \o rr)
  <2>1. Len(rl) >= 1
    BY <1>2
  <2>. QED BY <1>6, <2>1, ShiftRight
<1>9. Lifted(h, l, FALSE) = g[r].keys[1]
  BY <1>1, <1>4, <1>7 DEF Lifted
<1>10. /\ Cat(u, h[l].keys, h[r].keys) /\ Cat(u, g[l].keys, g[r].keys)
       /\ Cat(w, h[l].recs, h[r].recs) /\ Cat(w, g[l].recs, g[r].recs)
  BY <1>1, <1>4, <1>5, <1>6, <1>7, <1>8
<1>11. Len(g[l].keys) >= 1 /\ Len(g[r].keys) >= 1
  <2>1. Len(kr) \in Nat
    OBVIOUS
  <2>. QED BY <1>2, <1>4, <1>7, <2>1
<1>. QED BY <1>9, <1>10, <1>11, LeafDivides

\* An entry from the first place of the right leaf goes to the left one.
LEMMA LeafFromRight ==
  ASSUME NEW h, NEW T, NEW lo, NEW hi, NEW l, NEW r, NEW p, NEW k,
         PairFacts(h, T, lo, hi, l, r, p, k), h[l].is_leaf, NEW g, Recast(h, g, l, r),
         Len(h[r].keys) >= 2, Shifts(h, g, l, r, TRUE, k), h[r] \in NodeRec, h[l] \in NodeRec
  PROVE  Divides(h, g, l, r, Lifted(h, r, TRUE), lo, hi)
<1>1. PICK kl \in Seq(Key), kr \in Seq(Key), rl \in Seq(Val), rr \in Seq(Val) :
         kl = h[l].keys /\ kr = h[r].keys /\ rl = h[l].recs /\ rr = h[r].recs
  BY DEF PairFacts
<1>2. Len(rl) = Len(kl) /\ Len(rr) = Len(kr) /\ h[r].is_leaf /\ Len(kr) >= 2 /\ Len(kr) \in Nat
  BY <1>1 DEF PairFacts, ShapedNode
<1>3. /\ Taken(h, l, r, TRUE, k) = [h[l] EXCEPT !.keys = Append(kl, kr[1]), !.recs = Append(rl, rr[1])]
      /\ Given(h, r, TRUE) = [h[r] EXCEPT !.keys = RemoveAt(kr, 1), !.recs = RemoveAt(rr, 1)]
  BY <1>1, <1>2 DEF Taken, Given
<1>4. /\ g[l].keys = Append(kl, kr[1]) /\ g[l].recs = Append(rl, rr[1])
      /\ g[r].keys = RemoveAt(kr, 1) /\ g[r].recs = RemoveAt(rr, 1)
  BY <1>3 DEF Shifts, Carries, NodeRec
<1>5. PICK u \in Seq(Key) : Cat(u, kl, kr)
  BY ConcatIs
<1>6. PICK w \in Seq(Val) : Cat(w, rl, rr)
  BY ConcatIs
<1>7. /\ Len(RemoveAt(kr, 1)) = Len(kr) - 1 /\ Len(Append(kl, kr[1])) = Len(kl) + 1
      /\ RemoveAt(kr, 1)[1] = kr[2]
      /\ Cat(u, Append(kl, kr[1]), RemoveAt(kr, 1))
  <2>1. Len(kr) >= 1 /\ Len(kr) >= 2
    BY <1>2
  <2>. QED BY <1>5, <2>1, ShiftLeft
<1>8. Cat(w, Append(rl, rr[1]), RemoveAt(rr, 1))
  <2>1. Len(rr) >= 1
    BY <1>2
  <2>. QED BY <1>6, <2>1, ShiftLeft
<1>9. Lifted(h, r, TRUE) = g[r].keys[1]
  BY <1>1, <1>2, <1>4, <1>7 DEF Lifted
<1>10. /\ Cat(u, h[l].keys, h[r].keys) /\ Cat(u, g[l].keys, g[r].keys)
       /\ Cat(w, h[l].recs, h[r].recs) /\ Cat(w, g[l].recs, g[r].recs)
  BY <1>1, <1>4, <1>5, <1>6, <1>7, <1>8
<1>11. Len(g[l].keys) >= 1 /\ Len(g[r].keys) >= 1
  <2>1. Len(kl) \in Nat
    OBVIOUS
  <2>. QED BY <1>2, <1>4, <1>7, <2>1
<1>. QED BY <1>9, <1>10, <1>11, LeafDivides

\* The last child of the left node goes to the right one.
LEMMA NodeFromLeft ==
  ASSUME NEW h, NEW T, NEW lo, NEW hi, NEW l, NEW r, NEW p, NEW k \in Key,
         PairFacts(h, T, lo, hi, l, r, p, k), Routed(h, T, lo, hi, hi), ~h[l].is_leaf,
         NEW g, Recast(h, g, l, r),
         Len(h[l].keys) >= 2, Shifts(h, g, r, l, FALSE, k), h[r] \in NodeRec, h[l] \in NodeRec
  PROVE  Divides(h, g, l, r, Lifted(h, l, FALSE), lo, hi)
<1>1. PICK kl \in Seq(Key), kr \in Seq(Key), cl \in Seq(Node), cr \in Seq(Node) :
         kl = h[l].keys /\ kr = h[r].keys /\ cl = h[l].kids /\ cr = h[r].kids
  BY DEF PairFacts
<1>2. Len(cl) = Len(kl) + 1 /\ Len(cr) = Len(kr) + 1 /\ ~h[r].is_leaf /\ Len(kl) >= 2 /\ Len(kl) \in Nat
  BY <1>1 DEF PairFacts, ShapedNode
<1>3. /\ Taken(h, r, l, FALSE, k) = [h[r] EXCEPT !.keys = <<k>> \o kr, !.kids = <<cl[Len(cl)]>> \o cr]
      /\ Given(h, l, FALSE) = [h[l] EXCEPT !.keys = RemoveAt(kl, Len(kl)), !.kids = RemoveAt(cl, Len(cl))]
  BY <1>1 DEF Taken, Given
<1>4. /\ g[r].keys = <<k>> \o kr /\ g[r].kids = <<cl[Len(cl)]>> \o cr
      /\ g[l].keys = RemoveAt(kl, Len(kl)) /\ g[l].kids = RemoveAt(cl, Len(cl))
  BY <1>3 DEF Shifts, Carries, NodeRec
<1>5. PICK u \in Seq(Key) : Cat3(u, kl, k, kr)
  BY Concat3Is
<1>6. PICK w \in Seq(Node) : Cat(w, cl, cr)
  BY ConcatIs
<1>7. PICK x \in Key : x = kl[Len(kl)]
  BY <1>2
<1>8. Cat3(u, RemoveAt(kl, Len(kl)), x, <<k>> \o kr)
  <2>1. Len(kl) >= 1
    BY <1>2
  <2>. QED BY <1>5, <1>7, <2>1, ShiftRight3
<1>9. Cat(w, RemoveAt(cl, Len(cl)), <<cl[Len(cl)]>> \o cr)
  <2>1. Len(cl) >= 1
    BY <1>2
  <2>. QED BY <1>6, <2>1, ShiftRight
<1>10. Lifted(h, l, FALSE) = x
  BY <1>1, <1>7 DEF Lifted
<1>11. /\ Cat3(u, h[l].keys, k, h[r].keys) /\ Cat3(u, g[l].keys, x, g[r].keys)
       /\ Cat(w, h[l].kids, h[r].kids) /\ Cat(w, g[l].kids, g[r].kids)
  BY <1>1, <1>4, <1>5, <1>6, <1>8, <1>9
<1>. QED BY <1>10, <1>11, NodeDivides

\* The first child of the right node goes to the left one.
LEMMA NodeFromRight ==
  ASSUME NEW h, NEW T, NEW lo, NEW hi, NEW l, NEW r, NEW p, NEW k \in Key,
         PairFacts(h, T, lo, hi, l, r, p, k), Routed(h, T, lo, hi, hi), ~h[l].is_leaf,
         NEW g, Recast(h, g, l, r),
         Len(h[r].keys) >= 2, Shifts(h, g, l, r, TRUE, k), h[r] \in NodeRec, h[l] \in NodeRec
  PROVE  Divides(h, g, l, r, Lifted(h, r, TRUE), lo, hi)
<1>1. PICK kl \in Seq(Key), kr \in Seq(Key), cl \in Seq(Node), cr \in Seq(Node) :
         kl = h[l].keys /\ kr = h[r].keys /\ cl = h[l].kids /\ cr = h[r].kids
  BY DEF PairFacts
<1>2. Len(cl) = Len(kl) + 1 /\ Len(cr) = Len(kr) + 1 /\ ~h[r].is_leaf /\ Len(kr) >= 2 /\ Len(kr) \in Nat
  BY <1>1 DEF PairFacts, ShapedNode
<1>3. /\ Taken(h, l, r, TRUE, k) = [h[l] EXCEPT !.keys = Append(kl, k), !.kids = Append(cl, cr[1])]
      /\ Given(h, r, TRUE) = [h[r] EXCEPT !.keys = RemoveAt(kr, 1), !.kids = RemoveAt(cr, 1)]
  BY <1>1, <1>2 DEF Taken, Given
<1>4. /\ g[l].keys = Append(kl, k) /\ g[l].kids = Append(cl, cr[1])
      /\ g[r].keys = RemoveAt(kr, 1) /\ g[r].kids = RemoveAt(cr, 1)
  BY <1>3 DEF Shifts, Carries, NodeRec
<1>5. PICK u \in Seq(Key) : Cat3(u, kl, k, kr)
  BY Concat3Is
<1>6. PICK w \in Seq(Node) : Cat(w, cl, cr)
  BY ConcatIs
<1>7. PICK x \in Key : x = kr[1]
  BY <1>2
<1>8. Cat3(u, Append(kl, k), x, RemoveAt(kr, 1))
  <2>1. Len(kr) >= 1
    BY <1>2
  <2>. QED BY <1>5, <1>7, <2>1, ShiftLeft3
<1>9. Cat(w, Append(cl, cr[1]), RemoveAt(cr, 1))
  <2>1. Len(cr) >= 1
    BY <1>2
  <2>. QED BY <1>6, <2>1, ShiftLeft
<1>10. Lifted(h, r, TRUE) = x
  BY <1>1, <1>2, <1>7 DEF Lifted
<1>11. /\ Cat3(u, h[l].keys, k, h[r].keys) /\ Cat3(u, g[l].keys, x, g[r].keys)
       /\ Cat(w, h[l].kids, h[r].kids) /\ Cat(w, g[l].kids, g[r].kids)
  BY <1>1, <1>4, <1>5, <1>6, <1>8, <1>9
<1>. QED BY <1>10, <1>11, NodeDivides

\* The heap redistribute_nodes leaves behind.
LEMMA RewriteContents ==
  ASSUME NEW h, NEW rt, NEW T, NEW n, NEW ht, NEW b, NEW p, Pair(h, rt, T, n, ht, n, b, p),
         NEW n2 \in NodeRec, NEW b2 \in NodeRec, NEW j \in 1..Len(h[p].keys), NEW up \in Key, NEW S,
         NEW g, g = Adopt(Rewritten(h, n, n2, b, b2, p, j, up), S, n)
  PROVE  /\ g \in [Node -> NodeRec] /\ Carries(g, n, n2) /\ Carries(g, b, b2)
         /\ g[p].keys = [h[p].keys EXCEPT ![j] = up] /\ g[p].kids = h[p].kids /\ g[p].link = h[p].link
         /\ g[p].is_leaf <=> h[p].is_leaf
         /\ \A m \in Node \ {n, b, p} : Alike(h, g, m)
<1>1. /\ n \in Node /\ b \in Node /\ p \in Node /\ h \in [Node -> NodeRec]
      /\ n # b /\ p # n /\ p # b
  BY DEF Pair, Removed
<1>2. h[p] \in NodeRec
  BY <1>1
<1>3. PICK ks \in Seq(Key) : ks = h[p].keys
  BY <1>2 DEF NodeRec
<1>4. PICK ks2 \in Seq(Key) : ks2 = [ks EXCEPT ![j] = up]
  <2>1. j \in 1..Len(ks)
    BY <1>3
  <2>2. PICK q : q = [ks EXCEPT ![j] = up]
    OBVIOUS
  <2>3. q \in Seq(Key)
    BY ONLY ks \in Seq(Key), up \in Key, <2>1, <2>2, ExceptProps
  <2>. QED BY <2>2, <2>3
<1>5. PICK p2 : p2 = [h[p] EXCEPT !.keys = ks2]
  OBVIOUS
<1>6. p2 \in NodeRec
  BY <1>2, <1>5 DEF NodeRec
<1>7. p2.kids = h[p].kids /\ p2.link = h[p].link /\ p2.keys = ks2
  BY <1>2, <1>5 DEF NodeRec
<1>8. p2.is_leaf <=> h[p].is_leaf
  <2>1. h[p].is_leaf => p2.is_leaf
    BY <1>2, <1>5 DEF NodeRec
  <2>2. ~h[p].is_leaf => ~p2.is_leaf
    BY <1>2, <1>5 DEF NodeRec
  <2>. QED BY <2>1, <2>2
<1>9. PICK hm : /\ hm = [h EXCEPT ![n] = n2, ![b] = b2, ![p].keys[j] = up]
                /\ hm = Rewritten(h, n, n2, b, b2, p, j, up)
  BY DEF Rewritten
<1>10. /\ hm[n] = n2 /\ hm[b] = b2 /\ hm[p] = p2
       /\ \A m \in Node \ {n, b, p} : hm[m] = h[m]
       /\ hm \in [Node -> NodeRec]
  <2>1. hm = [h EXCEPT ![n] = n2, ![b] = b2, ![p] = [h[p] EXCEPT !.keys = [h[p].keys EXCEPT ![j] = up]]]
    BY <1>1, <1>9
  <2>2. [h[p] EXCEPT !.keys = [h[p].keys EXCEPT ![j] = up]] = p2
    BY <1>3, <1>4, <1>5
  <2>3. hm = [h EXCEPT ![n] = n2, ![b] = b2, ![p] = p2]
    BY <2>1, <2>2
  <2>. QED BY <1>1, <1>6, <2>3
<1>11. g \in [Node -> NodeRec] /\ \A m \in Node : Alike(hm, g, m)
  BY <1>1, <1>9, <1>10, AdoptAlike
<1>12. Carries(g, n, n2) /\ Carries(g, b, b2)
  BY <1>1, <1>10, <1>11 DEF Carries, Alike
<1>13. /\ g[p].keys = [h[p].keys EXCEPT ![j] = up] /\ g[p].kids = h[p].kids /\ g[p].link = h[p].link
       /\ g[p].is_leaf <=> h[p].is_leaf
  BY <1>1, <1>3, <1>4, <1>7, <1>8, <1>10, <1>11 DEF Alike
<1>14. \A m \in Node \ {n, b, p} : Alike(h, g, m)
  BY <1>10, <1>11 DEF Alike
<1>. QED BY <1>11, <1>12, <1>13, <1>14

\* What holds of the new contents of n and b, for either side.
LEMMA ShiftRecast ==
  ASSUME NEW h, NEW rt, NEW T, NEW n, NEW ht, NEW b, NEW p, Pair(h, rt, T, n, ht, n, b, p),
         NEW leftmost \in BOOLEAN, NEW k, NEW g, Shifts(h, g, n, b, leftmost, k), NEW X, X \subseteq Kids(h, b),
         Balance(Taken(h, n, b, leftmost, k), h, n, Kids(h, n) \cup X),
         Balance(Given(h, b, leftmost), h, b, Kids(h, b) \ X)
  PROVE  Recast(h, g, n, b) /\ Recast(h, g, b, n)
<1>1. PICK n2, b2 : n2 = Taken(h, n, b, leftmost, k) /\ b2 = Given(h, b, leftmost)
  OBVIOUS
<1>2. Carries(g, n, n2) /\ Carries(g, b, b2)
  BY <1>1 DEF Shifts
<1>3. Balance(n2, h, n, Kids(h, n) \cup X) /\ Balance(b2, h, b, Kids(h, b) \ X)
  BY <1>1
<1>4. h[n] \in NodeRec /\ h[b] \in NodeRec /\ (h[n].is_leaf <=> h[b].is_leaf)
  BY DEF Pair, Removed
<1>5. n2.link = h[n].link
  <2>1. CASE leftmost /\ h[b].is_leaf
    BY <1>1, <1>4, <2>1 DEF Taken, NodeRec
  <2>2. CASE leftmost /\ ~h[b].is_leaf
    BY <1>1, <1>4, <2>2 DEF Taken, NodeRec
  <2>3. CASE ~leftmost /\ h[b].is_leaf
    BY <1>1, <1>4, <2>3 DEF Taken, NodeRec
  <2>4. CASE ~leftmost /\ ~h[b].is_leaf
    BY <1>1, <1>4, <2>4 DEF Taken, NodeRec
  <2>. QED BY <2>1, <2>2, <2>3, <2>4
<1>6. b2.link = h[b].link
  <2>1. CASE h[b].is_leaf
    BY <1>1, <1>4, <2>1 DEF Given, NodeRec
  <2>2. CASE ~h[b].is_leaf
    BY <1>1, <1>4, <2>2 DEF Given, NodeRec
  <2>. QED BY <2>1, <2>2
<1>7. /\ n2 \in NodeRec /\ ShapedNode(n2) /\ (n2.is_leaf <=> h[n].is_leaf) /\ Range(n2.kids) = Kids(h, n) \cup X
      /\ b2 \in NodeRec /\ ShapedNode(b2) /\ (b2.is_leaf <=> h[b].is_leaf) /\ Range(b2.kids) = Kids(h, b) \ X
  BY <1>3 DEF Balance
<1>8. /\ n2.keys \in Seq(Key) /\ n2.kids \in Seq(Node) /\ n2.recs \in Seq(Val)
      /\ b2.keys \in Seq(Key) /\ b2.kids \in Seq(Node) /\ b2.recs \in Seq(Val)
  BY <1>7 DEF NodeRec
<1>9. /\ g[n].keys = n2.keys /\ g[n].kids = n2.kids /\ g[n].recs = n2.recs /\ g[n].link = n2.link
      /\ g[b].keys = b2.keys /\ g[b].kids = b2.kids /\ g[b].recs = b2.recs /\ g[b].link = b2.link
      /\ (g[n].is_leaf <=> n2.is_leaf) /\ (g[b].is_leaf <=> b2.is_leaf)
  BY <1>2 DEF Carries
<1>10. ShapedNode(g[n]) /\ ShapedNode(g[b])
  BY <1>7, <1>9 DEF ShapedNode
<1>11. Kids(g, n) \cup Kids(g, b) \subseteq Kids(h, n) \cup Kids(h, b)
  BY <1>7, <1>9 DEF Kids
<1>. QED BY <1>5, <1>6, <1>7, <1>8, <1>9, <1>10, <1>11 DEF Recast

\* l is the left one of n and its neighbour b, r the right one.
Sides(leftmost, n, b, l, r) ==
    \/ leftmost /\ l = n /\ r = b
    \/ ~leftmost /\ l = b /\ r = n

\* The entries of the two nodes are divided at the key that goes up.
LEMMA ShiftDivides ==
  ASSUME NEW h, NEW rt, NEW T, NEW n, NEW ht, NEW b, NEW p, Pair(h, rt, T, n, ht, n, b, p),
         NEW leftmost \in BOOLEAN, NEW l, NEW r, Sides(leftmost, n, b, l, r), NEW k \in Key,
         NEW lo, NEW hi, PairFacts(h, T, lo, hi, l, r, p, k), Routed(h, T, lo, hi, hi),
         NEW g, Shifts(h, g, n, b, leftmost, k), Recast(h, g, n, b), Recast(h, g, b, n),
         Len(h[b].keys) >= 2
  PROVE  Divides(h, g, l, r, Lifted(h, b, leftmost), lo, hi)
<1>1. h[n] \in NodeRec /\ h[b] \in NodeRec /\ (h[n].is_leaf <=> h[b].is_leaf)
  BY DEF Pair, Removed
<1>2. CASE leftmost
  <2>1. leftmost = TRUE /\ l = n /\ r = b
    BY <1>2 DEF Sides
  <2>2. Shifts(h, g, l, r, TRUE, k) /\ Recast(h, g, l, r) /\ h[l] \in NodeRec /\ h[r] \in NodeRec
        /\ Len(h[r].keys) >= 2
    BY <1>1, <2>1
  <2>3. Divides(h, g, l, r, Lifted(h, r, TRUE), lo, hi)
    BY <2>2, LeafFromRight, NodeFromRight
  <2>. QED BY <2>1, <2>3
<1>3. CASE ~leftmost
  <2>1. leftmost = FALSE /\ l = b /\ r = n
    BY <1>3 DEF Sides
  <2>2. Shifts(h, g, r, l, FALSE, k) /\ Recast(h, g, l, r) /\ h[l] \in NodeRec /\ h[r] \in NodeRec
        /\ Len(h[l].keys) >= 2
    BY <1>1, <2>1
  <2>3. Divides(h, g, l, r, Lifted(h, l, FALSE), lo, hi)
    BY <2>2, LeafFromLeft, NodeFromLeft
  <2>. QED BY <2>1, <2>3
<1>. QED BY <1>2, <1>3

\* The state after a step of delete_entry has the order of a tree, and the
\* entries of h.
Keeps(h, T, T2, lo, hi, seen) ==
    /\ lo \in [Node -> Nat] /\ hi \in [Node -> Bound] /\ seen \in [Node -> Bound]
    /\ Ordered(heap', root', T2, lo, hi, seen)
    /\ SameEntries(h, T, heap', T2)

\* redistribute_nodes keeps the order and the entries.
LEMMA RedistributeOrder ==
  ASSUME NEW h, NEW T, NEW n, NEW ht, NEW nb, NEW p, Pair(h, root, T, n, ht, n, nb, p),
         NEW leftmost \in BOOLEAN, NEW l, NEW r, Sides(leftmost, n, nb, l, r), NEW k \in Key,
         NEW j, Border(h, p, l, r, j, k), Len(h[n].keys) < min_keys(h[n]), ~Fits(h, n, nb),
         NEW lo \in [Node -> Nat], NEW hi \in [Node -> Bound], Ordered(h, root, T, lo, hi, hi),
         redistribute_nodes(h, n, nb, leftmost, j, k)
  PROVE  \E lo2, hi2 : Keeps(h, T, T, lo2, hi2, hi2)
<1>1. p = h[n].parent /\ Pair(h, root, T, n, ht, l, r, p) /\ p \in Node /\ l \in Node /\ r \in Node
  <2>1. (l = n /\ r = nb) \/ (l = nb /\ r = n)
    BY DEF Sides
  <2>2. Pair(h, root, T, n, ht, l, r, p)
    BY <2>1, Zenon DEF Pair
  <2>. QED BY <2>2 DEF Pair
<1>2. PICK X : /\ X \subseteq Kids(h, nb) /\ Len(h[nb].keys) >= 2
               /\ Balance(Taken(h, n, nb, leftmost, k), h, n, Kids(h, n) \cup X)
               /\ Balance(Given(h, nb, leftmost), h, nb, Kids(h, nb) \ X)
  BY ShiftBalance
<1>3. PICK n2, b2 : n2 = Taken(h, n, nb, leftmost, k) /\ b2 = Given(h, nb, leftmost)
  OBVIOUS
<1>4. PICK up : /\ heap' = Adopt([h EXCEPT ![n] = n2, ![nb] = b2, ![p].keys[j] = up], Range(n2.kids), n)
                /\ up = IF leftmost /\ h[nb].is_leaf THEN h[nb].keys[2]
                        ELSE h[nb].keys[IF leftmost THEN 1 ELSE Len(h[nb].keys)]
                /\ UNCHANGED root
  BY <1>1, <1>3, Zenon DEF redistribute_nodes, Taken, Given
<1>5. up = Lifted(h, nb, leftmost)
  BY <1>4, Zenon DEF Lifted
<1>6. PICK g : g = heap'
  OBVIOUS
<1>7. PairFacts(h, T, lo, hi, l, r, p, k)
  BY <1>1, PairKnown
<1>8. n2 \in NodeRec /\ b2 \in NodeRec
  BY <1>2, <1>3 DEF Balance
<1>9. up \in Key
  <2>1. PICK kb \in Seq(Key) : kb = h[nb].keys
    <3>1. h[nb] \in NodeRec
      BY DEF Pair, Removed
    <3>. QED BY <3>1 DEF NodeRec
  <2>2. PICK u \in Nat : u = Len(kb) /\ u >= 2
    BY <1>2, <2>1
  <2>3. kb[1] \in Key /\ kb[2] \in Key /\ kb[u] \in Key
    BY <2>2
  <2>. QED BY <1>4, <2>1, <2>2, <2>3
<1>10. /\ g \in [Node -> NodeRec] /\ Carries(g, n, n2) /\ Carries(g, nb, b2)
       /\ g[p].keys = [h[p].keys EXCEPT ![j] = up] /\ g[p].kids = h[p].kids /\ g[p].link = h[p].link
       /\ g[p].is_leaf <=> h[p].is_leaf
       /\ \A m \in Node \ {n, nb, p} : Alike(h, g, m)
  <2>1. g = Adopt(Rewritten(h, n, n2, nb, b2, p, j, up), Range(n2.kids), n)
    BY <1>4, <1>6 DEF Rewritten
  <2>2. j \in 1..Len(h[p].keys)
    BY DEF Border
  <2>. QED BY ONLY <1>8, <1>9, <2>1, <2>2, Pair(h, root, T, n, ht, n, nb, p), RewriteContents
<1>11. Shifts(h, g, n, nb, leftmost, k)
  BY <1>3, <1>10 DEF Shifts
<1>12. Recast(h, g, n, nb) /\ Recast(h, g, nb, n)
  BY ONLY <1>2, <1>11, ShiftRecast, Pair(h, root, T, n, ht, n, nb, p), leftmost \in BOOLEAN
<1>13. Routed(h, T, lo, hi, hi)
  BY DEF Ordered
<1>14. Divides(h, g, l, r, up, lo, hi)
  BY ONLY <1>2, <1>5, <1>7, <1>11, <1>12, <1>13, ShiftDivides, Pair(h, root, T, n, ht, n, nb, p),
          leftmost \in BOOLEAN, k \in Key, Sides(leftmost, n, nb, l, r)
<1>15. \A m \in Node \ {l, r, p} : Alike(h, g, m)
  BY <1>10 DEF Sides
<1>16. ~g[p].is_leaf
  BY <1>7, <1>10 DEF PairFacts
<1>17. PICK lo2, hi2 : Moves(lo, hi, l, r, up, lo2, hi2)
  BY DEF Moves
<1>a. Separates(h, g, l, r, p, j, up)
  BY <1>10, <1>15, <1>16 DEF Separates
<1>18. Ordered(g, root, T, lo2, hi2, hi2) /\ SameEntries(h, T, g, T)
  BY ONLY <1>1, <1>10, <1>14, <1>17, <1>a, ShiftOrder, Border(h, p, l, r, j, k), k \in Key,
          lo \in [Node -> Nat], hi \in [Node -> Bound], Ordered(h, root, T, lo, hi, hi)
<1>19. lo2 \in [Node -> Nat] /\ hi2 \in [Node -> Bound]
  BY <1>9, <1>17, KeyAssumption DEF Bound, Moves
<1>. QED BY <1>4, <1>6, <1>18, <1>19 DEF Keeps

\* The tree without r, while the parent p still has r, after the separator k.
Merges(h, T, r, p, k, lo, hi, hi2) ==
    /\ Keeps(h, T, T \ {r}, lo, hi2, hi)
    /\ MergeSeen(heap'[p], r, k, hi2, hi)

\* coalesce_nodes keeps the order and the entries; what the parent still says
\* of the two nodes is hi, the old ends of the spans.
LEMMA CoalesceOrder ==
  ASSUME NEW h, NEW T, NEW n, NEW ht, NEW nb, NEW p, Pair(h, root, T, n, ht, n, nb, p),
         NEW leftmost \in BOOLEAN, NEW l, NEW r, Sides(leftmost, n, nb, l, r), NEW k \in Key,
         NEW j, Border(h, p, l, r, j, k), Fits(h, n, nb),
         NEW lo \in [Node -> Nat], NEW hi \in [Node -> Bound], Ordered(h, root, T, lo, hi, hi),
         coalesce_nodes(h, n, nb, leftmost, k)
  PROVE  \E hi2 : Merges(h, T, r, p, k, lo, hi, hi2)
<1>1. (l = n /\ r = nb /\ leftmost) \/ (l = nb /\ r = n /\ ~leftmost)
  BY DEF Sides
<1>2. Pair(h, root, T, n, ht, l, r, p)
  BY <1>1, Zenon DEF Pair
<1>3. /\ l \in Node /\ r \in Node /\ h \in [Node -> NodeRec]
      /\ h[l].is_leaf <=> h[n].is_leaf
  BY <1>1, <1>2 DEF Pair, Removed
<1>6. Len(h[l].keys) + Len(h[r].keys) < IF h[l].is_leaf THEN Order ELSE Order - 1
  <2>1. Len(h[nb].keys) + Len(h[n].keys) < IF h[n].is_leaf THEN Order ELSE Order - 1
    BY DEF Fits
  <2>2. h[n].keys \in Seq(Key) /\ h[nb].keys \in Seq(Key)
    BY DEF Pair, Removed, NodeRec
  <2>3. PICK a \in Nat, b \in Nat : a = Len(h[n].keys) /\ b = Len(h[nb].keys)
    BY <2>2
  <2>4. a + b = b + a
    OBVIOUS
  <2>5. Len(h[n].keys) + Len(h[nb].keys) < IF h[n].is_leaf THEN Order ELSE Order - 1
    BY <2>1, <2>3, <2>4
  <2>. QED BY <1>1, <1>3, <2>1, <2>5
<1>7. PICK mg : mg = Joined(h, l, r, k)
  OBVIOUS
<1>8. mg \in NodeRec
  BY <1>2, <1>6, <1>7, JoinedAbsorbs DEF Absorbs
<1>9. PICK g : g = heap'
  OBVIOUS
<1>10. g = Adopt([h EXCEPT ![l] = mg], Range(mg.kids), l)
  BY <1>1, <1>3, <1>7, <1>9 DEF coalesce_nodes, Joined
<1>11. UNCHANGED root
  BY DEF coalesce_nodes
<1>12. PICK hm : hm = [h EXCEPT ![l] = mg]
  OBVIOUS
<1>13. hm \in [Node -> NodeRec] /\ hm[l] = mg /\ \A m \in Node \ {l} : hm[m] = h[m]
  BY <1>3, <1>8, <1>12
<1>14. g \in [Node -> NodeRec] /\ \A m \in Node : Alike(hm, g, m)
  BY <1>3, <1>10, <1>12, <1>13, AdoptAlike
<1>15. Carries(g, l, mg) /\ \A m \in Node \ {l} : Alike(h, g, m)
  BY <1>3, <1>13, <1>14 DEF Carries, Alike
<1>16. PICK hi2 : hi2 = [hi EXCEPT ![l] = hi[r]]
  OBVIOUS
<1>17. /\ Ordered(g, root, T \ {r}, lo, hi2, hi)
       /\ MergeSeen(g[p], r, k, hi2, hi)
       /\ SameEntries(h, T, g, T \ {r})
  BY ONLY <1>2, <1>7, <1>14, <1>15, <1>16, MergeOrder, Border(h, p, l, r, j, k), k \in Key,
          lo \in [Node -> Nat], hi \in [Node -> Bound], Ordered(h, root, T, lo, hi, hi)
<1>18. hi2 \in [Node -> Bound]
  BY <1>3, <1>16
<1>19. Merges(h, T, r, p, k, lo, hi, hi2)
  BY <1>9, <1>11, <1>17, <1>18 DEF Keeps, Merges
<1>. QED BY <1>19

\* The contents of the nodes of T are the same in h and g.
AllAlike(h, g, T) == \A m \in T : Alike(h, g, m)

\* A part T2 of the tree that a step has not touched.
LEMMA SpansOfPart ==
  ASSUME NEW h, NEW g, NEW T, NEW T2, T2 \subseteq T, NEW lo, NEW hi, NEW seen,
         Spans(h, T, lo, hi), Routed(h, T, lo, hi, seen), AllAlike(h, g, T2)
  PROVE  Spans(g, T2, lo, hi) /\ Routed(g, T2, lo, hi, seen)
<1>1. ASSUME NEW m \in T2 PROVE InSpan(g[m].is_leaf, g[m].keys, lo[m], hi[m])
  <2>1. InSpan(h[m].is_leaf, h[m].keys, lo[m], hi[m]) /\ Alike(h, g, m)
    BY DEF Spans, AllAlike
  <2>. QED BY <2>1 DEF InSpan, Alike
<1>2. ASSUME NEW m \in T2 PROVE g[m].is_leaf \/ Routes(g[m].keys, g[m].kids, lo[m], hi[m], lo, seen)
  <2>1. h[m].is_leaf \/ Routes(h[m].keys, h[m].kids, lo[m], hi[m], lo, seen)
    BY DEF Routed
  <2>2. Alike(h, g, m)
    BY DEF AllAlike
  <2>. QED BY <2>1, <2>2 DEF Alike
<1>. QED BY <1>1, <1>2 DEF Spans, Routed

\* The empty root leaf is the only leaf.
LEMMA DropLeafOrder ==
  ASSUME NEW h, NEW g, NEW T, NEW rt \in T, T \subseteq Node, NULL \notin T,
         NEW lo \in [Node -> Nat], NEW hi \in [Node -> Bound], Ordered(h, rt, T, lo, hi, hi),
         h[rt].is_leaf, h[rt].keys = <<>>, AllAlike(h, g, T \ {rt})
  PROVE  Ordered(g, NULL, T \ {rt}, lo, hi, hi) /\ SameEntries(h, T, g, T \ {rt})
<1>1. /\ Spans(h, T, lo, hi) /\ Routed(h, T, lo, hi, hi)
      /\ Apart(h, T, lo, hi) /\ lo[rt] = 0 /\ hi[rt] = Inf
  BY DEF Ordered, Rooted
<1>2. ASSUME NEW m \in T \ {rt} PROVE ~h[m].is_leaf
  <2>1. SUFFICES ASSUME h[m].is_leaf PROVE FALSE
    OBVIOUS
  <2>2. Before(hi[m], 0)
    BY <1>1, <2>1 DEF Apart, Before
  <2>3. Below(lo[m], hi[m])
    BY <1>1, SpanBelow
  <2>4. lo[m] \in Nat /\ hi[m] \in Bound
    OBVIOUS
  <2>. QED BY <2>2, <2>3, <2>4 DEF Before, Below, Bound, Inf
<1>3. \A m \in T \ {rt} : ~g[m].is_leaf
  BY <1>2 DEF AllAlike, Alike
<1>4. Spans(g, T \ {rt}, lo, hi) /\ Routed(g, T \ {rt}, lo, hi, hi)
  <2>1. T \ {rt} \subseteq T
    OBVIOUS
  <2>. QED BY <1>1, <2>1, SpansOfPart
<1>5. Rooted(g, NULL, T \ {rt}, lo, hi)
  BY <1>3 DEF Rooted
<1>6. Apart(g, T \ {rt}, lo, hi) /\ Chained(g, T \ {rt}, lo, hi)
  BY <1>3 DEF Apart, Chained
<1>7. ASSUME NEW k, NEW v PROVE ~Has(h, T, k, v) /\ ~Has(g, T \ {rt}, k, v)
  <2>1. ~Holds(h[rt].keys, h[rt].recs, k, v)
    BY DEF Holds
  <2>. QED BY <1>2, <1>3, <2>1 DEF Has
<1>. QED BY <1>4, <1>5, <1>6, <1>7 DEF Ordered, SameEntries

\* The only child of the root has the span of the root.
LEMMA DropRootOrder ==
  ASSUME NEW h, NEW g, NEW T, NEW rt \in T, T \subseteq Node, NULL \notin T, NEW c \in T, c # rt,
         NEW lo \in [Node -> Nat], NEW hi \in [Node -> Bound], Ordered(h, rt, T, lo, hi, hi),
         ~h[rt].is_leaf, h[rt].keys = <<>>, Len(h[rt].kids) = 1, h[rt].kids[1] = c,
         AllAlike(h, g, T \ {rt})
  PROVE  Ordered(g, c, T \ {rt}, lo, hi, hi) /\ SameEntries(h, T, g, T \ {rt})
<1>1. /\ Spans(h, T, lo, hi) /\ Routed(h, T, lo, hi, hi)
      /\ Apart(h, T, lo, hi) /\ Chained(h, T, lo, hi) /\ lo[rt] = 0 /\ hi[rt] = Inf
  BY DEF Ordered, Rooted
<1>2. Routes(h[rt].keys, h[rt].kids, lo[rt], hi[rt], lo, hi)
  BY <1>1 DEF Routed
<1>3. Rooted(g, c, T \ {rt}, lo, hi)
  BY <1>1, <1>2 DEF Rooted, Routes
<1>4. Spans(g, T \ {rt}, lo, hi) /\ Routed(g, T \ {rt}, lo, hi, hi)
  <2>1. T \ {rt} \subseteq T
    OBVIOUS
  <2>. QED BY <1>1, <2>1, SpansOfPart
<1>5. SameLeaves(h, T, g, T \ {rt})
  BY DEF SameLeaves, AllAlike, Alike
<1>6. SameSpans(h, T, lo, hi, lo, hi)
  BY DEF SameSpans
<1>7. Apart(g, T \ {rt}, lo, hi) /\ Chained(g, T \ {rt}, lo, hi) /\ SameEntries(h, T, g, T \ {rt})
  BY <1>1, <1>5, <1>6, LeavesKept
<1>. QED BY <1>3, <1>4, <1>7 DEF Ordered

\* adjust_root, when the root has no key left.
LEMMA AdjustRootOrder ==
  ASSUME NEW h, NEW T \in SUBSET Node, NEW rt \in T, rt = root, NEW ht \in [Node -> Nat],
         Removed(h, rt, T, rt, ht), Len(h[rt].keys) = 0, adjust_root(h),
         NEW lo \in [Node -> Nat], NEW hi \in [Node -> Bound], Ordered(h, rt, T, lo, hi, hi)
  PROVE  Keeps(h, T, T \ {rt}, lo, hi, hi)
<1>1. /\ h \in [Node -> NodeRec] /\ h[rt] \in NodeRec /\ ShapedNode(h[rt])
      /\ Linked(h, rt, T, {}, {})
  BY DEF Removed, Shaped
<1>2. /\ root' = IF h[rt].is_leaf THEN NULL ELSE h[rt].kids[1]
      /\ heap' = [Adopt(h, {root'} \ {NULL}, NULL) EXCEPT ![rt] = Blank]
  <2>1. ~(Len(h[root].keys) > 0)
    <3>1. Len(h[root].keys) = 0
      OBVIOUS
    <3>. QED BY <3>1
  <2>2. /\ root' = IF h[root].is_leaf THEN NULL ELSE h[root].kids[1]
        /\ heap' = [Adopt(h, {root'} \ {NULL}, NULL) EXCEPT ![root] = Blank]
    BY <2>1, Zenon DEF adjust_root
  <2>. QED BY <2>2
<1>3. NULL \notin T /\ T \subseteq Node
  BY NullAssumption
<1>4. h[rt].keys = <<>>
  BY <1>1 DEF NodeRec
<1>5. PICK g, ha : g = heap' /\ ha = Adopt(h, {root'} \ {NULL}, NULL)
  OBVIOUS
<1>6. ha \in [Node -> NodeRec] /\ \A m \in Node : Alike(h, ha, m)
  BY <1>1, <1>5, AdoptAlike
<1>7. AllAlike(h, g, T \ {rt})
  <2>1. \A m \in T \ {rt} : g[m] = ha[m]
    BY <1>2, <1>5, <1>6
  <2>. QED BY <1>6, <2>1 DEF AllAlike, Alike
<1>8. CASE h[rt].is_leaf
  <2>1. root' = NULL
    BY <1>2, <1>8
  <2>2. Ordered(g, NULL, T \ {rt}, lo, hi, hi) /\ SameEntries(h, T, g, T \ {rt})
    BY <1>3, <1>4, <1>7, <1>8, DropLeafOrder
  <2>. QED BY <1>5, <2>1, <2>2 DEF Keeps
<1>9. CASE ~h[rt].is_leaf
  <2>1. PICK cs \in Seq(Node) : cs = h[rt].kids /\ Len(cs) = 1
    BY <1>1, <1>9 DEF ShapedNode, NodeRec
  <2>2. PICK c \in Node : c = cs[1] /\ root' = c
    BY <1>2, <1>9, <2>1
  <2>3. c \in Kids(h, rt)
    <3>1. 1 \in 1..Len(cs)
      BY <2>1
    <3>2. c \in Range(cs)
      BY <2>2, <3>1, InRange
    <3>. QED BY <2>1, <3>2 DEF Kids
  <2>4. c \in T /\ c # rt
    BY <1>1, <2>3, NullAssumption DEF Linked
  <2>5. Len(h[rt].kids) = 1 /\ h[rt].kids[1] = c
    BY <2>1, <2>2
  <2>6. Ordered(g, c, T \ {rt}, lo, hi, hi) /\ SameEntries(h, T, g, T \ {rt})
    BY <1>3, <1>4, <1>7, <1>9, <2>4, <2>5, DropRootOrder
  <2>. QED BY <1>5, <2>2, <2>6 DEF Keeps
<1>. QED BY <1>8, <1>9

\* What the next activation knows of the parent's arrays.
Settled(hi, seen) ==
    \/ call' = Returning /\ seen = hi
    \/ \E p, r, k :
          /\ call' = [Idle EXCEPT !.pc = "delete_entry", !.key = k, !.node = p, !.right = r]
          /\ MergeSeen(heap'[p], r, k, hi, seen)

\* Rebalance keeps the order and the entries.
LEMMA RebalanceOrder ==
  ASSUME NEW h, NEW T \in SUBSET Node, T = InTree, NEW n \in T, n # root,
         NEW ht \in [Node -> Nat], Removed(h, root, T, n, ht),
         NEW i \in 1..Len(h[h[n].parent].kids), FirstIndex(h[h[n].parent].kids, n, i),
         Len(h[n].keys) < min_keys(h[n]), Rebalance(h, n, i),
         NEW lo \in [Node -> Nat], NEW hi \in [Node -> Bound], Ordered(h, root, T, lo, hi, hi)
  PROVE  \E T2, lo2, hi2, seen2 : T2 = InTree' /\ Keeps(h, T, T2, lo2, hi2, seen2) /\ Settled(hi2, seen2)
<1>0. PICK p, nb, j : Beside(h, T, n, ht, i, p, nb, j)
  BY Neighbour
<1>1. /\ p \in T /\ p = h[n].parent
      /\ nb = h[p].kids[IF i = 1 THEN 2 ELSE i - 1]
      /\ j = IF i = 1 THEN 1 ELSE i - 1
      /\ j \in 1..Len(h[p].keys)
      /\ h[p].keys[j] \in Key
      /\ Pair(h, root, T, n, ht, n, nb, p)
  BY <1>0, Zenon DEF Beside
<1>2. PICK leftmost \in BOOLEAN : leftmost = (i = 1)
  OBVIOUS
<1>3. PICK k \in Key : k = h[p].keys[j]
  BY <1>1
<1>4. PICK l, r : Sides(leftmost, n, nb, l, r)
  BY DEF Sides
<1>5. Border(h, p, l, r, j, k)
  <2>1. h[p].kids[i] = n /\ i \in Int
    BY <1>1 DEF FirstIndex
  <2>2. CASE i = 1
    <3>1. l = n /\ r = nb /\ j = 1 /\ nb = h[p].kids[2]
      BY <1>1, <1>2, <1>4, <2>2 DEF Sides
    <3>. QED BY <1>1, <1>3, <2>1, <2>2, <3>1 DEF Border
  <2>3. CASE i # 1
    <3>1. l = nb /\ r = n /\ j = i - 1 /\ nb = h[p].kids[i - 1]
      BY <1>1, <1>2, <1>4, <2>3 DEF Sides
    <3>2. j + 1 = i
      BY <2>1, <3>1
    <3>. QED BY <1>1, <1>3, <2>1, <3>1, <3>2 DEF Border
  <2>. QED BY <2>2, <2>3
<1>6. IF Fits(h, n, nb) THEN coalesce_nodes(h, n, nb, leftmost, k)
                        ELSE redistribute_nodes(h, n, nb, leftmost, j, k)
  BY <1>1, <1>2, <1>3, Zenon DEF Rebalance
<1>7. CASE Fits(h, n, nb)
  <2>1. coalesce_nodes(h, n, nb, leftmost, k)
    BY <1>6, <1>7
  <2>a. PICK hi2 : Merges(h, T, r, p, k, lo, hi, hi2)
    <3>1. Pair(h, root, T, n, ht, n, nb, p)
      BY <1>1
    <3>. QED BY ONLY <1>4, <1>5, <1>7, <2>1, <3>1, CoalesceOrder, leftmost \in BOOLEAN, k \in Key,
                lo \in [Node -> Nat], hi \in [Node -> Bound], Ordered(h, root, T, lo, hi, hi), ZenonT(30)
  <2>2. Keeps(h, T, T \ {r}, lo, hi2, hi) /\ MergeSeen(heap'[p], r, k, hi2, hi)
    BY <2>a DEF Merges
  <2>3. /\ UNCHANGED <<root, free>> /\ doomed' = doomed \cup {r}
        /\ call' = [Idle EXCEPT !.pc = "delete_entry", !.key = k, !.node = p, !.right = r]
    <3>1. r = IF leftmost THEN nb ELSE n
      BY <1>4 DEF Sides
    <3>2. h[r].parent = p
      BY <1>1, <3>1 DEF Pair
    <3>. QED BY <2>1, <3>1, <3>2 DEF coalesce_nodes
  <2>4. T \ {r} = InTree'
    BY <2>3 DEF InTree, Live
  <2>5. Settled(hi2, hi)
    BY <2>2, <2>3, Zenon DEF Settled
  <2>. QED BY <2>2, <2>4, <2>5
<1>8. CASE ~Fits(h, n, nb)
  <2>1. redistribute_nodes(h, n, nb, leftmost, j, k)
    BY <1>6, <1>8
  <2>2. PICK lo2, hi2 : Keeps(h, T, T, lo2, hi2, hi2)
    <3>1. Pair(h, root, T, n, ht, n, nb, p)
      BY <1>1
    <3>2. Len(h[n].keys) < min_keys(h[n])
      OBVIOUS
    <3>. QED BY ONLY <1>4, <1>5, <1>8, <2>1, <3>1, <3>2, RedistributeOrder, leftmost \in BOOLEAN, k \in Key,
                lo \in [Node -> Nat], hi \in [Node -> Bound], Ordered(h, root, T, lo, hi, hi), ZenonT(30)
  <2>3. UNCHANGED <<root, free, doomed>> /\ call' = Returning
    BY <2>1 DEF redistribute_nodes
  <2>4. T = InTree'
    BY <2>3 DEF InTree, Live
  <2>. QED BY <2>2, <2>3, <2>4 DEF Settled
<1>. QED BY <1>7, <1>8

-----------------------------------------------------------------------------
(***************************************************************************)
(* Steps that rewrite one node.                                            *)
(***************************************************************************)

\* What the separators say of the nodes other than the children of n.
SeenElsewhere(h, T, n, seen, seen2) ==
    \A m \in T \ {n} : \A c \in Kids(h, m) : seen2[c] = seen[c]

\* Node n has new contents, the same span and the same link.
LEMMA RewriteOne ==
  ASSUME NEW h \in [Node -> NodeRec], NEW g \in [Node -> NodeRec], NEW rt, NEW T \in SUBSET Node, NEW n \in T,
         Shaped(h, T), NEW lo, NEW hi, NEW seen, NEW seen2, Ordered(h, rt, T, lo, hi, seen),
         SeenElsewhere(h, T, n, seen, seen2), rt # NULL => seen2[rt] = seen[rt],
         g[n].is_leaf <=> h[n].is_leaf, g[n].link = h[n].link, AllAlike(h, g, T \ {n}),
         InSpan(g[n].is_leaf, g[n].keys, lo[n], hi[n]),
         g[n].is_leaf \/ Routes(g[n].keys, g[n].kids, lo[n], hi[n], lo, seen2)
  PROVE  Ordered(g, rt, T, lo, hi, seen2)
<1>1. /\ Spans(h, T, lo, hi) /\ Routed(h, T, lo, hi, seen) /\ Rooted(h, rt, T, lo, seen)
      /\ Apart(h, T, lo, hi) /\ Chained(h, T, lo, hi)
  BY DEF Ordered
<1>2. Spans(g, T, lo, hi) /\ Routed(g, T, lo, hi, seen2)
  <2>1. PICK S : S = {n}
    OBVIOUS
  <2>2. \A m \in T \ S : m \in T /\ Alike(h, g, m) /\ lo[m] = lo[m] /\ hi[m] = hi[m]
    BY <2>1 DEF AllAlike
  <2>3. \A m \in T \ S : \A c \in Kids(h, m) : lo[c] = lo[c] /\ seen2[c] = seen[c]
    BY <2>1 DEF SeenElsewhere
  <2>4. \A m \in T \cap S : InSpan(g[m].is_leaf, g[m].keys, lo[m], hi[m])
    BY <2>1
  <2>5. \A m \in T \cap S : g[m].is_leaf \/ Routes(g[m].keys, g[m].kids, lo[m], hi[m], lo, seen2)
    BY <2>1
  <2>. QED BY ONLY <1>1, <2>2, <2>3, <2>4, <2>5, Shaped(h, T), SpansKept, h \in [Node -> NodeRec],
              g \in [Node -> NodeRec], T \in SUBSET Node
<1>3. \A m \in T : (g[m].is_leaf <=> h[m].is_leaf) /\ g[m].link = h[m].link
  BY DEF AllAlike, Alike
<1>4. Rooted(g, rt, T, lo, seen2)
  BY <1>1, <1>3 DEF Rooted
<1>5. Apart(g, T, lo, hi)
  BY <1>1, <1>3 DEF Apart
<1>6. Chained(g, T, lo, hi)
  BY <1>1, <1>3 DEF Chained
<1>. QED BY <1>2, <1>4, <1>5, <1>6 DEF Ordered

\* The entries of g, T2 are those of h, T with the value v0 for the key k0.
Puts(h, T, g, T2, k0, v0) ==
    \A k, v : Has(g, T2, k, v) <=> (k = k0 /\ v = v0) \/ (k # k0 /\ Has(h, T, k, v))

\* They are those of h, T without the key k0.
Drops(h, T, g, T2, k0) == \A k, v : Has(g, T2, k, v) <=> (k # k0 /\ Has(h, T, k, v))

\* Of the leaves of T, n alone may hold the key k.
Only(h, T, n, k) == \A m \in T \ {n} : h[m].is_leaf => \A v : ~Holds(h[m].keys, h[m].recs, k, v)

\* The contents c of a leaf are the contents r with the value v0 for the key k0;
\* without that key.
PutIn(r, c, k0, v0) ==
    \A k, v : Holds(c.keys, c.recs, k, v) <=>
                 (k = k0 /\ v = v0) \/ (k # k0 /\ Holds(r.keys, r.recs, k, v))

TakenOut(r, c, k0) ==
    \A k, v : Holds(c.keys, c.recs, k, v) <=> (k # k0 /\ Holds(r.keys, r.recs, k, v))

\* A key of the span of leaf n is in no other leaf.
LEMMA NotElsewhere ==
  ASSUME NEW h \in [Node -> NodeRec], NEW T \in SUBSET Node, NEW lo \in [Node -> Nat], NEW hi \in [Node -> Bound],
         Spans(h, T, lo, hi), Apart(h, T, lo, hi), NEW n \in T, h[n].is_leaf,
         NEW k \in Nat, lo[n] <= k, Below(k, hi[n])
  PROVE  Only(h, T, n, k)
<1>1. SUFFICES ASSUME NEW m \in T \ {n}, h[m].is_leaf, NEW i \in 1..Len(h[m].keys), h[m].keys[i] = k
               PROVE  FALSE
  BY DEF Holds, Only
<1>2. lo[m] <= k /\ Below(k, hi[m])
  BY <1>1 DEF Spans, InSpan
<1>3. Before(hi[m], lo[n]) \/ Before(hi[n], lo[m])
  BY <1>1 DEF Apart
<1>4. lo[m] \in Nat /\ lo[n] \in Nat /\ hi[m] \in Bound /\ hi[n] \in Bound
  OBVIOUS
<1>. QED BY ONLY <1>2, <1>3, <1>4, k \in Nat, lo[n] <= k, Below(k, hi[n]) DEF Before, Below, Bound, Inf

\* Leaf n alone has changed: it has got the value v0 for the key k0.
LEMMA LeafPuts ==
  ASSUME NEW h, NEW g, NEW T, NEW n \in T, h[n].is_leaf, g[n].is_leaf, AllAlike(h, g, T \ {n}),
         NEW k0, NEW v0, Only(h, T, n, k0), PutIn(h[n], g[n], k0, v0)
  PROVE  Puts(h, T, g, T, k0, v0)
<1> USE DEF Only, PutIn
<1>1. \A m \in T \ {n} : /\ g[m].is_leaf <=> h[m].is_leaf
                         /\ g[m].keys = h[m].keys /\ g[m].recs = h[m].recs
  BY DEF AllAlike, Alike
<1>2. ASSUME NEW k, NEW v, Has(g, T, k, v) PROVE (k = k0 /\ v = v0) \/ (k # k0 /\ Has(h, T, k, v))
  BY <1>1, <1>2 DEF Has
<1>3. ASSUME NEW k, NEW v, (k = k0 /\ v = v0) \/ (k # k0 /\ Has(h, T, k, v)) PROVE Has(g, T, k, v)
  <2>1. CASE k = k0 /\ v = v0
    BY <2>1 DEF Has
  <2>2. CASE k # k0 /\ Has(h, T, k, v)
    <3>1. PICK m \in T : h[m].is_leaf /\ Holds(h[m].keys, h[m].recs, k, v)
      BY <2>2 DEF Has
    <3>2. g[m].is_leaf /\ Holds(g[m].keys, g[m].recs, k, v)
      <4>1. CASE m = n
        BY <2>2, <3>1, <4>1
      <4>2. CASE m # n
        BY <1>1, <3>1, <4>2
      <4>. QED BY <4>1, <4>2
    <3>. QED BY <3>2 DEF Has
  <2>. QED BY <1>3, <2>1, <2>2
<1>. QED BY <1>2, <1>3 DEF Puts

\* Leaf n alone has changed: it has lost the key k0.
LEMMA LeafDrops ==
  ASSUME NEW h, NEW g, NEW T, NEW n \in T, h[n].is_leaf, g[n].is_leaf, AllAlike(h, g, T \ {n}),
         NEW k0, Only(h, T, n, k0), TakenOut(h[n], g[n], k0)
  PROVE  Drops(h, T, g, T, k0)
<1> USE DEF Only, TakenOut
<1>1. \A m \in T \ {n} : /\ g[m].is_leaf <=> h[m].is_leaf
                         /\ g[m].keys = h[m].keys /\ g[m].recs = h[m].recs
  BY DEF AllAlike, Alike
<1>2. ASSUME NEW k, NEW v, Has(g, T, k, v) PROVE k # k0 /\ Has(h, T, k, v)
  BY <1>1, <1>2 DEF Has
<1>3. ASSUME NEW k, NEW v, k # k0 /\ Has(h, T, k, v) PROVE Has(g, T, k, v)
  <2>1. PICK m \in T : h[m].is_leaf /\ Holds(h[m].keys, h[m].recs, k, v)
    BY <1>3 DEF Has
  <2>2. g[m].is_leaf /\ Holds(g[m].keys, g[m].recs, k, v)
    <3>1. CASE m = n
      BY <1>3, <2>1, <3>1
    <3>2. CASE m # n
      BY <1>1, <2>1, <3>2
    <3>. QED BY <3>1, <3>2
  <2>. QED BY <2>2 DEF Has
<1>. QED BY <1>2, <1>3 DEF Drops

\* g is h without entry i of the leaf n.
WithoutRecord(h, g, n, i) == g = [h EXCEPT ![n].keys = RemoveAt(@, i), ![n].recs = RemoveAt(@, i)]

\* remove_entry_from_node on the leaf that has the key.
LEMMA RemoveLeafOrder ==
  ASSUME NEW h \in [Node -> NodeRec], NEW rt, NEW T \in SUBSET Node, NEW n \in T, h[n].is_leaf, Shaped(h, T),
         NEW lo \in [Node -> Nat], NEW hi \in [Node -> Bound], Ordered(h, rt, T, lo, hi, hi),
         NEW i \in 1..Len(h[n].keys), NEW g, WithoutRecord(h, g, n, i)
  PROVE  /\ g \in [Node -> NodeRec] /\ Ordered(g, rt, T, lo, hi, hi)
         /\ Drops(h, T, g, T, h[n].keys[i])
<1>1. PICK ks \in Seq(Key), rs \in Seq(Val) : ks = h[n].keys /\ rs = h[n].recs
  BY DEF NodeRec
<1>2. Len(rs) = Len(ks) /\ i \in 1..Len(ks) /\ i \in 1..Len(rs) /\ h[n] \in NodeRec
  BY <1>1 DEF Shaped, ShapedNode
<1>3. PICK t \in Seq(Key), q \in Seq(Val) : /\ t = RemoveAt(ks, i) /\ Shrunk(t, ks, i)
                                            /\ q = RemoveAt(rs, i) /\ Shrunk(q, rs, i)
  BY <1>2, RemoveAtIs
<1>4. PICK c : c = [h[n] EXCEPT !.keys = t, !.recs = q]
  OBVIOUS
<1>5. c \in NodeRec /\ c.keys = t /\ c.recs = q /\ c.link = h[n].link /\ c.is_leaf
  BY <1>2, <1>4 DEF NodeRec
<1>6. g = [h EXCEPT ![n] = c]
  BY <1>1, <1>3, <1>4 DEF WithoutRecord
<1>7. g \in [Node -> NodeRec] /\ g[n] = c /\ \A m \in Node \ {n} : g[m] = h[m]
  BY <1>5, <1>6
<1>8. AllAlike(h, g, T \ {n})
  BY <1>7 DEF AllAlike, Alike
<1>9. InSpan(TRUE, ks, lo[n], hi[n]) /\ Spans(h, T, lo, hi) /\ Apart(h, T, lo, hi)
  BY <1>1 DEF Ordered, Spans, InSpan
<1>10. InSpan(g[n].is_leaf, g[n].keys, lo[n], hi[n])
  <2>1. InSpan(TRUE, t, lo[n], hi[n])
    BY <1>2, <1>3, <1>9, RemoveSpan
  <2>. QED BY <1>5, <1>7, <2>1 DEF InSpan
<1>11. Ordered(g, rt, T, lo, hi, hi)
  <2>1. SeenElsewhere(h, T, n, hi, hi)
    BY DEF SeenElsewhere
  <2>2. g[n].is_leaf /\ g[n].link = h[n].link
    BY <1>5, <1>7
  <2>. QED BY <1>7, <1>8, <1>10, <2>1, <2>2, RewriteOne
<1>12. PICK k \in Key : k = ks[i]
  BY <1>2
<1>13. Only(h, T, n, k)
  <2>1. k \in Nat /\ lo[n] <= k /\ Below(k, hi[n])
    BY <1>2, <1>9, <1>12, KeyAssumption DEF InSpan
  <2>. QED BY <1>9, <2>1, NotElsewhere
<1>14. Ascending(ks)
  BY <1>9 DEF InSpan
<1>15. TakenOut(h[n], g[n], k)
  <2>1. \A x, v : Holds(t, q, x, v) <=> (x # ks[i] /\ Holds(ks, rs, x, v))
    BY <1>2, <1>3, <1>14, HoldsRemove
  <2>2. g[n].keys = t /\ g[n].recs = q
    BY <1>5, <1>7
  <2>. QED BY ONLY <1>1, <1>12, <2>1, <2>2 DEF TakenOut
<1>16. Drops(h, T, g, T, k)
  <2>1. g[n].is_leaf
    BY <1>5, <1>7
  <2>. QED BY <1>8, <1>13, <1>15, <2>1, LeafDrops
<1>. QED BY <1>1, <1>7, <1>11, <1>12, <1>16

\* An internal node rewritten in place: the leaves keep what they have.
LEMMA NodeRewritten ==
  ASSUME NEW h, NEW g, NEW rt, NEW T, NEW n \in T, ~h[n].is_leaf, ~g[n].is_leaf, AllAlike(h, g, T \ {n}),
         NEW lo, NEW hi, NEW seen, Ordered(h, rt, T, lo, hi, seen)
  PROVE  SameEntries(h, T, g, T)
<1>1. SameLeaves(h, T, g, T)
  BY DEF SameLeaves, AllAlike, Alike
<1>2. Apart(h, T, lo, hi) /\ Chained(h, T, lo, hi) /\ SameSpans(h, T, lo, hi, lo, hi)
  BY DEF Ordered, SameSpans
<1>. QED BY <1>1, <1>2, LeavesKept

\* The children of other nodes, and the root, are not children of n.
LEMMA NotMyChild ==
  ASSUME NEW h \in [Node -> NodeRec], NEW rt, NEW T \in SUBSET Node, NEW D, NEW O, Linked(h, rt, T, D, O), NEW n \in T,
         NEW c, c \in Kids(h, n)
  PROVE  /\ \A m \in T \ {n} : c \notin Kids(h, m)
         /\ c # rt
<1>1. h[c].parent = n
  BY DEF Linked
<1>2. n # NULL
  BY NullAssumption
<1>3. \A m \in T \ {n} : c \notin Kids(h, m)
  BY <1>1 DEF Linked
<1>4. c = rt => rt = NULL \/ h[rt].parent = NULL
  BY DEF Linked
<1>5. c \in Node
  BY KidsAreNodes
<1>. QED BY <1>1, <1>2, <1>3, <1>4, <1>5, NullAssumption

\* Entries ki and pi are those of the key k and of the pointer r in node n.
EntryOf(h, n, k, r, ki, pi) ==
    /\ ki \in 1..Len(h[n].keys) /\ h[n].keys[ki] = k
    /\ pi \in 1..Len(h[n].kids) /\ h[n].kids[pi] = r

\* g is h without entry ki, pi of the internal node n.
WithoutEntry(h, g, n, ki, pi) ==
    g = [h EXCEPT ![n].keys = RemoveAt(@, ki), ![n].kids = RemoveAt(@, pi)]

\* remove_entry_from_node on the parent of a merged node: the key and the pointer
\* it finds, each on its own, are neighbours.
LEMMA RemoveNodeOrder ==
  ASSUME NEW h \in [Node -> NodeRec], NEW rt, NEW T \in SUBSET Node, NEW n \in T, ~h[n].is_leaf, Shaped(h, T),
         NEW D, Linked(h, rt, T, D, {}), NEW lo \in [Node -> Nat], NEW hi \in [Node -> Bound], NEW seen,
         Ordered(h, rt, T, lo, hi, seen), NEW k \in Key, NEW r, MergeSeen(h[n], r, k, hi, seen),
         NEW ki, NEW pi, EntryOf(h, n, k, r, ki, pi), NEW g, WithoutEntry(h, g, n, ki, pi)
  PROVE  /\ g \in [Node -> NodeRec] /\ Ordered(g, rt, T, lo, hi, hi)
         /\ SameEntries(h, T, g, T)
<1>1. PICK ks \in Seq(Key), cs \in Seq(Node) : ks = h[n].keys /\ cs = h[n].kids
  BY DEF NodeRec
<1>2. Len(cs) = Len(ks) + 1 /\ h[n] \in NodeRec /\ Len(ks) \in Nat
  BY <1>1 DEF Shaped, ShapedNode
<1>3. PICK i \in 1..Len(ks) : /\ ks[i] = k /\ cs[i + 1] = r
                              /\ hi[cs[i]] = hi[r]
                              /\ seen = [hi EXCEPT ![cs[i]] = k]
  BY <1>1 DEF MergeSeen
<1>4. InSpan(FALSE, ks, lo[n], hi[n]) /\ Routes(ks, cs, lo[n], hi[n], lo, seen)
  BY <1>1 DEF Ordered, Spans, Routed, InSpan
<1>5. ki \in 1..Len(ks) /\ ks[ki] = k /\ pi \in 1..Len(cs) /\ cs[pi] = r
  BY <1>1 DEF EntryOf
<1>6. ki = i
  <2>1. \A a, b \in 1..Len(ks) : a < b => ks[a] < ks[b]
    BY <1>4 DEF InSpan, Ascending
  <2>2. ks[ki] \in Nat
    BY <1>5, KeyNat
  <2>3. ks[i] = ks[ki] /\ i \in 1..Len(ks) /\ ki \in 1..Len(ks)
    BY <1>3, <1>5
  <2>. QED BY ONLY <1>2, <2>1, <2>2, <2>3
<1>7. \A a, b \in 1..Len(cs) : cs[a] = cs[b] => a = b
  <2>1. IsInjective(cs)
    BY <1>1 DEF Linked
  <2>. QED BY <2>1, Injective
<1>8. i \in 1..Len(cs) /\ i + 1 \in 1..Len(cs)
  BY <1>2, <1>3
<1>9. pi = i + 1
  BY <1>3, <1>5, <1>7, <1>8
<1>10. PICK t \in Seq(Key), ct \in Seq(Node) : /\ t = RemoveAt(ks, i) /\ Shrunk(t, ks, i)
                                               /\ ct = RemoveAt(cs, i + 1) /\ Shrunk(ct, cs, i + 1)
  BY <1>3, <1>8, RemoveAtIs
<1>11. PICK c : c = [h[n] EXCEPT !.keys = t, !.kids = ct]
  OBVIOUS
<1>12. c \in NodeRec /\ c.keys = t /\ c.kids = ct /\ c.link = h[n].link /\ ~c.is_leaf
  BY <1>2, <1>11 DEF NodeRec
<1>13. g = [h EXCEPT ![n] = c]
  BY <1>1, <1>6, <1>9, <1>10, <1>11 DEF WithoutEntry
<1>14. g \in [Node -> NodeRec] /\ g[n] = c /\ \A m \in Node \ {n} : g[m] = h[m]
  BY <1>12, <1>13
<1>15. AllAlike(h, g, T \ {n})
  BY <1>14 DEF AllAlike, Alike
<1>16. cs[i] \in Node /\ \A m \in Node : m # cs[i] => seen[m] = hi[m]
  BY <1>3, <1>8
<1>17. MergeOf(cs, i, hi, seen)
  <2>1. ASSUME NEW j \in 1..Len(cs), j # i PROVE seen[cs[j]] = hi[cs[j]]
    <3>1. cs[j] \in Node /\ cs[j] # cs[i]
      BY <1>7, <1>8, <2>1
    <3>. QED BY <1>16, <3>1
  <2>2. i + 1 # i
    BY <1>3
  <2>. QED BY <1>3, <1>8, <2>1, <2>2 DEF MergeOf
<1>18. Routes(t, ct, lo[n], hi[n], lo, hi)
  BY <1>2, <1>4, <1>10, <1>17, RoutesRemove
<1>19. InSpan(FALSE, t, lo[n], hi[n])
  BY <1>4, <1>10, RemoveSpan
<1>20. cs[i] \in Kids(h, n)
  <2>1. cs[i] \in Range(cs)
    BY <1>8, InRange
  <2>. QED BY <1>1, <2>1 DEF Kids
<1>21. (\A m \in T \ {n} : cs[i] \notin Kids(h, m)) /\ cs[i] # rt
  BY <1>20, NotMyChild
<1>22. SeenElsewhere(h, T, n, seen, hi)
  <2>1. \A m \in T : Kids(h, m) \subseteq Node
    BY KidsAreNodes
  <2>. QED BY <1>16, <1>21, <2>1 DEF SeenElsewhere
<1>23. rt # NULL => hi[rt] = seen[rt]
  <2>1. rt # NULL => rt \in Node
    BY DEF Linked
  <2>. QED BY <1>16, <1>21, <2>1
<1>24. ~g[n].is_leaf /\ g[n].link = h[n].link /\ g[n].keys = t /\ g[n].kids = ct
  BY <1>12, <1>14
<1>25. Ordered(g, rt, T, lo, hi, hi)
  <2>1. InSpan(g[n].is_leaf, g[n].keys, lo[n], hi[n])
    BY <1>19, <1>24 DEF InSpan
  <2>2. Routes(g[n].keys, g[n].kids, lo[n], hi[n], lo, hi)
    BY <1>18, <1>24
  <2>. QED BY <1>14, <1>15, <1>22, <1>23, <1>24, <2>1, <2>2, RewriteOne
<1>26. SameEntries(h, T, g, T)
  BY <1>15, <1>24, NodeRewritten
<1>. QED BY <1>14, <1>25, <1>26

\* delete_entry, once the entry has been removed: h has the order back.
LEMMA DeleteEntryOrder ==
  ASSUME NEW h, NEW T \in SUBSET Node, T = InTree, NEW n \in T, NEW ht \in [Node -> Nat],
         Removed(h, root, T, n, ht), NEW ki, NEW pi,
         h = remove_entry_from_node(n, ki, pi), delete_entry(n, ki, pi),
         NEW lo \in [Node -> Nat], NEW hi \in [Node -> Bound], Ordered(h, root, T, lo, hi, hi)
  PROVE  \E T2, lo2, hi2, seen2 : T2 = InTree' /\ Keeps(h, T, T2, lo2, hi2, seen2) /\ Settled(hi2, seen2)
<1>1. \/ n = root /\ adjust_root(h)
      \/ /\ n # root
         /\ heap' = h
         /\ call' = Returning
         /\ UNCHANGED <<root, free, doomed>>
      \/ /\ n # root
         /\ Len(h[n].keys) < min_keys(h[n])
         /\ \E i \in 1..Len(h[h[n].parent].kids) :
               /\ FirstIndex(h[h[n].parent].kids, n, i)
               /\ Rebalance(h, n, i)
  BY Zenon DEF delete_entry
<1>2. ASSUME heap' = h, call' = Returning, UNCHANGED <<root, free, doomed>>
      PROVE  T = InTree' /\ Keeps(h, T, T, lo, hi, hi) /\ Settled(hi, hi)
  <2>1. T = InTree'
    BY <1>2 DEF InTree, Live
  <2>2. SameEntries(h, T, heap', T)
    BY <1>2 DEF SameEntries
  <2>3. Ordered(heap', root', T, lo, hi, hi)
    BY <1>2
  <2>. QED BY <1>2, <2>1, <2>2, <2>3 DEF Keeps, Settled
<1>3. CASE n = root /\ adjust_root(h)
  <2>1. CASE Len(h[n].keys) = 0
    <3>1. PICK rt \in T : rt = root /\ rt = n
      BY <1>3
    <3>2. Removed(h, rt, T, rt, ht) /\ Len(h[rt].keys) = 0 /\ adjust_root(h)
      BY <1>3, <2>1, <3>1
    <3>3. Keeps(h, T, T \ {rt}, lo, hi, hi)
      BY <3>1, <3>2, AdjustRootOrder
    <3>4. free' = free \cup {rt} /\ doomed' = doomed /\ call' = Returning
      BY <3>1, <3>2, AdjustRootTree
    <3>5. T \ {rt} = InTree'
      BY <3>4 DEF InTree, Live
    <3>6. Settled(hi, hi)
      BY <3>4 DEF Settled
    <3>. QED BY <3>3, <3>5, <3>6
  <2>2. CASE Len(h[n].keys) # 0
    <3>1. Len(h[root].keys) # 0
      BY <1>3, <2>2
    <3>2. heap' = h /\ call' = Returning /\ UNCHANGED <<root, free, doomed>>
      BY <1>3, <3>1, Zenon DEF adjust_root
    <3>. QED BY <1>2, <3>2
  <2>. QED BY <2>1, <2>2
<1>4. CASE /\ n # root
           /\ heap' = h
           /\ call' = Returning
           /\ UNCHANGED <<root, free, doomed>>
  BY <1>2, <1>4
<1>5. CASE /\ n # root
           /\ Len(h[n].keys) < min_keys(h[n])
           /\ \E i \in 1..Len(h[h[n].parent].kids) :
                 /\ FirstIndex(h[h[n].parent].kids, n, i)
                 /\ Rebalance(h, n, i)
  BY <1>5, RebalanceOrder
<1>. QED BY <1>1, <1>3, <1>4, <1>5

-----------------------------------------------------------------------------
(***************************************************************************)
(* insert, in a leaf.                                                      *)
(***************************************************************************)
Absent(ks, k) == \A j \in 1..Len(ks) : ks[j] # k

\* Where the loop of insert_into_leaf stops.
LEMMA PlaceOf ==
  ASSUME NEW ks \in Seq(Key), Ascending(ks), NEW k \in Key, Absent(ks, k),
         NEW i \in 1..(Len(ks) + 1), StopsAtOrAbove(ks, k, i)
  PROVE  Place(ks, i, k)
<1>1. Len(ks) \in Nat /\ k \in Nat /\ \A j \in 1..Len(ks) : ks[j] \in Nat
  BY KeyNat, KeyAssumption
<1>2. ASSUME NEW j \in 1..Len(ks), j < i PROVE ks[j] < k
  BY <1>1, <1>2 DEF StopsAtOrAbove
<1>3. ASSUME NEW j \in 1..Len(ks), i <= j PROVE k < ks[j]
  <2>1. i \in 1..Len(ks)
    BY <1>1, <1>3
  <2>2. k <= ks[i] /\ ks[i] # k /\ ks[i] \in Nat
    BY <1>1, <2>1 DEF StopsAtOrAbove, Absent
  <2>3. i = j \/ ks[i] < ks[j]
    BY <1>3, <2>1 DEF Ascending
  <2>4. ks[j] \in Nat
    BY <1>1
  <2>. QED BY <1>1, <2>2, <2>3, <2>4
<1>. QED BY <1>2, <1>3 DEF Place

\* The contents c of leaf r with an entry more.
Grown(r, c, i, k, v) ==
    c = [r EXCEPT !.keys = InsertAt(r.keys, i, k), !.recs = InsertAt(r.recs, i, v)]

\* What insert knows of the leaf r, of span a, b, and of the place i of its key.
Growing(r, a, b, i, k, v) ==
    /\ r \in NodeRec /\ r.is_leaf /\ ShapedNode(r) /\ a \in Nat /\ b \in Bound
    /\ InSpan(TRUE, r.keys, a, b) /\ k \in Key /\ v \in Val /\ a <= k /\ Below(k, b)
    /\ i \in 1..(Len(r.keys) + 1) /\ StopsAtOrAbove(r.keys, k, i) /\ Absent(r.keys, k)

\* The contents c of the leaf with the entry k, v.
Entered(r, a, b, k, v, c) ==
    /\ c \in NodeRec /\ c.is_leaf /\ c.link = r.link /\ c.kids = r.kids
    /\ Len(c.keys) = Len(r.keys) + 1 /\ Len(c.recs) = Len(c.keys)
    /\ InSpan(TRUE, c.keys, a, b)
    /\ PutIn(r, c, k, v)

\* They are in the span the leaf had, and hold the new entry too.
LEMMA GrownLeaf ==
  ASSUME NEW r, NEW a, NEW b, NEW i, NEW k, NEW v, Growing(r, a, b, i, k, v), NEW c, Grown(r, c, i, k, v)
  PROVE  Entered(r, a, b, k, v, c)
<1> USE DEF Growing
<1>1. PICK ks \in Seq(Key), rs \in Seq(Val) : ks = r.keys /\ rs = r.recs
  BY DEF NodeRec
<1>2. Len(rs) = Len(ks) /\ i \in 1..(Len(ks) + 1) /\ i \in 1..(Len(rs) + 1)
  BY <1>1 DEF ShapedNode
<1>3. PICK t \in Seq(Key), q \in Seq(Val) : /\ t = InsertAt(ks, i, k) /\ Inserted(t, ks, i, k)
                                            /\ q = InsertAt(rs, i, v) /\ Inserted(q, rs, i, v)
  BY <1>2, InsertAtIs
<1>4. c = [r EXCEPT !.keys = t, !.recs = q]
  BY <1>1, <1>3 DEF Grown
<1>5. c \in NodeRec /\ c.is_leaf /\ c.link = r.link /\ c.kids = r.kids /\ c.keys = t /\ c.recs = q
  BY <1>4 DEF NodeRec
<1>6. Len(t) = Len(ks) + 1 /\ Len(q) = Len(rs) + 1
  BY <1>3 DEF Inserted
<1>7. Place(ks, i, k)
  <2>1. Ascending(ks) /\ StopsAtOrAbove(ks, k, i) /\ Absent(ks, k)
    BY <1>1 DEF InSpan
  <2>. QED BY <1>2, <2>1, PlaceOf
<1>8. InSpan(TRUE, t, a, b)
  <2>1. InSpan(TRUE, ks, a, b)
    BY <1>1
  <2>. QED BY <1>2, <1>3, <1>7, <2>1, InsertSpan
<1>9. PutIn(r, c, k, v)
  <2>1. \A x, w : Holds(t, q, x, w) <=> ((x = k /\ w = v) \/ Holds(ks, rs, x, w))
    BY <1>2, <1>3, HoldsInsert
  <2>2. \A w : ~Holds(ks, rs, k, w)
    BY <1>1 DEF Absent, Holds
  <2>. QED BY ONLY <1>1, <1>5, <2>1, <2>2 DEF PutIn
<1>. QED BY <1>1, <1>2, <1>5, <1>6, <1>8, <1>9 DEF Entered

\* Leaf n gets the contents c: its link and its span stay.
LEMMA LeafWritten ==
  ASSUME NEW h \in [Node -> NodeRec], NEW rt, NEW T \in SUBSET Node, NEW n \in T, h[n].is_leaf, Shaped(h, T),
         NEW lo \in [Node -> Nat], NEW hi \in [Node -> Bound], Ordered(h, rt, T, lo, hi, hi),
         NEW c \in NodeRec, c.is_leaf, c.link = h[n].link, InSpan(TRUE, c.keys, lo[n], hi[n]),
         NEW g, g = [h EXCEPT ![n] = c],
         NEW k \in Key, NEW v, lo[n] <= k, Below(k, hi[n]), PutIn(h[n], c, k, v)
  PROVE  Ordered(g, rt, T, lo, hi, hi) /\ Puts(h, T, g, T, k, v)
<1>1. g \in [Node -> NodeRec] /\ g[n] = c /\ \A m \in Node \ {n} : g[m] = h[m]
  OBVIOUS
<1>2. AllAlike(h, g, T \ {n})
  BY <1>1 DEF AllAlike, Alike
<1>3. SeenElsewhere(h, T, n, hi, hi)
  BY DEF SeenElsewhere
<1>4. InSpan(g[n].is_leaf, g[n].keys, lo[n], hi[n]) /\ g[n].is_leaf /\ g[n].link = h[n].link
  BY <1>1 DEF InSpan
<1>5. Ordered(g, rt, T, lo, hi, hi)
  BY <1>1, <1>2, <1>3, <1>4, RewriteOne
<1>6. Only(h, T, n, k)
  <2>1. Spans(h, T, lo, hi) /\ Apart(h, T, lo, hi) /\ k \in Nat
    BY KeyAssumption DEF Ordered
  <2>. QED BY <2>1, NotElsewhere
<1>7. PutIn(h[n], g[n], k, v)
  BY <1>1
<1>8. Puts(h, T, g, T, k, v)
  BY <1>2, <1>4, <1>6, <1>7, LeafPuts
<1>. QED BY <1>5, <1>8

-----------------------------------------------------------------------------
(***************************************************************************)
(* Between the state and the ghost spans.                                  *)
(***************************************************************************)

\* The nodes T of the tree have the spans lo, hi, and its arrays say so.
Spanned(T, lo, hi) ==
    /\ T \in SUBSET Node /\ T = InTree
    /\ lo \in [Node -> Nat] /\ hi \in [Node -> Bound]
    /\ Ordered(heap, root, T, lo, hi, hi)

\* A search for the key k is at node n, whose span has the key.
At(n, k, lo, hi) == n # NULL => lo[n] <= k /\ Below(k, hi[n])

\* What a search relies on.
LEMMA Searched ==
  ASSUME OrdInv, call.pc \in Searching
  PROVE  /\ call.key \in Key /\ call.node \in InTree \cup {NULL} /\ rng = <<>> /\ ret = Void
         /\ call.node = NULL => root = NULL
         /\ \E T, lo, hi : Spanned(T, lo, hi) /\ At(call.node, call.key, lo, hi)
<1>1. PICK lo \in [Node -> Nat], hi \in [Node -> Bound], seen \in [Node -> Bound] : OrderOK(lo, hi, seen)
  BY DEF OrdInv, InOrder
<1>2. PICK T \in SUBSET Node : T = InTree
  BY DEF InTree, Live
<1>3. seen = hi
  BY <1>1 DEF OrderOK, Pending, Searching
<1>4. Ordered(heap, root, T, lo, hi, hi)
  BY <1>1, <1>2, <1>3 DEF OrderOK
<1>5. Searches(lo, hi)
  BY <1>1 DEF OrderOK
<1>6. At(call.node, call.key, lo, hi)
  BY <1>5 DEF Searches, At
<1>7. rng = <<>>
  BY <1>5 DEF Searches, Searching
<1>8. Spanned(T, lo, hi)
  BY <1>2, <1>4 DEF Spanned
<1>9. CallOK /\ ret = Void
  BY DEF OrdInv, IndInv, Unanswered
<1>. QED BY <1>6, <1>7, <1>8, <1>9 DEF CallOK

\* Nothing is pending after the step: the spans it leaves are the invariant's.
LEMMA Restored ==
  ASSUME NEW T \in SUBSET Node, T = InTree', NEW lo \in [Node -> Nat], NEW hi \in [Node -> Bound],
         Ordered(heap', root', T, lo, hi, hi), call'.pc \in {"idle", "return"}, rng' = <<>>
  PROVE  InOrder'
<1>1. Ordered(heap, root, InTree, lo, hi, hi)'
  OBVIOUS
<1>2. Pending(lo, hi, hi)'
  BY DEF Pending
<1>3. Searches(lo, hi)'
  BY DEF Searches, Searching
<1>4. OrderOK(lo, hi, hi)'
  BY <1>1, <1>2, <1>3 DEF OrderOK
<1>. QED BY <1>4 DEF InOrder

\* What the steps that change one leaf rely on.
LeafFacts(T, lo, hi, n, op) ==
    /\ Spanned(T, lo, hi) /\ heap \in [Node -> NodeRec] /\ heap[n] \in NodeRec
    /\ Shaped(heap, T) /\ ShapedNode(heap[n])
    /\ n = call.node /\ n \in T /\ heap[n].is_leaf
    /\ call.key \in Key /\ lo[n] <= call.key /\ Below(call.key, hi[n])
    /\ InSpan(TRUE, heap[n].keys, lo[n], hi[n])
    /\ rng = <<>> /\ ret = Void /\ call.pc = op

\* What find_leaf has found when its loop has ended at a leaf.
LEMMA LeafKnown ==
  ASSUME OrdInv, NEW op \in Searching, AtLeaf(op)
  PROVE  \E T, lo, hi, n : LeafFacts(T, lo, hi, n, op)
<1>1. call.pc = op /\ call.pc \in Searching /\ call.node # NULL /\ heap[call.node].is_leaf
  BY DEF AtLeaf
<1>2. PICK T, lo, hi : Spanned(T, lo, hi) /\ At(call.node, call.key, lo, hi)
  BY <1>1, Searched
<1>3. /\ call.key \in Key /\ call.node \in InTree \cup {NULL} /\ rng = <<>> /\ ret = Void
  BY <1>1, Searched
<1>4. PICK n : n = call.node
  OBVIOUS
<1>5. n \in T /\ T \in SUBSET Node /\ heap[n].is_leaf
  BY <1>1, <1>2, <1>3, <1>4 DEF Spanned
<1>6. heap \in [Node -> NodeRec] /\ Shaped(heap, T)
  BY <1>2 DEF OrdInv, IndInv, TypeOK, Spanned
<1>7. heap[n] \in NodeRec /\ ShapedNode(heap[n])
  BY <1>5, <1>6 DEF Shaped
<1>8. lo[n] <= call.key /\ Below(call.key, hi[n])
  BY <1>1, <1>2, <1>4 DEF At
<1>9. InSpan(TRUE, heap[n].keys, lo[n], hi[n])
  BY <1>2, <1>5 DEF Spanned, Ordered, Spans, InSpan
<1>10. LeafFacts(T, lo, hi, n, op)
  BY <1>1, <1>2, <1>3, <1>4, <1>5, <1>6, <1>7, <1>8, <1>9 DEF LeafFacts
<1>. QED BY <1>10

-----------------------------------------------------------------------------
(***************************************************************************)
(* insert: the steps in a leaf.                                            *)
(***************************************************************************)

\* insert_into_leaf adds the entry.
LEMMA InsertIntoLeafOrder ==
  ASSUME OrdInv, insert_into_leaf
  PROVE  InOrder' /\ Puts(heap, InTree, heap', InTree', call.key, call.val)
<1>1. /\ AtLeaf("insert") /\ ~Present(call.key) /\ call' = Idle
      /\ UNCHANGED <<root, free, doomed, ret, rng>>
  BY DEF insert_into_leaf
<1>2. PICK T, lo, hi, n : LeafFacts(T, lo, hi, n, "insert")
  BY <1>1, LeafKnown DEF Searching
<1>3. PICK i \in 1..(Len(heap[n].keys) + 1) :
         /\ StopsAtOrAbove(heap[n].keys, call.key, i)
         /\ heap' = [heap EXCEPT ![n].keys = InsertAt(@, i, call.key),
                                 ![n].recs = InsertAt(@, i, call.val)]
  BY <1>2 DEF insert_into_leaf, LeafFacts
<1>4. PICK k \in Key, v \in Val : k = call.key /\ v = call.val
  BY <1>2 DEF LeafFacts, OrdInv, IndInv, CallOK, Searching
<1>5. PICK c : Grown(heap[n], c, i, k, v)
  BY DEF Grown
<1>6. heap' = [heap EXCEPT ![n] = c]
  BY <1>2, <1>3, <1>4, <1>5 DEF Grown, LeafFacts
<1>7. Absent(heap[n].keys, k)
  BY <1>1, <1>2, <1>4 DEF Present, Absent, LeafFacts
<1>8. /\ T \in SUBSET Node /\ n \in T /\ lo[n] \in Nat /\ hi[n] \in Bound /\ lo[n] <= k /\ Below(k, hi[n])
      /\ lo \in [Node -> Nat] /\ hi \in [Node -> Bound] /\ Ordered(heap, root, T, lo, hi, hi)
  BY <1>2, <1>4 DEF LeafFacts, Spanned
<1>9. /\ heap[n] \in NodeRec /\ heap[n].is_leaf /\ ShapedNode(heap[n])
      /\ InSpan(TRUE, heap[n].keys, lo[n], hi[n])
      /\ heap \in [Node -> NodeRec] /\ Shaped(heap, T) /\ rng = <<>> /\ T = InTree
  BY <1>2 DEF LeafFacts, Spanned
<1>10. /\ c \in NodeRec /\ c.is_leaf /\ c.link = heap[n].link
       /\ InSpan(TRUE, c.keys, lo[n], hi[n]) /\ PutIn(heap[n], c, k, v)
  <2>1. Growing(heap[n], lo[n], hi[n], i, k, v)
    BY <1>3, <1>4, <1>7, <1>8, <1>9 DEF Growing
  <2>2. Entered(heap[n], lo[n], hi[n], k, v, c)
    BY ONLY <1>5, <2>1, GrownLeaf
  <2>. QED BY <2>2 DEF Entered
<1>11. Ordered(heap', root, T, lo, hi, hi) /\ Puts(heap, T, heap', T, k, v)
  <2>1. PICK g : g = heap'
    OBVIOUS
  <2>2. g = [heap EXCEPT ![n] = c]
    BY <1>6, <2>1
  <2>3. Ordered(g, root, T, lo, hi, hi) /\ Puts(heap, T, g, T, k, v)
    BY ONLY <1>8, <1>9, <1>10, <2>2, LeafWritten, k \in Key
  <2>. QED BY <2>1, <2>3
<1>12. T = InTree'
  BY <1>1, <1>9 DEF InTree, Live
<1>13. call'.pc = "idle" /\ rng' = <<>> /\ root' = root
  BY <1>1, <1>9 DEF Idle
<1>14. InOrder'
  BY <1>8, <1>11, <1>12, <1>13, Restored
<1>. QED BY <1>4, <1>9, <1>11, <1>12, <1>14

\* insert_update gives the record of the key its new value.
LEMMA InsertUpdateOrder ==
  ASSUME OrdInv, insert_update
  PROVE  InOrder' /\ Puts(heap, InTree, heap', InTree', call.key, call.val)
<1>1. AtLeaf("insert") /\ call' = Idle /\ UNCHANGED <<root, free, doomed, ret, rng>>
  BY DEF insert_update
<1>2. PICK T, lo, hi, n : LeafFacts(T, lo, hi, n, "insert")
  BY <1>1, LeafKnown DEF Searching
<1>3. PICK k \in Key, v \in Val : k = call.key /\ v = call.val
  BY <1>2 DEF LeafFacts, OrdInv, IndInv, CallOK, Searching
<1>4. PICK i \in 1..Len(heap[n].keys) :
         heap[n].keys[i] = k /\ heap' = [heap EXCEPT ![n].recs[i] = v]
  BY <1>2, <1>3 DEF insert_update, LeafFacts, FirstIndex
<1>5. /\ T \in SUBSET Node /\ n \in T /\ lo[n] <= k /\ Below(k, hi[n])
      /\ lo \in [Node -> Nat] /\ hi \in [Node -> Bound] /\ Ordered(heap, root, T, lo, hi, hi)
  BY <1>2, <1>3 DEF LeafFacts, Spanned
<1>6. /\ heap[n] \in NodeRec /\ heap[n].is_leaf /\ ShapedNode(heap[n])
      /\ InSpan(TRUE, heap[n].keys, lo[n], hi[n])
      /\ heap \in [Node -> NodeRec] /\ Shaped(heap, T) /\ rng = <<>> /\ T = InTree
  BY <1>2 DEF LeafFacts, Spanned
<1>7. PICK ks \in Seq(Key), rs \in Seq(Val) : ks = heap[n].keys /\ rs = heap[n].recs
  BY <1>6 DEF NodeRec
<1>8. Len(rs) = Len(ks) /\ i \in 1..Len(ks) /\ i \in 1..Len(rs) /\ ks[i] = k /\ Ascending(ks)
  BY <1>4, <1>6, <1>7 DEF ShapedNode, InSpan
<1>9. PICK q \in Seq(Val) : q = [rs EXCEPT ![i] = v] /\ Len(q) = Len(rs)
  <2>1. [rs EXCEPT ![i] = v] \in Seq(Val) /\ Len([rs EXCEPT ![i] = v]) = Len(rs)
    BY ONLY <1>8, ExceptProps, rs \in Seq(Val), v \in Val
  <2>. QED BY ONLY <2>1
<1>10. q[i] = v /\ Len(q) = Len(ks) /\ \A j \in 1..Len(ks) : j # i => q[j] = rs[j]
  <2>1. DOMAIN rs = 1..Len(rs)
    OBVIOUS
  <2>. QED BY <1>8, <1>9, <2>1
<1>11. PICK c : c = [heap[n] EXCEPT !.recs = q]
  OBVIOUS
<1>12. c \in NodeRec /\ c.is_leaf /\ c.link = heap[n].link /\ c.keys = ks /\ c.recs = q
  BY <1>6, <1>7, <1>11 DEF NodeRec
<1>13. PICK g : g = heap' /\ g = [heap EXCEPT ![n] = c]
  BY <1>4, <1>7, <1>9, <1>11
<1>14. PutIn(heap[n], c, k, v)
  <2>1. \A x, w : Holds(ks, q, x, w) <=> ((x = ks[i] /\ w = v) \/ (x # ks[i] /\ Holds(ks, rs, x, w)))
    BY <1>8, <1>10, HoldsUpdate
  <2>. QED BY ONLY <1>7, <1>8, <1>12, <2>1 DEF PutIn
<1>15. InSpan(TRUE, c.keys, lo[n], hi[n])
  BY <1>6, <1>7, <1>12
<1>16. Ordered(g, root, T, lo, hi, hi) /\ Puts(heap, T, g, T, k, v)
  BY ONLY <1>5, <1>6, <1>12, <1>13, <1>14, <1>15, LeafWritten, k \in Key
<1>17. T = InTree'
  BY <1>1, <1>6 DEF InTree, Live
<1>18. call'.pc = "idle" /\ rng' = <<>> /\ root' = root
  BY <1>1, <1>6 DEF Idle
<1>19. InOrder'
  BY <1>5, <1>13, <1>16, <1>17, <1>18, Restored
<1>. QED BY <1>3, <1>6, <1>13, <1>16, <1>17, <1>19

\* A tree with no root has no leaf: start_new_tree makes the first one.
LEMMA StartNewTreeOrder ==
  ASSUME OrdInv, start_new_tree
  PROVE  InOrder' /\ Puts(heap, InTree, heap', InTree', call.key, call.val)
<1>1. /\ call.pc = "insert" /\ call.node = NULL /\ free # {} /\ call' = Idle
      /\ UNCHANGED <<doomed, ret, rng>>
  BY DEF start_new_tree, NoTree
<1>2. PICK new : new = alloc_node /\ new \in free
  BY <1>1 DEF alloc_node
<1>3. PICK T, lo, hi : Spanned(T, lo, hi)
  BY <1>1, Searched DEF Searching
<1>4. /\ root = NULL /\ rng = <<>> /\ call.key \in Key
  BY <1>1, Searched DEF Searching
<1>5. PICK k \in Key, v \in Val : k = call.key /\ v = call.val
  BY <1>1, <1>4 DEF OrdInv, IndInv, CallOK
<1>6. /\ T \in SUBSET Node /\ T = InTree /\ lo \in [Node -> Nat] /\ hi \in [Node -> Bound]
      /\ Ordered(heap, NULL, T, lo, hi, hi) /\ heap \in [Node -> NodeRec] /\ new \in Node \ T
      /\ Shaped(heap, T) /\ Linked(heap, NULL, T, {}, {})
  <2>1. Dangling = {} /\ Orphan = {}
    BY <1>1 DEF Dangling, Orphan
  <2>. QED BY <1>2, <1>3, <1>4, <2>1 DEF Spanned, OrdInv, IndInv, TypeOK, InTree, Live
<1>7. PICK c : c = [make_leaf EXCEPT !.keys = <<k>>, !.recs = <<v>>]
  OBVIOUS
<1>8. <<k>> \in Seq(Key) /\ <<v>> \in Seq(Val) /\ Len(<<k>>) = 1 /\ <<k>>[1] = k /\ <<v>>[1] = v
  OBVIOUS
<1>9. c \in NodeRec /\ c.is_leaf /\ c.keys = <<k>> /\ c.recs = <<v>> /\ c.link = NULL
  <2>1. PICK r : r = make_leaf /\ r \in NodeRec /\ r.is_leaf /\ r.link = NULL
    <3>1. make_leaf.link = NULL
      BY DEF make_leaf, make_node, Blank
    <3>. QED BY <3>1, MakeLeaf
  <2>2. PICK ks \in Seq(Key), rs \in Seq(Val) : ks = <<k>> /\ rs = <<v>>
    BY <1>8
  <2>3. c = [r EXCEPT !.keys = ks, !.recs = rs]
    BY <1>7, <2>1, <2>2
  <2>4. c \in NodeRec /\ c.is_leaf /\ c.keys = ks /\ c.recs = rs /\ c.link = NULL
    BY ONLY <2>1, <2>3, ks \in Seq(Key), rs \in Seq(Val) DEF NodeRec
  <2>. QED BY <2>2, <2>4
<1>10. PICK g : /\ g = heap' /\ g \in [Node -> NodeRec] /\ g[new] = c
                /\ \A m \in Node \ {new} : g[m] = heap[m]
  <2>1. heap' = [heap EXCEPT ![new] = c]
    BY <1>2, <1>5, <1>7 DEF start_new_tree
  <2>. QED BY <1>6, <1>9, <2>1
<1>11. root' = new /\ free' = free \ {new}
  BY <1>2 DEF start_new_tree
<1>12. PICK T2 \in SUBSET Node : T2 = T \cup {new} /\ T2 = InTree'
  <2>1. new \notin doomed
    BY <1>1 DEF OrdInv, IndInv, CallOK
  <2>. QED BY <1>1, <1>2, <1>6, <1>11, <2>1 DEF InTree, Live
<1>13. PICK lo2, hi2 : lo2 = [lo EXCEPT ![new] = 0] /\ hi2 = [hi EXCEPT ![new] = Inf]
  OBVIOUS
<1>14. /\ lo2 \in [Node -> Nat] /\ hi2 \in [Node -> Bound] /\ lo2[new] = 0 /\ hi2[new] = Inf
       /\ \A m \in Node \ {new} : lo2[m] = lo[m] /\ hi2[m] = hi[m]
  BY <1>6, <1>13 DEF Bound
<1>15. \A m \in T : ~heap[m].is_leaf
  BY <1>6 DEF Ordered, Rooted
<1>16. Spans(g, T2, lo2, hi2) /\ Routed(g, T2, lo2, hi2, hi2)
  <2>1. PICK S : S = {new}
    OBVIOUS
  <2>2. \A m \in T2 \ S : m \in T /\ Alike(heap, g, m) /\ lo2[m] = lo[m] /\ hi2[m] = hi[m]
    BY <1>6, <1>10, <1>12, <1>14, <2>1 DEF Alike
  <2>3. \A m \in T2 \ S : \A x \in Kids(heap, m) : lo2[x] = lo[x] /\ hi2[x] = hi[x]
    <3>1. \A m \in T : \A x \in Kids(heap, m) : x \in T
      BY <1>6 DEF Linked
    <3>. QED BY <1>6, <1>12, <1>14, <2>1, <3>1
  <2>4. InSpan(TRUE, <<k>>, 0, Inf)
    BY <1>8, KeyAssumption DEF InSpan, Ascending, Below, Inf
  <2>5. \A m \in T2 \cap S : InSpan(g[m].is_leaf, g[m].keys, lo2[m], hi2[m])
    BY <1>9, <1>10, <1>14, <2>1, <2>4 DEF InSpan
  <2>6. \A m \in T2 \cap S : g[m].is_leaf \/ Routes(g[m].keys, g[m].kids, lo2[m], hi2[m], lo2, hi2)
    BY <1>9, <1>10, <2>1
  <2>7. Spans(heap, T, lo, hi) /\ Routed(heap, T, lo, hi, hi)
    BY <1>6 DEF Ordered
  <2>. QED BY ONLY <1>6, <1>10, <2>2, <2>3, <2>5, <2>6, <2>7, SpansKept, T2 \in SUBSET Node
<1>17. \A m \in T2 : g[m].is_leaf => m = new
  BY <1>6, <1>10, <1>12, <1>15
<1>18. Apart(g, T2, lo2, hi2)
  BY <1>17 DEF Apart
<1>19. Chained(g, T2, lo2, hi2)
  BY <1>9, <1>10, <1>14, <1>17 DEF Chained
<1>20. Rooted(g, new, T2, lo2, hi2)
  BY <1>6, <1>14, NullAssumption DEF Rooted
<1>21. Ordered(g, new, T2, lo2, hi2, hi2)
  BY <1>16, <1>18, <1>19, <1>20 DEF Ordered
<1>22. Puts(heap, T, g, T2, k, v)
  <2>1. \A x, w : Holds(<<k>>, <<v>>, x, w) <=> (x = k /\ w = v)
    BY <1>8 DEF Holds
  <2>2. \A x, w : Has(g, T2, x, w) <=> Holds(g[new].keys, g[new].recs, x, w)
    BY <1>9, <1>10, <1>12, <1>17 DEF Has
  <2>3. \A x, w : ~Has(heap, T, x, w)
    BY <1>15 DEF Has
  <2>4. g[new].keys = <<k>> /\ g[new].recs = <<v>>
    BY <1>9, <1>10
  <2>. QED BY ONLY <2>1, <2>2, <2>3, <2>4 DEF Puts
<1>23. call'.pc = "idle" /\ rng' = <<>>
  BY <1>1, <1>4 DEF Idle
<1>24. InOrder'
  BY <1>10, <1>11, <1>12, <1>14, <1>21, <1>23, Restored
<1>. QED BY <1>5, <1>6, <1>10, <1>12, <1>22, <1>24

-----------------------------------------------------------------------------
(***************************************************************************)
(* insert: the split of a leaf.                                            *)
(***************************************************************************)

\* The keys u of a leaf in two parts: the second one's first key divides the span.
LEMMA CutLeafSpan ==
  ASSUME NEW u \in Seq(Key), NEW a \in Nat, NEW b \in Bound, InSpan(TRUE, u, a, b),
         NEW s \in Seq(Key), NEW t \in Seq(Key), Cat(u, s, t), Len(s) >= 1, Len(t) >= 1
  PROVE  /\ InSpan(TRUE, s, a, t[1]) /\ InSpan(TRUE, t, t[1], b)
         /\ t[1] \in Key /\ a < t[1] /\ Below(t[1], b)
<1>1. PICK m \in Nat : m = Len(s) /\ 1 <= m /\ m < Len(u) /\ Len(t) = Len(u) - m
  <2>1. Len(u) = Len(s) + Len(t) /\ Len(s) \in Nat /\ Len(t) \in Nat
    BY DEF Cat
  <2>. QED BY <2>1
<1>2. Len(s) = m /\ \A i \in 1..m : s[i] = u[i]
  BY <1>1 DEF Cat
<1>3. Len(t) = Len(u) - m /\ \A i \in 1..Len(t) : t[i] = u[m + i]
  BY <1>1 DEF Cat
<1>4. t[1] = u[m + 1] /\ 1 \in 1..Len(t)
  <2>1. 1 \in 1..Len(t)
    OBVIOUS
  <2>. QED BY <1>3, <2>1
<1>5. InSpan(TRUE, s, a, u[m + 1]) /\ InSpan(TRUE, t, u[m + 1], b)
  BY <1>1, <1>2, <1>3, SplitLeafSpan
<1>6. t[1] \in Key /\ t[1] \in Nat
  BY ONLY <1>4, KeyNat, t \in Seq(Key)
<1>7. Below(a, t[1]) /\ Below(t[1], b)
  BY <1>4, <1>5 DEF InSpan
<1>8. a < t[1]
  BY ONLY <1>6, <1>7 DEF Below, Inf
<1>. QED BY <1>4, <1>5, <1>6, <1>7, <1>8

\* The entries of the contents c are those of the contents a and b of two leaves.
Shares(c, a, b) ==
    \A k, v : Holds(c.keys, c.recs, k, v) <=> (Holds(a.keys, a.recs, k, v) \/ Holds(b.keys, b.recs, k, v))

\* Leaf n has got the value v for the key k, and has given entries to leaf new.
LEMMA SplitPuts ==
  ASSUME NEW h, NEW g, NEW T, NEW n \in T, NEW new, new \notin T, h[n].is_leaf, g[n].is_leaf, g[new].is_leaf,
         AllAlike(h, g, T \ {n}), NEW k0, NEW v0, Only(h, T, n, k0),
         NEW c, PutIn(h[n], c, k0, v0), Shares(c, g[n], g[new])
  PROVE  Puts(h, T, g, T \cup {new}, k0, v0)
<1>1. \A m \in T \ {n} : /\ g[m].is_leaf <=> h[m].is_leaf
                         /\ g[m].keys = h[m].keys /\ g[m].recs = h[m].recs
  BY DEF AllAlike, Alike
<1>2. \A k, v : (Holds(g[n].keys, g[n].recs, k, v) \/ Holds(g[new].keys, g[new].recs, k, v))
                <=> ((k = k0 /\ v = v0) \/ (k # k0 /\ Holds(h[n].keys, h[n].recs, k, v)))
  BY ONLY PutIn(h[n], c, k0, v0), Shares(c, g[n], g[new]) DEF PutIn, Shares
<1>3. ASSUME NEW k, NEW v, Has(g, T \cup {new}, k, v)
      PROVE  (k = k0 /\ v = v0) \/ (k # k0 /\ Has(h, T, k, v))
  <2>1. PICK m \in T \cup {new} : g[m].is_leaf /\ Holds(g[m].keys, g[m].recs, k, v)
    BY <1>3 DEF Has
  <2>2. CASE m = n \/ m = new
    <3>1. (k = k0 /\ v = v0) \/ (k # k0 /\ Holds(h[n].keys, h[n].recs, k, v))
      BY <1>2, <2>1, <2>2
    <3>. QED BY <3>1 DEF Has
  <2>3. CASE m # n /\ m # new
    <3>1. m \in T \ {n} /\ h[m].is_leaf /\ Holds(h[m].keys, h[m].recs, k, v)
      BY <1>1, <2>1, <2>3
    <3>. QED BY <3>1 DEF Has, Only
  <2>. QED BY <2>2, <2>3
<1>4. ASSUME NEW k, NEW v, (k = k0 /\ v = v0) \/ (k # k0 /\ Has(h, T, k, v))
      PROVE  Has(g, T \cup {new}, k, v)
  <2>1. ASSUME Holds(g[n].keys, g[n].recs, k, v) \/ Holds(g[new].keys, g[new].recs, k, v)
        PROVE  Has(g, T \cup {new}, k, v)
    BY <2>1 DEF Has
  <2>2. CASE k = k0 /\ v = v0
    BY <1>2, <2>1, <2>2
  <2>3. CASE k # k0 /\ Has(h, T, k, v)
    <3>1. PICK m \in T : h[m].is_leaf /\ Holds(h[m].keys, h[m].recs, k, v)
      BY <2>3 DEF Has
    <3>2. CASE m = n
      BY <1>2, <2>1, <2>3, <3>1, <3>2
    <3>3. CASE m # n
      <4>1. m \in T \cup {new} /\ g[m].is_leaf /\ Holds(g[m].keys, g[m].recs, k, v)
        BY <1>1, <3>1, <3>3
      <4>. QED BY <4>1 DEF Has
    <3>. QED BY <3>2, <3>3
  <2>. QED BY <1>4, <2>2, <2>3
<1>. QED BY <1>3, <1>4 DEF Puts

\* Leaf n has been split at x: new is the leaf after it.
LeafSplit(h, g, T, n, new, x, lo, hi) ==
    /\ g \in [Node -> NodeRec]
    /\ AllAlike(h, g, T \ {n}) /\ LinkedIn(h, g, T, n, new)
    /\ x \in Key /\ lo[n] < x /\ Below(x, hi[n])
    /\ InSpan(TRUE, g[n].keys, lo[n], x) /\ InSpan(TRUE, g[new].keys, x, hi[n])

\* The leaves have their spans; the parent's arrays are as they were.
LEMMA SplitLeafOrder ==
  ASSUME NEW h \in [Node -> NodeRec], NEW rt, NEW T \in SUBSET Node, NEW n \in T, h[n].is_leaf, Shaped(h, T),
         Linked(h, rt, T, {}, {}), NEW lo \in [Node -> Nat], NEW hi \in [Node -> Bound],
         Ordered(h, rt, T, lo, hi, hi), NEW new \in Node \ T, NEW g, NEW x, LeafSplit(h, g, T, n, new, x, lo, hi)
  PROVE  \E lo2 \in [Node -> Nat], hi2, seen2 \in [Node -> Bound] :
            /\ Ordered(g, rt, T \cup {new}, lo2, hi2, seen2)
            /\ SplitSeen(n, new, x, lo2, hi2, seen2)
<1>1. /\ g \in [Node -> NodeRec] /\ AllAlike(h, g, T \ {n}) /\ LinkedIn(h, g, T, n, new)
      /\ x \in Key /\ lo[n] < x /\ Below(x, hi[n])
      /\ InSpan(TRUE, g[n].keys, lo[n], x) /\ InSpan(TRUE, g[new].keys, x, hi[n])
  BY DEF LeafSplit
<1>2. /\ Spans(h, T, lo, hi) /\ Routed(h, T, lo, hi, hi) /\ Rooted(h, rt, T, lo, hi)
      /\ Apart(h, T, lo, hi) /\ Chained(h, T, lo, hi)
  BY DEF Ordered
<1>3. x \in Nat /\ new # n
  BY <1>1, KeyAssumption
<1>4. PICK lo2, hi2 : Halves(lo, hi, n, new, x, lo2, hi2)
  BY DEF Halves
<1>5. PICK seen2 : seen2 = [hi2 EXCEPT ![n] = hi[n]]
  OBVIOUS
<1>6. /\ lo2 \in [Node -> Nat] /\ hi2 \in [Node -> Bound]
      /\ lo2[new] = x /\ hi2[n] = x /\ hi2[new] = hi[n] /\ lo2[n] = lo[n]
      /\ \A m \in Node \ {new} : lo2[m] = lo[m]
      /\ \A m \in Node \ {new, n} : hi2[m] = hi[m]
  BY <1>3, <1>4 DEF Halves, Bound
<1>7. /\ seen2 \in [Node -> Bound] /\ seen2[n] = hi[n]
      /\ \A m \in Node \ {new} : seen2[m] = hi[m]
  BY <1>3, <1>5, <1>6
<1>8. Apart(g, T \cup {new}, lo2, hi2) /\ Chained(g, T \cup {new}, lo2, hi2)
  BY <1>1, <1>2, <1>3, <1>4, SplitChain
<1>9. PICK T2 \in SUBSET Node : T2 = T \cup {new}
  OBVIOUS
<1>10. g[n].is_leaf /\ g[new].is_leaf /\ \A m \in T : g[m].is_leaf <=> h[m].is_leaf
  BY <1>1 DEF LinkedIn
<1>11. Spans(g, T2, lo2, hi2) /\ Routed(g, T2, lo2, hi2, seen2)
  <2>1. PICK S : S = {n, new}
    OBVIOUS
  <2>2. \A m \in T2 \ S : m \in T /\ Alike(h, g, m) /\ lo2[m] = lo[m] /\ hi2[m] = hi[m]
    BY <1>1, <1>6, <1>9, <2>1 DEF AllAlike
  <2>3. \A m \in T2 \ S : \A c \in Kids(h, m) : lo2[c] = lo[c] /\ seen2[c] = hi[c]
    <3>1. \A m \in T : \A c \in Kids(h, m) : c \in T
      BY DEF Linked
    <3>. QED BY <1>6, <1>7, <1>9, <2>1, <3>1
  <2>4. \A m \in T2 \cap S : InSpan(g[m].is_leaf, g[m].keys, lo2[m], hi2[m])
    BY <1>1, <1>6, <1>10, <2>1 DEF InSpan
  <2>5. \A m \in T2 \cap S : g[m].is_leaf \/ Routes(g[m].keys, g[m].kids, lo2[m], hi2[m], lo2, seen2)
    BY <1>10, <2>1
  <2>. QED BY ONLY <1>1, <1>2, <2>2, <2>3, <2>4, <2>5, SpansKept, T2 \in SUBSET Node, T \in SUBSET Node,
                   h \in [Node -> NodeRec], Shaped(h, T)
<1>12. Rooted(g, rt, T2, lo2, seen2)
  <2>1. rt # NULL /\ lo[rt] = 0 /\ hi[rt] = Inf
    BY <1>2 DEF Rooted
  <2>2. rt \in T
    BY <2>1 DEF Linked
  <2>. QED BY <1>6, <1>7, <2>1, <2>2 DEF Rooted
<1>13. Ordered(g, rt, T2, lo2, hi2, seen2)
  BY <1>8, <1>9, <1>11, <1>12 DEF Ordered
<1>14. SplitSeen(n, new, x, lo2, hi2, seen2)
  BY <1>5, <1>6 DEF SplitSeen
<1>. QED BY <1>6, <1>7, <1>9, <1>13, <1>14

\* What is left of the contents c of a full leaf, and what the new leaf gets.
Lower(r, c, m, new) == [r EXCEPT !.keys = SubSeq(c.keys, 1, m), !.recs = SubSeq(c.recs, 1, m), !.link = new]

Upper(r, c, m) == [make_leaf EXCEPT !.keys = SubSeq(c.keys, m + 1, Order), !.recs = SubSeq(c.recs, m + 1, Order),
                                    !.parent = r.parent, !.link = r.link]

\* The two leaves: contents a and b, divided at x.
Parted(r, c, lo, hi, new, a, b, x) ==
    /\ a \in NodeRec /\ b \in NodeRec /\ a.is_leaf /\ b.is_leaf
    /\ a.link = new /\ b.link = r.link
    /\ x \in Key /\ lo < x /\ Below(x, hi)
    /\ InSpan(TRUE, a.keys, lo, x) /\ InSpan(TRUE, b.keys, x, hi)
    /\ Shares(c, a, b)

\* The halves of a leaf that insert_into_leaf_after_splitting has split, with the
\* key that goes to the parent between them.
LEMMA PartedLeaf ==
  ASSUME NEW r, r \in NodeRec, r.is_leaf, NEW lo \in Nat, NEW hi \in Bound, NEW k, NEW v, NEW c,
         Entered(r, lo, hi, k, v, c), Len(c.keys) = Order, NEW new \in Node,
         NEW m \in Nat, 1 <= m, m <= Order - 1
  PROVE  Parted(r, c, lo, hi, new, Lower(r, c, m, new), Upper(r, c, m), c.keys[m + 1])
<1>0. Order \in Nat
  BY OrderAssumption
<1>1. PICK u \in Seq(Key), w \in Seq(Val) : u = c.keys /\ w = c.recs /\ Len(u) = Order /\ Len(w) = Order
  BY DEF Entered, NodeRec
<1>2. m \in 0..Len(u) /\ m \in 0..Len(w)
  BY <1>0, <1>1
<1>3. PICK s \in Seq(Key), t \in Seq(Key) : /\ s = SubSeq(u, 1, m) /\ t = SubSeq(u, m + 1, Order)
                                            /\ Cat(u, s, t) /\ Len(s) = m
  <2>1. /\ SubSeq(u, 1, m) \in Seq(Key) /\ Len(SubSeq(u, 1, m)) = m
        /\ SubSeq(u, m + 1, Len(u)) \in Seq(Key)
        /\ Cat(u, SubSeq(u, 1, m), SubSeq(u, m + 1, Len(u)))
    BY ONLY <1>2, CutIs, u \in Seq(Key)
  <2>. QED BY ONLY <1>1, <2>1
<1>4. PICK sr \in Seq(Val), tr \in Seq(Val) : /\ sr = SubSeq(w, 1, m) /\ tr = SubSeq(w, m + 1, Order)
                                              /\ Cat(w, sr, tr) /\ Len(sr) = m
  <2>1. /\ SubSeq(w, 1, m) \in Seq(Val) /\ Len(SubSeq(w, 1, m)) = m
        /\ SubSeq(w, m + 1, Len(w)) \in Seq(Val)
        /\ Cat(w, SubSeq(w, 1, m), SubSeq(w, m + 1, Len(w)))
    BY ONLY <1>2, CutIs, w \in Seq(Val)
  <2>. QED BY ONLY <1>1, <2>1
<1>5. Len(t) = Order - m /\ Len(tr) = Order - m /\ t[1] = u[m + 1]
  <2>1. Len(u) = Len(s) + Len(t) /\ Len(w) = Len(sr) + Len(tr) /\ Len(t) \in Nat /\ Len(tr) \in Nat
    BY <1>3, <1>4 DEF Cat
  <2>2. Len(t) = Order - m /\ Len(tr) = Order - m
    BY <1>0, <1>1, <1>3, <1>4, <2>1
  <2>3. 1 \in 1..Len(t)
    BY <1>0, <2>2
  <2>. QED BY <1>3, <2>2, <2>3 DEF Cat
<1>6. /\ InSpan(TRUE, s, lo, t[1]) /\ InSpan(TRUE, t, t[1], hi)
      /\ t[1] \in Key /\ lo < t[1] /\ Below(t[1], hi)
  <2>1. InSpan(TRUE, u, lo, hi)
    BY <1>1 DEF Entered
  <2>2. Len(s) >= 1 /\ Len(t) >= 1
    BY <1>0, <1>3, <1>5
  <2>. QED BY ONLY <1>3, <2>1, <2>2, CutLeafSpan, u \in Seq(Key), s \in Seq(Key), t \in Seq(Key),
                   lo \in Nat, hi \in Bound
<1>7. PICK a, b : a = Lower(r, c, m, new) /\ b = Upper(r, c, m)
  OBVIOUS
<1>8. a \in NodeRec /\ a.is_leaf /\ a.link = new /\ a.keys = s /\ a.recs = sr
  <2>1. a = [r EXCEPT !.keys = s, !.recs = sr, !.link = new]
    BY <1>1, <1>3, <1>4, <1>7 DEF Lower
  <2>. QED BY ONLY <2>1, r \in NodeRec, r.is_leaf, s \in Seq(Key), sr \in Seq(Val), new \in Node DEF NodeRec
<1>9. b \in NodeRec /\ b.is_leaf /\ b.link = r.link /\ b.keys = t /\ b.recs = tr
  <2>1. b = [make_leaf EXCEPT !.keys = t, !.recs = tr, !.parent = r.parent, !.link = r.link]
    BY <1>1, <1>3, <1>4, <1>7 DEF Upper
  <2>2. PICK d : d = make_leaf /\ d \in NodeRec /\ d.is_leaf
    BY MakeLeaf
  <2>3. PICK pp \in Node \cup {NULL}, ll \in Node \cup {NULL} : pp = r.parent /\ ll = r.link
    BY DEF NodeRec
  <2>4. b = [d EXCEPT !.keys = t, !.recs = tr, !.parent = pp, !.link = ll]
    BY <2>1, <2>2, <2>3
  <2>. QED BY ONLY <2>2, <2>3, <2>4, t \in Seq(Key), tr \in Seq(Val) DEF NodeRec
<1>10. Shares(c, a, b)
  <2>1. \A x, y : Holds(u, w, x, y) <=> (Holds(s, sr, x, y) \/ Holds(t, tr, x, y))
    <3>1. Len(sr) = Len(s) /\ Len(tr) = Len(t) /\ Cat(u, s, t) /\ Cat(w, sr, tr)
      BY <1>3, <1>4, <1>5
    <3>. QED BY ONLY <3>1, HoldsCat, u \in Seq(Key), s \in Seq(Key), t \in Seq(Key),
                     w \in Seq(Val), sr \in Seq(Val), tr \in Seq(Val)
  <2>. QED BY ONLY <1>1, <1>8, <1>9, <2>1 DEF Shares
<1>11. u[m + 1] = c.keys[m + 1]
  BY <1>1
<1>. QED BY <1>5, <1>6, <1>7, <1>8, <1>9, <1>10, <1>11 DEF Parted

\* insert_into_leaf_after_splitting adds the entry and makes the new leaf.
LEMMA LeafSplitOrder ==
  ASSUME OrdInv, insert_into_leaf_after_splitting
  PROVE  InOrder' /\ Puts(heap, InTree, heap', InTree', call.key, call.val)
<1>1. /\ AtLeaf("insert") /\ ~Present(call.key) /\ free # {} /\ Len(heap[call.node].keys) >= Order - 1
      /\ free' = free \ {alloc_node} /\ UNCHANGED <<root, doomed, ret, rng>>
  BY DEF insert_into_leaf_after_splitting
<1>2. PICK T, lo, hi, n : LeafFacts(T, lo, hi, n, "insert")
  BY <1>1, LeafKnown DEF Searching
<1>3. PICK new, m : new = alloc_node /\ new \in free /\ m = cut(Order - 1)
  BY <1>1 DEF alloc_node
<1>4. PICK k \in Key, v \in Val : k = call.key /\ v = call.val
  BY <1>2 DEF LeafFacts, OrdInv, IndInv, CallOK, Searching
<1>5. /\ T \in SUBSET Node /\ n \in T /\ lo[n] \in Nat /\ hi[n] \in Bound /\ lo[n] <= k /\ Below(k, hi[n])
      /\ lo \in [Node -> Nat] /\ hi \in [Node -> Bound] /\ Ordered(heap, root, T, lo, hi, hi)
  BY <1>2, <1>4 DEF LeafFacts, Spanned
<1>6. /\ heap[n] \in NodeRec /\ heap[n].is_leaf /\ ShapedNode(heap[n])
      /\ InSpan(TRUE, heap[n].keys, lo[n], hi[n]) /\ n = call.node /\ call.pc = "insert"
      /\ heap \in [Node -> NodeRec] /\ Shaped(heap, T) /\ rng = <<>> /\ T = InTree
  BY <1>2 DEF LeafFacts, Spanned
<1>7. new \in Node \ T /\ Linked(heap, root, T, {}, {}) /\ new \notin doomed
  <2>1. Dangling = {} /\ Orphan = {} /\ doomed = {}
    BY <1>6 DEF Dangling, Orphan, OrdInv, IndInv, CallOK
  <2>2. free \in SUBSET Node
    BY DEF OrdInv, IndInv, TypeOK
  <2>. QED BY <1>3, <1>6, <2>1, <2>2 DEF OrdInv, IndInv, InTree, Live
<1>8. m \in Nat /\ 1 <= m /\ m <= Order - 1 /\ Order \in Nat
  BY <1>3, CutFacts
<1>9. PICK i, c :
         /\ i \in 1..(Len(heap[n].keys) + 1)
         /\ StopsAtOrAbove(heap[n].keys, k, i)
         /\ Grown(heap[n], c, i, k, v)
         /\ heap' = [heap EXCEPT ![n] = Lower(heap[n], c, m, new), ![new] = Upper(heap[n], c, m)]
         /\ call' = [Idle EXCEPT !.pc = "insert_into_parent", !.key = c.keys[m + 1], !.node = n, !.right = new]
  <2>1. PICK i \in 1..(Len(heap[n].keys) + 1) :
           /\ StopsAtOrAbove(heap[n].keys, k, i)
           /\ heap' = [heap EXCEPT
                ![n] = [@ EXCEPT !.keys = SubSeq(InsertAt(heap[n].keys, i, k), 1, m),
                                 !.recs = SubSeq(InsertAt(heap[n].recs, i, v), 1, m),
                                 !.link = new],
                ![new] = [make_leaf EXCEPT !.keys = SubSeq(InsertAt(heap[n].keys, i, k), m + 1, Order),
                                           !.recs = SubSeq(InsertAt(heap[n].recs, i, v), m + 1, Order),
                                           !.parent = heap[n].parent, !.link = heap[n].link]]
           /\ call' = [Idle EXCEPT !.pc = "insert_into_parent", !.key = InsertAt(heap[n].keys, i, k)[m + 1],
                                   !.node = n, !.right = new]
    BY <1>3, <1>4, <1>6, Zenon DEF insert_into_leaf_after_splitting
  <2>2. PICK c : Grown(heap[n], c, i, k, v)
    BY DEF Grown
  <2>3. c.keys = InsertAt(heap[n].keys, i, k) /\ c.recs = InsertAt(heap[n].recs, i, v)
    BY <1>6, <2>2 DEF Grown, NodeRec
  <2>4. heap' = [heap EXCEPT ![n] = Lower(heap[n], c, m, new), ![new] = Upper(heap[n], c, m)]
    BY <2>1, <2>3, <1>6, <1>5 DEF Lower, Upper
  <2>. QED BY <2>1, <2>2, <2>3, <2>4
<1>10. Entered(heap[n], lo[n], hi[n], k, v, c)
  <2>1. Absent(heap[n].keys, k)
    BY <1>1, <1>4, <1>6 DEF Present, Absent
  <2>2. Growing(heap[n], lo[n], hi[n], i, k, v)
    BY <1>4, <1>5, <1>6, <1>9, <2>1 DEF Growing
  <2>. QED BY ONLY <1>9, <2>2, GrownLeaf
<1>11. Len(c.keys) = Order
  <2>1. Len(c.keys) = Len(heap[n].keys) + 1 /\ Len(heap[n].keys) <= Order - 1 /\ Len(heap[n].keys) >= Order - 1
    BY <1>1, <1>6, <1>10 DEF Entered, ShapedNode
  <2>2. Len(heap[n].keys) \in Nat
    BY <1>6 DEF NodeRec
  <2>. QED BY <1>8, <2>1, <2>2
<1>12. PICK a, b, x : /\ a = Lower(heap[n], c, m, new) /\ b = Upper(heap[n], c, m) /\ x = c.keys[m + 1]
                      /\ Parted(heap[n], c, lo[n], hi[n], new, a, b, x)
  BY <1>5, <1>6, <1>7, <1>8, <1>10, <1>11, PartedLeaf
<1>13. PICK g : g = heap' /\ g \in [Node -> NodeRec] /\ g[n] = a /\ g[new] = b
                /\ \A y \in Node \ {n, new} : g[y] = heap[y]
  <2>1. heap' = [heap EXCEPT ![n] = a, ![new] = b] /\ n # new /\ a \in NodeRec /\ b \in NodeRec
    BY <1>5, <1>7, <1>9, <1>12 DEF Parted
  <2>. QED BY <1>5, <1>6, <1>7, <2>1
<1>14. AllAlike(heap, g, T \ {n})
  BY <1>5, <1>7, <1>13 DEF AllAlike, Alike
<1>15. g[n].is_leaf /\ g[new].is_leaf /\ Shares(c, g[n], g[new])
  BY <1>12, <1>13 DEF Parted
<1>16. LeafSplit(heap, g, T, n, new, x, lo, hi)
  <2>1. LinkedIn(heap, g, T, n, new)
    <3>1. \A y \in T \ {n} : (g[y].is_leaf <=> heap[y].is_leaf) /\ g[y].link = heap[y].link
      BY <1>14 DEF AllAlike, Alike
    <3>. QED BY <1>6, <1>12, <1>13, <3>1 DEF Parted, LinkedIn
  <2>. QED BY <1>12, <1>13, <1>14, <2>1 DEF Parted, LeafSplit
<1>17. PICK lo2 \in [Node -> Nat], hi2 \in [Node -> Bound], seen2 \in [Node -> Bound] :
            /\ Ordered(g, root, T \cup {new}, lo2, hi2, seen2)
            /\ SplitSeen(n, new, x, lo2, hi2, seen2)
  BY ONLY <1>5, <1>6, <1>7, <1>16, SplitLeafOrder
<1>18. T \cup {new} = InTree'
  BY <1>1, <1>3, <1>6, <1>7 DEF InTree, Live
<1>19. Puts(heap, T, g, T \cup {new}, k, v)
  <2>1. Only(heap, T, n, k)
    <3>1. Spans(heap, T, lo, hi) /\ Apart(heap, T, lo, hi) /\ k \in Nat
      BY <1>5, KeyAssumption DEF Ordered
    <3>. QED BY <1>5, <1>6, <3>1, NotElsewhere
  <2>2. PutIn(heap[n], c, k, v)
    BY <1>10 DEF Entered
  <2>. QED BY ONLY <1>5, <1>6, <1>7, <1>14, <1>15, <2>1, <2>2, SplitPuts
<1>20. /\ call'.pc = "insert_into_parent" /\ call'.key = x /\ call'.node = n /\ call'.right = new
       /\ rng' = <<>> /\ root' = root
  BY <1>1, <1>6, <1>9, <1>12 DEF Idle
<1>21. OrderOK(lo2, hi2, seen2)'
  <2>1. Ordered(heap, root, InTree, lo2, hi2, seen2)'
    BY <1>13, <1>17, <1>18, <1>20
  <2>2. Pending(lo2, hi2, seen2)'
    BY <1>17, <1>20 DEF Pending
  <2>3. Searches(lo2, hi2)'
    BY <1>20 DEF Searches, Searching
  <2>. QED BY <2>1, <2>2, <2>3 DEF OrderOK
<1>22. InOrder'
  BY <1>21 DEF InOrder
<1>. QED BY <1>4, <1>6, <1>13, <1>18, <1>19, <1>22

-----------------------------------------------------------------------------
(***************************************************************************)
(* insert_into_parent.                                                     *)
(***************************************************************************)

\* The split of l is to be entered in its parent p: r follows l, from the key k.
Splitting(h, rt, T, p, l, r, k, lo, hi, seen) ==
    /\ h \in [Node -> NodeRec] /\ T \in SUBSET Node /\ p \in T /\ l \in T /\ r \in T
    /\ ~h[p].is_leaf /\ Shaped(h, T)
    /\ Linked(h, rt, T, {}, {r}) /\ l \in Kids(h, p) /\ r \notin Kids(h, p)
    /\ k \in Key /\ lo \in [Node -> Nat] /\ hi \in [Node -> Bound] /\ seen \in [Node -> Bound]
    /\ Ordered(h, rt, T, lo, hi, seen)
    /\ SplitSeen(l, r, k, lo, hi, seen)

\* The keys and children of p with the entry k, r; its span is a, b.
Widened(t, ct, a, b, lo, hi) == InSpan(FALSE, t, a, b) /\ Routes(t, ct, a, b, lo, hi)

\* get_left_index gives the place of the new entry: it is in order there.
LEMMA GrownNode ==
  ASSUME NEW h, NEW rt, NEW T, NEW p, NEW l, NEW r, NEW k, NEW lo, NEW hi, NEW seen,
         Splitting(h, rt, T, p, l, r, k, lo, hi, seen),
         NEW i \in 1..Len(h[p].kids), h[p].kids[i] = l
  PROVE  Widened(InsertAt(h[p].keys, i, k), InsertAt(h[p].kids, i + 1, r), lo[p], hi[p], lo, hi)
<1>1. /\ h \in [Node -> NodeRec] /\ T \in SUBSET Node /\ p \in T /\ l \in T /\ r \in T
      /\ ~h[p].is_leaf /\ Shaped(h, T) /\ Linked(h, rt, T, {}, {r})
      /\ k \in Key /\ lo \in [Node -> Nat] /\ hi \in [Node -> Bound] /\ seen \in [Node -> Bound]
      /\ Ordered(h, rt, T, lo, hi, seen) /\ SplitSeen(l, r, k, lo, hi, seen)
  BY DEF Splitting
<1>2. PICK ks \in Seq(Key), cs \in Seq(Node) : ks = h[p].keys /\ cs = h[p].kids
  BY <1>1 DEF NodeRec
<1>3. Len(cs) = Len(ks) + 1 /\ Len(ks) \in Nat /\ i \in 1..Len(cs) /\ cs[i] = l
  BY <1>1, <1>2 DEF Shaped, ShapedNode
<1>4. PICK a \in Nat, b \in Bound : a = lo[p] /\ b = hi[p]
  BY <1>1
<1>5. InSpan(FALSE, ks, a, b) /\ Routes(ks, cs, a, b, lo, seen)
  BY <1>1, <1>2, <1>4 DEF Ordered, Spans, Routed, InSpan
<1>6. hi[l] = k /\ lo[r] = k /\ seen[l] = hi[r] /\ k \in Nat /\ hi[r] \in Bound /\ lo[l] \in Nat
  BY <1>1, KeyAssumption DEF SplitSeen
<1>7. lo[l] < k /\ Below(k, hi[r])
  <2>1. Below(lo[l], hi[l]) /\ Below(lo[r], hi[r])
    BY <1>1 DEF Ordered, Spans, InSpan
  <2>. QED BY ONLY <1>6, <2>1 DEF Below, Inf
<1>8. /\ a <= lo[l]
      /\ \A j \in 1..Len(ks) : j < i => ks[j] <= lo[l]
      /\ \A j \in 1..Len(ks) : i <= j => Before(hi[r], ks[j])
      /\ \A x \in Nat : Below(x, hi[r]) => Below(x, b)
  <2>1. /\ a <= lo[cs[i]]
        /\ \A j \in 1..Len(ks) : j < i => ks[j] <= lo[cs[i]]
        /\ \A j \in 1..Len(ks) : i <= j => Before(seen[cs[i]], ks[j])
        /\ \A x \in Nat : Below(x, seen[cs[i]]) => Below(x, b)
    BY ONLY <1>3, <1>5, RouteBounds, ks \in Seq(Key), cs \in Seq(Node), a \in Nat, b \in Bound
  <2>. QED BY ONLY <1>3, <1>6, <2>1
<1>9. Place(ks, i, k)
  <2>1. ASSUME NEW j \in 1..Len(ks), j < i PROVE ks[j] < k
    <3>1. ks[j] <= lo[l] /\ ks[j] \in Nat
      BY <1>8, <2>1, KeyNat
    <3>. QED BY ONLY <1>6, <1>7, <3>1
  <2>2. ASSUME NEW j \in 1..Len(ks), i <= j PROVE k < ks[j]
    <3>1. Before(hi[r], ks[j]) /\ ks[j] \in Nat
      BY <1>8, <2>2, KeyNat
    <3>. QED BY ONLY <1>6, <1>7, <3>1 DEF Before, Below, Bound, Inf
  <2>. QED BY <2>1, <2>2 DEF Place
<1>10. a <= k /\ a < k /\ Below(k, b)
  <2>1. a <= lo[l] /\ lo[l] < k
    BY <1>7, <1>8
  <2>2. Below(k, b)
    BY <1>6, <1>7, <1>8
  <2>. QED BY ONLY <1>6, <2>1, <2>2, a \in Nat
<1>11. i \in 1..(Len(ks) + 1) /\ i + 1 \in 1..(Len(cs) + 1) /\ r \in Node
  BY <1>1, <1>3
<1>12. InSpan(FALSE, InsertAt(ks, i, k), a, b)
  <2>1. PICK leaf \in BOOLEAN : leaf = FALSE
    OBVIOUS
  <2>2. InSpan(leaf, InsertAt(ks, i, k), a, b)
    BY <1>1, <1>5, <1>9, <1>10, <1>11, <2>1, InsertSpan
  <2>. QED BY <2>1, <2>2
<1>13. SplitOf(cs, i, r, k, lo, hi, seen)
  <2>1. \A x, y \in 1..Len(cs) : cs[x] = cs[y] => x = y
    <3>1. IsInjective(cs)
      BY <1>1, <1>2 DEF Linked
    <3>. QED BY <3>1, Injective
  <2>2. ASSUME NEW j \in 1..Len(cs), j # i PROVE seen[cs[j]] = hi[cs[j]]
    <3>1. cs[j] # l /\ cs[j] \in Node
      BY <1>3, <2>1, <2>2
    <3>. QED BY <1>1, <3>1 DEF SplitSeen
  <2>. QED BY <1>3, <1>6, <2>2 DEF SplitOf
<1>14. PICK t \in Seq(Key), ct \in Seq(Node) : /\ t = InsertAt(ks, i, k) /\ Inserted(t, ks, i, k)
                                               /\ ct = InsertAt(cs, i + 1, r) /\ Inserted(ct, cs, i + 1, r)
  BY <1>1, <1>11, InsertAtIs
<1>15. Routes(t, ct, a, b, lo, hi)
  BY <1>1, <1>3, <1>5, <1>11, <1>13, <1>14, RoutesInsert
<1>. QED BY <1>2, <1>4, <1>12, <1>14, <1>15 DEF Widened

\* Only the arrays of p do not know of the split.
LEMMA SplitElsewhere ==
  ASSUME NEW h, NEW rt, NEW T, NEW p, NEW l, NEW r, NEW k, NEW lo, NEW hi, NEW seen,
         Splitting(h, rt, T, p, l, r, k, lo, hi, seen)
  PROVE  SeenElsewhere(h, T, p, seen, hi) /\ (rt # NULL => hi[rt] = seen[rt])
<1>1. /\ h \in [Node -> NodeRec] /\ T \in SUBSET Node /\ p \in T /\ l \in T /\ l \in Kids(h, p)
      /\ Linked(h, rt, T, {}, {r}) /\ hi \in [Node -> Bound] /\ seen = [hi EXCEPT ![l] = hi[r]]
  BY DEF Splitting, SplitSeen
<1>2. (\A m \in T \ {p} : l \notin Kids(h, m)) /\ l # rt
  BY <1>1, NotMyChild
<1>3. \A m \in Node : m # l => seen[m] = hi[m]
  BY <1>1
<1>4. \A m \in T : Kids(h, m) \subseteq Node
  BY <1>1, KidsAreNodes
<1>5. rt # NULL => rt \in Node
  BY <1>1 DEF Linked
<1>. QED BY <1>2, <1>3, <1>4, <1>5 DEF SeenElsewhere

\* insert_into_parent with a parent relies on this.
LEMMA SplittingKnown ==
  ASSUME OrdInv, call.pc = "insert_into_parent", heap[call.node].parent # NULL
  PROVE  \E T, p, lo, hi, seen :
            /\ Splitting(heap, root, T, p, call.node, call.right, call.key, lo, hi, seen)
            /\ T = InTree /\ p = heap[call.node].parent /\ rng = <<>>
<1>1. PICK lo \in [Node -> Nat], hi \in [Node -> Bound], seen \in [Node -> Bound] : OrderOK(lo, hi, seen)
  BY DEF OrdInv, InOrder
<1>2. PICK T \in SUBSET Node : T = InTree
  BY DEF InTree, Live
<1>3. IndInv
  BY DEF OrdInv
<1>4. PICK p \in T, l \in T, r \in T, k \in Key :
            /\ p = heap[call.node].parent /\ l = call.node /\ r = call.right /\ k = call.key
            /\ Linked(heap, root, T, {}, {r}) /\ r # root /\ heap[r].parent = p
            /\ r \notin Kids(heap, p) /\ l \in Kids(heap, p)
            /\ ~heap[p].is_leaf
  BY <1>2, <1>3, ParentFacts
<1>5. heap \in [Node -> NodeRec] /\ Shaped(heap, T)
  BY <1>2, <1>3 DEF IndInv, TypeOK
<1>6. Ordered(heap, root, T, lo, hi, seen) /\ SplitSeen(l, r, k, lo, hi, seen) /\ rng = <<>>
  BY <1>1, <1>2, <1>4 DEF OrderOK, Pending, Searches
<1>7. Splitting(heap, root, T, p, l, r, k, lo, hi, seen)
  BY <1>1, <1>2, <1>4, <1>5, <1>6 DEF Splitting
<1>. QED BY <1>2, <1>4, <1>6, <1>7

\* insert_into_node: the parent has room.
LEMMA InsertIntoNodeOrder ==
  ASSUME OrdInv, insert_into_node
  PROVE  InOrder' /\ SameEntries(heap, InTree, heap', InTree')
<1>1. /\ call.pc = "insert_into_parent" /\ heap[call.node].parent # NULL
      /\ call' = Idle /\ UNCHANGED <<root, free, doomed, rng>>
  BY DEF insert_into_node
<1>2. PICK l, r, k : l = call.node /\ r = call.right /\ k = call.key
  OBVIOUS
<1>3. PICK T, p, lo, hi, seen : /\ Splitting(heap, root, T, p, l, r, k, lo, hi, seen)
                                /\ T = InTree /\ p = heap[l].parent /\ rng = <<>>
  BY <1>1, <1>2, SplittingKnown
<1>4. PICK i \in 1..Len(heap[p].kids) :
         /\ heap[p].kids[i] = l
         /\ heap' = [heap EXCEPT ![p].keys = InsertAt(@, i, k), ![p].kids = InsertAt(@, i + 1, r)]
  BY <1>2, <1>3 DEF insert_into_node, FirstIndex
<1>5. /\ heap \in [Node -> NodeRec] /\ T \in SUBSET Node /\ p \in T /\ r \in Node /\ k \in Key
      /\ ~heap[p].is_leaf /\ Shaped(heap, T) /\ heap[p] \in NodeRec
      /\ lo \in [Node -> Nat] /\ hi \in [Node -> Bound]
      /\ Ordered(heap, root, T, lo, hi, seen)
  BY <1>3 DEF Splitting
<1>6. PICK ks \in Seq(Key), cs \in Seq(Node) : ks = heap[p].keys /\ cs = heap[p].kids
  BY <1>5 DEF NodeRec
<1>7. Len(cs) = Len(ks) + 1 /\ Len(ks) \in Nat
  BY <1>5, <1>6 DEF Shaped, ShapedNode
<1>8. PICK t \in Seq(Key), ct \in Seq(Node) : t = InsertAt(ks, i, k) /\ ct = InsertAt(cs, i + 1, r)
  <2>1. i \in 1..(Len(ks) + 1) /\ i + 1 \in 1..(Len(cs) + 1)
    BY <1>4, <1>6, <1>7
  <2>. QED BY <1>5, <2>1, InsertAtProps
<1>9. Widened(t, ct, lo[p], hi[p], lo, hi)
  BY <1>3, <1>4, <1>6, <1>8, GrownNode
<1>10. PICK c : c = [heap[p] EXCEPT !.keys = t, !.kids = ct]
  OBVIOUS
<1>11. c \in NodeRec /\ ~c.is_leaf /\ c.link = heap[p].link /\ c.keys = t /\ c.kids = ct
  BY ONLY <1>5, <1>10, t \in Seq(Key), ct \in Seq(Node) DEF NodeRec
<1>12. PICK g : /\ g = heap' /\ g \in [Node -> NodeRec] /\ g[p] = c
                /\ \A m \in Node \ {p} : g[m] = heap[m]
  <2>1. heap' = [heap EXCEPT ![p] = c]
    BY <1>4, <1>6, <1>8, <1>10
  <2>. QED BY <1>5, <1>11, <2>1
<1>13. AllAlike(heap, g, T \ {p})
  BY <1>5, <1>12 DEF AllAlike, Alike
<1>14. SeenElsewhere(heap, T, p, seen, hi) /\ (root # NULL => hi[root] = seen[root])
  BY <1>3, SplitElsewhere
<1>15. Ordered(g, root, T, lo, hi, hi)
  <2>1. /\ InSpan(g[p].is_leaf, g[p].keys, lo[p], hi[p]) /\ ~g[p].is_leaf /\ g[p].link = heap[p].link
        /\ Routes(g[p].keys, g[p].kids, lo[p], hi[p], lo, hi)
    BY <1>9, <1>11, <1>12 DEF Widened, InSpan
  <2>. QED BY <1>5, <1>12, <1>13, <1>14, <2>1, RewriteOne
<1>16. SameEntries(heap, T, g, T)
  <2>1. ~g[p].is_leaf
    BY <1>11, <1>12
  <2>. QED BY <1>5, <1>13, <2>1, NodeRewritten
<1>17. T = InTree'
  BY <1>1, <1>3 DEF InTree, Live
<1>18. call'.pc = "idle" /\ rng' = <<>> /\ root' = root
  BY <1>1, <1>3 DEF Idle
<1>19. InOrder'
  BY <1>5, <1>12, <1>15, <1>17, <1>18, Restored
<1>. QED BY <1>3, <1>12, <1>16, <1>17, <1>19

\* A node that is no leaf joins the tree; the leaves are as they were.
LEMMA NodeJoins ==
  ASSUME NEW h, NEW g, NEW T, NEW new, new \notin T, ~g[new].is_leaf,
         \A m \in T : h[m].is_leaf => Alike(h, g, m), \A m \in T : g[m].is_leaf <=> h[m].is_leaf,
         NEW rt, NEW lo, NEW hi, NEW seen, Ordered(h, rt, T, lo, hi, seen),
         NEW lo2, NEW hi2, SameSpans(h, T, lo, hi, lo2, hi2)
  PROVE  /\ Apart(g, T \cup {new}, lo2, hi2) /\ Chained(g, T \cup {new}, lo2, hi2)
         /\ SameEntries(h, T, g, T \cup {new})
<1>1. SameLeaves(h, T, g, T \cup {new})
  BY DEF SameLeaves
<1>2. Apart(h, T, lo, hi) /\ Chained(h, T, lo, hi)
  BY DEF Ordered
<1>. QED BY <1>1, <1>2, LeavesKept

\* insert_into_new_root: the split was the root's.
LEMMA NewRootOrder ==
  ASSUME OrdInv, insert_into_new_root
  PROVE  InOrder' /\ SameEntries(heap, InTree, heap', InTree')
<1>1. /\ call.pc = "insert_into_parent" /\ heap[call.node].parent = NULL /\ free # {}
      /\ call' = Idle /\ root' = alloc_node /\ free' = free \ {alloc_node} /\ UNCHANGED <<doomed, rng>>
  BY DEF insert_into_new_root
<1>2. PICK new : new = alloc_node /\ new \in free
  BY <1>1 DEF alloc_node
<1>3. PICK lo \in [Node -> Nat], hi \in [Node -> Bound], seen \in [Node -> Bound] : OrderOK(lo, hi, seen)
  BY DEF OrdInv, InOrder
<1>4. PICK T \in SUBSET Node : T = InTree
  BY DEF InTree, Live
<1>5. PICK l \in T, r \in T, k \in Key : l = call.node /\ r = call.right /\ k = call.key /\ l # r
  BY <1>1, <1>4 DEF OrdInv, IndInv, CallOK
<1>6. /\ heap \in [Node -> NodeRec] /\ Shaped(heap, T) /\ Linked(heap, root, T, {}, {r})
      /\ doomed = {} /\ new \in Node \ T
  <2>1. Dangling = {} /\ Orphan = {r}
    BY <1>1, <1>5 DEF Dangling, Orphan
  <2>. QED BY <1>1, <1>2, <1>4, <2>1 DEF OrdInv, IndInv, TypeOK, CallOK, InTree, Live
<1>7. Ordered(heap, root, T, lo, hi, seen) /\ SplitSeen(l, r, k, lo, hi, seen) /\ rng = <<>>
  BY <1>1, <1>3, <1>4, <1>5 DEF OrderOK, Pending, Searches
<1>8. l = root /\ l # NULL
  <2>1. heap[l].parent = NULL /\ NULL \notin T
    BY <1>1, <1>5, NullAssumption
  <2>. QED BY <1>5, <1>6, <2>1 DEF Linked
<1>9. /\ lo[l] = 0 /\ hi[l] = k /\ lo[r] = k /\ hi[r] = Inf /\ 0 < k /\ k \in Nat
      /\ \A m \in Node : m # l => seen[m] = hi[m]
  <2>1. lo[l] = 0 /\ seen[l] = Inf
    BY <1>7, <1>8 DEF Ordered, Rooted
  <2>2. hi[l] = k /\ lo[r] = k /\ seen = [hi EXCEPT ![l] = hi[r]]
    BY <1>7 DEF SplitSeen
  <2>3. Below(lo[l], hi[l]) /\ k \in Nat
    BY <1>7, KeyAssumption DEF Ordered, Spans, InSpan
  <2>4. 0 < k
    BY ONLY <2>1, <2>2, <2>3 DEF Below, Inf
  <2>. QED BY <2>1, <2>2, <2>3, <2>4
<1>10. PICK lo2, hi2 : lo2 = [lo EXCEPT ![new] = 0] /\ hi2 = [hi EXCEPT ![new] = Inf]
  OBVIOUS
<1>11. /\ lo2 \in [Node -> Nat] /\ hi2 \in [Node -> Bound] /\ lo2[new] = 0 /\ hi2[new] = Inf
       /\ \A m \in Node \ {new} : lo2[m] = lo[m] /\ hi2[m] = hi[m]
  BY <1>6, <1>10 DEF Bound
<1>12. PICK c, cl, cr : /\ c = [make_node EXCEPT !.keys = <<k>>, !.kids = <<l, r>>]
                        /\ cl = [heap[l] EXCEPT !.parent = new] /\ cr = [heap[r] EXCEPT !.parent = new]
  OBVIOUS
<1>13. PICK ks \in Seq(Key), cs \in Seq(Node) :
          /\ ks = <<k>> /\ Len(ks) = 1 /\ ks[1] = k
          /\ cs = <<l, r>> /\ Len(cs) = 2 /\ cs[1] = l /\ cs[2] = r
  <2>1. <<k>> \in Seq(Key) /\ Len(<<k>>) = 1 /\ <<k>>[1] = k
    OBVIOUS
  <2>2. <<l, r>> \in Seq(Node) /\ Len(<<l, r>>) = 2 /\ <<l, r>>[1] = l /\ <<l, r>>[2] = r
    OBVIOUS
  <2>. QED BY <2>1, <2>2
<1>14. c \in NodeRec /\ c.keys = ks /\ c.kids = cs /\ ~c.is_leaf
  <2>1. PICK d : d = make_node /\ d \in NodeRec /\ ~d.is_leaf
    BY MakeNode
  <2>2. c = [d EXCEPT !.keys = ks, !.kids = cs]
    BY <1>12, <1>13, <2>1
  <2>. QED BY ONLY <2>1, <2>2, ks \in Seq(Key), cs \in Seq(Node) DEF NodeRec
<1>15. /\ cl \in NodeRec /\ cr \in NodeRec
       /\ \A x \in {"keys", "kids", "recs", "link", "is_leaf"} : cl[x] = heap[l][x] /\ cr[x] = heap[r][x]
  <2>1. heap[l] \in NodeRec /\ heap[r] \in NodeRec /\ new \in Node
    BY <1>6
  <2>. QED BY ONLY <1>12, <2>1 DEF NodeRec
<1>16. PICK g : /\ g = heap' /\ g \in [Node -> NodeRec] /\ g[new] = c /\ g[l] = cl /\ g[r] = cr
                /\ \A m \in Node \ {new, l, r} : g[m] = heap[m]
  <2>1. heap' = [heap EXCEPT ![new] = c, ![l] = cl, ![r] = cr]
    BY <1>2, <1>5, <1>6, <1>12 DEF insert_into_new_root
  <2>. QED BY <1>5, <1>6, <1>14, <1>15, <2>1
<1>17. AllAlike(heap, g, T)
  <2>1. \A m \in T \ {l, r} : g[m] = heap[m]
    BY <1>6, <1>16
  <2>2. Alike(heap, g, l) /\ Alike(heap, g, r)
    BY <1>15, <1>16 DEF Alike
  <2>. QED BY <2>1, <2>2 DEF AllAlike, Alike
<1>18. PICK T2 \in SUBSET Node : T2 = T \cup {new}
  BY <1>6
<1>19. Spans(g, T2, lo2, hi2) /\ Routed(g, T2, lo2, hi2, hi2)
  <2>1. PICK S : S = {new}
    OBVIOUS
  <2>2. \A m \in T2 \ S : m \in T /\ Alike(heap, g, m) /\ lo2[m] = lo[m] /\ hi2[m] = hi[m]
    BY <1>6, <1>11, <1>17, <1>18, <2>1 DEF AllAlike
  <2>3. \A m \in T2 \ S : \A x \in Kids(heap, m) : lo2[x] = lo[x] /\ hi2[x] = seen[x]
    <3>1. \A m \in T : \A x \in Kids(heap, m) : x \in T /\ x # l
      BY <1>6, <1>8, NullAssumption DEF Linked
    <3>. QED BY <1>6, <1>9, <1>11, <1>18, <2>1, <3>1
  <2>4. InSpan(FALSE, ks, 0, Inf)
    BY ONLY <1>9, <1>13 DEF InSpan, Ascending, Below, Inf
  <2>5. Routes(ks, cs, 0, Inf, lo2, hi2)
    <3>1. lo2[l] = 0 /\ hi2[l] = k /\ lo2[r] = k /\ hi2[r] = Inf
      BY <1>6, <1>9, <1>11
    <3>. QED BY ONLY <1>13, <3>1 DEF Routes
  <2>6. \A m \in T2 \cap S : InSpan(g[m].is_leaf, g[m].keys, lo2[m], hi2[m])
    BY <1>11, <1>14, <1>16, <2>1, <2>4 DEF InSpan
  <2>7. \A m \in T2 \cap S : g[m].is_leaf \/ Routes(g[m].keys, g[m].kids, lo2[m], hi2[m], lo2, hi2)
    BY <1>11, <1>14, <1>16, <2>1, <2>5
  <2>8. Spans(heap, T, lo, hi) /\ Routed(heap, T, lo, hi, seen)
    BY <1>7 DEF Ordered
  <2>. QED BY ONLY <1>6, <1>16, <2>2, <2>3, <2>6, <2>7, <2>8, SpansKept, T \in SUBSET Node, T2 \in SUBSET Node
<1>20. /\ Apart(g, T2, lo2, hi2) /\ Chained(g, T2, lo2, hi2) /\ SameEntries(heap, T, g, T2)
  <2>1. \A m \in T : heap[m].is_leaf => Alike(heap, g, m)
    BY <1>17 DEF AllAlike
  <2>2. \A m \in T : g[m].is_leaf <=> heap[m].is_leaf
    BY <1>17 DEF AllAlike, Alike
  <2>3. SameSpans(heap, T, lo, hi, lo2, hi2)
    BY <1>6, <1>11 DEF SameSpans
  <2>4. new \notin T /\ ~g[new].is_leaf
    BY <1>6, <1>14, <1>16
  <2>. QED BY <1>7, <1>18, <2>1, <2>2, <2>3, <2>4, NodeJoins
<1>21. Rooted(g, new, T2, lo2, hi2)
  BY <1>6, <1>11, NullAssumption DEF Rooted
<1>22. Ordered(g, new, T2, lo2, hi2, hi2)
  BY <1>19, <1>20, <1>21 DEF Ordered
<1>23. T2 = InTree' /\ root' = new
  BY <1>1, <1>2, <1>4, <1>6, <1>18 DEF InTree, Live
<1>24. call'.pc = "idle" /\ rng' = <<>>
  BY <1>1, <1>7 DEF Idle
<1>25. InOrder'
  BY <1>11, <1>16, <1>22, <1>23, <1>24, Restored
<1>. QED BY <1>4, <1>16, <1>20, <1>23, <1>25

-----------------------------------------------------------------------------
(***************************************************************************)
(* insert_into_parent: the split of the parent.                            *)
(***************************************************************************)

\* The keys t and the children ct of an internal node of span a, b, cut at the
\* key x: what stays is s, cs, what goes to the new node u, cu.
Cleft(t, ct, a, b, lo, hi, s, cs, x, u, cu) ==
    /\ s \in Seq(Key) /\ u \in Seq(Key) /\ cs \in Seq(Node) /\ cu \in Seq(Node)
    /\ Len(cs) = Len(s) + 1 /\ Len(cu) = Len(u) + 1
    /\ x \in Key /\ a < x /\ Below(x, b)
    /\ Widened(s, cs, a, x, lo, hi) /\ Widened(u, cu, x, b, lo, hi)
    /\ Range(cs) \subseteq Range(ct) /\ Range(cu) \subseteq Range(ct)

\* A sequence of keys without the key at m, which divides it.
LEMMA CutAt ==
  ASSUME NEW S, NEW t \in Seq(S), NEW m \in 1..Len(t)
  PROVE  /\ SubSeq(t, 1, m - 1) \in Seq(S) /\ Len(SubSeq(t, 1, m - 1)) = m - 1
         /\ SubSeq(t, m + 1, Len(t)) \in Seq(S) /\ Len(SubSeq(t, m + 1, Len(t))) = Len(t) - m
         /\ Cat3(t, SubSeq(t, 1, m - 1), t[m], SubSeq(t, m + 1, Len(t)))
<1>1. PICK N \in Nat : N = Len(t) /\ m \in 1..N /\ m \in Nat
  OBVIOUS
<1>2. PICK s, u : s = SubSeq(t, 1, m - 1) /\ u = SubSeq(t, m + 1, N)
  OBVIOUS
<1>3. s \in Seq(S) /\ Len(s) = m - 1 /\ \A j \in 1..(m - 1) : s[j] = t[j]
  <2>1. PICK q \in Int : q = m - 1 /\ 1 <= q + 1 /\ q <= Len(t)
    BY <1>1
  <2>2. /\ SubSeq(t, 1, q) \in Seq(S) /\ Len(SubSeq(t, 1, q)) = q - 1 + 1
        /\ \A j \in 1..(q - 1 + 1) : SubSeq(t, 1, q)[j] = t[1 + j - 1]
    BY ONLY <2>1, SubSeqProps, t \in Seq(S), 1 \in Int, 1 <= 1
  <2>. QED BY <1>2, <2>1, <2>2
<1>4. u \in Seq(S) /\ Len(u) = N - m /\ \A j \in 1..(N - m) : u[j] = t[m + j]
  <2>1. PICK q \in Int : q = m + 1 /\ 1 <= q /\ q <= N + 1 /\ N \in Int /\ N <= Len(t)
    BY <1>1
  <2>2. /\ SubSeq(t, q, N) \in Seq(S) /\ Len(SubSeq(t, q, N)) = N - q + 1
        /\ \A j \in 1..(N - q + 1) : SubSeq(t, q, N)[j] = t[q + j - 1]
    BY ONLY <2>1, SubSeqProps, t \in Seq(S)
  <2>. QED BY <1>1, <1>2, <2>1, <2>2
<1>5. Cat3(t, s, t[m], u)
  <2>1. Len(t) = Len(s) + 1 + Len(u)
    BY <1>1, <1>3, <1>4
  <2>2. \A j \in 1..Len(s) : t[j] = s[j]
    BY <1>3
  <2>3. t[Len(s) + 1] = t[m]
    BY <1>1, <1>3
  <2>4. \A j \in 1..Len(u) : t[Len(s) + 1 + j] = u[j]
    BY <1>1, <1>3, <1>4
  <2>. QED BY <2>1, <2>2, <2>3, <2>4 DEF Cat3
<1>. QED BY <1>1, <1>2, <1>3, <1>4, <1>5

\* Both parts are in order.
LEMMA CleftNode ==
  ASSUME NEW t \in Seq(Key), NEW ct \in Seq(Node), Len(ct) = Len(t) + 1, NEW m \in 1..Len(t),
         NEW a \in Nat, NEW b \in Bound, NEW lo, NEW hi, Widened(t, ct, a, b, lo, hi)
  PROVE  Cleft(t, ct, a, b, lo, hi, SubSeq(t, 1, m - 1), SubSeq(ct, 1, m), t[m],
               SubSeq(t, m + 1, Len(t)), SubSeq(ct, m + 1, Len(ct)))
<1>0. PICK x : x = t[m]
  OBVIOUS
<1>1. PICK s \in Seq(Key), u \in Seq(Key) :
         /\ s = SubSeq(t, 1, m - 1) /\ u = SubSeq(t, m + 1, Len(t)) /\ x = t[m]
         /\ Len(s) = m - 1 /\ Len(u) = Len(t) - m /\ Cat3(t, s, x, u)
  BY <1>0, CutAt
<1>2. m \in 0..Len(ct) /\ Len(t) \in Nat /\ Len(ct) \in Nat /\ m \in Nat
  OBVIOUS
<1>3. PICK cs \in Seq(Node), cu \in Seq(Node) :
         /\ cs = SubSeq(ct, 1, m) /\ cu = SubSeq(ct, m + 1, Len(ct))
         /\ Len(cs) = m /\ Cat(ct, cs, cu)
  BY <1>2, CutIs
<1>4. Len(cs) = Len(s) + 1 /\ Len(cu) = Len(u) + 1
  <2>1. Len(ct) = Len(cs) + Len(cu) /\ Len(cu) \in Nat
    BY <1>3 DEF Cat
  <2>. QED BY <1>1, <1>2, <1>3, <2>1
<1>5. x \in Key /\ x \in Nat
  BY <1>1, KeyNat
<1>6. InSpan(FALSE, t, a, b) /\ Routes(t, ct, a, b, lo, hi)
  BY DEF Widened
<1>7. InSpan(FALSE, s, a, x) /\ InSpan(FALSE, u, x, b)
  <2>1. \A i \in 1..(m - 1) : s[i] = t[i]
    BY <1>1 DEF Cat3
  <2>2. \A i \in 1..Len(u) : u[i] = t[m + i]
    <3>1. ASSUME NEW i \in 1..Len(u) PROVE u[i] = t[m + i]
      <4>1. t[Len(s) + 1 + i] = u[i]
        BY <1>1 DEF Cat3
      <4>2. Len(s) + 1 + i = m + i
        BY <1>1, <1>2
      <4>. QED BY <4>1, <4>2
    <3>. QED BY <3>1
  <2>3. InSpan(FALSE, s, a, t[m]) /\ InSpan(FALSE, u, t[m], b)
    <3>1. Len(s) = m - 1 /\ Len(u) = Len(t) - m
      BY <1>1
    <3>. QED BY ONLY <1>6, <2>1, <2>2, <3>1, SplitNodeSpan, t \in Seq(Key), a \in Nat, b \in Bound,
                     m \in 1..Len(t), s \in Seq(Key), u \in Seq(Key)
  <2>. QED BY <1>1, <2>3
<1>8. Routes(s, cs, a, x, lo, hi) /\ Routes(u, cu, x, b, lo, hi)
  <2>1. Cat3(t, s, x, u) /\ Cat(ct, cs, cu) /\ Routes(t, ct, a, b, lo, hi)
    BY <1>1, <1>3, <1>6
  <2>. QED BY ONLY <1>4, <2>1, RoutesSplit, t \in Seq(Key), s \in Seq(Key), u \in Seq(Key),
                   ct \in Seq(Node), cs \in Seq(Node), cu \in Seq(Node)
<1>9. a < x /\ Below(x, b)
  <2>1. Below(a, x) /\ Below(x, b)
    BY <1>7 DEF InSpan
  <2>2. a < x
    BY ONLY <1>5, <2>1, a \in Nat DEF Below, Inf
  <2>. QED BY <2>1, <2>2
<1>10. Range(cs) \subseteq Range(ct) /\ Range(cu) \subseteq Range(ct)
  <2>1. ASSUME NEW i \in 1..Len(cs) PROVE cs[i] \in Range(ct)
    <3>1. i \in 1..Len(ct) /\ ct[i] = cs[i]
      BY <1>2, <1>3 DEF Cat
    <3>. QED BY <3>1, InRange
  <2>2. ASSUME NEW i \in 1..Len(cu) PROVE cu[i] \in Range(ct)
    <3>1. ct[Len(cs) + i] = cu[i] /\ Len(ct) = Len(cs) + Len(cu)
      BY <1>3 DEF Cat
    <3>2. Len(cs) + i \in 1..Len(ct)
      BY <1>2, <1>3, <3>1
    <3>. QED BY <3>1, <3>2, InRange
  <2>3. Range(cs) \subseteq Range(ct)
    BY ONLY <2>1, cs \in Seq(Node), InRange
  <2>4. Range(cu) \subseteq Range(ct)
    BY ONLY <2>2, cu \in Seq(Node), InRange
  <2>. QED BY <2>3, <2>4
<1>11. Cleft(t, ct, a, b, lo, hi, s, cs, x, u, cu)
  BY <1>4, <1>5, <1>7, <1>8, <1>9, <1>10 DEF Cleft, Widened
<1>. QED BY <1>1, <1>3, <1>11

\* Node p has been cut at x: new is the node after it.
NodeSplit(h, g, T, p, new, x, lo, hi) ==
    /\ g \in [Node -> NodeRec] /\ AllAlike(h, g, T \ {p})
    /\ ~g[p].is_leaf /\ ~g[new].is_leaf
    /\ x \in Key /\ lo[p] < x /\ Below(x, hi[p])
    /\ Len(g[p].kids) = Len(g[p].keys) + 1 /\ Len(g[new].kids) = Len(g[new].keys) + 1
    /\ Widened(g[p].keys, g[p].kids, lo[p], x, lo, hi)
    /\ Widened(g[new].keys, g[new].kids, x, hi[p], lo, hi)
    /\ Kids(g, p) \subseteq T /\ Kids(g, new) \subseteq T

\* The two nodes have their spans; the arrays of p's parent are as they were.
LEMMA SplitNodeOrder ==
  ASSUME NEW h, NEW rt, NEW T, NEW p, NEW l, NEW r, NEW k, NEW lo, NEW hi, NEW seen,
         Splitting(h, rt, T, p, l, r, k, lo, hi, seen), NEW new \in Node \ T, NEW g, NEW x,
         NodeSplit(h, g, T, p, new, x, lo, hi)
  PROVE  /\ \E lo2 \in [Node -> Nat], hi2, seen2 \in [Node -> Bound] :
               /\ Ordered(g, rt, T \cup {new}, lo2, hi2, seen2)
               /\ SplitSeen(p, new, x, lo2, hi2, seen2)
         /\ SameEntries(h, T, g, T \cup {new})
<1>1. /\ h \in [Node -> NodeRec] /\ T \in SUBSET Node /\ p \in T /\ ~h[p].is_leaf /\ Shaped(h, T)
      /\ Linked(h, rt, T, {}, {r}) /\ lo \in [Node -> Nat] /\ hi \in [Node -> Bound]
      /\ Ordered(h, rt, T, lo, hi, seen)
  BY DEF Splitting
<1>2. /\ g \in [Node -> NodeRec] /\ AllAlike(h, g, T \ {p}) /\ ~g[p].is_leaf /\ ~g[new].is_leaf
      /\ x \in Nat /\ new # p /\ Kids(g, p) \subseteq T /\ Kids(g, new) \subseteq T
  BY <1>1, KeyAssumption DEF NodeSplit
<1>3. SeenElsewhere(h, T, p, seen, hi) /\ (rt # NULL => hi[rt] = seen[rt])
  BY SplitElsewhere
<1>4. PICK lo2, hi2 : Halves(lo, hi, p, new, x, lo2, hi2)
  BY DEF Halves
<1>5. PICK seen2 : seen2 = [hi2 EXCEPT ![p] = hi[p]]
  OBVIOUS
<1>6. /\ lo2 \in [Node -> Nat] /\ hi2 \in [Node -> Bound]
      /\ lo2[new] = x /\ hi2[p] = x /\ hi2[new] = hi[p] /\ lo2[p] = lo[p]
      /\ \A m \in Node \ {new} : lo2[m] = lo[m]
      /\ \A m \in Node \ {new, p} : hi2[m] = hi[m]
  BY <1>1, <1>2, <1>4 DEF Halves, Bound
<1>7. /\ seen2 \in [Node -> Bound] /\ \A m \in Node \ {new} : seen2[m] = hi[m]
  BY <1>1, <1>5, <1>6
<1>8. PICK T2 \in SUBSET Node : T2 = T \cup {new}
  BY <1>1
<1>9. \A c \in T : lo2[c] = lo[c] /\ seen2[c] = hi[c]
  BY <1>1, <1>6, <1>7
<1>10. ASSUME NEW n \in {p, new}, NEW a, NEW b, Len(g[n].kids) = Len(g[n].keys) + 1,
              Widened(g[n].keys, g[n].kids, a, b, lo, hi)
       PROVE  InSpan(g[n].is_leaf, g[n].keys, a, b) /\ Routes(g[n].keys, g[n].kids, a, b, lo2, seen2)
  <2>1. PICK ks \in Seq(Key), cs \in Seq(Node) : ks = g[n].keys /\ cs = g[n].kids
    BY <1>1, <1>2 DEF NodeRec
  <2>2. \A c \in Range(cs) : lo2[c] = lo[c] /\ seen2[c] = hi[c]
    BY <1>2, <1>9, <2>1 DEF Kids
  <2>3. Len(cs) = Len(ks) + 1 /\ Routes(ks, cs, a, b, lo, hi) /\ InSpan(FALSE, ks, a, b)
    BY <1>10, <2>1 DEF Widened
  <2>4. Routes(ks, cs, a, b, lo2, seen2)
    BY ONLY <2>2, <2>3, RoutesSame, ks \in Seq(Key), cs \in Seq(Node)
  <2>. QED BY <1>2, <2>1, <2>3, <2>4 DEF InSpan
<1>11. /\ InSpan(g[p].is_leaf, g[p].keys, lo[p], x) /\ Routes(g[p].keys, g[p].kids, lo[p], x, lo2, seen2)
  BY <1>10 DEF NodeSplit
<1>12. /\ InSpan(g[new].is_leaf, g[new].keys, x, hi[p]) /\ Routes(g[new].keys, g[new].kids, x, hi[p], lo2, seen2)
  BY <1>10 DEF NodeSplit
<1>13. Spans(g, T2, lo2, hi2) /\ Routed(g, T2, lo2, hi2, seen2)
  <2>1. PICK S : S = {p, new}
    OBVIOUS
  <2>2. \A m \in T2 \ S : m \in T /\ Alike(h, g, m) /\ lo2[m] = lo[m] /\ hi2[m] = hi[m]
    BY <1>2, <1>6, <1>8, <2>1 DEF AllAlike
  <2>3. \A m \in T2 \ S : \A c \in Kids(h, m) : lo2[c] = lo[c] /\ seen2[c] = seen[c]
    <3>1. \A m \in T : \A c \in Kids(h, m) : c \in T
      BY <1>1 DEF Linked
    <3>2. \A m \in T \ {p} : \A c \in Kids(h, m) : hi[c] = seen[c]
      BY <1>3 DEF SeenElsewhere
    <3>3. \A m \in T2 \ S : m \in T \ {p}
      BY <1>8, <2>1
    <3>. QED BY ONLY <1>9, <3>1, <3>2, <3>3
  <2>4. \A m \in T2 \cap S : InSpan(g[m].is_leaf, g[m].keys, lo2[m], hi2[m])
    BY <1>6, <1>11, <1>12, <2>1
  <2>5. \A m \in T2 \cap S : g[m].is_leaf \/ Routes(g[m].keys, g[m].kids, lo2[m], hi2[m], lo2, seen2)
    BY <1>6, <1>11, <1>12, <2>1
  <2>6. Spans(h, T, lo, hi) /\ Routed(h, T, lo, hi, seen)
    BY <1>1 DEF Ordered
  <2>. QED BY ONLY <1>1, <1>2, <2>2, <2>3, <2>4, <2>5, <2>6, SpansKept, T2 \in SUBSET Node
<1>14. \A m \in T : g[m].is_leaf <=> h[m].is_leaf
  BY <1>1, <1>2 DEF AllAlike, Alike
<1>15. /\ Apart(g, T2, lo2, hi2) /\ Chained(g, T2, lo2, hi2) /\ SameEntries(h, T, g, T2)
  <2>1. \A m \in T : h[m].is_leaf => Alike(h, g, m)
    BY <1>1, <1>2 DEF AllAlike
  <2>2. SameSpans(h, T, lo, hi, lo2, hi2)
    BY <1>1, <1>6 DEF SameSpans
  <2>3. new \notin T
    OBVIOUS
  <2>. QED BY ONLY <1>1, <1>2, <1>8, <1>14, <2>1, <2>2, <2>3, NodeJoins
<1>16. Rooted(g, rt, T2, lo2, seen2)
  <2>1. Rooted(h, rt, T, lo, seen)
    BY <1>1 DEF Ordered
  <2>2. CASE rt = NULL
    BY <1>2, <1>8, <1>14, <2>1, <2>2 DEF Rooted
  <2>3. CASE rt # NULL
    <3>1. rt \in T
      BY <1>1, <2>3 DEF Linked
    <3>. QED BY <1>3, <1>9, <2>1, <2>3, <3>1 DEF Rooted
  <2>. QED BY <2>2, <2>3
<1>17. Ordered(g, rt, T2, lo2, hi2, seen2)
  BY <1>13, <1>15, <1>16 DEF Ordered
<1>18. SplitSeen(p, new, x, lo2, hi2, seen2)
  BY <1>5, <1>6 DEF SplitSeen
<1>. QED BY <1>6, <1>7, <1>8, <1>15, <1>17, <1>18

\* insert_into_node_after_splitting: the parent is full.
LEMMA NodeSplitOrder ==
  ASSUME OrdInv, insert_into_node_after_splitting
  PROVE  InOrder' /\ SameEntries(heap, InTree, heap', InTree')
<1>1. /\ call.pc = "insert_into_parent" /\ heap[call.node].parent # NULL /\ free # {}
      /\ free' = free \ {alloc_node} /\ UNCHANGED <<root, doomed, rng>>
  BY DEF insert_into_node_after_splitting
<1>2. PICK l, r, k : l = call.node /\ r = call.right /\ k = call.key
  OBVIOUS
<1>3. PICK T, p, lo, hi, seen : /\ Splitting(heap, root, T, p, l, r, k, lo, hi, seen)
                                /\ T = InTree /\ p = heap[l].parent /\ rng = <<>>
  BY <1>1, <1>2, SplittingKnown
<1>4. PICK new, m : new = alloc_node /\ new \in free /\ m = cut(Order)
  BY <1>1 DEF alloc_node
<1>5. /\ heap \in [Node -> NodeRec] /\ T \in SUBSET Node /\ p \in T /\ p \in Node /\ r \in T /\ r \in Node /\ k \in Key
      /\ ~heap[p].is_leaf /\ Shaped(heap, T) /\ heap[p] \in NodeRec /\ Linked(heap, root, T, {}, {r})
      /\ lo \in [Node -> Nat] /\ hi \in [Node -> Bound] /\ lo[p] \in Nat /\ hi[p] \in Bound
  BY <1>3 DEF Splitting
<1>6. new \in Node \ T /\ new \notin doomed
  <2>1. free \in SUBSET Node /\ doomed = {}
    BY <1>1 DEF OrdInv, IndInv, TypeOK, CallOK
  <2>. QED BY <1>3, <1>4, <2>1 DEF InTree, Live
<1>7. m \in Nat /\ 2 <= m /\ m <= Order - 1 /\ Order \in Nat
  BY <1>4, CutFacts
<1>8. PICK ks \in Seq(Key), cs \in Seq(Node) : ks = heap[p].keys /\ cs = heap[p].kids
  BY <1>5 DEF NodeRec
<1>9. Len(ks) = Order - 1 /\ Len(cs) = Order
  <2>1. Len(ks) >= Order - 1
    BY <1>2, <1>3, <1>8 DEF insert_into_node_after_splitting
  <2>2. Len(cs) = Len(ks) + 1 /\ Len(ks) <= Order - 1 /\ Len(ks) \in Nat
    BY <1>5, <1>8 DEF Shaped, ShapedNode
  <2>. QED BY ONLY <1>7, <2>1, <2>2
<1>10. PICK i \in 1..Len(cs) :
         /\ cs[i] = l
         /\ heap' = Adopt([heap EXCEPT
                      ![p] = [@ EXCEPT !.keys = SubSeq(InsertAt(ks, i, k), 1, m - 1),
                                       !.kids = SubSeq(InsertAt(cs, i + 1, r), 1, m)],
                      ![new] = [make_node EXCEPT !.keys = SubSeq(InsertAt(ks, i, k), m + 1, Order),
                                                 !.kids = SubSeq(InsertAt(cs, i + 1, r), m + 1, Order + 1),
                                                 !.parent = heap[p].parent]],
                      Range(SubSeq(InsertAt(cs, i + 1, r), m + 1, Order + 1)), new)
         /\ call' = [call EXCEPT !.key = InsertAt(ks, i, k)[m], !.node = p, !.right = new]
  BY <1>2, <1>3, <1>4, <1>8, Zenon DEF insert_into_node_after_splitting, FirstIndex
<1>11. PICK t \in Seq(Key), ct \in Seq(Node) :
         /\ t = InsertAt(ks, i, k) /\ Len(t) = Order
         /\ ct = InsertAt(cs, i + 1, r) /\ Len(ct) = Order + 1 /\ Range(ct) = Range(cs) \cup {r}
  <2>1. PICK j \in Nat : j = i + 1 /\ j \in 1..(Len(cs) + 1) /\ i \in 1..(Len(ks) + 1)
    BY <1>7, <1>9
  <2>2. InsertAt(ks, i, k) \in Seq(Key) /\ Len(InsertAt(ks, i, k)) = Len(ks) + 1
    BY <1>5, <2>1, InsertAtProps
  <2>3. InsertAt(cs, j, r) \in Seq(Node) /\ Len(InsertAt(cs, j, r)) = Len(cs) + 1
    BY <1>5, <2>1, InsertAtProps
  <2>4. Range(InsertAt(cs, j, r)) = Range(cs) \cup {r}
    BY <1>5, <2>1, InsertAtRange
  <2>5. Len(ks) + 1 = Order /\ Len(cs) + 1 = Order + 1
    BY <1>7, <1>9
  <2>. QED BY <2>1, <2>2, <2>3, <2>4, <2>5
<1>12. Widened(t, ct, lo[p], hi[p], lo, hi)
  BY <1>3, <1>8, <1>10, <1>11, GrownNode
<1>13. PICK s, sc, x, u, uc :
         /\ s = SubSeq(t, 1, m - 1) /\ sc = SubSeq(ct, 1, m) /\ x = t[m]
         /\ u = SubSeq(t, m + 1, Order) /\ uc = SubSeq(ct, m + 1, Order + 1)
         /\ Cleft(t, ct, lo[p], hi[p], lo, hi, s, sc, x, u, uc)
  <2>1. m \in 1..Len(t) /\ Len(ct) = Len(t) + 1
    BY <1>7, <1>11
  <2>2. Cleft(t, ct, lo[p], hi[p], lo, hi, SubSeq(t, 1, m - 1), SubSeq(ct, 1, m), t[m],
               SubSeq(t, m + 1, Len(t)), SubSeq(ct, m + 1, Len(ct)))
    BY ONLY <1>5, <1>12, <2>1, CleftNode, t \in Seq(Key), ct \in Seq(Node)
  <2>. QED BY ONLY <1>11, <2>2
<1>14. /\ s \in Seq(Key) /\ u \in Seq(Key) /\ sc \in Seq(Node) /\ uc \in Seq(Node)
       /\ Len(sc) = Len(s) + 1 /\ Len(uc) = Len(u) + 1
       /\ x \in Key /\ lo[p] < x /\ Below(x, hi[p])
       /\ Widened(s, sc, lo[p], x, lo, hi) /\ Widened(u, uc, x, hi[p], lo, hi)
       /\ Range(sc) \subseteq Range(ct) /\ Range(uc) \subseteq Range(ct)
  BY <1>13 DEF Cleft
<1>15. PICK c, d : /\ c = [heap[p] EXCEPT !.keys = s, !.kids = sc]
                   /\ d = [make_node EXCEPT !.keys = u, !.kids = uc, !.parent = heap[p].parent]
  OBVIOUS
<1>16. /\ c \in NodeRec /\ ~c.is_leaf /\ c.keys = s /\ c.kids = sc
  BY ONLY <1>5, <1>14, <1>15 DEF NodeRec
<1>17. /\ d \in NodeRec /\ ~d.is_leaf /\ d.keys = u /\ d.kids = uc
  <2>1. PICK e : e = make_node /\ e \in NodeRec /\ ~e.is_leaf
    BY MakeNode
  <2>2. PICK pp \in Node \cup {NULL} : pp = heap[p].parent
    BY <1>5 DEF NodeRec
  <2>3. d = [e EXCEPT !.keys = u, !.kids = uc, !.parent = pp]
    BY <1>15, <2>1, <2>2
  <2>. QED BY ONLY <1>14, <2>1, <2>3, pp \in Node \cup {NULL} DEF NodeRec
<1>18. PICK f : /\ f = [heap EXCEPT ![p] = c, ![new] = d] /\ f \in [Node -> NodeRec]
                /\ f[p] = c /\ f[new] = d /\ \A y \in Node \ {p, new} : f[y] = heap[y]
  <2>1. /\ p \in Node /\ new \in Node /\ p # new /\ heap \in [Node -> NodeRec]
        /\ c \in NodeRec /\ d \in NodeRec
    BY <1>5, <1>6, <1>16, <1>17
  <2>2. PICK e : e = [heap EXCEPT ![p] = c]
    OBVIOUS
  <2>3. e \in [Node -> NodeRec] /\ e[p] = c /\ \A y \in Node \ {p} : e[y] = heap[y]
    BY ONLY <2>1, <2>2
  <2>4. PICK f : f = [e EXCEPT ![new] = d]
    OBVIOUS
  <2>5. f \in [Node -> NodeRec] /\ f[new] = d /\ \A y \in Node \ {new} : f[y] = e[y]
    BY ONLY <2>1, <2>3, <2>4
  <2>6. f = [heap EXCEPT ![p] = c, ![new] = d]
    BY ONLY <2>2, <2>4
  <2>7. f[p] = c /\ \A y \in Node \ {p, new} : f[y] = heap[y]
    BY ONLY <2>1, <2>3, <2>5
  <2>. QED BY ONLY <2>5, <2>6, <2>7
<1>19. PICK g : g = heap' /\ g = Adopt(f, Range(uc), new)
  <2>2. heap' = Adopt([heap EXCEPT ![p] = [@ EXCEPT !.keys = s, !.kids = sc],
                                   ![new] = [make_node EXCEPT !.keys = u, !.kids = uc, !.parent = heap[p].parent]],
                      Range(uc), new)
    BY ONLY <1>10, <1>11, <1>13, Zenon
  <2>3. [heap EXCEPT ![p] = [@ EXCEPT !.keys = s, !.kids = sc],
                     ![new] = [make_node EXCEPT !.keys = u, !.kids = uc, !.parent = heap[p].parent]] = f
    BY ONLY <1>5, <1>6, <1>15, <1>18
  <2>. QED BY ONLY <2>2, <2>3
<1>20. g \in [Node -> NodeRec] /\ \A y \in Node : Alike(f, g, y)
  BY <1>6, <1>18, <1>19, AdoptAlike
<1>21. AllAlike(heap, g, T \ {p})
  BY <1>5, <1>6, <1>18, <1>20 DEF AllAlike, Alike
<1>22. /\ g[p].keys = s /\ g[p].kids = sc /\ ~g[p].is_leaf
       /\ g[new].keys = u /\ g[new].kids = uc /\ ~g[new].is_leaf
  BY <1>5, <1>6, <1>16, <1>17, <1>18, <1>20 DEF Alike
<1>23. Kids(g, p) \subseteq T /\ Kids(g, new) \subseteq T
  <2>1. Range(cs) \subseteq T
    BY <1>5, <1>8 DEF Linked, Kids
  <2>. QED BY <1>5, <1>11, <1>14, <1>22, <2>1 DEF Kids
<1>24. NodeSplit(heap, g, T, p, new, x, lo, hi)
  BY <1>14, <1>20, <1>21, <1>22, <1>23 DEF NodeSplit
<1>25. PICK lo2 \in [Node -> Nat], hi2 \in [Node -> Bound], seen2 \in [Node -> Bound] :
            /\ Ordered(g, root, T \cup {new}, lo2, hi2, seen2)
            /\ SplitSeen(p, new, x, lo2, hi2, seen2)
            /\ SameEntries(heap, T, g, T \cup {new})
  <2>1. Splitting(heap, root, T, p, l, r, k, lo, hi, seen) /\ new \in Node \ T
    BY <1>3, <1>6
  <2>2. /\ \E lo2 \in [Node -> Nat], hi2, seen2 \in [Node -> Bound] :
               /\ Ordered(g, root, T \cup {new}, lo2, hi2, seen2)
               /\ SplitSeen(p, new, x, lo2, hi2, seen2)
        /\ SameEntries(heap, T, g, T \cup {new})
    BY ONLY <1>24, <2>1, SplitNodeOrder
  <2>. QED BY ONLY <2>2
<1>26. T \cup {new} = InTree'
  BY <1>1, <1>3, <1>4, <1>6 DEF InTree, Live
<1>27. /\ call'.pc = "insert_into_parent" /\ call'.key = x /\ call'.node = p /\ call'.right = new
       /\ rng' = <<>> /\ root' = root
  <2>1. call \in CallRec
    BY DEF OrdInv, IndInv, TypeOK
  <2>. QED BY <1>1, <1>3, <1>10, <1>11, <1>13, <2>1 DEF CallRec
<1>28. OrderOK(lo2, hi2, seen2)'
  <2>1. Ordered(heap, root, InTree, lo2, hi2, seen2)'
    BY <1>19, <1>25, <1>26, <1>27
  <2>2. Pending(lo2, hi2, seen2)'
    BY <1>25, <1>27 DEF Pending
  <2>3. Searches(lo2, hi2)'
    BY <1>27 DEF Searches, Searching
  <2>. QED BY <2>1, <2>2, <2>3 DEF OrderOK
<1>29. InOrder'
  BY <1>28 DEF InOrder
<1>. QED BY <1>3, <1>19, <1>25, <1>26, <1>29

-----------------------------------------------------------------------------
(***************************************************************************)
(* The steps that leave the tree alone.                                    *)
(***************************************************************************)

\* What a step between two updates relies on.
LEMMA AtRest ==
  ASSUME OrdInv, call.pc \notin {"insert_into_parent", "delete_entry"}
  PROVE  /\ \E T, lo, hi : Spanned(T, lo, hi) /\ Searches(lo, hi)
         /\ heap \in [Node -> NodeRec] /\ Shaped(heap, InTree)
         /\ Linked(heap, root, InTree, {}, {})
<1>1. PICK lo \in [Node -> Nat], hi \in [Node -> Bound], seen \in [Node -> Bound] : OrderOK(lo, hi, seen)
  BY DEF OrdInv, InOrder
<1>2. seen = hi
  BY <1>1 DEF OrderOK, Pending
<1>3. Ordered(heap, root, InTree, lo, hi, hi) /\ Searches(lo, hi)
  BY <1>1, <1>2 DEF OrderOK
<1>4. InTree \in SUBSET Node
  BY DEF InTree, Live
<1>5. Spanned(InTree, lo, hi)
  BY <1>1, <1>3, <1>4 DEF Spanned
<1>6. Dangling = {} /\ Orphan = {}
  BY DEF Dangling, Orphan
<1>7. TypeOK /\ Shaped(heap, InTree) /\ Linked(heap, root, InTree, {}, {})
  BY <1>6 DEF OrdInv, IndInv
<1>. QED BY <1>3, <1>5, <1>7 DEF TypeOK

\* The tree stays as it is: the spans do, and so do the entries.
LEMMA Resting ==
  ASSUME NEW T, NEW lo, NEW hi, Spanned(T, lo, hi), UNCHANGED <<root, heap, free, doomed>>,
         call'.pc \notin {"insert_into_parent", "delete_entry"}, Searches(lo, hi)'
  PROVE  InOrder' /\ SameEntries(heap, InTree, heap', InTree')
<1>1. InTree' = InTree
  BY DEF InTree, Live
<1>2. Ordered(heap, root, InTree, lo, hi, hi)'
  BY <1>1 DEF Spanned
<1>3. Pending(lo, hi, hi)'
  BY DEF Pending
<1>4. OrderOK(lo, hi, hi)'
  BY <1>2, <1>3 DEF OrderOK
<1>5. InOrder'
  BY <1>4 DEF InOrder, Spanned
<1>. QED BY <1>1, <1>5 DEF SameEntries

\* A search begins at the root, whose span has every key.
LEMMA ClientOrder ==
  ASSUME OrdInv, Client
  PROVE  InOrder' /\ SameEntries(heap, InTree, heap', InTree')
<1>0. PICK op \in Searching, k \in Key : \E v, x : Begin(op, k, v, x)
  BY DEF Client, Searching
<1>1. PICK v, x : Begin(op, k, v, x)
  BY <1>0
<1>2. call.pc = "idle" /\ UNCHANGED <<root, heap, free, doomed, rng>>
  BY <1>1 DEF Begin
<1>3. call'.pc = op /\ call'.key = k /\ call'.node = root
  BY <1>1 DEF Begin, Idle
<1>4. PICK T, lo, hi : Spanned(T, lo, hi) /\ Searches(lo, hi)
  BY <1>2, AtRest
<1>5. rng = <<>>
  BY <1>2, <1>4 DEF Searches
<1>6. root # NULL => lo[root] <= k /\ Below(k, hi[root])
  <2>1. Rooted(heap, root, T, lo, hi) /\ k \in Nat
    BY <1>4, KeyAssumption DEF Spanned, Ordered
  <2>. QED BY <2>1 DEF Rooted, Below
<1>7. Searches(lo, hi)'
  BY <1>2, <1>3, <1>5, <1>6 DEF Searches, Searching
<1>8. call'.pc \notin {"insert_into_parent", "delete_entry"}
  BY <1>3 DEF Searching
<1>. QED BY <1>2, <1>4, <1>7, <1>8, Resting

\* The child that find_leaf goes to has the key in its span.
LEMMA RoutedTo ==
  ASSUME NEW ks \in Seq(Key), NEW cs \in Seq(Node), Len(cs) = Len(ks) + 1, NEW a \in Nat, NEW b,
         NEW lo, NEW hi, Routes(ks, cs, a, b, lo, hi), NEW k \in Key, a <= k, Below(k, b),
         NEW i \in 1..Len(cs), StopsAbove(ks, k, i)
  PROVE  lo[cs[i]] <= k /\ Below(k, hi[cs[i]])
<1>1. Each(ks, cs, a, b, lo, hi)
  BY RoutesEach
<1>2. i \in 1..(Len(ks) + 1) /\ Len(ks) \in Nat
  OBVIOUS
<1>3. /\ lo[cs[i]] = IF i = 1 THEN a ELSE ks[i - 1]
      /\ hi[cs[i]] = IF i = Len(ks) + 1 THEN b ELSE ks[i]
  BY <1>1, <1>2 DEF Each
<1>4. i # 1 => ks[i - 1] <= k
  BY <1>2 DEF StopsAbove
<1>5. i # Len(ks) + 1 => k < ks[i]
  BY <1>2 DEF StopsAbove
<1>. QED BY <1>3, <1>4, <1>5 DEF Below

\* An iteration of find_leaf goes to the child whose span holds the key.
LEMMA FindLeafOrder ==
  ASSUME OrdInv, find_leaf
  PROVE  InOrder' /\ SameEntries(heap, InTree, heap', InTree')
<1>1. /\ call.pc \in Searching /\ call.node # NULL /\ ~heap[call.node].is_leaf
      /\ UNCHANGED <<root, heap, free, doomed, rng>>
  BY DEF find_leaf
<1>2. PICK T, lo, hi : Spanned(T, lo, hi) /\ At(call.node, call.key, lo, hi)
  BY <1>1, Searched
<1>3. /\ call.key \in Key /\ call.node \in InTree \cup {NULL} /\ rng = <<>>
  BY <1>1, Searched
<1>4. PICK n \in T, k \in Key : n = call.node /\ k = call.key
  BY <1>1, <1>2, <1>3 DEF Spanned
<1>5. /\ T = InTree /\ T \in SUBSET Node /\ lo \in [Node -> Nat] /\ hi \in [Node -> Bound] /\ lo[n] \in Nat
      /\ Ordered(heap, root, T, lo, hi, hi)
  BY <1>2 DEF Spanned
<1>6. heap[n] \in NodeRec /\ ~heap[n].is_leaf /\ ShapedNode(heap[n])
  BY <1>1, <1>4, <1>5 DEF OrdInv, IndInv, TypeOK, Shaped
<1>7. PICK ks \in Seq(Key), cs \in Seq(Node) : ks = heap[n].keys /\ cs = heap[n].kids /\ Len(cs) = Len(ks) + 1
  BY <1>6 DEF NodeRec, ShapedNode
<1>8. PICK i \in 1..Len(cs) : StopsAbove(ks, k, i) /\ call' = [call EXCEPT !.node = cs[i]]
  BY <1>4, <1>7 DEF find_leaf
<1>9. Routes(ks, cs, lo[n], hi[n], lo, hi)
  BY <1>5, <1>6, <1>7 DEF Ordered, Routed
<1>10. lo[n] <= k /\ Below(k, hi[n])
  BY <1>1, <1>2, <1>4 DEF At
<1>11. lo[cs[i]] <= k /\ Below(k, hi[cs[i]])
  BY ONLY <1>5, <1>7, <1>8, <1>9, <1>10, RoutedTo, k \in Key
<1>12. call'.pc = call.pc /\ call'.key = k /\ call'.node = cs[i]
  <2>1. call \in CallRec
    BY DEF OrdInv, IndInv, TypeOK
  <2>. QED BY <1>4, <1>8, <2>1 DEF CallRec
<1>13. Searches(lo, hi)'
  BY <1>1, <1>3, <1>11, <1>12 DEF Searches, Searching
<1>14. call'.pc \notin {"insert_into_parent", "delete_entry"}
  BY <1>1, <1>12 DEF Searching
<1>. QED BY <1>1, <1>2, <1>13, <1>14, Resting

\* find changes nothing.
LEMMA FindOrder ==
  ASSUME OrdInv, find
  PROVE  InOrder' /\ SameEntries(heap, InTree, heap', InTree')
<1>1. call.pc = "find" /\ call' = Idle /\ UNCHANGED <<root, heap, free, doomed, rng>>
  BY DEF find, NoTree, AtLeaf
<1>2. PICK T, lo, hi : Spanned(T, lo, hi) /\ Searches(lo, hi)
  BY <1>1, AtRest
<1>3. rng = <<>>
  BY <1>1, <1>2 DEF Searches
<1>4. call'.pc = "idle"
  BY <1>1 DEF Idle
<1>5. Searches(lo, hi)'
  BY <1>1, <1>3, <1>4 DEF Searches, Searching
<1>. QED BY <1>1, <1>2, <1>4, <1>5, Resting

\* find_range has returned; the tree is as it was.
LEMMA FindRangeReturnOrder ==
  ASSUME OrdInv, find_range_return
  PROVE  InOrder' /\ SameEntries(heap, InTree, heap', InTree')
<1>1. call.pc = "ranged" /\ call' = Idle /\ rng' = <<>> /\ UNCHANGED <<root, heap, free, doomed>>
  BY DEF find_range_return
<1>2. PICK T, lo, hi : Spanned(T, lo, hi) /\ Searches(lo, hi)
  BY <1>1, AtRest
<1>3. call'.pc = "idle"
  BY <1>1 DEF Idle
<1>4. Searches(lo, hi)'
  BY <1>1, <1>3 DEF Searches, Searching
<1>. QED BY <1>1, <1>2, <1>3, <1>4, Resting

\* Where the first loop of find_range stops.
LEMMA StartOf ==
  ASSUME NEW ks \in Seq(Key), Ascending(ks), NEW k \in Key, NEW i \in 1..Len(ks), StopsAtOrAbove(ks, k, i)
  PROVE  \A j \in 1..Len(ks) : j < i <=> ks[j] < k
<1>1. k \in Nat /\ Len(ks) \in Nat /\ \A j \in 1..Len(ks) : ks[j] \in Nat
  BY KeyNat, KeyAssumption
<1>2. ASSUME NEW j \in 1..Len(ks), j < i PROVE ks[j] < k
  BY <1>1, <1>2 DEF StopsAtOrAbove
<1>3. ASSUME NEW j \in 1..Len(ks), ~(j < i) PROVE ~(ks[j] < k)
  <2>1. k <= ks[i]
    BY <1>1 DEF StopsAtOrAbove
  <2>2. i = j \/ ks[i] < ks[j]
    BY <1>1, <1>3 DEF Ascending
  <2>3. ks[i] \in Nat /\ ks[j] \in Nat
    BY <1>1
  <2>. QED BY <1>1, <2>1, <2>2, <2>3
<1>. QED BY <1>2, <1>3

\* find_range begins its scan in the leaf that has key_start in its span: no
\* key of the range is before it.
LEMMA FindRangeOrder ==
  ASSUME OrdInv, find_range
  PROVE  InOrder' /\ SameEntries(heap, InTree, heap', InTree')
<1>1. call.pc = "range" /\ UNCHANGED <<root, heap, free, doomed, rng>>
  BY DEF find_range, NoTree, AtLeaf
<1>2. PICK T, lo, hi : Spanned(T, lo, hi) /\ At(call.node, call.key, lo, hi)
  BY <1>1, Searched DEF Searching
<1>3. call.key \in Key /\ call.hi \in Key /\ rng = <<>> /\ call \in CallRec
  BY <1>1, Searched DEF Searching, OrdInv, IndInv, CallOK, TypeOK
<1>4. PICK k \in Key, e \in Key : k = call.key /\ e = call.hi
  BY <1>3
<1>5. Ascending(<<>>) /\ \A x : x \notin Range(<<>>)
  BY DEF Ascending, Range
<1>6. ASSUME call'.pc = "ranged", call'.key = k, call'.hi = e PROVE Searches(lo, hi)'
  BY <1>1, <1>3, <1>5, <1>6 DEF Searches, Searching
<1>7. CASE NoTree("range") /\ call' = [call EXCEPT !.pc = "ranged"]
  <2>1. call'.pc = "ranged" /\ call'.key = k /\ call'.hi = e
    BY <1>3, <1>4, <1>7 DEF CallRec
  <2>2. Searches(lo, hi)'
    BY <1>6, <2>1
  <2>. QED BY <1>1, <1>2, <2>1, <2>2, Resting
<1>8. CASE /\ AtLeaf("range")
           /\ \E i \in 1..(Len(heap[call.node].keys) + 1) :
                /\ StopsAtOrAbove(heap[call.node].keys, call.key, i)
                /\ call' = [call EXCEPT
                              !.pc = IF i > Len(heap[call.node].keys) THEN "ranged" ELSE "scan",
                              !.at = i]
  <2>1. PICK n \in T : n = call.node /\ heap[n].is_leaf
    BY <1>1, <1>2, <1>8, Searched DEF Spanned, AtLeaf, Searching
  <2>2. T = InTree /\ T \in SUBSET Node /\ lo \in [Node -> Nat] /\ lo[n] \in Nat
        /\ Ordered(heap, root, T, lo, hi, hi)
    BY <1>2 DEF Spanned
  <2>3. PICK ks \in Seq(Key) : ks = heap[n].keys /\ Ascending(ks)
    <3>1. heap[n] \in NodeRec
      BY <2>2 DEF OrdInv, IndInv, TypeOK
    <3>2. Ascending(heap[n].keys)
      BY <2>2 DEF Ordered, Spans, InSpan
    <3>. QED BY <3>1, <3>2 DEF NodeRec
  <2>4. PICK i \in 1..(Len(ks) + 1) :
           /\ StopsAtOrAbove(ks, k, i)
           /\ call' = [call EXCEPT !.pc = IF i > Len(ks) THEN "ranged" ELSE "scan", !.at = i]
    BY <1>4, <1>8, <2>1, <2>3
  <2>5. CASE i > Len(ks)
    <3>1. call'.pc = "ranged" /\ call'.key = k /\ call'.hi = e
      BY <1>3, <1>4, <2>4, <2>5 DEF CallRec
    <3>2. Searches(lo, hi)'
      BY <1>6, <3>1
    <3>. QED BY <1>1, <1>2, <3>1, <3>2, Resting
  <2>6. CASE ~(i > Len(ks))
    <3>1. call'.pc = "scan" /\ call'.key = k /\ call'.hi = e /\ call'.at = i /\ call'.node = n
      BY <1>3, <1>4, <2>1, <2>4, <2>6 DEF CallRec
    <3>2. \A j \in 1..Len(ks) : j < i <=> ks[j] < k
      <4>1. i \in 1..Len(ks)
        BY <2>6
      <4>. QED BY <2>3, <2>4, <4>1, StartOf
    <3>3. lo[n] <= k /\ Below(k, hi[n])
      BY <1>2, <1>4, <1>8, <2>1 DEF At, AtLeaf
    <3>4. \A x \in Key : ~(x < lo[n] /\ k <= x)
      <4>1. k \in Nat /\ \A x \in Key : x \in Nat
        BY KeyAssumption
      <4>. QED BY <2>2, <3>3, <4>1
    <3>5. Searches(lo, hi)'
      <4>1. InTree' = InTree
        BY <1>1 DEF InTree, Live
      <4>2. rng' = <<>> /\ heap' = heap
        BY <1>1, <1>3
      <4>3. call'.node \in InTree' /\ heap'[call'.node].is_leaf /\ heap'[call'.node].keys = ks
        BY <2>1, <2>2, <2>3, <3>1, <4>1, <4>2
      <4>4. \A x \in Key : x \in Range(rng') <=>
                /\ Stored(heap', InTree', x) /\ x < lo[call'.node]
                /\ call'.key <= x /\ x <= call'.hi
        BY <1>5, <3>1, <3>4, <4>2
      <4>. QED BY <1>5, <3>1, <3>2, <3>3, <4>2, <4>3, <4>4 DEF Searches, Searching
    <3>6. call'.pc \notin {"insert_into_parent", "delete_entry"}
      BY <3>1
    <3>. QED BY <1>1, <1>2, <3>5, <3>6, Resting
  <2>. QED BY <2>5, <2>6
<1>. QED BY <1>7, <1>8 DEF find_range

\* The keys of a leaf between two loop indices of find_range.
ScanPart(ks, at, j, k, e) ==
    /\ Ascending(ks) /\ at \in Nat /\ 1 <= at /\ at <= j /\ j <= Len(ks) + 1
    /\ \A m \in at..(j - 1) : ks[m] <= e
    /\ j <= Len(ks) => e < ks[j]
    /\ \A i \in 1..Len(ks) : i < at <=> ks[i] < k

\* They are the leaf's keys in the range from k to e.
LEMMA ScanOf ==
  ASSUME NEW ks \in Seq(Key), NEW at, NEW j \in Int, NEW k \in Key, NEW e \in Key, ScanPart(ks, at, j, k, e)
  PROVE  /\ SubSeq(ks, at, j - 1) \in Seq(Key)
         /\ Ascending(SubSeq(ks, at, j - 1))
         /\ \A x \in Key : x \in Range(SubSeq(ks, at, j - 1)) <=> (x \in Range(ks) /\ k <= x /\ x <= e)
<1>1. /\ Ascending(ks) /\ at \in Nat /\ 1 <= at /\ at <= j /\ j <= Len(ks) + 1
      /\ \A m \in at..(j - 1) : ks[m] <= e
      /\ j <= Len(ks) => e < ks[j]
      /\ \A i \in 1..Len(ks) : i < at <=> ks[i] < k
  BY DEF ScanPart
<1>2. /\ Len(ks) \in Nat /\ k \in Nat /\ e \in Nat /\ \A i \in 1..Len(ks) : ks[i] \in Nat
  BY KeyNat, KeyAssumption
<1>3. PICK s : s = SubSeq(ks, at, j - 1)
  OBVIOUS
<1>4. s \in Seq(Key) /\ Len(s) = j - at /\ \A i \in 1..(j - at) : s[i] = ks[at + i - 1]
  <2>1. PICK q \in Int, p \in Int : q = j - 1 /\ p = at
    BY <1>1
  <2>2. 1 <= p /\ p <= q + 1 /\ q <= Len(ks)
    BY <1>1, <1>2, <2>1
  <2>3. /\ SubSeq(ks, p, q) \in Seq(Key) /\ Len(SubSeq(ks, p, q)) = q - p + 1
        /\ \A i \in 1..(q - p + 1) : SubSeq(ks, p, q)[i] = ks[p + i - 1]
    BY ONLY <2>2, SubSeqProps, ks \in Seq(Key), q \in Int, p \in Int
  <2>4. q - p + 1 = j - at
    BY <1>1, <2>1
  <2>. QED BY ONLY <1>3, <2>1, <2>3, <2>4
<1>5. \A i \in 1..Len(s) : at + i - 1 \in 1..Len(ks) /\ at + i - 1 \in at..(j - 1) /\ s[i] = ks[at + i - 1]
  BY <1>1, <1>2, <1>4
<1>6. Ascending(s)
  <2>1. ASSUME NEW x \in 1..Len(s), NEW y \in 1..Len(s), x < y PROVE s[x] < s[y]
    <3>1. at + x - 1 < at + y - 1
      BY <1>1, <2>1
    <3>. QED BY <1>1, <1>5, <3>1 DEF Ascending
  <2>. QED BY <2>1 DEF Ascending
<1>7. ASSUME NEW x \in Key, x \in Range(s) PROVE x \in Range(ks) /\ k <= x /\ x <= e
  <2>1. PICK i \in 1..Len(s) : s[i] = x
    BY <1>4, <1>7, InRange
  <2>2. PICK m \in 1..Len(ks) : m \in at..(j - 1) /\ ks[m] = x
    BY <1>5, <2>1
  <2>3. x \in Range(ks) /\ ks[m] \in Nat
    BY <1>2, <2>2, InRange
  <2>4. ks[m] <= e /\ ~(m < at)
    BY <1>1, <2>2
  <2>5. ~(ks[m] < k)
    BY <1>1, <2>4
  <2>. QED BY <1>2, <2>2, <2>3, <2>4, <2>5
<1>8. ASSUME NEW x \in Key, x \in Range(ks), k <= x, x <= e PROVE x \in Range(s)
  <2>1. PICK m \in 1..Len(ks) : ks[m] = x
    BY <1>8, InRange
  <2>2. m >= at /\ ks[m] \in Nat
    BY <1>1, <1>2, <1>8, <2>1
  <2>3. m < j
    <3>1. ASSUME j <= m PROVE FALSE
      <4>1. j \in 1..Len(ks)
        BY <1>1, <1>2, <3>1
      <4>2. e < ks[j] /\ (j = m \/ ks[j] < ks[m]) /\ ks[j] \in Nat
        BY <1>1, <1>2, <3>1, <4>1 DEF Ascending
      <4>. QED BY <1>2, <1>8, <2>1, <2>2, <4>2
    <3>. QED BY <3>1
  <2>4. PICK i \in 1..Len(s) : i = m - at + 1 /\ at + i - 1 = m
    BY <1>1, <1>4, <2>2, <2>3
  <2>5. s[i] = x
    BY <1>5, <2>1, <2>4
  <2>. QED BY <1>4, <2>5, InRange
<1>. QED BY <1>3, <1>4, <1>6, <1>7, <1>8

\* Ascending keys, the ones of t above those of s.
LEMMA JoinAscending ==
  ASSUME NEW s \in Seq(Key), NEW t \in Seq(Key), Ascending(s), Ascending(t),
         \A x \in Range(s), y \in Range(t) : x < y
  PROVE  /\ s \o t \in Seq(Key) /\ Ascending(s \o t)
         /\ \A x : x \in Range(s \o t) <=> (x \in Range(s) \/ x \in Range(t))
<1>1. PICK u \in Seq(Key) : u = s \o t /\ Cat(u, s, t)
  BY ConcatIs
<1>2. /\ Len(u) = Len(s) + Len(t) /\ Len(s) \in Nat /\ Len(t) \in Nat
      /\ \A i \in 1..Len(s) : u[i] = s[i]
      /\ \A i \in 1..Len(t) : u[Len(s) + i] = t[i]
  BY <1>1 DEF Cat
<1>3. \A i \in 1..Len(u) : i \in 1..Len(s) \/ (i - Len(s) \in 1..Len(t) /\ Len(s) + (i - Len(s)) = i)
  BY <1>2
<1>4. \A i \in 1..Len(u) : (i \in 1..Len(s) /\ u[i] = s[i]) \/ (i - Len(s) \in 1..Len(t) /\ u[i] = t[i - Len(s)])
  BY <1>2, <1>3
<1>5. ASSUME NEW x \in 1..Len(u), NEW y \in 1..Len(u), x < y PROVE u[x] < u[y]
  <2>1. CASE y \in 1..Len(s)
    BY <1>2, <1>5, <2>1 DEF Ascending
  <2>2. CASE x \in 1..Len(s) /\ y - Len(s) \in 1..Len(t) /\ u[y] = t[y - Len(s)]
    <3>1. u[x] \in Range(s) /\ u[y] \in Range(t)
      BY <1>2, <2>2, InRange
    <3>. QED BY <3>1
  <2>3. CASE /\ x - Len(s) \in 1..Len(t) /\ u[x] = t[x - Len(s)]
             /\ y - Len(s) \in 1..Len(t) /\ u[y] = t[y - Len(s)]
    <3>1. x - Len(s) < y - Len(s)
      BY <1>2, <1>5
    <3>. QED BY <2>3, <3>1 DEF Ascending
  <2>. QED BY <1>2, <1>4, <1>5, <2>1, <2>2, <2>3
<1>6. Ascending(u)
  BY <1>5 DEF Ascending
<1>7. Range(u) = Range(s) \cup Range(t)
  BY <1>1, ConcatRange
<1>. QED BY <1>1, <1>6, <1>7

\* A key in the span of leaf n is stored in n or nowhere.
LEMMA StoredHere ==
  ASSUME NEW h \in [Node -> NodeRec], NEW T \in SUBSET Node, NEW lo \in [Node -> Nat], NEW hi \in [Node -> Bound],
         Spans(h, T, lo, hi), Apart(h, T, lo, hi), NEW n \in T, h[n].is_leaf,
         NEW k \in Nat, lo[n] <= k, Below(k, hi[n]), Stored(h, T, k)
  PROVE  k \in Range(h[n].keys)
<1>1. PICK m \in T : h[m].is_leaf /\ k \in Range(h[m].keys)
  BY DEF Stored
<1>2. PICK ks \in Seq(Key) : ks = h[m].keys
  BY DEF NodeRec
<1>3. PICK i \in 1..Len(ks) : ks[i] = k
  BY <1>1, <1>2, InRange
<1>4. lo[m] <= k /\ Below(k, hi[m])
  BY <1>1, <1>2, <1>3 DEF Spans, InSpan
<1>5. ASSUME m # n PROVE FALSE
  <2>1. Before(hi[m], lo[n]) \/ Before(hi[n], lo[m])
    BY <1>1, <1>5 DEF Apart
  <2>2. lo[n] \in Nat /\ lo[m] \in Nat /\ hi[n] \in Bound /\ hi[m] \in Bound
    OBVIOUS
  <2>. QED BY ONLY <1>4, <2>1, <2>2, lo[n] <= k, Below(k, hi[n]), k \in Nat DEF Before, Below, Bound, Inf
<1>. QED BY <1>1, <1>5

\* What is in a sequence of keys is a key.
LEMMA KeysInRange ==
  ASSUME NEW s \in Seq(Key)
  PROVE  Range(s) \subseteq Key
<1>1. ASSUME NEW x, x \in Range(s) PROVE x \in Key
  <2>1. PICK i \in 1..Len(s) : s[i] = x
    BY <1>1, InRange
  <2>. QED BY <2>1
<1>. QED BY <1>1

\* rg holds, in order, the keys from k to e that are stored in the tree and
\* below b; Inf is above them all.
Collected(rg, h, T, k, e, b) ==
    /\ rg \in Seq(Key) /\ Ascending(rg)
    /\ \A x \in Key : x \in Range(rg) <=> (Stored(h, T, x) /\ Below(x, b) /\ k <= x /\ x <= e)

\* One leaf more: its keys in the range are collected too.
LEMMA CollectLeaf ==
  ASSUME NEW h \in [Node -> NodeRec], NEW T \in SUBSET Node, NEW lo \in [Node -> Nat], NEW hi \in [Node -> Bound],
         Spans(h, T, lo, hi), Apart(h, T, lo, hi), NEW n \in T, h[n].is_leaf, NEW k \in Key, NEW e \in Key,
         NEW rg, Collected(rg, h, T, k, e, lo[n]), NEW at, NEW j \in Int, ScanPart(h[n].keys, at, j, k, e)
  PROVE  Collected(rg \o SubSeq(h[n].keys, at, j - 1), h, T, k, e, hi[n])
<1>1. PICK ks \in Seq(Key) : ks = h[n].keys
  BY DEF NodeRec
<1>2. /\ rg \in Seq(Key) /\ Ascending(rg)
      /\ \A x \in Key : x \in Range(rg) <=> (Stored(h, T, x) /\ Below(x, lo[n]) /\ k <= x /\ x <= e)
  BY DEF Collected
<1>3. PICK s \in Seq(Key) : /\ s = SubSeq(ks, at, j - 1) /\ Ascending(s)
                            /\ \A x \in Key : x \in Range(s) <=> (x \in Range(ks) /\ k <= x /\ x <= e)
  <2>1. ScanPart(ks, at, j, k, e)
    BY <1>1
  <2>2. /\ SubSeq(ks, at, j - 1) \in Seq(Key)
        /\ Ascending(SubSeq(ks, at, j - 1))
        /\ \A x \in Key : x \in Range(SubSeq(ks, at, j - 1)) <=> (x \in Range(ks) /\ k <= x /\ x <= e)
    BY ONLY <2>1, ScanOf, ks \in Seq(Key), j \in Int, k \in Key, e \in Key
  <2>. QED BY ONLY <2>2
<1>4. lo[n] \in Nat /\ hi[n] \in Bound /\ \A x \in Key : x \in Nat
  BY KeyAssumption
<1>5. Range(s) \subseteq Key /\ Range(rg) \subseteq Key
  <2>1. rg \in Seq(Key)
    BY <1>2
  <2>2. Range(s) \subseteq Key
    BY ONLY KeysInRange, s \in Seq(Key)
  <2>3. Range(rg) \subseteq Key
    BY ONLY <2>1, KeysInRange
  <2>. QED BY <2>2, <2>3
<1>6. \A x \in Range(ks) : lo[n] <= x /\ Below(x, hi[n]) /\ Stored(h, T, x) /\ x \in Key
  <2>1. \A i \in 1..Len(ks) : lo[n] <= ks[i] /\ Below(ks[i], hi[n])
    BY <1>1 DEF Spans, InSpan
  <2>2. ASSUME NEW x \in Range(ks) PROVE lo[n] <= x /\ Below(x, hi[n]) /\ x \in Key
    <3>1. PICK i \in 1..Len(ks) : ks[i] = x
      BY ONLY InRange, ks \in Seq(Key), x \in Range(ks)
    <3>. QED BY <2>1, <3>1
  <2>. QED BY <1>1, <2>2 DEF Stored
<1>7. Below(lo[n], hi[n])
  BY SpanBelow
<1>8. \A x \in Range(rg), y \in Range(s) : x < y
  <2> SUFFICES ASSUME NEW x \in Range(rg), NEW y \in Range(s) PROVE x < y
    OBVIOUS
  <2>1. Below(x, lo[n]) /\ lo[n] <= y /\ x \in Nat /\ y \in Nat
    BY <1>2, <1>3, <1>4, <1>5, <1>6
  <2>. QED BY ONLY <1>4, <2>1 DEF Below, Inf
<1>9. /\ rg \o s \in Seq(Key) /\ Ascending(rg \o s)
      /\ \A x : x \in Range(rg \o s) <=> (x \in Range(rg) \/ x \in Range(s))
  <2>1. rg \in Seq(Key) /\ Ascending(rg) /\ Ascending(s)
    BY <1>2, <1>3
  <2>. QED BY ONLY <1>8, <2>1, JoinAscending, s \in Seq(Key)
<1>10. ASSUME NEW x \in Key, x \in Range(rg) \/ x \in Range(s)
       PROVE  Stored(h, T, x) /\ Below(x, hi[n]) /\ k <= x /\ x <= e
  <2>1. CASE x \in Range(rg)
    <3>1. Stored(h, T, x) /\ Below(x, lo[n]) /\ k <= x /\ x <= e /\ x \in Nat
      BY <1>2, <1>4, <2>1
    <3>2. Below(x, hi[n])
      BY ONLY <1>4, <1>7, <3>1 DEF Below, Inf, Bound
    <3>. QED BY <3>1, <3>2
  <2>2. CASE x \in Range(s)
    BY <1>3, <1>6, <2>2
  <2>. QED BY <1>10, <2>1, <2>2
<1>11. ASSUME NEW x \in Key, Stored(h, T, x), Below(x, hi[n]), k <= x, x <= e
       PROVE  x \in Range(rg) \/ x \in Range(s)
  <2>1. x \in Nat
    BY <1>4
  <2>2. CASE lo[n] <= x
    <3>1. x \in Range(h[n].keys)
      BY <1>11, <2>1, <2>2, StoredHere
    <3>. QED BY <1>1, <1>3, <1>11, <3>1
  <2>3. CASE ~(lo[n] <= x)
    <3>1. Below(x, lo[n])
      BY ONLY <1>4, <2>1, <2>3 DEF Below
    <3>. QED BY <1>2, <1>11, <3>1
  <2>. QED BY <2>2, <2>3
<1>12. Collected(rg \o s, h, T, k, e, hi[n])
  BY <1>9, <1>10, <1>11 DEF Collected
<1>. QED BY <1>1, <1>3, <1>12

\* find_range_scan: one leaf of the chain.
LEMMA FindRangeScanOrder ==
  ASSUME OrdInv, find_range_scan
  PROVE  InOrder' /\ SameEntries(heap, InTree, heap', InTree')
<1>1. call.pc = "scan" /\ UNCHANGED <<root, heap, free, doomed>>
  BY DEF find_range_scan
<1>2. PICK T, lo, hi : Spanned(T, lo, hi) /\ Searches(lo, hi)
  BY <1>1, AtRest
<1>3. call \in CallRec /\ heap \in [Node -> NodeRec] /\ rng \in Seq(Key) /\ call.at >= 1
  BY <1>1 DEF OrdInv, IndInv, TypeOK, CallOK
<1>4. /\ T = InTree /\ T \in SUBSET Node /\ lo \in [Node -> Nat] /\ hi \in [Node -> Bound]
      /\ Spans(heap, T, lo, hi) /\ Apart(heap, T, lo, hi) /\ Chained(heap, T, lo, hi)
  BY <1>2 DEF Spanned, Ordered
<1>5. PICK n \in T, k \in Key, e \in Key, at \in Nat :
         n = call.node /\ k = call.key /\ e = call.hi /\ at = call.at /\ heap[n].is_leaf
  BY <1>1, <1>2, <1>3, <1>4 DEF Searches, CallRec
<1>6. /\ Below(k, hi[n]) /\ Ascending(rng)
      /\ \A i \in 1..Len(heap[n].keys) : i < at <=> heap[n].keys[i] < k
      /\ \A x \in Key : x \in Range(rng) <=> /\ Stored(heap, T, x) /\ x < lo[n]
                                             /\ k <= x /\ x <= e
  BY <1>1, <1>2, <1>4, <1>5 DEF Searches
<1>7. lo[n] \in Nat /\ hi[n] \in Bound /\ k \in Nat /\ \A x \in Key : x \in Nat
  BY <1>4, KeyAssumption
<1>8. Collected(rng, heap, T, k, e, lo[n])
  <2>1. \A x \in Key : Below(x, lo[n]) <=> x < lo[n]
    BY ONLY <1>7 DEF Below, Inf
  <2>. QED BY ONLY <1>3, <1>6, <2>1 DEF Collected
<1>9. PICK j \in at..(Len(heap[n].keys) + 1) :
         /\ \A m \in at..(j - 1) : heap[n].keys[m] <= e
         /\ j <= Len(heap[n].keys) => e < heap[n].keys[j]
         /\ rng' = rng \o SubSeq(heap[n].keys, at, j - 1)
         /\ call' = [call EXCEPT !.pc = IF heap[n].link = NULL THEN "ranged" ELSE "scan",
                                 !.node = heap[n].link, !.at = 1]
  BY <1>5 DEF find_range_scan
<1>10. ScanPart(heap[n].keys, at, j, k, e) /\ j \in Int
  <2>1. Ascending(heap[n].keys)
    BY <1>4 DEF Spans, InSpan
  <2>2. Len(heap[n].keys) \in Nat
    BY <1>3, <1>4 DEF NodeRec
  <2>3. 1 <= at /\ at <= j /\ j <= Len(heap[n].keys) + 1 /\ j \in Int
    BY <1>3, <1>5, <1>9, <2>2
  <2>. QED BY <1>6, <1>9, <2>1, <2>3 DEF ScanPart
<1>11. Collected(rng', heap, T, k, e, hi[n])
  BY <1>3, <1>4, <1>5, <1>8, <1>9, <1>10, CollectLeaf
<1>12. call'.key = k /\ call'.hi = e /\ call'.node = heap[n].link /\ call'.at = 1
  BY <1>3, <1>5, <1>9 DEF CallRec
<1>13. InTree' = T /\ heap' = heap
  BY <1>1, <1>4 DEF InTree, Live
<1>14. CASE heap[n].link = NULL
  <2>1. call'.pc = "ranged" /\ hi[n] = Inf
    BY <1>3, <1>4, <1>5, <1>9, <1>14 DEF Chained, CallRec
  <2>2. Ascending(rng') /\ \A x \in Key : x \in Range(rng') <=> (Stored(heap, T, x) /\ k <= x /\ x <= e)
    BY <1>11, <2>1 DEF Collected, Below
  <2>3. Searches(lo, hi)'
    BY <1>12, <1>13, <2>1, <2>2 DEF Searches, Searching
  <2>. QED BY <1>1, <1>2, <2>1, <2>3, Resting
<1>15. CASE heap[n].link # NULL
  <2>1. PICK r \in T : r = heap[n].link /\ heap[r].is_leaf /\ hi[n] = lo[r]
    BY <1>4, <1>5, <1>15 DEF Chained
  <2>2. call'.pc = "scan" /\ call'.node = r
    BY <1>3, <1>9, <1>12, <1>15, <2>1 DEF CallRec
  <2>3. lo[r] \in Nat /\ hi[r] \in Bound /\ Below(lo[r], hi[r])
    BY <1>4, SpanBelow
  <2>4. k < lo[r] /\ Below(k, hi[r])
    BY ONLY <1>6, <1>7, <2>1, <2>3 DEF Below, Inf, Bound
  <2>5. \A i \in 1..Len(heap[r].keys) : i < 1 <=> heap[r].keys[i] < k
    <3>1. ASSUME NEW i \in 1..Len(heap[r].keys) PROVE ~(heap[r].keys[i] < k)
      <4>1. lo[r] <= heap[r].keys[i]
        BY <1>4 DEF Spans, InSpan
      <4>2. heap[r].keys[i] \in Nat
        <5>1. PICK ks \in Seq(Key) : ks = heap[r].keys
          BY <1>3, <1>4 DEF NodeRec
        <5>. QED BY <5>1, KeyNat
      <4>. QED BY ONLY <1>7, <2>3, <2>4, <4>1, <4>2
    <3>. QED BY <3>1
  <2>6. \A x \in Key : Below(x, lo[r]) <=> x < lo[r]
    BY ONLY <1>7, <2>3 DEF Below, Inf
  <2>7. /\ Ascending(rng')
        /\ \A x \in Key : x \in Range(rng') <=> /\ Stored(heap, T, x) /\ x < lo[r]
                                                /\ k <= x /\ x <= e
    BY ONLY <1>11, <2>1, <2>6 DEF Collected
  <2>8. Searches(lo, hi)'
    BY <1>12, <1>13, <2>1, <2>2, <2>4, <2>5, <2>7 DEF Searches, Searching
  <2>9. call'.pc \notin {"insert_into_parent", "delete_entry"}
    BY <2>2
  <2>. QED BY <1>1, <1>2, <2>8, <2>9, Resting
<1>. QED BY <1>14, <1>15

-----------------------------------------------------------------------------
(***************************************************************************)
(* delete.                                                                 *)
(***************************************************************************)

\* delete_entry has returned, or is to be called for a merged node.
LEMMA SettledOrder ==
  ASSUME NEW h, NEW T, NEW T2, T2 = InTree', NEW lo, NEW hi, NEW seen,
         Keeps(h, T, T2, lo, hi, seen), Settled(hi, seen), rng' = <<>>
  PROVE  InOrder'
<1>1. /\ lo \in [Node -> Nat] /\ hi \in [Node -> Bound] /\ seen \in [Node -> Bound]
      /\ Ordered(heap, root, InTree, lo, hi, seen)'
  BY DEF Keeps
<1>2. Pending(lo, hi, seen)' /\ call'.pc \in {"return", "delete_entry"}
  <2>1. CASE call' = Returning /\ seen = hi
    BY <2>1 DEF Pending, Returning, Idle
  <2>2. CASE \E p, r, k :
                /\ call' = [Idle EXCEPT !.pc = "delete_entry", !.key = k, !.node = p, !.right = r]
                /\ MergeSeen(heap'[p], r, k, hi, seen)
    <3>1. PICK p, r, k :
             /\ call' = [Idle EXCEPT !.pc = "delete_entry", !.key = k, !.node = p, !.right = r]
             /\ MergeSeen(heap'[p], r, k, hi, seen)
      BY <2>2
    <3>2. call'.pc = "delete_entry" /\ call'.key = k /\ call'.node = p /\ call'.right = r
      BY <3>1 DEF Idle
    <3>. QED BY <3>1, <3>2 DEF Pending
  <2>. QED BY <2>1, <2>2 DEF Settled
<1>3. Searches(lo, hi)'
  BY <1>2 DEF Searches, Searching
<1>4. OrderOK(lo, hi, seen)'
  BY <1>1, <1>2, <1>3 DEF OrderOK
<1>. QED BY <1>1, <1>4 DEF InOrder

\* A search that ends without the key has missed nothing: no leaf has it.
LEMMA NoRecord ==
  ASSUME OrdInv, NEW op \in Searching, NoTree(op) \/ (AtLeaf(op) /\ ~Present(call.key)), NEW v
  PROVE  ~Has(heap, InTree, call.key, v)
<1>1. call.pc \in Searching
  BY DEF NoTree, AtLeaf
<1>2. CASE NoTree(op)
  <2>1. root = NULL
    BY <1>1, <1>2, Searched DEF NoTree
  <2>2. PICK T, lo, hi : Spanned(T, lo, hi)
    BY <1>1, Searched
  <2>. QED BY <2>1, <2>2 DEF Spanned, Ordered, Rooted, Has
<1>3. CASE AtLeaf(op) /\ ~Present(call.key)
  <2>1. PICK T, lo, hi, n : LeafFacts(T, lo, hi, n, op)
    BY <1>3, LeafKnown
  <2>2. /\ heap \in [Node -> NodeRec] /\ T \in SUBSET Node /\ lo \in [Node -> Nat] /\ hi \in [Node -> Bound]
        /\ Spans(heap, T, lo, hi) /\ Apart(heap, T, lo, hi) /\ n \in T /\ heap[n].is_leaf
        /\ call.key \in Nat /\ lo[n] <= call.key /\ Below(call.key, hi[n])
        /\ T = InTree /\ n = call.node
    BY <2>1, KeyAssumption DEF LeafFacts, Spanned, Ordered
  <2>3. Only(heap, T, n, call.key)
    BY <2>2, NotElsewhere
  <2>4. ~Holds(heap[n].keys, heap[n].recs, call.key, v)
    BY <1>3, <2>2 DEF Present, Holds
  <2>. QED BY <2>2, <2>3, <2>4 DEF Has, Only
<1>. QED BY <1>2, <1>3

\* There was nothing to delete.
LEMMA NothingThere ==
  ASSUME OrdInv, NoTree("delete") \/ (AtLeaf("delete") /\ ~Present(call.key)),
         UNCHANGED <<root, heap, free, doomed>>
  PROVE  Drops(heap, InTree, heap', InTree', call.key)
<1>1. InTree' = InTree /\ heap' = heap
  BY DEF InTree, Live
<1>2. \A v : ~Has(heap, InTree, call.key, v)
  BY NoRecord DEF Searching
<1>. QED BY <1>1, <1>2 DEF Drops

\* What is taken out of h, which is g with the same entries, is out of g.
LEMMA DropsSame ==
  ASSUME NEW h, NEW T, NEW g, NEW S, NEW f, NEW T2, NEW k, Drops(h, T, g, S, k), SameEntries(g, S, f, T2)
  PROVE  Drops(h, T, f, T2, k)
BY DEF Drops, SameEntries

\* delete takes the entry out of its leaf; the rest keeps the others.
LEMMA DeleteOrder ==
  ASSUME OrdInv, delete
  PROVE  InOrder' /\ Drops(heap, InTree, heap', InTree', call.key)
<1>1. UNCHANGED <<ret, rng>> /\ call.pc = "delete"
  BY DEF delete, NoTree, AtLeaf
<1>2. rng = <<>>
  BY <1>1, Searched DEF Searching
<1>3. CASE /\ NoTree("delete") \/ (AtLeaf("delete") /\ ~Present(call.key))
           /\ call' = Idle /\ UNCHANGED <<root, heap, free, doomed>>
  <2>1. PICK T, lo, hi : Spanned(T, lo, hi) /\ Searches(lo, hi)
    BY <1>1, AtRest
  <2>2. call'.pc = "idle"
    BY <1>3 DEF Idle
  <2>3. Searches(lo, hi)'
    BY <1>1, <1>2, <2>2 DEF Searches, Searching
  <2>4. InOrder'
    BY <1>3, <2>1, <2>2, <2>3, Resting
  <2>. QED BY <1>3, <2>4, NothingThere
<1>4. CASE /\ AtLeaf("delete")
           /\ \E i \in 1..Len(heap[call.node].keys) :
                 /\ FirstIndex(heap[call.node].keys, call.key, i)
                 /\ delete_entry(call.node, i, i)
  <2>1. PICK T, lo, hi, n : LeafFacts(T, lo, hi, n, "delete")
    BY <1>4, LeafKnown DEF Searching
  <2>2. /\ heap \in [Node -> NodeRec] /\ T \in SUBSET Node /\ lo \in [Node -> Nat] /\ hi \in [Node -> Bound]
        /\ Ordered(heap, root, T, lo, hi, hi) /\ Shaped(heap, T) /\ n \in T /\ heap[n].is_leaf
        /\ T = InTree /\ n = call.node
    BY <2>1 DEF LeafFacts, Spanned
  <2>3. PICK i \in 1..Len(heap[n].keys) : heap[n].keys[i] = call.key /\ delete_entry(n, i, i)
    BY <1>4, <2>2 DEF FirstIndex
  <2>4. PICK h : h = remove_entry_from_node(n, i, i)
    OBVIOUS
  <2>5. WithoutRecord(heap, h, n, i)
    BY <2>2, <2>4 DEF remove_entry_from_node, WithoutRecord
  <2>6. Ordered(h, root, T, lo, hi, hi) /\ Drops(heap, T, h, T, heap[n].keys[i])
    BY ONLY <2>2, <2>5, RemoveLeafOrder, i \in 1..Len(heap[n].keys)
  <2>7. PICK ht \in [Node -> Nat] : Graded(heap, T, ht)
    BY <2>2 DEF OrdInv, IndInv, HeightsOK
  <2>8. Removed(h, root, T, n, ht)
    <3>1. IndInv /\ Orphan = {} /\ Dangling = {}
      BY <1>1 DEF OrdInv, Orphan, Dangling
    <3>. QED BY ONLY <2>2, <2>4, <2>7, <3>1, RemoveTree, i \in 1..Len(heap[n].keys), ht \in [Node -> Nat]
  <2>9. PICK T2, lo2, hi2, seen2 : T2 = InTree' /\ Keeps(h, T, T2, lo2, hi2, seen2) /\ Settled(hi2, seen2)
    <3>1. /\ T \in SUBSET Node /\ T = InTree /\ n \in T /\ lo \in [Node -> Nat] /\ hi \in [Node -> Bound]
          /\ delete_entry(n, i, i) /\ Ordered(h, root, T, lo, hi, hi)
      BY <2>2, <2>3, <2>6
    <3>. QED BY ONLY <2>4, <2>8, <3>1, DeleteEntryOrder, ht \in [Node -> Nat]
  <2>10. InOrder'
    BY <1>1, <1>2, <2>9, SettledOrder
  <2>11. SameEntries(h, T, heap', T2)
    BY <2>9 DEF Keeps
  <2>12. Drops(heap, T, heap', T2, call.key)
    BY <2>3, <2>6, <2>11, DropsSame
  <2>. QED BY <2>2, <2>9, <2>10, <2>12
<1>. QED BY <1>3, <1>4, Zenon DEF delete

\* The entry of a merged node goes from its parent: its span is the neighbour's.
LEMMA DeleteEntryInParentOrder ==
  ASSUME OrdInv, delete_entry_in_parent
  PROVE  InOrder' /\ SameEntries(heap, InTree, heap', InTree')
<1>1. UNCHANGED <<ret, rng>> /\ call.pc = "delete_entry"
  BY DEF delete_entry_in_parent
<1>2. IndInv
  BY DEF OrdInv
<1>3. PICK lo \in [Node -> Nat], hi \in [Node -> Bound], seen \in [Node -> Bound] : OrderOK(lo, hi, seen)
  BY DEF OrdInv, InOrder
<1>4. PICK T \in SUBSET Node : T = InTree
  BY DEF InTree, Live
<1>r. PICK r : r = call.right /\ r \notin T
  BY <1>1, <1>2, <1>4 DEF IndInv, CallOK, InTree
<1>5. PICK n \in T, k \in Key : n = call.node /\ k = call.key /\ r = call.right /\ r \notin T
  BY <1>1, <1>2, <1>4, <1>r DEF IndInv, CallOK, InTree
<1>6. /\ Ordered(heap, root, T, lo, hi, seen) /\ MergeSeen(heap[n], r, k, hi, seen) /\ rng = <<>>
      /\ heap \in [Node -> NodeRec] /\ Shaped(heap, T) /\ Linked(heap, root, T, Dangling, {})
  <2>1. Orphan = {}
    BY <1>1 DEF Orphan
  <2>. QED BY <1>1, <1>2, <1>3, <1>4, <1>5, <2>1 DEF OrderOK, Pending, Searches, IndInv, TypeOK
<1>7. PICK ki \in 1..Len(heap[n].keys), pi \in 1..Len(heap[n].kids) :
         heap[n].keys[ki] = k /\ heap[n].kids[pi] = r /\ delete_entry(n, ki, pi)
  BY <1>5 DEF delete_entry_in_parent, FirstIndex
<1>8. ~heap[n].is_leaf
  <2>1. ShapedNode(heap[n])
    BY <1>6 DEF Shaped
  <2>2. heap[n].kids # <<>>
    BY <1>7
  <2>. QED BY <2>1, <2>2 DEF ShapedNode
<1>9. PICK h : h = remove_entry_from_node(n, ki, pi)
  OBVIOUS
<1>10. WithoutEntry(heap, h, n, ki, pi)
  BY <1>8, <1>9 DEF remove_entry_from_node, WithoutEntry
<1>11. EntryOf(heap, n, k, r, ki, pi)
  BY <1>7 DEF EntryOf
<1>12. Ordered(h, root, T, lo, hi, hi) /\ SameEntries(heap, T, h, T)
  BY ONLY <1>6, <1>8, <1>10, <1>11, RemoveNodeOrder, T \in SUBSET Node, n \in T, k \in Key,
          lo \in [Node -> Nat], hi \in [Node -> Bound]
<1>13. PICK ht \in [Node -> Nat] : Graded(heap, T, ht)
  BY <1>2, <1>4 DEF IndInv, HeightsOK
<1>14. Removed(h, root, T, n, ht)
  <2>1. Orphan = {} /\ Dangling = {<<n, heap[n].kids[pi]>>} /\ heap[n].kids[pi] \notin T
    BY <1>1, <1>5, <1>7 DEF Orphan, Dangling
  <2>. QED BY ONLY <1>2, <1>4, <1>8, <1>9, <1>13, <2>1, RemoveTree, T \in SUBSET Node, n \in T,
                   ki \in 1..Len(heap[n].keys), pi \in 1..Len(heap[n].kids), ht \in [Node -> Nat]
<1>15. PICK T2, lo2, hi2, seen2 : T2 = InTree' /\ Keeps(h, T, T2, lo2, hi2, seen2) /\ Settled(hi2, seen2)
  <2>1. delete_entry(n, ki, pi)
    BY <1>7
  <2>. QED BY ONLY <1>4, <1>9, <1>12, <1>14, <2>1, DeleteEntryOrder, T \in SUBSET Node, n \in T,
                   ht \in [Node -> Nat], lo \in [Node -> Nat], hi \in [Node -> Bound]
<1>16. InOrder'
  BY <1>1, <1>6, <1>15, SettledOrder
<1>17. SameEntries(heap, T, heap', T2)
  BY <1>12, <1>15 DEF Keeps, SameEntries
<1>. QED BY <1>4, <1>15, <1>16, <1>17

\* The merged nodes are freed: none of them is in the tree.
LEMMA DeleteReturnOrder ==
  ASSUME OrdInv, delete_return
  PROVE  InOrder' /\ SameEntries(heap, InTree, heap', InTree')
<1>1. /\ call.pc = "return" /\ call' = Idle /\ doomed' = {} /\ free' = free \cup doomed
      /\ UNCHANGED <<root, ret, rng>>
      /\ heap' = [n \in Node |-> IF n \in doomed THEN Blank ELSE heap[n]]
  BY DEF delete_return
<1>2. PICK T, lo, hi : Spanned(T, lo, hi) /\ Searches(lo, hi)
  BY <1>1, AtRest
<1>3. /\ T = InTree /\ T \in SUBSET Node /\ lo \in [Node -> Nat] /\ hi \in [Node -> Bound]
      /\ Ordered(heap, root, T, lo, hi, hi) /\ rng = <<>>
  BY <1>1, <1>2 DEF Spanned, Searches
<1>4. T = InTree'
  BY <1>1, <1>3 DEF InTree, Live
<1>5. AllAlike(heap, heap', T)
  <2>1. \A m \in T : heap'[m] = heap[m]
    BY <1>1, <1>3 DEF InTree
  <2>. QED BY <2>1 DEF AllAlike, Alike
<1>6. Spans(heap', T, lo, hi) /\ Routed(heap', T, lo, hi, hi)
  BY <1>3, <1>5, SpansOfPart DEF Ordered
<1>7. SameLeaves(heap, T, heap', T) /\ SameSpans(heap, T, lo, hi, lo, hi)
  BY <1>5 DEF SameLeaves, SameSpans, AllAlike, Alike
<1>8. Apart(heap', T, lo, hi) /\ Chained(heap', T, lo, hi) /\ SameEntries(heap, T, heap', T)
  BY <1>3, <1>7, LeavesKept DEF Ordered
<1>9. Rooted(heap', root, T, lo, hi)
  BY <1>3, <1>5 DEF Ordered, Rooted, AllAlike, Alike
<1>10. Ordered(heap', root', T, lo, hi, hi)
  BY <1>1, <1>6, <1>8, <1>9 DEF Ordered
<1>11. call'.pc = "idle" /\ rng' = <<>>
  BY <1>1, <1>3 DEF Idle
<1>12. InOrder'
  BY <1>3, <1>4, <1>10, <1>11, Restored
<1>. QED BY <1>3, <1>4, <1>8, <1>12

-----------------------------------------------------------------------------
(***************************************************************************)
(* All steps together: the order of the tree is invariant.                 *)
(***************************************************************************)
\* find_leaf goes on with its search; every other function ends it.
LEMMA SearchEnds ==
  ASSUME OrdInv, Step, ~find_leaf
  PROVE  call'.pc \notin Searching
<1> USE DEF Searching, Idle
<1>1. call \in CallRec
  BY DEF OrdInv, IndInv, TypeOK
<1>2. Returning.pc = "return"
  BY DEF Returning
<1>3. CASE find
  BY <1>3 DEF find
<1>4. CASE find_range
  BY <1>1, <1>4 DEF find_range, CallRec
<1>5. CASE find_range_scan
  BY <1>1, <1>5 DEF find_range_scan, CallRec
<1>6. CASE find_range_return \/ insert_update \/ start_new_tree \/ insert_into_leaf
  BY <1>6 DEF find_range_return, insert_update, start_new_tree, insert_into_leaf
<1>7. CASE insert_into_leaf_after_splitting
  BY <1>7 DEF insert_into_leaf_after_splitting
<1>8. CASE insert_into_new_root \/ insert_into_node \/ delete_return
  <2>1. call' = Idle
    BY <1>8, Zenon DEF insert_into_new_root, insert_into_node, delete_return
  <2>. QED BY <2>1
<1>9. CASE insert_into_node_after_splitting
  BY <1>1, <1>9 DEF insert_into_node_after_splitting, CallRec
<1>10. ASSUME NEW n, NEW ki, NEW pi, delete_entry(n, ki, pi)
       PROVE  call'.pc \in {"return", "delete_entry"}
  <2>1. ASSUME NEW h, adjust_root(h)
        PROVE  call'.pc = "return"
    BY <1>2, <2>1 DEF adjust_root
  <2>2. ASSUME NEW h, NEW nb, NEW lm, NEW kp, coalesce_nodes(h, n, nb, lm, kp)
        PROVE  call'.pc = "delete_entry"
    BY <2>2 DEF coalesce_nodes
  <2>3. ASSUME NEW h, NEW nb, NEW lm, NEW x, NEW kp, redistribute_nodes(h, n, nb, lm, x, kp)
        PROVE  call'.pc = "return"
    BY <1>2, <2>3 DEF redistribute_nodes
  <2>4. ASSUME NEW h, NEW i, Rebalance(h, n, i)
        PROVE  call'.pc \in {"return", "delete_entry"}
    BY <2>2, <2>3, <2>4 DEF Rebalance
  <2>. QED BY <1>2, <1>10, <2>1, <2>4 DEF delete_entry
<1>11. CASE delete
  BY <1>10, <1>11 DEF delete
<1>12. CASE delete_entry_in_parent
  BY <1>10, <1>12 DEF delete_entry_in_parent
<1>. QED BY <1>3, <1>4, <1>5, <1>6, <1>7, <1>8, <1>9, <1>11, <1>12, Zenon DEF Step

\* The client drops the answer when it calls, and a search does not answer.
LEMMA UnansweredNext ==
  ASSUME OrdInv, [Next]_vars
  PROVE  Unanswered'
<1>1. CASE Client
  BY <1>1 DEF Client, Begin, Unanswered
<1>2. CASE find_leaf
  <2>1. call \in CallRec /\ ret = Void
    BY <1>2 DEF OrdInv, IndInv, TypeOK, Unanswered, find_leaf
  <2>. QED BY <1>2, <2>1 DEF Unanswered, find_leaf
<1>3. CASE Step /\ ~find_leaf
  BY <1>3, SearchEnds DEF Unanswered
<1>4. CASE UNCHANGED vars
  BY <1>4 DEF vars, Unanswered, OrdInv
<1>. QED BY <1>1, <1>2, <1>3, <1>4, Zenon DEF Next

\* Steps that do not change the dictionary.
LEMMA MovesOrder ==
  ASSUME OrdInv, \/ Client \/ find_leaf \/ find \/ find_range \/ find_range_scan \/ find_range_return
                 \/ insert_into_new_root \/ insert_into_node \/ insert_into_node_after_splitting
                 \/ delete_entry_in_parent \/ delete_return
  PROVE  InOrder' /\ SameEntries(heap, InTree, heap', InTree')
<1>1. CASE Client
  BY <1>1, ClientOrder
<1>2. CASE find_leaf
  BY <1>2, FindLeafOrder
<1>3. CASE find
  BY <1>3, FindOrder
<1>4. CASE find_range
  BY <1>4, FindRangeOrder
<1>5. CASE find_range_scan
  BY <1>5, FindRangeScanOrder
<1>6. CASE find_range_return
  BY <1>6, FindRangeReturnOrder
<1>7. CASE insert_into_new_root
  BY <1>7, NewRootOrder
<1>8. CASE insert_into_node
  BY <1>8, InsertIntoNodeOrder
<1>9. CASE insert_into_node_after_splitting
  BY <1>9, NodeSplitOrder
<1>10. CASE delete_entry_in_parent
  BY <1>10, DeleteEntryInParentOrder
<1>11. CASE delete_return
  BY <1>11, DeleteReturnOrder
<1>. QED BY <1>1, <1>2, <1>3, <1>4, <1>5, <1>6, <1>7, <1>8, <1>9, <1>10, <1>11, Zenon

\* The functions that put the entry of an insertion into a leaf.
LEMMA PutsOrder ==
  ASSUME OrdInv, insert_update \/ start_new_tree \/ insert_into_leaf \/ insert_into_leaf_after_splitting
  PROVE  InOrder' /\ Puts(heap, InTree, heap', InTree', call.key, call.val)
<1>1. CASE insert_update
  BY <1>1, InsertUpdateOrder
<1>2. CASE start_new_tree
  BY <1>2, StartNewTreeOrder
<1>3. CASE insert_into_leaf
  BY <1>3, InsertIntoLeafOrder
<1>4. CASE insert_into_leaf_after_splitting
  BY <1>4, LeafSplitOrder
<1>. QED BY <1>1, <1>2, <1>3, <1>4, Zenon

\* Every step keeps the tree in order.
LEMMA OrdNext ==
  ASSUME OrdInv, [Next]_vars
  PROVE  OrdInv'
<1>1. IndInv'
  BY NextInv DEF OrdInv
<1>2. InOrder'
  <2>1. CASE \/ Client \/ find_leaf \/ find \/ find_range \/ find_range_scan \/ find_range_return
             \/ insert_into_new_root \/ insert_into_node \/ insert_into_node_after_splitting
             \/ delete_entry_in_parent \/ delete_return
    BY <2>1, MovesOrder, Zenon
  <2>2. CASE insert_update \/ start_new_tree \/ insert_into_leaf \/ insert_into_leaf_after_splitting
    BY <2>2, PutsOrder, Zenon
  <2>3. CASE delete
    BY <2>3, DeleteOrder
  <2>4. CASE UNCHANGED vars
    <3>1. InTree' = InTree
      BY <2>4 DEF vars, InTree, Live
    <3>. QED BY <2>4, <3>1 DEF vars, OrdInv, InOrder, OrderOK, Pending, Searches
  <2>. QED BY <2>1, <2>2, <2>3, <2>4, Zenon DEF Next, Step
<1>. QED BY <1>1, <1>2, UnansweredNext DEF OrdInv

\* The empty tree is in order.
LEMMA OrdInit ==
  ASSUME Init
  PROVE  OrdInv
<1>1. InTree = {}
  BY DEF Init, InTree, Live
<1>2. OrderOK([n \in Node |-> 0], [n \in Node |-> Inf], [n \in Node |-> Inf])
  <2> DEFINE lo == [n \in Node |-> 0]
             hi == [n \in Node |-> Inf]
  <2>1. Ordered(heap, root, InTree, lo, hi, hi)
    BY <1>1 DEF Init, Ordered, Spans, Routed, Rooted, Apart, Chained
  <2>2. Pending(lo, hi, hi)
    BY DEF Init, Idle, Pending
  <2>3. Searches(lo, hi)
    BY DEF Init, Idle, Searching, Searches
  <2>. QED BY <2>1, <2>2, <2>3 DEF OrderOK
<1>3. InOrder
  <2>1. [n \in Node |-> 0] \in [Node -> Nat] /\ [n \in Node |-> Inf] \in [Node -> Bound]
    BY DEF Bound, Inf
  <2>. QED BY <1>2, <2>1 DEF InOrder
<1>4. Unanswered
  BY DEF Init, Unanswered
<1>. QED BY <1>3, <1>4, InitInv DEF OrdInv

\* Between any two C functions the keys, the separators and the links are in
\* order, and every search is in a node that is responsible for its key.
THEOREM AlwaysInOrder == Spec => []OrdInv
<1>1. Init => OrdInv
  BY OrdInit
<1>2. OrdInv /\ [Next]_vars => OrdInv'
  BY OrdNext
<1>. QED BY <1>1, <1>2, PTL DEF Spec

\* What the invariant says of a leaf.
LeafOK(m, lo, hi) ==
    /\ heap[m].keys \in Seq(Key) /\ Len(heap[m].keys) \in 1..(Order - 1)
    /\ Len(heap[m].recs) = Len(heap[m].keys)
    /\ lo[m] \in Nat /\ hi[m] \in Bound /\ InSpan(TRUE, heap[m].keys, lo[m], hi[m])

\* The leaves of the tree are such: their keys are inside their spans.
LEMMA LeavesOK ==
  ASSUME OrdInv, NEW T, NEW lo, NEW hi, Spanned(T, lo, hi), NEW m \in T, heap[m].is_leaf
  PROVE  LeafOK(m, lo, hi)
<1>1. T = InTree /\ m \in Node /\ heap[m] \in NodeRec
  BY DEF Spanned, OrdInv, IndInv, TypeOK
<1>2. ShapedNode(heap[m]) /\ Len(heap[m].keys) >= 1
  BY <1>1 DEF OrdInv, IndInv, Shaped, Full
<1>3. heap[m].keys \in Seq(Key) /\ heap[m].recs \in Seq(Val)
  BY <1>1 DEF NodeRec
<1>4. Len(heap[m].keys) \in 1..(Order - 1) /\ Len(heap[m].recs) = Len(heap[m].keys)
  BY <1>2, <1>3, OrderAssumption DEF ShapedNode
<1>5. lo[m] \in Nat /\ hi[m] \in Bound /\ InSpan(TRUE, heap[m].keys, lo[m], hi[m])
  BY <1>1 DEF Spanned, Ordered, Spans
<1>. QED BY <1>3, <1>4, <1>5 DEF LeafOK

\* Of two leaves, the one with a key above a key of the other is all above it.
LEMMA LeafAbove ==
  ASSUME NEW T, NEW lo, NEW hi, Spanned(T, lo, hi), NEW m \in T, NEW n \in T,
         heap[m].is_leaf, heap[n].is_leaf, LeafOK(m, lo, hi), LeafOK(n, lo, hi),
         NEW i \in 1..Len(heap[m].keys), NEW j \in 1..Len(heap[n].keys),
         heap[m].keys[i] > heap[n].keys[j]
  PROVE  m = n \/ Before(hi[n], lo[m])
<1>1. SUFFICES ASSUME m # n, Before(hi[m], lo[n])
               PROVE  FALSE
  BY DEF Spanned, Ordered, Apart
<1>2. PICK x, y : x = heap[m].keys[i] /\ y = heap[n].keys[j]
  OBVIOUS
<1>3. x \in Nat /\ y \in Nat
  BY <1>2, KeyNat DEF LeafOK
<1>4. lo[n] <= y /\ Below(x, hi[m]) /\ lo[n] \in Nat /\ hi[m] \in Bound
  BY <1>2 DEF LeafOK, InSpan
<1>5. x > y
  BY <1>2
<1>. QED BY ONLY <1>1, <1>3, <1>4, <1>5 DEF Before, Below, Bound, Inf

\* The chain of links visits the leaves in ascending key order: split and merge
\* keep it, whatever they do to the tree above.
THEOREM LeavesChained == Spec => []LeafChain
<1>1. ASSUME OrdInv PROVE LeafChain
  <2> SUFFICES ASSUME Quiet, NEW n \in Leaves
               PROVE  LET ks == heap[n].keys
                          above == {e \in Entries : heap[e[1]].keys[e[2]] > ks[Len(ks)]}
                      IN  /\ \A i \in 1..(Len(ks) - 1) : ks[i] < ks[i + 1]
                          /\ IF above = {} THEN heap[n].link = NULL
                             ELSE \E e \in above :
                                     /\ e = <<heap[n].link, 1>>
                                     /\ \A f \in above : heap[e[1]].keys[1] <= heap[f[1]].keys[f[2]]
    BY DEF LeafChain
  <2> DEFINE ks == heap[n].keys
             above == {e \in Entries : heap[e[1]].keys[e[2]] > ks[Len(ks)]}
             r == heap[n].link
  <2>1. PICK T, lo, hi : Spanned(T, lo, hi)
    BY <1>1, AtRest DEF Quiet
  <2>2. \A m : m \in Leaves <=> m \in T /\ heap[m].is_leaf
    BY <2>1 DEF Leaves, Spanned
  <2>3. \A m \in Leaves : LeafOK(m, lo, hi)
    BY <1>1, <2>1, <2>2, LeavesOK
  <2>4. /\ ks \in Seq(Key) /\ Len(ks) \in 1..(Order - 1) /\ Ascending(ks)
        /\ \A i \in 1..Len(ks) : Below(ks[i], hi[n]) /\ ks[i] \in Nat
    BY <2>3, KeyNat DEF LeafOK, InSpan
  <2>5. \A i \in 1..(Len(ks) - 1) : ks[i] < ks[i + 1]
    BY <2>4 DEF Ascending
  <2>6. ASSUME NEW f \in above
        PROVE  /\ f[1] \in Leaves /\ f[1] # n /\ f[2] \in 1..Len(heap[f[1]].keys)
               /\ Before(hi[n], lo[f[1]])
    <3>1. f[1] \in Leaves /\ f[2] \in 1..Order /\ f[2] <= Len(heap[f[1]].keys)
      BY DEF Entries
    <3>2. f[2] \in 1..Len(heap[f[1]].keys) /\ heap[f[1]].keys[f[2]] > ks[Len(ks)]
      BY <2>3, <3>1 DEF LeafOK
    <3>3. f[1] # n
      <4>1. \A i \in 1..Len(ks) : i < Len(ks) => ks[i] < ks[Len(ks)]
        BY <2>4 DEF Ascending
      <4>2. \A i \in 1..Len(ks) : ~(ks[i] > ks[Len(ks)])
        BY <2>4, <4>1
      <4>. QED BY <3>2, <4>2
    <3>4. f[1] = n \/ Before(hi[n], lo[f[1]])
      BY SMTT(20), <2>1, <2>2, <2>3, <2>4, <3>1, <3>2, LeafAbove
    <3>. QED BY <3>1, <3>2, <3>3, <3>4
  <2>7. IF r = NULL THEN hi[n] = Inf ELSE r \in Leaves /\ hi[n] = lo[r]
    BY <2>1, <2>2 DEF Spanned, Ordered, Chained
  <2>8. CASE r = NULL
    BY <2>5, <2>6, <2>7, <2>8 DEF Before
  <2>9. CASE r # NULL
    <3>1. r \in Leaves /\ hi[n] = lo[r] /\ LeafOK(r, lo, hi)
      BY <2>3, <2>7, <2>9
    <3>2. PICK rs \in Seq(Key) : rs = heap[r].keys /\ Len(rs) \in 1..(Order - 1)
      BY <3>1 DEF LeafOK
    <3>3. /\ rs[1] \in Nat /\ lo[r] <= rs[1] /\ Below(rs[1], hi[r]) /\ Below(lo[r], hi[r]) /\ Ascending(rs)
          /\ lo[r] \in Nat /\ hi[r] \in Bound
      BY <3>1, <3>2, KeyNat DEF LeafOK, InSpan
    <3>4. Below(ks[Len(ks)], hi[n]) /\ ks[Len(ks)] \in Nat
      BY <2>4
    <3>5. rs[1] > ks[Len(ks)]
      BY <3>1, <3>3, <3>4 DEF Below, Inf
    <3>6. <<r, 1>> \in above
      <4>1. <<r, 1>> \in Entries
        BY <3>1, <3>2, OrderAssumption DEF Entries
      <4>. QED BY <3>2, <3>5, <4>1
    <3>7. ASSUME NEW f \in above
          PROVE  rs[1] <= heap[f[1]].keys[f[2]]
      <4>1. PICK m, j : m = f[1] /\ j = f[2]
        OBVIOUS
      <4>2. m \in Leaves /\ j \in 1..Len(heap[m].keys) /\ Before(hi[n], lo[m])
        BY <2>6, <4>1
      <4>3. CASE m = r
        <5>1. j \in 1..Len(rs)
          BY <3>2, <4>2, <4>3
        <5>2. j = 1 \/ rs[1] < rs[j]
          BY <3>2, <3>3, <5>1 DEF Ascending
        <5>3. rs[j] \in Nat
          BY <5>1, KeyNat
        <5>. QED BY <3>2, <3>3, <4>1, <4>3, <5>2, <5>3
      <4>4. CASE m # r
        <5>1. Before(hi[m], lo[r]) \/ Before(hi[r], lo[m])
          BY <2>1, <2>2, <3>1, <4>2, <4>4 DEF Spanned, Ordered, Apart
        <5>2. LeafOK(m, lo, hi)
          BY <2>3, <4>2
        <5>3. /\ lo[m] \in Nat /\ hi[m] \in Bound /\ Below(lo[m], hi[m]) /\ lo[m] <= heap[m].keys[j]
              /\ heap[m].keys[j] \in Nat
          BY <4>2, <5>2, KeyNat DEF LeafOK, InSpan
        <5>. QED BY ONLY SMTT(20), <3>1, <3>3, <4>1, <4>2, <5>1, <5>3 DEF Before, Below, Bound, Inf
      <4>. QED BY <4>3, <4>4
    <3>. QED BY <2>5, <3>2, <3>6, <3>7
  <2>. QED BY <2>8, <2>9
<1>. QED BY <1>1, AlwaysInOrder, PTL

\* The entries of the tree, by node and index.
IsEntry(m, i) == m \in InTree /\ heap[m].is_leaf /\ i \in 1..Len(heap[m].keys)

\* Entries are those.
LEMMA EntriesAre ==
  ASSUME OrdInv
  PROVE  \A e : e \in Entries <=>
            \E m, i : IsEntry(m, i) /\ e = <<m, i>>
<1>1. SUFFICES ASSUME NEW e
               PROVE  e \in Entries <=>
                        \E m, i : IsEntry(m, i) /\ e = <<m, i>>
  OBVIOUS
<1>2. \A m \in InTree : Len(heap[m].keys) \in Nat /\ Len(heap[m].keys) <= Order - 1
  <2>1. \A m \in InTree : heap[m] \in NodeRec /\ ShapedNode(heap[m])
    BY DEF OrdInv, IndInv, TypeOK, Shaped, InTree, Live
  <2>. QED BY <2>1 DEF ShapedNode, NodeRec
<1>3. ASSUME e \in Entries
      PROVE  \E m, i : IsEntry(m, i) /\ e = <<m, i>>
  <2>1. PICK m \in Leaves, i \in 1..Order : e = <<m, i>> /\ i <= Len(heap[m].keys)
    BY <1>3 DEF Entries
  <2>2. m \in InTree /\ heap[m].is_leaf /\ Len(heap[m].keys) \in Nat
    BY <1>2 DEF Leaves
  <2>3. i \in 1..Len(heap[m].keys)
    BY <2>1, <2>2
  <2>. QED BY <2>1, <2>2, <2>3 DEF IsEntry
<1>4. ASSUME NEW m, NEW i, IsEntry(m, i), e = <<m, i>>
      PROVE  e \in Entries
  <2>1. i \in 1..Order /\ i <= Len(heap[m].keys)
    BY <1>2, <1>4, OrderAssumption DEF IsEntry
  <2>. QED BY <1>4, <2>1 DEF Entries, Leaves, IsEntry
<1>. QED BY <1>3, <1>4

\* The keys of the entries are those stored in the leaves.
LEMMA EntryKeys ==
  ASSUME OrdInv, NEW k
  PROVE  Stored(heap, InTree, k) <=> k \in {heap[e[1]].keys[e[2]] : e \in Entries}
<1>1. \A m \in InTree : heap[m].keys \in Seq(Key)
  BY DEF OrdInv, IndInv, TypeOK, InTree, Live, NodeRec
<1>2. ASSUME Stored(heap, InTree, k)
      PROVE  k \in {heap[e[1]].keys[e[2]] : e \in Entries}
  <2>1. PICK m \in InTree : heap[m].is_leaf /\ k \in Range(heap[m].keys)
    BY <1>2 DEF Stored
  <2>2. PICK i \in 1..Len(heap[m].keys) : k = heap[m].keys[i]
    BY <1>1, <2>1 DEF Range
  <2>3. <<m, i>> \in Entries
    BY <2>1, EntriesAre DEF IsEntry
  <2>. QED BY <2>2, <2>3
<1>3. ASSUME NEW e \in Entries, k = heap[e[1]].keys[e[2]]
      PROVE  Stored(heap, InTree, k)
  <2>1. PICK m, i : IsEntry(m, i) /\ e = <<m, i>>
    BY EntriesAre
  <2>2. k \in Range(heap[m].keys)
    BY <1>1, <1>3, <2>1 DEF Range, IsEntry
  <2>. QED BY <2>1, <2>2 DEF Stored, IsEntry
<1>. QED BY <1>2, <1>3

\* find_range returns keys of the range in ascending order, all of them or none:
\* what it has collected when it leaves a leaf is what the leaves before hold.
THEOREM RangeIsSound == Spec => []RangeSound
<1>1. ASSUME OrdInv PROVE RangeSound
  <2> SUFFICES ASSUME call.pc = "ranged"
               PROVE  /\ \A i \in 1..(Len(rng) - 1) : rng[i] < rng[i + 1]
                      /\ Range(rng) \in {{}, KeysBetween(call.key, call.hi)}
    BY DEF RangeSound
  <2>1. PICK s \in Seq(Key), k \in Key, e \in Key :
           /\ s = rng /\ k = call.key /\ e = call.hi /\ Ascending(s)
           /\ \/ s = <<>>
              \/ \A x \in Key : x \in Range(s) <=> Stored(heap, InTree, x) /\ k <= x /\ x <= e
    <3>1. PICK lo, hi : Searches(lo, hi)
      BY <1>1, AtRest
    <3>2. rng \in Seq(Key)
      BY <1>1 DEF OrdInv, IndInv, TypeOK
    <3>. QED BY <3>1, <3>2 DEF Searches
  <2>2. \A i \in 1..(Len(s) - 1) : s[i] < s[i + 1]
    BY <2>1 DEF Ascending
  <2>3. CASE s = <<>>
    <3>1. Range(s) = {}
      BY <2>3 DEF Range
    <3>. QED BY <2>1, <2>2, <3>1
  <2>4. CASE \A x \in Key : x \in Range(s) <=> Stored(heap, InTree, x) /\ k <= x /\ x <= e
    <3>1. Range(s) \subseteq Key
      BY KeysInRange
    <3>2. KeysBetween(k, e) \subseteq Key
      BY DEF KeysBetween
    <3>3. \A x \in Key : Stored(heap, InTree, x) <=> x \in {heap[f[1]].keys[f[2]] : f \in Entries}
      BY <1>1, EntryKeys
    <3>4. \A x \in Key : x \in KeysBetween(k, e) <=> Stored(heap, InTree, x) /\ k <= x /\ x <= e
      BY <3>3 DEF KeysBetween
    <3>5. Range(s) = KeysBetween(k, e)
      BY ONLY <2>4, <3>1, <3>2, <3>4
    <3>. QED BY <2>1, <2>2, <3>5
  <2>. QED BY <2>1, <2>3, <2>4
<1>. QED BY <1>1, AlwaysInOrder, PTL

-----------------------------------------------------------------------------
(***************************************************************************)
(* The tree implements a dictionary: the entries of the leaves are those   *)
(* of a function, and every step maps to a step of OrderedMap or to none.  *)
(***************************************************************************)
\* d is the dictionary that the leaves of T hold.
Depicts(d, h, T) ==
    /\ d \in [Key -> Val \cup {NULL}]
    /\ \A k \in Key, v \in Val : d[k] = v <=> Has(h, T, k, v)

\* A key has one place at most.
LEMMA OnePlace ==
  ASSUME OrdInv, NEW m, NEW i, IsEntry(m, i), NEW n, NEW j, IsEntry(n, j),
         heap[m].keys[i] = heap[n].keys[j]
  PROVE  m = n /\ i = j
<1>1. PICK lo, hi :
         /\ lo \in [Node -> Nat] /\ hi \in [Node -> Bound]
         /\ Spans(heap, InTree, lo, hi) /\ Apart(heap, InTree, lo, hi)
  BY DEF OrdInv, InOrder, OrderOK, Ordered
<1>2. /\ heap \in [Node -> NodeRec] /\ InTree \in SUBSET Node
      /\ m \in InTree /\ n \in InTree /\ heap[m].is_leaf /\ heap[n].is_leaf
      /\ i \in 1..Len(heap[m].keys) /\ j \in 1..Len(heap[n].keys)
  BY DEF IsEntry, OrdInv, IndInv, TypeOK, InTree, Live
<1>3. heap[m] \in NodeRec /\ heap[n] \in NodeRec
  BY <1>2
<1>4. PICK ks \in Seq(Key), us \in Seq(Key) : ks = heap[m].keys /\ us = heap[n].keys
  BY <1>3 DEF NodeRec
<1>5. ks[i] \in Nat
  BY <1>2, <1>4, KeyNat
<1>6. m = n
  <2>1. lo[m] <= ks[i] /\ Below(ks[i], hi[m])
    BY <1>1, <1>2, <1>4 DEF Spans, InSpan
  <2>2. Only(heap, InTree, m, ks[i])
    BY <1>1, <1>2, <1>5, <2>1, NotElsewhere
  <2>3. Holds(heap[n].keys, heap[n].recs, ks[i], heap[n].recs[j])
    BY <1>2, <1>4 DEF Holds
  <2>. QED BY <1>2, <2>2, <2>3 DEF Only
<1>7. i = j
  <2>1. Ascending(ks)
    BY <1>1, <1>2, <1>4 DEF Spans, InSpan
  <2>2. i \in 1..Len(ks) /\ j \in 1..Len(ks) /\ ks[i] = ks[j]
    BY <1>2, <1>4, <1>6
  <2>3. i < j \/ j < i \/ i = j
    BY <2>2
  <2>. QED BY <1>5, <2>1, <2>2, <2>3 DEF Ascending
<1>. QED BY <1>6, <1>7

\* Dict is what the leaves hold.
LEMMA DictIs == OrdInv => Depicts(Dict, heap, InTree)
<1> SUFFICES ASSUME OrdInv PROVE Depicts(Dict, heap, InTree)
  OBVIOUS
<1>1. ASSUME NEW m, NEW i, IsEntry(m, i)
      PROVE  heap[m].recs[i] \in Val
  <2>1. heap[m] \in NodeRec /\ ShapedNode(heap[m]) /\ heap[m].is_leaf
    BY <1>1 DEF IsEntry, OrdInv, IndInv, TypeOK, Shaped, InTree, Live
  <2>2. PICK rs \in Seq(Val) : rs = heap[m].recs
    BY <2>1 DEF NodeRec
  <2>3. i \in 1..Len(rs)
    BY <1>1, <2>1, <2>2 DEF IsEntry, ShapedNode
  <2>. QED BY <2>2, <2>3
<1>2. ASSUME NEW k, NEW v
      PROVE  Has(heap, InTree, k, v) <=> \E m, i : IsEntry(m, i) /\ heap[m].keys[i] = k /\ heap[m].recs[i] = v
  BY DEF Has, Holds, IsEntry
<1>3. ASSUME NEW k \in Key
      PROVE  Dict[k] \in Val \cup {NULL} /\ \A v \in Val : Dict[k] = v <=> Has(heap, InTree, k, v)
  <2>1. \A e : e \in EntriesOf(k) <=> \E m, i : e = <<m, i>> /\ IsEntry(m, i) /\ heap[m].keys[i] = k
    BY EntriesAre DEF EntriesOf
  <2>2. CASE EntriesOf(k) = {}
    <3>1. Dict[k] = NULL
      BY <2>2 DEF Dict
    <3>2. ASSUME NEW v, Has(heap, InTree, k, v) PROVE FALSE
      <4>1. PICK m, i : IsEntry(m, i) /\ heap[m].keys[i] = k
        BY <1>2, <3>2
      <4>2. <<m, i>> \in EntriesOf(k)
        BY <2>1, <4>1
      <4>. QED BY <2>2, <4>2
    <3>. QED BY <3>1, <3>2, NullAssumption
  <2>3. CASE EntriesOf(k) # {}
    <3>1. PICK e \in EntriesOf(k) : Dict[k] = heap[e[1]].recs[e[2]]
      BY <2>3 DEF Dict
    <3>2. PICK m, i : e = <<m, i>> /\ IsEntry(m, i) /\ heap[m].keys[i] = k
      BY ONLY <2>1, e \in EntriesOf(k)
    <3>3. Dict[k] = heap[m].recs[i] /\ heap[m].recs[i] \in Val
      BY <1>1, <3>1, <3>2
    <3>4. ASSUME NEW v \in Val, Has(heap, InTree, k, v)
          PROVE  v = heap[m].recs[i]
      <4>1. PICK n, j : IsEntry(n, j) /\ heap[n].keys[j] = k /\ heap[n].recs[j] = v
        BY <1>2, <3>4
      <4>2. n = m /\ j = i
        BY <3>2, <4>1, OnePlace
      <4>. QED BY <4>1, <4>2
    <3>5. Has(heap, InTree, k, heap[m].recs[i])
      BY <1>2, <3>2
    <3>. QED BY <3>3, <3>4, <3>5
  <2>. QED BY <2>2, <2>3
<1>4. Dict = [k \in Key |-> Dict[k]]
  BY DEF Dict
<1>. QED BY <1>3, <1>4 DEF Depicts

\* It is so after a step too.
LEMMA DictNext == OrdInv' => Depicts(Dict, heap, InTree)'
BY DictIs, PTL

\* The same entries are the same dictionary,
LEMMA SameDict ==
  ASSUME NEW d, NEW h, NEW T, Depicts(d, h, T), NEW e, NEW g, NEW S, Depicts(e, g, S), SameEntries(h, T, g, S)
  PROVE  e = d
<1>1. ASSUME NEW k \in Key
      PROVE  e[k] = d[k]
  BY DEF Depicts, SameEntries
<1>. QED BY <1>1 DEF Depicts

\* one record more is one assignment,
LEMMA PutDict ==
  ASSUME NEW d, NEW h, NEW T, Depicts(d, h, T), NEW e, NEW g, NEW S, Depicts(e, g, S),
         NEW x \in Key, NEW y \in Val, Puts(h, T, g, S, x, y)
  PROVE  e = [d EXCEPT ![x] = y]
<1>1. ASSUME NEW k \in Key
      PROVE  e[k] = IF k = x THEN y ELSE d[k]
  BY DEF Depicts, Puts
<1>. QED BY <1>1 DEF Depicts

\* and one key less is one assignment of NULL.
LEMMA DropDict ==
  ASSUME NEW d, NEW h, NEW T, Depicts(d, h, T), NEW e, NEW g, NEW S, Depicts(e, g, S),
         NEW x \in Key, Drops(h, T, g, S, x)
  PROVE  e = [d EXCEPT ![x] = NULL]
<1>1. ASSUME NEW k \in Key
      PROVE  e[k] = IF k = x THEN NULL ELSE d[k]
  BY NullAssumption DEF Depicts, Drops
<1>. QED BY <1>1 DEF Depicts

\* The answer of find is the record of the key.
LEMMA FindAnswers ==
  ASSUME OrdInv, find
  PROVE  ret' = Dict[call.key]
<1>1. call.pc = "find" /\ call.key \in Key
  <2>1. call.pc = "find"
    BY DEF find, NoTree, AtLeaf
  <2>. QED BY <2>1, Searched DEF Searching
<1>2. Dict[call.key] \in Val \cup {NULL} /\ \A v \in Val : Dict[call.key] = v <=> Has(heap, InTree, call.key, v)
  BY <1>1, DictIs DEF Depicts
<1>3. CASE ret' = NULL /\ (NoTree("find") \/ (AtLeaf("find") /\ ~Present(call.key)))
  <2>1. \A v \in Val : ~Has(heap, InTree, call.key, v)
    BY <1>3, NoRecord DEF Searching
  <2>. QED BY <1>2, <1>3, <2>1
<1>4. CASE /\ AtLeaf("find")
           /\ \E i \in 1..Len(heap[call.node].keys) :
                 /\ FirstIndex(heap[call.node].keys, call.key, i)
                 /\ ret' = heap[call.node].recs[i]
  <2>1. PICK i \in 1..Len(heap[call.node].keys) :
           heap[call.node].keys[i] = call.key /\ ret' = heap[call.node].recs[i]
    BY <1>4 DEF FirstIndex
  <2>2. PICK T, lo, hi, n : LeafFacts(T, lo, hi, n, "find")
    BY <1>4, LeafKnown DEF Searching
  <2>3. n = call.node /\ n \in InTree /\ heap[n].is_leaf /\ heap[n] \in NodeRec /\ ShapedNode(heap[n])
    BY <2>2 DEF LeafFacts, Spanned
  <2>4. Has(heap, InTree, call.key, ret')
    BY <2>1, <2>3 DEF Has, Holds
  <2>5. ret' \in Val
    BY <2>1, <2>3 DEF ShapedNode, NodeRec
  <2>. QED BY <1>2, <2>4, <2>5
<1>. QED BY <1>3, <1>4 DEF find

\* An operation that has come to its leaf is performed there.
LEMMA Outstanding ==
  ASSUME OrdInv, call.pc \in {"insert", "delete", "find"}
  PROVE  /\ Req = <<call.pc, call.key, call.val>> /\ Req # NULL
         /\ call.key \in Key /\ ret = Void /\ (call.pc = "insert" => call.val \in Val)
<1>1. Req = <<call.pc, call.key, call.val>>
  BY DEF Req, Searching
<1>2. call.key \in Key /\ ret = Void /\ (call.pc = "insert" => call.val \in Val) /\ call \in CallRec
  BY Searched DEF Searching, OrdInv, IndInv, CallOK, TypeOK
<1>3. call.val \in Val \cup {NULL}
  BY <1>2 DEF CallRec
<1>4. <<call.pc, call.key, call.val>> \in Searching \X Key \X (Val \cup {NULL})
  BY <1>2, <1>3 DEF Searching
<1>. QED BY <1>1, <1>2, <1>4, RequestAssumption

\* Nothing is outstanding once the search has ended.
LEMMA NothingOutstanding ==
  /\ call.pc \notin Searching => Req = NULL
  /\ call.pc = "range" => Req = NULL
BY DEF Req

\* Nor after the step that ends it.
LEMMA Performed == call'.pc \notin Searching => Req' = NULL
BY DEF Req

\* The client's calls.
LEMMA ClientMaps ==
  ASSUME OrdInv, Client, Dict' = Dict
  PROVE  Map!Call \/ Map!Forget
<1>1. call.pc = "idle" /\ ret' = Void
  BY DEF Client, Begin
<1>2. Req = NULL
  BY <1>1, NothingOutstanding DEF Searching
<1>3. ASSUME NEW op \in {"insert", "delete", "find", "range"}, NEW k \in Key, NEW v, NEW hi, Begin(op, k, v, hi)
      PROVE  call'.pc = op /\ call'.key = k /\ call'.val = v
  BY <1>3 DEF Begin, Idle
<1>4. CASE \E k \in Key, v \in Val : Begin("insert", k, v, NULL)
  <2>1. PICK k \in Key, v \in Val : Begin("insert", k, v, NULL)
    BY <1>4
  <2>2. Req' = <<"insert", k, v>>
    BY <1>3, <2>1 DEF Req, Searching
  <2>. QED BY <1>1, <1>2, <2>2 DEF Map!Call, Map!Requests
<1>5. CASE \E k \in Key, op \in {"delete", "find"} : Begin(op, k, NULL, NULL)
  <2>1. PICK k \in Key, op \in {"delete", "find"} : Begin(op, k, NULL, NULL)
    BY <1>5
  <2>2. Req' = <<op, k, NULL>>
    BY <1>3, <2>1 DEF Req, Searching
  <2>. QED BY <1>1, <1>2, <2>2 DEF Map!Call, Map!Requests
<1>6. CASE \E k \in Key, hi \in Key : Begin("range", k, NULL, hi)
  <2>1. Req' = NULL
    BY <1>3, <1>6 DEF Req
  <2>. QED BY <1>1, <1>2, <2>1 DEF Map!Forget
<1>. QED BY <1>4, <1>5, <1>6 DEF Client

\* Every step performs the outstanding operation, makes a call or changes
\* nothing the client can see.
LEMMA StepMaps ==
  ASSUME OrdInv, [Next]_vars
  PROVE  [Map!Next]_(Map!vars)
<1>1. /\ Depicts(Dict, heap, InTree) /\ Depicts(Dict', heap', InTree')
  BY DictIs, DictNext, OrdNext DEF Depicts
<1>2. CASE Client
  <2>1. Dict' = Dict
    BY <1>1, <1>2, MovesOrder, SameDict
  <2>. QED BY <1>2, <2>1, ClientMaps DEF Map!Next
<1>3. CASE find_leaf
  <2>1. Dict' = Dict
    BY <1>1, <1>3, MovesOrder, SameDict
  <2>2. call \in CallRec
    BY DEF OrdInv, IndInv, TypeOK
  <2>3. Req' = Req /\ ret' = ret
    BY <1>3, <2>2 DEF find_leaf, CallRec, Req
  <2>. QED BY <2>1, <2>3 DEF Map!vars
<1>4. CASE find
  <2>1. Dict' = Dict
    BY <1>1, <1>4, MovesOrder, SameDict
  <2>2. call.pc = "find" /\ call' = Idle
    BY <1>4 DEF find, NoTree, AtLeaf
  <2>3. Req' = NULL
    BY <2>2, Performed DEF Idle, Searching
  <2>4. Req = <<"find", call.key, call.val>> /\ Req # NULL
    BY <2>2, Outstanding
  <2>5. ret' = Dict[call.key]
    BY <1>4, FindAnswers
  <2>. QED BY <2>1, <2>3, <2>4, <2>5 DEF Map!Next, Map!Perform
<1>5. CASE ~find_leaf /\ (insert_update \/ start_new_tree \/ insert_into_leaf \/ insert_into_leaf_after_splitting)
  <2>1. call.pc = "insert" /\ ret' = ret
    BY <1>5 DEF insert_update, start_new_tree, insert_into_leaf, insert_into_leaf_after_splitting, AtLeaf, NoTree
  <2>2. Step
    BY <1>5, Zenon DEF Step
  <2>3. Req' = NULL
    BY <1>5, <2>2, SearchEnds, Performed
  <2>4. Req = <<"insert", call.key, call.val>> /\ Req # NULL /\ call.key \in Key /\ call.val \in Val /\ ret = Void
    BY <2>1, Outstanding
  <2>5. Dict' = [Dict EXCEPT ![call.key] = call.val]
    BY <1>1, <1>5, <2>4, PutsOrder, PutDict
  <2>. QED BY <2>1, <2>3, <2>4, <2>5 DEF Map!Next, Map!Perform
<1>6. CASE ~find_leaf /\ delete
  <2>1. call.pc = "delete" /\ ret' = ret
    BY <1>6 DEF delete, AtLeaf, NoTree
  <2>2. Step
    BY <1>6, Zenon DEF Step
  <2>3. Req' = NULL
    BY <1>6, <2>2, SearchEnds, Performed
  <2>4. Req = <<"delete", call.key, call.val>> /\ Req # NULL /\ call.key \in Key /\ ret = Void
    BY <2>1, Outstanding
  <2>5. Dict' = [Dict EXCEPT ![call.key] = NULL]
    BY <1>1, <1>6, <2>4, DeleteOrder, DropDict
  <2>. QED BY <2>1, <2>3, <2>4, <2>5 DEF Map!Next, Map!Perform
<1>7. CASE /\ ~find_leaf
           /\ \/ find_range \/ find_range_scan \/ find_range_return
              \/ insert_into_new_root \/ insert_into_node \/ insert_into_node_after_splitting
              \/ delete_entry_in_parent \/ delete_return
  <2>1. Dict' = Dict
    BY <1>1, <1>7, MovesOrder, SameDict
  <2>2. call.pc \notin Searching \/ call.pc = "range"
    BY <1>7 DEF find_range, find_range_scan, find_range_return, insert_into_new_root, insert_into_node,
                insert_into_node_after_splitting, delete_entry_in_parent, delete_return, AtLeaf, NoTree, Searching
  <2>3. ret' = ret
    BY <1>7 DEF find_range, find_range_scan, find_range_return, insert_into_new_root, insert_into_node,
                insert_into_node_after_splitting, delete_entry_in_parent, delete_return
  <2>4. Req = NULL
    BY <2>2, NothingOutstanding
  <2>5. Step
    BY <1>7, Zenon DEF Step
  <2>6. Req' = NULL
    BY <1>7, <2>5, SearchEnds, Performed
  <2>. QED BY <2>1, <2>3, <2>4, <2>6 DEF Map!vars
<1>8. CASE UNCHANGED vars
  <2>1. Dict' = Dict /\ Req' = Req /\ ret' = ret
    BY <1>8 DEF vars, Dict, EntriesOf, Entries, Leaves, InTree, Live, Req
  <2>. QED BY <2>1 DEF Map!vars
<1>. QED BY <1>2, <1>3, <1>4, <1>5, <1>6, <1>7, <1>8, Zenon DEF Next, Step

\* find answers with the record of the key, insert and delete change exactly the
\* entry of their key: the tree implements the dictionary.
THEOREM TreeIsMap == Spec => ImplementsMap
<1>1. Init => Map!Init
  <2> SUFFICES ASSUME Init PROVE Map!Init
    OBVIOUS
  <2>1. \A k : EntriesOf(k) = {}
    BY DEF Init, EntriesOf, Entries, Leaves, InTree, Live
  <2>2. Dict = [k \in Key |-> NULL]
    BY <2>1 DEF Dict
  <2>3. Req = NULL
    BY DEF Init, Idle, Req, Searching
  <2>. QED BY <2>2, <2>3 DEF Map!Init, Init
<1>2. OrdInv /\ [Next]_vars => [Map!Next]_(Map!vars)
  BY StepMaps
<1>. QED BY <1>1, <1>2, AlwaysInOrder, PTL DEF Spec, ImplementsMap, Map!Spec

-----------------------------------------------------------------------------
(***************************************************************************)
(* Records.                                                                *)
(***************************************************************************)
\* A key is stored when the leaves hold a record for it.
LEMMA StoredHas ==
  ASSUME NEW h \in [Node -> NodeRec], NEW T \in SUBSET Node, Shaped(h, T), NEW k
  PROVE  Stored(h, T, k) <=> \E v : Has(h, T, k, v)
<1>1. ASSUME NEW n \in T
      PROVE  k \in Range(h[n].keys) <=> \E v : Holds(h[n].keys, h[n].recs, k, v)
  <2>1. PICK ks \in Seq(Key) : ks = h[n].keys
    BY DEF NodeRec
  <2>2. k \in Range(ks) <=> \E i \in 1..Len(ks) : ks[i] = k
    BY DEF Range
  <2>. QED BY <2>1, <2>2 DEF Holds
<1>. QED BY <1>1 DEF Stored, Has

\* What a step does to the entries it does to the keys that are stored.
LEMMA KeysMove ==
  ASSUME NEW h \in [Node -> NodeRec], NEW T \in SUBSET Node, Shaped(h, T),
         NEW g \in [Node -> NodeRec], NEW S \in SUBSET Node, Shaped(g, S)
  PROVE  /\ SameEntries(h, T, g, S) => StoredKeys(g, S) = StoredKeys(h, T)
         /\ \A v : \A k \in Key : Puts(h, T, g, S, k, v) => StoredKeys(g, S) = StoredKeys(h, T) \cup {k}
         /\ \A k \in Key : Drops(h, T, g, S, k) => StoredKeys(g, S) = StoredKeys(h, T) \ {k}
<1>1. \A k : Stored(h, T, k) <=> \E v : Has(h, T, k, v)
  BY StoredHas
<1>2. \A k : Stored(g, S, k) <=> \E v : Has(g, S, k, v)
  BY StoredHas
<1>3. SameEntries(h, T, g, S) => StoredKeys(g, S) = StoredKeys(h, T)
  BY <1>1, <1>2 DEF SameEntries, StoredKeys
<1>4. ASSUME NEW k \in Key, NEW v, Puts(h, T, g, S, k, v)
      PROVE  StoredKeys(g, S) = StoredKeys(h, T) \cup {k}
  <2>1. ASSUME NEW x \in Key PROVE Stored(g, S, x) <=> x = k \/ Stored(h, T, x)
    BY <1>1, <1>2, <1>4 DEF Puts
  <2>. QED BY <2>1 DEF StoredKeys
<1>5. ASSUME NEW k \in Key, Drops(h, T, g, S, k)
      PROVE  StoredKeys(g, S) = StoredKeys(h, T) \ {k}
  <2>1. ASSUME NEW x \in Key PROVE Stored(g, S, x) <=> x # k /\ Stored(h, T, x)
    BY <1>1, <1>2, <1>5 DEF Drops
  <2>. QED BY <2>1 DEF StoredKeys
<1>. QED BY <1>3, <1>4, <1>5

\* The tree that a step of the invariant starts from.
LEMMA TreeTyped ==
  ASSUME OrdInv
  PROVE  heap \in [Node -> NodeRec] /\ InTree \in SUBSET Node /\ Shaped(heap, InTree) /\ nrec \in Int
BY DEF OrdInv, IndInv, TypeOK, InTree, Live

\* The same for a step of the tree.
LEMMA KeysOfStep ==
  ASSUME OrdInv, OrdInv'
  PROVE  LET S == StoredKeys(heap, InTree)
         IN  /\ SameEntries(heap, InTree, heap', InTree') => S' = S
             /\ \A v : \A k \in Key : Puts(heap, InTree, heap', InTree', k, v) => S' = S \cup {k}
             /\ \A k \in Key : Drops(heap, InTree, heap', InTree', k) => S' = S \ {k}
<1>1. heap \in [Node -> NodeRec] /\ InTree \in SUBSET Node /\ Shaped(heap, InTree)
  BY TreeTyped
<1>2. heap' \in [Node -> NodeRec] /\ InTree' \in SUBSET Node /\ Shaped(heap', InTree')
  BY DEF OrdInv, IndInv, TypeOK, InTree, Live
<1>3. StoredKeys(heap, InTree)' = StoredKeys(heap', InTree')
  BY DEF StoredKeys, Stored
<1>. QED BY ONLY <1>1, <1>2, <1>3, KeysMove

\* delete_entry is followed by a return or by the next delete_entry.
LEMMA DeleteEntryOwes ==
  ASSUME NEW n, NEW ki, NEW pi, delete_entry(n, ki, pi)
  PROVE  Owed' = 1
<1>1. call' = Returning \/ call'.pc = "delete_entry"
  <2>1. PICK h : h = remove_entry_from_node(n, ki, pi)
    OBVIOUS
  <2>2. ASSUME adjust_root(h) PROVE call' = Returning
    BY <2>2 DEF adjust_root
  <2>3. ASSUME NEW i, Rebalance(h, n, i) PROVE call' = Returning \/ call'.pc = "delete_entry"
    BY <2>3 DEF Rebalance, coalesce_nodes, redistribute_nodes, Idle
  <2>. QED BY <2>1, <2>2, <2>3 DEF delete_entry
<1>. QED BY <1>1 DEF Returning, Idle, Owed

\* While a record is owed the deletion runs.
Owing(c) == IF c.pc \in {"delete_entry", "return"} THEN 1 ELSE 0

\* The records on their way, of this state and of the next.
LEMMA OwedIs == Owed = Owing(call) /\ Owed' = Owing(call')
BY DEF Owed, Owing

\* The steps of a call, or of the client, that neither take nor return a record.
LEMMA MovesOwe ==
  ASSUME OrdInv, \/ Client \/ find_leaf \/ find \/ find_range \/ find_range_scan \/ find_range_return
                 \/ insert_into_new_root \/ insert_into_node \/ insert_into_node_after_splitting
  PROVE  nrec' = nrec /\ Owed' = Owed
<1> USE OwedIs DEF Owing, Idle
<1>0. call \in CallRec
  BY DEF OrdInv, IndInv, TypeOK
<1>1. CASE Client
  <2>0. PICK op \in Searching, k \in Key : \E v, e : Begin(op, k, v, e)
    BY <1>1 DEF Client, Searching
  <2>1. PICK v, e : Begin(op, k, v, e)
    BY <2>0
  <2>2. call.pc = "idle" /\ call'.pc = op /\ nrec' = nrec
    BY <2>1 DEF Begin
  <2>. QED BY <2>2 DEF Searching
<1>2. CASE find_leaf
  <2>1. call.pc \in Searching /\ call'.pc = call.pc /\ nrec' = nrec
    BY <1>0, <1>2 DEF find_leaf, CallRec
  <2>. QED BY <2>1 DEF Searching
<1>3. CASE find
  BY <1>3 DEF find, NoTree, AtLeaf
<1>4. CASE find_range
  <2>1. call.pc = "range" /\ call'.pc \in {"ranged", "scan"} /\ nrec' = nrec
    BY <1>0, <1>4 DEF find_range, NoTree, AtLeaf, CallRec
  <2>. QED BY <2>1
<1>5. CASE find_range_scan
  <2>1. call.pc = "scan" /\ call'.pc \in {"ranged", "scan"} /\ nrec' = nrec
    BY <1>0, <1>5 DEF find_range_scan, CallRec
  <2>. QED BY <2>1
<1>6. CASE find_range_return
  BY <1>6 DEF find_range_return
<1>7. CASE insert_into_new_root
  BY <1>7 DEF insert_into_new_root
<1>8. CASE insert_into_node
  BY <1>8 DEF insert_into_node
<1>9. CASE insert_into_node_after_splitting
  <2>1. call.pc = "insert_into_parent" /\ call'.pc = call.pc /\ nrec' = nrec
    BY <1>0, <1>9 DEF insert_into_node_after_splitting, CallRec
  <2>. QED BY <2>1
<1>. QED BY <1>1, <1>2, <1>3, <1>4, <1>5, <1>6, <1>7, <1>8, <1>9

\* delete_entry_in_parent still owes the record, delete_return pays.
LEMMA DeletesOwe ==
  ASSUME OrdInv, delete_entry_in_parent \/ delete_return
  PROVE  nrec' - Owed' = nrec - Owed
<1>1. nrec \in Int
  BY TreeTyped
<1>2. CASE delete_entry_in_parent
  <2>1. Owed = 1 /\ nrec' = nrec
    BY <1>2, OwedIs DEF delete_entry_in_parent, Owing
  <2>2. Owed' = 1
    BY <1>2, DeleteEntryOwes DEF delete_entry_in_parent
  <2>. QED BY <2>1, <2>2
<1>3. CASE delete_return
  <2>1. Owed = 1 /\ Owed' = 0 /\ nrec' = nrec - 1
    BY <1>3, OwedIs DEF delete_return, Owing, Idle
  <2>. QED BY <1>1, <2>1
<1>. QED BY <1>2, <1>3

\* The count after a step, from what it adds to the keys.
LEMMA CountedWhen ==
  ASSUME Counted, NEW x \in Int, nrec \in Int, nrec' - Owed' = nrec - Owed + x, nrec' \in Int,
         IsFiniteSet(StoredKeys(heap, InTree)'),
         Cardinality(StoredKeys(heap, InTree)') = Cardinality(StoredKeys(heap, InTree)) + x
  PROVE  Counted'
<1>1. Owed \in Int /\ Owed' \in Int
  BY OwedIs DEF Owing
<1>2. Cardinality(StoredKeys(heap, InTree)) \in Int
  BY FS_CardinalityType DEF Counted
<1>. QED BY <1>1, <1>2 DEF Counted

\* insert puts a key, and takes a record unless the key is there.
LEMMA PutsCounted ==
  ASSUME OrdInv, OrdInv', Counted,
         insert_update \/ start_new_tree \/ insert_into_leaf \/ insert_into_leaf_after_splitting
  PROVE  Counted'
<1> DEFINE S == StoredKeys(heap, InTree)
<1>1. nrec \in Int /\ nrec' \in Int
  BY TreeTyped DEF OrdInv, IndInv, TypeOK
<1>2. IsFiniteSet(S) /\ Cardinality(S) \in Int
  BY FS_CardinalityType DEF Counted
<1>3. call.pc = "insert" /\ call'.pc \notin {"delete_entry", "return"} /\ call.key \in Key
  <2>1. CASE insert_update \/ start_new_tree \/ insert_into_leaf
    <3>1. call.pc = "insert"
      BY <2>1, Zenon DEF insert_update, start_new_tree, insert_into_leaf, AtLeaf, NoTree
    <3>2. call' = Idle
      BY <2>1, Zenon DEF insert_update, start_new_tree, insert_into_leaf
    <3>. QED BY <3>1, <3>2, Searched DEF Idle, Searching
  <2>2. CASE insert_into_leaf_after_splitting
    <3>1. call.pc = "insert" /\ call'.pc = "insert_into_parent"
      BY <2>2 DEF insert_into_leaf_after_splitting, AtLeaf, Idle
    <3>. QED BY <3>1, Searched DEF Searching
  <2>. QED BY <2>1, <2>2
<1>4. Owed = 0 /\ Owed' = 0
  BY <1>3, OwedIs DEF Owing
<1>5. S' = S \cup {call.key}
  <2>1. Puts(heap, InTree, heap', InTree', call.key, call.val)
    BY PutsOrder
  <2>. QED BY <1>3, <2>1, KeysOfStep
<1>6. IsFiniteSet(S') /\ Cardinality(S') = IF call.key \in S THEN Cardinality(S) ELSE Cardinality(S) + 1
  <2>1. /\ IsFiniteSet(S \cup {call.key})
        /\ Cardinality(S \cup {call.key}) = IF call.key \in S THEN Cardinality(S) ELSE Cardinality(S) + 1
    BY <1>2, FS_AddElement
  <2>. HIDE DEF S
  <2>. QED BY ONLY <1>5, <2>1, Zenon
<1>7. CASE insert_update
  <2>1. AtLeaf("insert") /\ \E i \in 1..Len(heap[call.node].keys) : heap[call.node].keys[i] = call.key
    BY <1>7 DEF insert_update, FirstIndex
  <2>2. call.node \in InTree
    BY <1>3, <2>1, Searched DEF AtLeaf, Searching
  <2>3. Has(heap, InTree, call.key, heap[call.node].recs[CHOOSE i \in 1..Len(heap[call.node].keys) : heap[call.node].keys[i] = call.key])
    BY <2>1, <2>2 DEF Has, Holds, AtLeaf
  <2>4. call.key \in S
    BY <1>3, <2>3, TreeTyped, StoredHas DEF StoredKeys
  <2>5. nrec' = nrec
    BY <1>7 DEF insert_update
  <2>. QED BY <1>1, <1>2, <1>4, <1>6, <2>4, <2>5, CountedWhen
<1>8. CASE start_new_tree \/ insert_into_leaf \/ insert_into_leaf_after_splitting
  <2>1. NoTree("insert") \/ (AtLeaf("insert") /\ ~Present(call.key))
    BY <1>8 DEF start_new_tree, insert_into_leaf, insert_into_leaf_after_splitting
  <2>2. \A v : ~Has(heap, InTree, call.key, v)
    BY <2>1, NoRecord DEF Searching
  <2>3. call.key \notin S
    BY <1>3, <2>2, TreeTyped, StoredHas DEF StoredKeys
  <2>4. nrec' = nrec + 1
    BY <1>8 DEF start_new_tree, insert_into_leaf, insert_into_leaf_after_splitting
  <2>. QED BY <1>1, <1>2, <1>4, <1>6, <2>3, <2>4, CountedWhen
<1>. QED BY <1>7, <1>8

\* The steps that leave the keys as they are.
LEMMA MovesCounted ==
  ASSUME OrdInv, OrdInv', Counted,
         \/ Client \/ find_leaf \/ find \/ find_range \/ find_range_scan \/ find_range_return
         \/ insert_into_new_root \/ insert_into_node \/ insert_into_node_after_splitting
         \/ delete_entry_in_parent \/ delete_return
  PROVE  Counted'
<1>1. nrec \in Int /\ nrec' \in Int
  BY TreeTyped DEF OrdInv, IndInv, TypeOK
<1>2. SameEntries(heap, InTree, heap', InTree')
  BY MovesOrder
<1>3. StoredKeys(heap, InTree)' = StoredKeys(heap, InTree)
  BY <1>2, KeysOfStep
<1>4. IsFiniteSet(StoredKeys(heap, InTree)) /\ Cardinality(StoredKeys(heap, InTree)) \in Int
  BY FS_CardinalityType DEF Counted
<1>5. nrec' - Owed' = nrec - Owed
  BY MovesOwe, DeletesOwe
<1>6. nrec - Owed \in Int
  BY <1>1, OwedIs DEF Owing
<1>. QED BY <1>1, <1>3, <1>4, <1>5, <1>6, CountedWhen

\* delete takes its key out and owes the record until delete_return; it finds
\* nothing to take out of an empty tree, or of a leaf without the key.
LEMMA DeleteCounted ==
  ASSUME OrdInv, OrdInv', Counted, delete
  PROVE  Counted'
<1> DEFINE S == StoredKeys(heap, InTree)
<1>1. nrec \in Int /\ nrec' = nrec
  BY TreeTyped DEF delete
<1>2. IsFiniteSet(S) /\ Cardinality(S) \in Int
  BY FS_CardinalityType DEF Counted
<1>3. call.pc = "delete"
  BY DEF delete, NoTree, AtLeaf
<1>4. call.key \in Key /\ call.node \in InTree \cup {NULL} /\ Owed = 0
  BY <1>3, Searched, OwedIs DEF Searching, Owing
<1>5. S' = S \ {call.key}
  <2>1. Drops(heap, InTree, heap', InTree', call.key)
    BY DeleteOrder
  <2>. QED BY <1>4, <2>1, KeysOfStep
<1>6. IsFiniteSet(S') /\ Cardinality(S') = IF call.key \in S THEN Cardinality(S) - 1 ELSE Cardinality(S)
  <2>1. /\ IsFiniteSet(S \ {call.key})
        /\ Cardinality(S \ {call.key}) = IF call.key \in S THEN Cardinality(S) - 1 ELSE Cardinality(S)
    BY <1>2, FS_RemoveElement
  <2>. HIDE DEF S
  <2>. QED BY ONLY <1>5, <2>1, Zenon
<1>7. CASE (NoTree("delete") \/ (AtLeaf("delete") /\ ~Present(call.key))) /\ call' = Idle
  <2>1. \A v : ~Has(heap, InTree, call.key, v)
    BY <1>7, NoRecord DEF Searching
  <2>2. call.key \notin S
    BY <1>4, <2>1, TreeTyped, StoredHas DEF StoredKeys
  <2>3. Owed' = 0
    BY <1>7, OwedIs DEF Owing, Idle
  <2>. QED BY <1>1, <1>2, <1>4, <1>6, <2>2, <2>3, CountedWhen
<1>8. CASE /\ AtLeaf("delete")
           /\ \E i \in 1..Len(heap[call.node].keys) :
                 /\ FirstIndex(heap[call.node].keys, call.key, i)
                 /\ delete_entry(call.node, i, i)
  <2>1. PICK i \in 1..Len(heap[call.node].keys) :
           heap[call.node].keys[i] = call.key /\ delete_entry(call.node, i, i)
    BY <1>8 DEF FirstIndex
  <2>2. Owed' = 1
    BY <2>1, DeleteEntryOwes
  <2>3. call.node \in InTree /\ heap[call.node].is_leaf
    BY <1>4, <1>8 DEF AtLeaf
  <2>4. Has(heap, InTree, call.key, heap[call.node].recs[i])
    BY <2>1, <2>3 DEF Has, Holds
  <2>5. call.key \in S
    BY <1>4, <2>4, TreeTyped, StoredHas DEF StoredKeys
  <2>. QED BY <1>1, <1>2, <1>4, <1>6, <2>2, <2>5, CountedWhen
<1>. QED BY <1>7, <1>8, Zenon DEF delete

\* Every step keeps the count: what it takes from the slab of records it puts into
\* a leaf, or still has in hand.
LEMMA CountedNext ==
  ASSUME OrdInv, OrdInv', Counted, [Next]_vars
  PROVE  Counted'
<1>1. CASE UNCHANGED vars
  <2>1. StoredKeys(heap, InTree)' = StoredKeys(heap, InTree) /\ Owed' = Owed /\ nrec' = nrec
    BY <1>1 DEF vars, StoredKeys, Stored, InTree, Live, Owed
  <2>. QED BY <2>1, Zenon DEF Counted
<1>. QED BY <1>1, MovesCounted, PutsCounted, DeleteCounted DEF Next, Step

\* There is no record at the start.
LEMMA CountedInit ==
  ASSUME Init
  PROVE  Counted
<1>1. InTree = {} /\ nrec = 0 /\ Owed = 0
  BY DEF Init, InTree, Live, Owed, Idle
<1>2. StoredKeys(heap, InTree) = {}
  BY <1>1 DEF StoredKeys, Stored
<1>. QED BY <1>1, <1>2, FS_EmptySet DEF Counted

\* At every step the records taken from the slab are those of the keys in the
\* leaves, and one more from the moment a deletion has taken its key out to the
\* moment it returns.
THEOREM RecordsCounted == Spec => []Counted
<1>1. Init => Counted
  BY CountedInit
<1>2. OrdInv /\ OrdInv' /\ Counted /\ [Next]_vars => Counted'
  BY CountedNext
<1>. QED BY <1>1, <1>2, AlwaysInOrder, PTL DEF Spec

\* As many entries as keys: a key has one place.
LEMMA EntriesCounted ==
  ASSUME OrdInv, IsFiniteSet(StoredKeys(heap, InTree))
  PROVE  Cardinality(Entries) = Cardinality(StoredKeys(heap, InTree))
<1> DEFINE S == StoredKeys(heap, InTree)
           f == [e \in Entries |-> heap[e[1]].keys[e[2]]]
<1>1. ASSUME NEW e \in Entries
      PROVE  f[e] \in S
  <2>1. PICK m, i : IsEntry(m, i) /\ e = <<m, i>>
    BY EntriesAre
  <2>2. f[e] \in Key
    <3>1. PICK ks \in Seq(Key) : ks = heap[m].keys
      BY <2>1, TreeTyped DEF IsEntry, NodeRec
    <3>. QED BY <2>1, <3>1 DEF IsEntry
  <2>3. Stored(heap, InTree, f[e])
    BY EntryKeys
  <2>. QED BY <2>2, <2>3 DEF StoredKeys
<1>2. \A k \in S : \E e \in Entries : f[e] = k
  BY EntryKeys DEF StoredKeys
<1>3. ASSUME NEW d \in Entries, NEW e \in Entries, f[d] = f[e]
      PROVE  d = e
  <2>1. PICK m, i : IsEntry(m, i) /\ d = <<m, i>>
    BY EntriesAre
  <2>2. PICK n, j : IsEntry(n, j) /\ e = <<n, j>>
    BY EntriesAre
  <2>3. heap[m].keys[i] = heap[n].keys[j]
    BY <1>3, <2>1, <2>2
  <2>4. m = n /\ i = j
    BY <2>1, <2>2, <2>3, OnePlace
  <2>. QED BY <2>1, <2>2, <2>4
<1>4. f \in Injection(Entries, S)
  BY <1>1, <1>3 DEF Injection, IsInjective
<1>5. f \in Surjection(Entries, S)
  BY <1>1, <1>2 DEF Surjection
<1>6. IsFiniteSet(Entries)
  BY <1>4, FS_Injection
<1>. QED BY <1>4, <1>5, <1>6, FS_Bijection DEF ExistsBijection, Bijection

-----------------------------------------------------------------------------
(***************************************************************************)
(* Nodes.  Every node but the root has a parent one level above it, so the *)
(* heights from a node's to the root's all occur: there are no more levels *)
(* than nodes, and level d is the nodes d below the root's height.         *)
(***************************************************************************)
LEMMA Least ==
  ASSUME NEW S \in SUBSET Nat, S # {}
  PROVE  \E m \in S : \A k \in S : m <= k
<1>1. PICK m \in S : \A k \in S : <<k, m>> \notin OpToRel(<, Nat)
  BY WFMin, NatLessThanWellFounded
<1>2. \A k \in S : ~(k < m)
  BY <1>1 DEF OpToRel
<1>. QED BY <1>2

\* The nodes T hang from the root rt, ht gives their heights.
Hangs(h, rt, T, ht) ==
    /\ T \in SUBSET Node /\ ht \in [Node -> Nat] /\ rt \in T \cup {NULL}
    /\ \A n \in T : n # rt => /\ h[n].parent \in T /\ n \in Kids(h, h[n].parent)
                              /\ ht[h[n].parent] = ht[n] + 1
    /\ \A p \in T : \A c \in Kids(h, p) : c \in T /\ ht[p] = ht[c] + 1

\* A linked and balanced tree hangs from its root.
LEMMA TreeHangs ==
  ASSUME NEW h, NEW rt, NEW T \in SUBSET Node, NEW ht \in [Node -> Nat],
         Linked(h, rt, T, {}, {}), Graded(h, T, ht)
  PROVE  Hangs(h, rt, T, ht)
BY DEF Linked, Graded, Hangs

\* No height is left out between a node's and b, below which the root is not.
LEMMA HeightsFill ==
  ASSUME NEW h, NEW rt, NEW T, NEW ht, Hangs(h, rt, T, ht), NEW n \in T, NEW b \in Nat,
         \A m \in T : ht[n] <= ht[m] /\ ht[m] < b => m # rt
  PROVE  \A j \in ht[n]..b : \E m \in T : ht[m] = j
<1> DEFINE U == {j \in ht[n]..b : \A m \in T : ht[m] # j}
<1>1. T \in SUBSET Node /\ ht \in [Node -> Nat] /\ ht[n] \in Nat
  BY DEF Hangs
<1>2. ASSUME U # {} PROVE FALSE
  <2>1. U \in SUBSET Nat
    BY <1>1
  <2>2. PICK j \in U : \A k \in U : j <= k
    BY <1>2, <2>1, Least
  <2>3. j \in Nat /\ ht[n] <= j /\ j <= b /\ j # ht[n]
    BY <1>1, <2>2
  <2>4. j - 1 \in ht[n]..b /\ j - 1 \notin U
    BY <1>1, <2>2, <2>3
  <2>5. PICK m \in T : ht[m] = j - 1
    BY <2>4
  <2>6. m # rt
    BY <1>1, <2>3, <2>5
  <2>7. h[m].parent \in T /\ ht[h[m].parent] = j
    BY <2>3, <2>5, <2>6 DEF Hangs
  <2>. QED BY <2>2, <2>7
<1>. QED BY <1>2

\* Hence there are as many nodes.
LEMMA HeightsFit ==
  ASSUME NEW h, NEW rt, NEW T, NEW ht, Hangs(h, rt, T, ht), NEW n \in T, NEW b \in Nat, ht[n] <= b,
         \A m \in T : ht[n] <= ht[m] /\ ht[m] < b => m # rt
  PROVE  b - ht[n] + 1 <= Cardinality(Node)
<1> DEFINE f == [j \in ht[n]..b |-> CHOOSE m \in T : ht[m] = j]
<1>1. T \in SUBSET Node /\ ht \in [Node -> Nat] /\ ht[n] \in Nat
  BY DEF Hangs
<1>2. \A j \in ht[n]..b : \E m \in T : ht[m] = j
  BY HeightsFill
<1>3. \A j \in ht[n]..b : f[j] \in Node /\ ht[f[j]] = j
  BY <1>1, <1>2
<1>4. f \in Injection(ht[n]..b, Node)
  <2>1. f \in [ht[n]..b -> Node]
    BY <1>3
  <2>. QED BY SMTT(20), <1>3, <2>1 DEF Injection, IsInjective
<1>5. Cardinality(ht[n]..b) <= Cardinality(Node)
  BY <1>4, NodeAssumption, FS_Injection
<1>6. Cardinality(ht[n]..b) = b - ht[n] + 1
  BY <1>1, FS_Interval
<1>. QED BY <1>5, <1>6

\* The root is above every other node, and without one there are none: the
\* parents of a node that is not below it would go on for ever.
LEMMA RootOnTop ==
  ASSUME NEW h, NEW rt, NEW T, NEW ht, Hangs(h, rt, T, ht)
  PROVE  \A n \in T : rt \in T /\ (n = rt \/ ht[n] < ht[rt])
<1>1. T \in SUBSET Node /\ ht \in [Node -> Nat] /\ rt \in T \cup {NULL} /\ NULL \notin T
  BY NullAssumption DEF Hangs
<1>2. ASSUME NEW n \in T, rt \in T => ht[rt] < ht[n]
      PROVE  FALSE
  <2>1. Cardinality(Node) \in Nat /\ ht[n] \in Nat
    BY <1>1, NodeAssumption, FS_CardinalityType
  <2>2. PICK b \in Nat : b = ht[n] + Cardinality(Node)
    BY <2>1
  <2>3. \A m \in T : ht[n] <= ht[m] /\ ht[m] < b => m # rt
    BY <1>1, <1>2
  <2>4. b - ht[n] + 1 <= Cardinality(Node)
    BY <2>1, <2>2, <2>3, HeightsFit
  <2>. QED BY <2>1, <2>2, <2>4
<1>3. ASSUME NEW n \in T
      PROVE  rt \in T /\ (n = rt \/ ht[n] < ht[rt])
  <2>1. rt \in T /\ ht[n] <= ht[rt] /\ ht[n] \in Nat /\ ht[rt] \in Nat
    BY <1>1, <1>2
  <2>2. ASSUME n # rt, ht[n] = ht[rt] PROVE FALSE
    <3>1. h[n].parent \in T /\ ht[h[n].parent] = ht[n] + 1
      BY <2>2 DEF Hangs
    <3>. QED BY <1>2, <2>1, <2>2, <3>1
  <2>. QED BY <2>1, <2>2
<1>. QED BY <1>3

\* The nodes d levels below the root, by their heights.
AtDepth(rt, T, ht, d) == {n \in T : ht[n] + d = ht[rt]}

\* At depth 0 there is the root.
LEMMA DepthZero ==
  ASSUME NEW h, NEW rt, NEW T, NEW ht, Hangs(h, rt, T, ht)
  PROVE  AtDepth(rt, T, ht, 0) = {rt} \ {NULL}
<1>1. T \in SUBSET Node /\ ht \in [Node -> Nat] /\ rt \in T \cup {NULL} /\ NULL \notin T
  BY NullAssumption DEF Hangs
<1>2. \A n \in T : rt \in T /\ (n = rt \/ ht[n] < ht[rt])
  BY RootOnTop
<1>. QED BY <1>1, <1>2 DEF AtDepth

\* A level is the children of the level above.
LEMMA DepthNext ==
  ASSUME NEW h, NEW rt, NEW T, NEW ht, Hangs(h, rt, T, ht), NEW d \in Nat \ {0}
  PROVE  AtDepth(rt, T, ht, d) = UNION {Kids(h, n) : n \in AtDepth(rt, T, ht, d - 1)}
<1>1. T \in SUBSET Node /\ ht \in [Node -> Nat]
  BY DEF Hangs
<1>2. \A n \in T : rt \in T /\ (n = rt \/ ht[n] < ht[rt])
  BY RootOnTop
<1>3. ASSUME NEW n \in AtDepth(rt, T, ht, d)
      PROVE  n \in UNION {Kids(h, m) : m \in AtDepth(rt, T, ht, d - 1)}
  <2>1. n \in T /\ ht[n] + d = ht[rt] /\ ht[n] \in Nat
    BY <1>1 DEF AtDepth
  <2>2. n # rt
    BY <2>1
  <2>3. h[n].parent \in T /\ n \in Kids(h, h[n].parent) /\ ht[h[n].parent] = ht[n] + 1
    BY <2>1, <2>2 DEF Hangs
  <2>4. h[n].parent \in AtDepth(rt, T, ht, d - 1)
    BY <2>1, <2>3 DEF AtDepth
  <2>. QED BY <2>3, <2>4
<1>4. ASSUME NEW m \in AtDepth(rt, T, ht, d - 1), NEW c \in Kids(h, m)
      PROVE  c \in AtDepth(rt, T, ht, d)
  <2>1. m \in T /\ ht[m] + (d - 1) = ht[rt]
    BY DEF AtDepth
  <2>2. c \in T /\ ht[m] = ht[c] + 1 /\ ht[c] \in Nat
    BY <1>1, <2>1 DEF Hangs
  <2>. QED BY <2>1, <2>2 DEF AtDepth
<1>. QED BY <1>3, <1>4

\* The equation that defines Level has the heights' levels as a solution.
LEMMA LevelDefined ==
  ASSUME NEW T, NEW ht, Hangs(heap, root, T, ht)
  PROVE  Level = [d \in 0..Cardinality(Node) |->
                    IF d = 0 THEN {root} \ {NULL}
                    ELSE UNION {Range(heap[n].kids) : n \in Level[d - 1]}]
<1> DEFINE Eq(f) == f = [d \in 0..Cardinality(Node) |->
                           IF d = 0 THEN {root} \ {NULL}
                           ELSE UNION {Range(heap[n].kids) : n \in f[d - 1]}]
           F == [d \in 0..Cardinality(Node) |-> AtDepth(root, T, ht, d)]
<1>1. Cardinality(Node) \in Nat
  BY NodeAssumption, FS_CardinalityType
<1>2. ASSUME NEW d \in 0..Cardinality(Node)
      PROVE  F[d] = IF d = 0 THEN {root} \ {NULL}
                    ELSE UNION {Range(heap[n].kids) : n \in F[d - 1]}
  <2>1. CASE d = 0
    BY <1>1, <2>1, DepthZero
  <2>2. CASE d # 0
    <3>1. d \in Nat \ {0} /\ d - 1 \in 0..Cardinality(Node)
      BY <1>1, <2>2
    <3>2. F[d - 1] = AtDepth(root, T, ht, d - 1)
      BY <3>1
    <3>. QED BY <2>2, <3>1, <3>2, DepthNext DEF Kids
  <2>. QED BY <2>1, <2>2
<1>3. Eq(F)
  BY <1>2
<1>4. Eq(CHOOSE f : Eq(f))
  BY <1>3
<1>. QED BY <1>4 DEF Level

\* The levels that the search from the root finds are the nodes of their depths.
LEMMA LevelIs ==
  ASSUME NEW T, NEW ht, Hangs(heap, root, T, ht), NEW d \in 0..Cardinality(Node)
  PROVE  Level[d] = AtDepth(root, T, ht, d)
<1> DEFINE U == {e \in 0..Cardinality(Node) : Level[e] # AtDepth(root, T, ht, e)}
<1>1. Cardinality(Node) \in Nat
  BY NodeAssumption, FS_CardinalityType
<1>2. \A e \in 0..Cardinality(Node) :
         Level[e] = IF e = 0 THEN {root} \ {NULL} ELSE UNION {Kids(heap, n) : n \in Level[e - 1]}
  BY LevelDefined DEF Kids
<1>3. ASSUME U # {} PROVE FALSE
  <2>1. U \in SUBSET Nat
    BY <1>1
  <2>2. PICK e \in U : \A k \in U : e <= k
    BY <1>3, <2>1, Least
  <2>3. e # 0
    <3>1. 0 \in 0..Cardinality(Node)
      BY <1>1
    <3>2. Level[0] = {root} \ {NULL}
      BY ONLY <1>2, <3>1
    <3>3. AtDepth(root, T, ht, 0) = {root} \ {NULL}
      BY DepthZero
    <3>. QED BY <2>2, <3>2, <3>3
  <2>4. e \in Nat \ {0} /\ e - 1 \in 0..Cardinality(Node) /\ e - 1 \notin U
    BY <1>1, <2>2, <2>3
  <2>5. Level[e - 1] = AtDepth(root, T, ht, e - 1)
    BY <2>4
  <2>6. Level[e] = UNION {Kids(heap, n) : n \in AtDepth(root, T, ht, e - 1)}
    <3>1. e \in 0..Cardinality(Node)
      BY <2>2
    <3>2. Level[e] = UNION {Kids(heap, n) : n \in Level[e - 1]}
      BY <1>2, <2>3, <3>1
    <3>. QED BY ONLY <2>5, <3>2, Zenon
  <2>7. AtDepth(root, T, ht, e) = UNION {Kids(heap, n) : n \in AtDepth(root, T, ht, e - 1)}
    BY <2>4, DepthNext
  <2>8. Level[e] = AtDepth(root, T, ht, e)
    BY ONLY <2>6, <2>7, Zenon
  <2>. QED BY <2>2, <2>8
<1>. QED BY <1>3

\* Hence every node of the tree is on a level, and nothing else is.
LEMMA LevelsCover ==
  ASSUME NEW T, NEW ht, Hangs(heap, root, T, ht)
  PROVE  T = UNION {Level[d] : d \in 0..Cardinality(Node)}
<1>1. T \in SUBSET Node /\ ht \in [Node -> Nat] /\ Cardinality(Node) \in Nat
  BY NodeAssumption, FS_CardinalityType DEF Hangs
<1>2. ASSUME NEW n \in T
      PROVE  \E d \in 0..Cardinality(Node) : n \in Level[d]
  <2>1. /\ root \in T /\ ht[n] \in Nat /\ ht[root] \in Nat /\ ht[n] <= ht[root]
        /\ \A m \in T : m = root \/ ht[m] < ht[root]
    BY <1>1, RootOnTop
  <2>2. PICK b \in Nat : b = ht[root]
    BY <2>1
  <2>3. \A m \in T : ht[n] <= ht[m] /\ ht[m] < b => m # root
    BY <1>1, <2>1, <2>2
  <2>4. b - ht[n] + 1 <= Cardinality(Node)
    BY <2>1, <2>2, <2>3, HeightsFit
  <2>5. b - ht[n] \in 0..Cardinality(Node)
    BY <1>1, <2>1, <2>2, <2>4
  <2>6. n \in AtDepth(root, T, ht, b - ht[n])
    BY <2>1, <2>2 DEF AtDepth
  <2>. QED BY <2>5, <2>6, LevelIs
<1>3. ASSUME NEW d \in 0..Cardinality(Node), NEW n \in Level[d]
      PROVE  n \in T
  BY LevelIs DEF AtDepth
<1>. QED BY <1>2, <1>3

\* Between two calls the nodes taken from the slab are those of the tree, and the
\* records taken are those of its leaves: split, merge, adjust_root and delete
\* neither lose a node or a record nor keep a freed one linked.
THEOREM NothingLost == Spec => []NoLeakNoDangling
<1>1. ASSUME OrdInv, Counted PROVE NoLeakNoDangling
  <2> SUFFICES ASSUME Quiet
               PROVE  /\ Live = UNION {Level[d] : d \in 0..Cardinality(Node)}
                      /\ nrec = Cardinality(Entries)
                      /\ doomed = {}
    BY DEF NoLeakNoDangling
  <2>1. doomed = {}
    BY <1>1 DEF OrdInv, IndInv, CallOK, Quiet
  <2>2. Live = InTree /\ InTree \in SUBSET Node
    BY <2>1 DEF InTree, Live
  <2>3. PICK ht \in [Node -> Nat] : Graded(heap, InTree, ht)
    BY <1>1 DEF OrdInv, IndInv, HeightsOK
  <2>4. Linked(heap, root, InTree, {}, {})
    BY <1>1 DEF OrdInv, IndInv, Dangling, Orphan, Quiet
  <2>5. Hangs(heap, root, InTree, ht)
    BY <2>2, <2>3, <2>4, TreeHangs
  <2>6. Live = UNION {Level[d] : d \in 0..Cardinality(Node)}
    BY <2>2, <2>5, LevelsCover
  <2>7. Owed = 0
    BY OwedIs DEF Quiet, Owing
  <2>8. Cardinality(Entries) = Cardinality(StoredKeys(heap, InTree))
    BY <1>1, EntriesCounted DEF Counted
  <2>9. nrec = Cardinality(Entries)
    BY <1>1, <2>7, <2>8, FS_CardinalityType DEF Counted
  <2>. QED BY <2>1, <2>6, <2>9
<1>. QED BY <1>1, AlwaysInOrder, RecordsCounted, PTL

-----------------------------------------------------------------------------
(***************************************************************************)
(* The arrays of find_and_print_range.                                     *)
(***************************************************************************)
\* Ascending numbers from a to b are no more than there are.
LEMMA AscendingFits ==
  ASSUME NEW s \in Seq(Key), Ascending(s), NEW a \in Nat, NEW b \in Nat,
         \A i \in 1..Len(s) : a <= s[i] /\ s[i] <= b
  PROVE  Len(s) <= IF a > b THEN 0 ELSE b - a + 1
<1>1. s \in Injection(1..Len(s), a..b)
  <2>0. Len(s) \in Nat /\ \A i \in 1..Len(s) : s[i] \in Nat
    BY KeyNat
  <2>1. s \in [1..Len(s) -> a..b]
    BY <2>0
  <2>2. ASSUME NEW i \in 1..Len(s), NEW j \in 1..Len(s), s[i] = s[j] PROVE i = j
    <3>1. i < j \/ j < i \/ i = j
      OBVIOUS
    <3>2. s[i] \in Nat /\ s[j] \in Nat
      BY <2>0
    <3>. QED BY <2>2, <3>1, <3>2 DEF Ascending
  <2>. QED BY <2>1, <2>2 DEF Injection, IsInjective
<1>2. IsFiniteSet(a..b) /\ Cardinality(a..b) = IF a > b THEN 0 ELSE b - a + 1
  BY FS_Interval
<1>3. Cardinality(1..Len(s)) <= Cardinality(a..b)
  BY <1>1, <1>2, FS_Injection
<1>4. Cardinality(1..Len(s)) = Len(s)
  <2>1. Len(s) \in Nat
    OBVIOUS
  <2>. QED BY <2>1, FS_Interval
<1>. QED BY <1>2, <1>3, <1>4

\* What find_range has collected.
LEMMA RangeKeys ==
  ASSUME OrdInv, call.pc \in {"scan", "ranged"}
  PROVE  /\ rng \in Seq(Key) /\ Ascending(rng) /\ call.key \in Key /\ call.hi \in Key
         /\ \A i \in 1..Len(rng) : call.key <= rng[i] /\ rng[i] <= call.hi
<1>1. PICK lo, hi : Searches(lo, hi)
  BY AtRest
<1>2. PICK s \in Seq(Key) : s = rng
  BY DEF OrdInv, IndInv, TypeOK
<1>3. \A i \in 1..Len(s) : s[i] \in Range(s) /\ s[i] \in Key
  BY DEF Range
<1>4. /\ Ascending(s) /\ call.key \in Key /\ call.hi \in Key
      /\ \A x \in Key : x \in Range(s) => call.key <= x /\ x <= call.hi
  <2>1. CASE call.pc = "scan"
    BY <1>1, <1>2, <2>1 DEF Searches
  <2>2. CASE call.pc = "ranged"
    <3>1. s = <<>> => \A x \in Key : x \notin Range(s)
      BY DEF Range
    <3>. QED BY <1>1, <1>2, <2>2, <3>1 DEF Searches
  <2>. QED BY <2>1, <2>2
<1>. QED BY <1>2, <1>3, <1>4

\* No range has as many keys as an uint64_t has values: true of every pair of
\* bounds but 0 and 2^64 - 1.
Narrow == \A k, e \in Key : e - k + 1 < Width

\* find_range never writes past the arrays of find_and_print_range, and into none
\* at all when the bounds are the wrong way round, for every range whose size is
\* an uint64_t.
THEOREM RangeArraysFit == Narrow => (Spec => []RangeFits)
<1> SUFFICES ASSUME Narrow PROVE Spec => []RangeFits
  OBVIOUS
<1>1. ASSUME OrdInv PROVE RangeFits
  <2> SUFFICES ASSUME call.pc \in {"scan", "ranged"}
               PROVE  /\ Len(rng) <= array_size(call.key, call.hi)
                      /\ call.hi < call.key => rng = <<>>
    BY DEF RangeFits
  <2>1. /\ rng \in Seq(Key) /\ Ascending(rng) /\ call.key \in Key /\ call.hi \in Key
        /\ \A i \in 1..Len(rng) : call.key <= rng[i] /\ rng[i] <= call.hi
    BY <1>1, RangeKeys
  <2>2. PICK s \in Seq(Key), k \in Nat, e \in Nat : s = rng /\ k = call.key /\ e = call.hi
    BY <2>1, KeyAssumption
  <2>3. Len(s) \in Nat /\ Len(s) <= IF k > e THEN 0 ELSE e - k + 1
    <3>1. Ascending(s) /\ \A i \in 1..Len(s) : k <= s[i] /\ s[i] <= e
      BY <2>1, <2>2
    <3>2. Len(s) <= IF k > e THEN 0 ELSE e - k + 1
      BY ONLY <3>1, AscendingFits, s \in Seq(Key), k \in Nat, e \in Nat
    <3>. QED BY <3>2
  <2>4. e - k + 1 < Width /\ Width \in Nat \ {0}
    BY <2>1, <2>2, WidthAssumption DEF Narrow
  <2>5. Len(s) <= (e - k + 1) % Width
    <3>1. PICK x \in Int : x = e - k + 1
      OBVIOUS
    <3>2. x % Width \in Nat
      BY <2>4
    <3>3. x \in Nat /\ x < Width => x % Width = x
      BY <2>4
    <3>. QED BY <2>3, <2>4, <3>1, <3>2, <3>3
  <2>6. e < k => s = <<>>
    <3>1. e < k => Len(s) = 0
      BY <2>3
    <3>. QED BY <3>1
  <2>. QED BY <2>2, <2>5, <2>6 DEF array_size
<1>. QED BY <1>1, AlwaysInOrder, PTL
=============================================================================

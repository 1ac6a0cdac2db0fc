------------------------------ MODULE MCBTree -------------------------------
(***************************************************************************)
(* BTree and its output functions for TLC, with the inductive invariant.   *)
(***************************************************************************)
EXTENDS BTreeInv, BTreePrint, BTreeRange

CONSTANT MaxKey

MCKey == 1..MaxKey

\* The height of a node, down its leftmost children.
Height[n \in Node] ==
    IF heap[n].is_leaf \/ heap[n].kids = <<>> THEN 0 ELSE 1 + Height[heap[n].kids[1]]

\* The span of a node, from the separators around it in its parent; hi is
\* corrected for the entry that is about to be inserted or deleted.
Span[n \in Node] ==
    LET p == heap[n].parent
        hung == p # NULL /\ p \in InTree /\ n \in Range(heap[p].kids)
        i == CHOOSE i \in 1..Len(heap[p].kids) : heap[p].kids[i] = n
        seen == IF ~hung THEN Inf
                ELSE IF i > Len(heap[p].keys) THEN Span[p].hi ELSE heap[p].keys[i]
    IN  CASE call.pc = "insert_into_parent" /\ n = call.right ->
               [lo |-> call.key, hi |-> Span[call.node].seen, seen |-> Span[call.node].seen]
          [] OTHER ->
               [lo |-> IF ~hung THEN 0 ELSE IF i = 1 THEN Span[p].lo ELSE heap[p].keys[i - 1],
                hi |-> CASE call.pc = "insert_into_parent" /\ n = call.node -> call.key
                         [] /\ call.pc = "delete_entry" /\ hung /\ p = call.node
                            /\ i <= Len(heap[p].keys) /\ heap[p].kids[i + 1] = call.right ->
                              Span[call.right].seen
                         [] OTHER -> seen,
                seen |-> seen]

\* OrdInv, with the heights and the spans computed: between any two C
\* functions, in the middle of an insertion or a deletion too, arrays fit,
\* child and parent pointers agree but for the entry that is about to be
\* deleted or inserted, no node is below its minimum, the tree is balanced,
\* its keys, separators and links are in order, and the records taken are those
\* of its leaves, but for the one that a deletion has yet to return.
HoldsInside ==
    /\ TypeOK
    /\ CallOK
    /\ Shaped(heap, InTree)
    /\ Linked(heap, root, InTree, Dangling, Orphan)
    /\ Full(heap, root, InTree)
    /\ HeightsOK(Height)
    /\ Unanswered
    /\ Counted
    /\ OrderOK([n \in Node |-> Span[n].lo], [n \in Node |-> Span[n].hi],
               [n \in Node |-> Span[n].seen])
=============================================================================

----------------------------- MODULE BTreeRange -----------------------------
(***************************************************************************)
(* The arrays of find_and_print_range, which find_range fills.             *)
(***************************************************************************)
EXTENDS BTree

CONSTANTS Width     \* 2^64: uint64_t

ASSUME WidthAssumption == Width \in Nat \ {0}

\* Mutant: the bounds are not both counted.
array_size_exclusive(key_start, key_end) == (key_end - key_start) % Width

\* The arrays find_and_print_range has find_range write to: their
\* size is computed in uint64_t.
array_size(key_start, key_end) == (key_end - key_start + 1) % Width
-----------------------------------------------------------------------------
\* find_range never writes past the arrays of find_and_print_range, and into
\* none at all when the bounds are the wrong way round.
RangeFits ==
    call.pc \in {"scan", "ranged"} =>
        /\ Len(rng) <= array_size(call.key, call.hi)
        /\ call.hi < call.key => rng = <<>>
=============================================================================

----------------------------- MODULE RandomReads -----------------------------
(***************************************************************************)
(* The reads of the random access benchmark: rand_num and the loops of     *)
(* random_access in benchmarks/randomAccess/wl-randomreads-inputpages.c,   *)
(* and those of its sibling wl-randomreads-inputpages-2.c.                 *)
(*                                                                         *)
(* The widths are scaled: an unsigned long has Mod values (2^64), rand_num *)
(* divides by Divisor (2^32 - 1), a page holds PageInts ints (1024).  In   *)
(* the sibling an unsigned int has the same Mod values and rand_num divides*)
(* by Divisor + 1 (2^32 and 2^16 there).                                   *)
(***************************************************************************)
EXTENDS Integers

CONSTANTS Mod, Divisor, PageInts,
          Multipliers, Increments,   \* 1103515258476245 and 12345 among them
          Pages,                     \* numbers of pages tried
          MaxLoops                   \* bound on number_of_loop

ASSUME WidthAssumption == Mod \in Nat \ {0} /\ Divisor \in 1..(Mod - 1) /\ PageInts \in Nat \ {0}
\* Mod is a power of two: it has no odd divisor but 1.
ASSUME ModAssumption == \A d \in 2..Mod : Mod % d = 0 => d % 2 = 0
\* The multiplier is 1 modulo 4 and the increment is odd, as the code's are.
ASSUME MultiplierAssumption == \A a \in Multipliers : a \in 0..(Mod - 1) /\ a % 4 = 1
ASSUME IncrementAssumption == \A c \in Increments : c \in 0..(Mod - 1) /\ c % 2 = 1
ASSUME PagesAssumption == Pages \subseteq Nat \ {0} /\ MaxLoops \in Nat

VARIABLES sibling,          \* which of the two programs
          A, C,             \* the constants of rand_num
          num_of_pages, number_of_loop,
          j, i, state,
          draws,            \* calls of rand_num so far
          seen              \* the words that were read

vars == <<sibling, A, C, num_of_pages, number_of_loop, j, i, state, draws, seen>>
params == <<sibling, A, C, num_of_pages, number_of_loop>>

total_size == PageInts * num_of_pages
iterations == total_size \div 8

\* *state = *state * 1103515258476245 + 12345
State(s) == (s * A + C) % Mod

\* Mutant: the remainder is left out.
RangedWhole(s, max) == s \div Divisor

\* (*state / 4294967295) % max
Ranged(s, max) == (s \div Divisor) % max

\* *state *= 1103515245 + 12345: the sum is the factor.
State2(s) == (s * (A + C)) % Mod

\* (*state / 65536) % max
Ranged2(s, max) == (s \div (Divisor + 1)) % max

\* unsigned long state = 1; in the sibling, unsigned int state = 0.
Seed(sib) == IF sib THEN 0 ELSE 1

-----------------------------------------------------------------------------
Init ==
    /\ sibling \in BOOLEAN
    /\ A \in Multipliers /\ C \in Increments
    /\ num_of_pages \in Pages
    /\ number_of_loop \in IF sibling THEN {1} ELSE 0..MaxLoops
    /\ j = 0 /\ i = 0
    /\ state = Seed(sibling)
    /\ draws = 0
    /\ seen = {}

\* One iteration of the inner loop.
read ==
    /\ ~sibling
    /\ j < number_of_loop /\ i < iterations
    /\ state' = State(state)
    /\ seen' = seen \cup {Ranged(state', total_size)}
    /\ draws' = draws + 1
    /\ i' = i + 1
    /\ UNCHANGED <<params, j>>

\* The sibling draws a page and an int of it, and adds half of the array.
read_2 ==
    /\ sibling
    /\ j < number_of_loop /\ i < iterations
    /\ LET s == State2(state)
           word == total_size \div 2 + Ranged2(s, num_of_pages) * PageInts
       IN  /\ state' = State2(s)
           /\ seen' = seen \cup {word + Ranged2(state', PageInts)}
    /\ draws' = draws + 2
    /\ i' = i + 1
    /\ UNCHANGED <<params, j>>

\* Mutant: the state is taken from its start again in every loop.
next_loop_reset ==
    /\ j < number_of_loop /\ i >= iterations
    /\ j' = j + 1 /\ i' = 0 /\ state' = Seed(sibling)
    /\ UNCHANGED <<params, draws, seen>>

\* The next run over the array goes on with the state.
next_loop ==
    /\ j < number_of_loop /\ i >= iterations
    /\ j' = j + 1 /\ i' = 0
    /\ UNCHANGED <<params, state, draws, seen>>

Next == read \/ read_2 \/ next_loop

Spec == Init /\ [][Next]_vars

-----------------------------------------------------------------------------
\* No read is outside the array.  In wl-randomreads-inputpages.c the remainder
\* sees to it (line 53).  The sibling adds total_size/2 to what it draws over all
\* pages (lines 76 and 77): only a state that never leaves 0 keeps it inside, and
\* its "random" reads are all of one word (lines 51 and 66).
ReadsInside ==
    seen \subseteq IF sibling THEN {total_size \div 2} ELSE 0..(total_size - 1)

\* The quotient by 2^32 - 1 has 2^32 + 2 values: of a larger array only that many
\* words are ever read, and of a smaller one every word is, once the generator
\* has gone through its period (lines 52, 53 and 78).
Reach == (Mod - 1) \div Divisor

ReadsSpread ==
    ~sibling =>
        /\ \A w \in seen : w <= Reach
        /\ draws >= Mod => \A w \in 0..(total_size - 1) : w <= Reach => w \in seen
=============================================================================

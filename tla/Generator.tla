----------------------------- MODULE Generator ------------------------------
(***************************************************************************)
(* redisSrand48 and redisLrand48 called by one thread: main seeds once and *)
(* then draws.                                                             *)
(***************************************************************************)
EXTENDS Rand48

CONSTANTS Multiplier, Increment,
          X,        \* the limbs the program starts with
          Seed

VARIABLES a, c,     \* the parameters SEED sets
          x,        \* the limbs
          seeded,   \* redisSrand48 has been called
          drawn     \* what redisLrand48 has returned

vars == <<a, c, x, seeded, drawn>>

Init ==
    /\ a \in Multiplier
    /\ c \in Increment
    /\ x = X
    /\ seeded = FALSE
    /\ drawn = 0

redisSrand48(seedval) ==
    /\ ~seeded
    /\ seeded' = TRUE
    /\ x' = Seeded(X[0], seedval)
    /\ UNCHANGED <<a, c, drawn>>

redisLrand48 ==
    /\ seeded
    /\ x' = next(a, c, x)
    /\ drawn' = Draw(x')
    /\ UNCHANGED <<a, c, seeded>>

Next == redisLrand48 \/ \E s \in Seed : redisSrand48(s)

Spec == Init /\ [][Next]_vars
FairSpec == Spec /\ WF_vars(Next)
-----------------------------------------------------------------------------
Value(w) == w[0] + Base * w[1] + Base * Base * w[2]

\* The limb arithmetic, its signed products and its three carries, is the
\* congruence x := a x + c mod Base^3; the seed goes into the upper two limbs
\* whatever its sign; and the draw is the upper 2N - 1 bits of 3N.
IsLcg ==
    [][IF seeded
       THEN /\ Value(x') = (Value(a) * Value(x) + c) % (Base * Base * Base)
            /\ drawn' = Value(x') \div (2 * Base)
       ELSE \E s \in Seed : Value(x') = X[0] + Base * (s % (Base * Base))]_vars

\* With a multiplier of 1 mod 4 and an odd increment, as in the code, the
\* generator runs through all of its states before it repeats one: from every
\* state it comes to the one with all limbs 0.
FullPeriod == ([]<>(x = [i \in 0..2 |-> 0])) \/ Value(a) % 4 # 1 \/ c % 2 = 0
=============================================================================

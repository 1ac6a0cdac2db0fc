------------------------------- MODULE Rand48 -------------------------------
(***************************************************************************)
(* The arithmetic of the generator of benchmarks/btree/btree.c: a linear   *)
(* congruential generator over three limbs of N bits (16 in the code), in  *)
(* integers of 2N bits.  Base is 2^N.  A number is a function from 0..2 to *)
(* limbs, as the C arrays x and a are.                                     *)
(***************************************************************************)
EXTENDS Integers

CONSTANT Base                           \* MASK + 1 = 2^N

ASSUME BaseAssumption == Base \in Nat \ {0} /\ Base % 2 = 0

Limb == 0..(Base - 1)
Word == [0..2 -> Limb]

LOW(v) == v % Base
HIGH(v) == LOW(v \div Base)             \* >> keeps the sign

\* int32_t: two's complement on 2N bits.
Int32(v) ==
    LET w == v % (Base * Base)
    IN  IF 2 * w >= Base * Base THEN w - Base * Base ELSE w

MUL(u, v) ==
    LET l == Int32(u * v)
    IN  <<LOW(l), HIGH(l)>>

\* Mutant: a sum that just does not fit has no carry.
CARRY_one_off(u, v) == IF u + v > Base THEN 1 ELSE 0

CARRY(u, v) == IF u + v > Base - 1 THEN 1 ELSE 0

\* The limbs after one step of the generator with multiplier a, increment c.
next(a, c, x) ==
    LET p == MUL(a[0], x[0])
        carry0 == CARRY(p[1], c)
        carry1 == CARRY(p[2], carry0)
        p1 == LOW(p[2] + carry0)
        q == MUL(a[0], x[1])
        carry2 == CARRY(p1, q[1])
        p2 == LOW(p1 + q[1])
        r == MUL(a[1], x[0])
    IN  [i \in 0..2 |->
           CASE i = 0 -> LOW(p[1] + c)
             [] i = 1 -> LOW(p2 + r[1])
             [] i = 2 -> LOW(carry2 + carry1 + CARRY(p2, r[1]) + q[2] + r[2]
                             + a[0] * x[2] + a[1] * x[1] + a[2] * x[0])]

\* What redisLrand48 returns once the limbs are x.
Draw(x) == x[2] * (Base \div 2) + x[1] \div 2

\* The limbs redisSrand48 sets.
Seeded(X0, seedval) == [i \in 0..2 |-> <<X0, LOW(seedval), HIGH(seedval)>>[i + 1]]
=============================================================================

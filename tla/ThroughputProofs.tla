-------------------------- MODULE ThroughputProofs --------------------------
(***************************************************************************)
(* What Throughput guarantees for any number of threads, elements, lookups *)
(* and samples, and any width of the limbs.                                *)
(***************************************************************************)
EXTENDS Throughput, FiniteSetTheorems, TLAPS

\* A number is a multiple of n and a remainder.
LEMMA DivMod ==
    ASSUME NEW v \in Int, NEW n \in Nat \ {0}
    PROVE  /\ v \div n \in Int /\ v % n \in 0..(n - 1)
           /\ v = n * (v \div n) + (v % n)
BY Z3

\* In one way only.
LEMMA DivModUnique ==
    ASSUME NEW v \in Int, NEW n \in Nat \ {0}, NEW q \in Int, NEW r \in 0..(n - 1),
           v = n * q + r
    PROVE  v \div n = q /\ v % n = r
<1> DEFINE d == v \div n
           m == v % n
<1>0. d \in Int /\ m \in 0..(n - 1) /\ v = n * d + m
  BY DivMod, Zenon
<1> HIDE DEF d, m
<1>1. d \in Int /\ m \in Int /\ 0 <= m /\ m < n /\ v = n * d + m
  BY <1>0
<1>2. ~(d > q)
  <2> SUFFICES ASSUME d > q PROVE FALSE
    OBVIOUS
  <2>1. PICK e \in Nat : d = q + 1 + e
    <3>1. d - q - 1 \in Nat /\ d = q + 1 + (d - q - 1)
      BY <1>1
    <3>. QED BY <3>1
  <2>2. n * d = n * q + n + n * e
    BY <2>1
  <2>3. n * e \in Nat
    BY <2>1
  <2>4. n * d \in Int /\ n * q \in Int
    BY <1>1
  <2>. QED BY <1>1, <2>2, <2>3, <2>4
<1>3. ~(d < q)
  <2> SUFFICES ASSUME d < q PROVE FALSE
    OBVIOUS
  <2>1. PICK e \in Nat : q = d + 1 + e
    <3>1. q - d - 1 \in Nat /\ q = d + 1 + (q - d - 1)
      BY <1>1
    <3>. QED BY <3>1
  <2>2. n * q = n * d + n + n * e
    BY <1>1, <2>1
  <2>3. n * e \in Nat
    BY <2>1
  <2>4. n * d \in Int /\ n * q \in Int
    BY <1>1
  <2>. QED BY <1>1, <2>2, <2>3, <2>4
<1>4. d = q
  BY <1>1, <1>2, <1>3
<1>5. m = r
  <2>1. n * d \in Int
    BY <1>1
  <2>. QED BY <1>1, <1>4, <2>1
<1>. QED BY <1>4, <1>5 DEF d, m

\* A number of two limbs, and how LOW and HIGH take it apart.
LEMMA Halves ==
    ASSUME NEW v \in Int
    PROVE  /\ LOW(v) \in Limb /\ HIGH(v) \in Limb
           /\ v % (Base * Base) = LOW(v) + Base * HIGH(v)
<1>0. Base \in Nat \ {0}
  BY BaseAssumption
<1> DEFINE d == v \div Base
           e == d \div Base
<1>1. d \in Int /\ LOW(v) \in 0..(Base - 1) /\ v = Base * d + LOW(v)
  BY <1>0, DivMod DEF LOW
<1> HIDE DEF d
<1>2. e \in Int /\ HIGH(v) \in 0..(Base - 1) /\ d = Base * e + HIGH(v)
  <2>1. HIGH(v) = d % Base
    BY DEF HIGH, LOW, d
  <2>. QED BY <1>0, <1>1, <2>1, DivMod
<1> HIDE DEF e
<1> DEFINE lo == LOW(v)
           hi == HIGH(v)
<1>3. lo \in 0..(Base - 1) /\ hi \in 0..(Base - 1)
  BY <1>1, <1>2
<1>4. v = Base * d + lo /\ d = Base * e + hi
  BY <1>1, <1>2
<1> HIDE DEF lo, hi
<1>5. v = (Base * Base) * e + (lo + Base * hi)
  <2>1. Base * d = Base * (Base * e) + Base * hi
    BY <1>0, <1>2, <1>3, <1>4
  <2>2. Base * (Base * e) = (Base * Base) * e
    BY <1>0, <1>2
  <2>. QED BY <1>0, <1>1, <1>2, <1>3, <1>4, <2>1, <2>2
<1>6. lo + Base * hi \in 0..(Base * Base - 1)
  <2>1. Base * hi \in Nat
    BY <1>0, <1>3
  <2>2. PICK f \in Nat : hi = Base - 1 - f
    <3>1. Base - 1 - hi \in Nat /\ hi = Base - 1 - (Base - 1 - hi)
      BY <1>0, <1>3
    <3>. QED BY <3>1
  <2>3. Base * hi = Base * Base - Base - Base * f
    BY <1>0, <2>2
  <2>4. Base * f \in Nat /\ Base * Base \in Nat
    BY <1>0, <2>2
  <2>. QED BY <1>0, <1>3, <2>1, <2>3, <2>4
<1>7. Base * Base \in Nat \ {0}
  BY <1>0
<1>8. v % (Base * Base) = lo + Base * hi
  BY <1>2, <1>5, <1>6, <1>7, DivModUnique
<1>. QED BY <1>3, <1>8 DEF lo, hi, Limb

\* The two halves of the signed product are the product of two limbs: the sign
\* the 2N bits may get is lost again in the masks.
LEMMA MulExact ==
    ASSUME NEW u \in Limb, NEW v \in Limb
    PROVE  /\ MUL(u, v)[1] \in Limb /\ MUL(u, v)[2] \in Limb
           /\ MUL(u, v)[1] + Base * MUL(u, v)[2] = u * v
<1>0. Base \in Nat \ {0} /\ u \in Nat /\ v \in Nat /\ u <= Base - 1 /\ v <= Base - 1
  BY BaseAssumption DEF Limb
<1> DEFINE B2 == Base * Base
           uv == u * v
           l == Int32(uv)
<1>1. B2 \in Nat \ {0}
  BY <1>0
<1>2. uv \in 0..(B2 - 1)
  <2>1. PICK e \in Nat, f \in Nat : u = Base - 1 - e /\ v = Base - 1 - f
    <3>1. Base - 1 - u \in Nat /\ u = Base - 1 - (Base - 1 - u)
      BY <1>0
    <3>2. Base - 1 - v \in Nat /\ v = Base - 1 - (Base - 1 - v)
      BY <1>0
    <3>. QED BY <3>1, <3>2
  <2>2. u * v = u * Base - u - u * f
    BY <1>0, <2>1
  <2>3. u * f \in Nat /\ u * v \in Nat /\ u * Base \in Nat
    BY <1>0, <2>1
  <2>4. u * Base = Base * Base - Base - e * Base
    BY <1>0, <2>1
  <2>5. e * Base \in Nat
    BY <1>0, <2>1
  <2>. QED BY <1>0, <1>1, <2>2, <2>3, <2>4, <2>5
<1>3. uv % B2 = uv
  <2>1. uv = B2 * 0 + uv
    BY <1>1, <1>2
  <2>. QED BY <1>1, <1>2, <2>1, DivModUnique
<1>4. l = uv \/ l = uv - B2
  BY <1>3 DEF Int32
<1> HIDE DEF uv, l
<1>5. l \in Int /\ l % B2 = uv
  <2>1. l \in Int
    BY <1>1, <1>2, <1>4
  <2>2. l = B2 * 0 + uv \/ l = B2 * (-1) + uv
    BY <1>1, <1>2, <1>4
  <2>. QED BY <1>1, <1>2, <2>1, <2>2, DivModUnique
<1>6. MUL(u, v)[1] = LOW(l) /\ MUL(u, v)[2] = HIGH(l)
  BY DEF MUL, l, uv
<1>7. l % (Base * Base) = LOW(l) + Base * HIGH(l) /\ LOW(l) \in Limb /\ HIGH(l) \in Limb
  BY <1>5, Halves
<1>. QED BY <1>5, <1>6, <1>7 DEF uv

\* A sum of two limbs is its low half and the carry.
LEMMA CarryExact ==
    ASSUME NEW u \in Limb, NEW v \in Limb
    PROVE  /\ CARRY(u, v) \in {0, 1}
           /\ LOW(u + v) \in Limb
           /\ LOW(u + v) + Base * CARRY(u, v) = u + v
<1>0. Base \in Nat \ {0} /\ u \in Nat /\ v \in Nat /\ u <= Base - 1 /\ v <= Base - 1
  BY BaseAssumption DEF Limb
<1>1. CASE u + v > Base - 1
  <2>1. u + v = Base * 1 + (u + v - Base) /\ u + v - Base \in 0..(Base - 1)
    BY <1>0, <1>1
  <2>2. (u + v) % Base = u + v - Base
    <3> DEFINE s == u + v
               d == u + v - Base
    <3>1. s \in Int /\ d \in 0..(Base - 1) /\ s = Base * 1 + d
      BY <1>0, <2>1
    <3> HIDE DEF s, d
    <3>2. s % Base = d
      BY <1>0, <3>1, DivModUnique
    <3>. QED BY <3>2 DEF s, d
  <2>. QED BY <1>0, <1>1, <2>1, <2>2 DEF CARRY, LOW, Limb
<1>2. CASE ~(u + v > Base - 1)
  <2>1. u + v = Base * 0 + (u + v) /\ u + v \in 0..(Base - 1)
    BY <1>0, <1>2
  <2>2. (u + v) % Base = u + v
    BY <1>0, <2>1, DivModUnique
  <2>. QED BY <1>0, <1>2, <2>1, <2>2 DEF CARRY, LOW, Limb
<1>. QED BY <1>1, <1>2

\* The value of three limbs is less than Base^3.
LEMMA ValueBound ==
    ASSUME NEW w \in Word
    PROVE  Gen!Value(w) \in 0..(Base * Base * Base - 1)
<1>0. Base \in Nat \ {0}
  BY BaseAssumption
<1>1. \A l \in 0..2 : w[l] \in 0..(Base - 1)
  BY DEF Word, Limb
<1> DEFINE w0 == w[0]
           w1 == w[1]
           w2 == w[2]
<1>2. w0 \in 0..(Base - 1) /\ w1 \in 0..(Base - 1) /\ w2 \in 0..(Base - 1)
  BY <1>1
<1>3. Gen!Value(w) = w0 + Base * w1 + Base * Base * w2
  BY DEF Gen!Value
<1> HIDE DEF w0, w1, w2
<1>4. PICK e \in Nat, f \in Nat : w1 = Base - 1 - e /\ w2 = Base - 1 - f
  <2>1. Base - 1 - w1 \in Nat /\ w1 = Base - 1 - (Base - 1 - w1)
    BY <1>0, <1>2
  <2>2. Base - 1 - w2 \in Nat /\ w2 = Base - 1 - (Base - 1 - w2)
    BY <1>0, <1>2
  <2>. QED BY <2>1, <2>2
<1>5. Base * w1 = Base * Base - Base - Base * e
  BY <1>0, <1>4
<1>6. Base * Base * w2 = Base * Base * Base - Base * Base - Base * Base * f
  BY <1>0, <1>4
<1>7. Base * e \in Nat /\ Base * Base * f \in Nat /\ Base * w1 \in Nat /\ Base * Base * w2 \in Nat
  BY <1>0, <1>2, <1>4
<1>8. Base * Base \in Nat /\ Base * Base * Base \in Nat
  BY <1>0
<1>. QED BY <1>0, <1>2, <1>3, <1>5, <1>6, <1>7, <1>8

\* The carries add up: a step of the limb arithmetic is a step of the
\* congruence.
LEMMA NextIsLcg ==
    ASSUME NEW a \in Word, NEW c \in Limb, NEW w \in Word
    PROVE  /\ next(a, c, w) \in Word
           /\ Gen!Value(next(a, c, w)) =
                (Gen!Value(a) * Gen!Value(w) + c) % (Base * Base * Base)
<1>0. Base \in Nat \ {0} /\ c \in Limb
  BY BaseAssumption
<1>1. \A v \in Limb : v \in Nat
  BY <1>0 DEF Limb
<1>2. 0 \in Limb /\ \A b \in {0, 1} : b \in Limb
  BY BaseAssumption DEF Limb
<1> DEFINE a0 == a[0]
           a1 == a[1]
           a2 == a[2]
           w0 == w[0]
           w1 == w[1]
           w2 == w[2]
           p == MUL(a[0], w[0])
           carry0 == CARRY(p[1], c)
           carry1 == CARRY(p[2], carry0)
           p1 == LOW(p[2] + carry0)
           q == MUL(a[0], w[1])
           carry2 == CARRY(p1, q[1])
           p2 == LOW(p1 + q[1])
           r == MUL(a[1], w[0])
           carry3 == CARRY(p2, r[1])
           top == carry2 + carry1 + carry3 + q[2] + r[2]
                  + a[0] * w[2] + a[1] * w[1] + a[2] * w[0]
           y0 == LOW(p[1] + c)
           y1 == LOW(p2 + r[1])
           y2 == LOW(top)
           pl == p[1]
           ph == p[2]
           ql == q[1]
           qh == q[2]
           rl == r[1]
           rh == r[2]
<1>3. next(a, c, w) = [n \in 0..2 |-> CASE n = 0 -> y0 [] n = 1 -> y1 [] n = 2 -> y2]
  BY DEF next
<1>4. /\ a0 \in Limb /\ a1 \in Limb /\ a2 \in Limb
      /\ w0 \in Limb /\ w1 \in Limb /\ w2 \in Limb
  BY DEF Word
<1>5. pl \in Limb /\ ph \in Limb /\ pl + Base * ph = a0 * w0
  BY <1>4, MulExact
<1>6. ql \in Limb /\ qh \in Limb /\ ql + Base * qh = a0 * w1
  BY <1>4, MulExact
<1>7. rl \in Limb /\ rh \in Limb /\ rl + Base * rh = a1 * w0
  BY <1>4, MulExact
<1>8. /\ top = carry2 + carry1 + carry3 + qh + rh + a0 * w2 + a1 * w1 + a2 * w0
      /\ y0 = LOW(pl + c) /\ carry0 = CARRY(pl, c)
      /\ p1 = LOW(ph + carry0) /\ carry1 = CARRY(ph, carry0)
      /\ p2 = LOW(p1 + ql) /\ carry2 = CARRY(p1, ql)
      /\ y1 = LOW(p2 + rl) /\ carry3 = CARRY(p2, rl)
  OBVIOUS
<1> HIDE DEF a0, a1, a2, w0, w1, w2, p, q, r, pl, ph, ql, qh, rl, rh, carry0, carry1, carry2,
             carry3, p1, p2, top, y0, y1
<1>9. y0 \in Limb /\ carry0 \in {0, 1} /\ y0 + Base * carry0 = pl + c
  BY <1>5, <1>8, CarryExact
<1>10. p1 \in Limb /\ carry1 \in {0, 1} /\ p1 + Base * carry1 = ph + carry0
  BY <1>2, <1>5, <1>8, <1>9, CarryExact
<1>11. p2 \in Limb /\ carry2 \in {0, 1} /\ p2 + Base * carry2 = p1 + ql
  BY <1>6, <1>8, <1>10, CarryExact
<1>12. y1 \in Limb /\ carry3 \in {0, 1} /\ y1 + Base * carry3 = p2 + rl
  BY <1>7, <1>8, <1>11, CarryExact
<1>13. /\ a0 \in Nat /\ a1 \in Nat /\ a2 \in Nat /\ w0 \in Nat /\ w1 \in Nat /\ w2 \in Nat
       /\ pl \in Nat /\ ph \in Nat /\ ql \in Nat /\ qh \in Nat /\ rl \in Nat /\ rh \in Nat
       /\ p1 \in Nat /\ p2 \in Nat /\ y0 \in Nat /\ y1 \in Nat /\ c \in Nat
       /\ carry0 \in Nat /\ carry1 \in Nat /\ carry2 \in Nat /\ carry3 \in Nat
  BY <1>1, <1>4, <1>5, <1>6, <1>7, <1>9, <1>10, <1>11, <1>12
<1>14. top \in Int
  BY <1>8, <1>13
<1>15. PICK k \in Int : top = Base * k + y2 /\ y2 \in Limb
  <2>1. top \div Base \in Int /\ y2 \in 0..(Base - 1) /\ top = Base * (top \div Base) + y2
    BY <1>0, <1>14, DivMod, Zenon DEF LOW
  <2>. QED BY <2>1, Zenon DEF Limb
<1> HIDE DEF y2
<1>16. y2 \in Nat
  BY <1>1, <1>15
<1>17. /\ next(a, c, w) \in Word
       /\ next(a, c, w)[0] = y0 /\ next(a, c, w)[1] = y1 /\ next(a, c, w)[2] = y2
  <2>1. \A n \in 0..2 : n = 0 \/ n = 1 \/ n = 2
    OBVIOUS
  <2>. QED BY <1>3, <1>9, <1>12, <1>15, <2>1 DEF Word
<1> DEFINE v == y0 + Base * y1 + Base * Base * y2
           s == a0 * w2 + a1 * w1 + a2 * w0
           m == a1 * w2 + a2 * w1 + Base * (a2 * w2)
           full == a0 * w0 + Base * (a0 * w1) + Base * (a1 * w0) + Base * Base * s + c
\* The lower two limbs of the sum, with what they carry into the third.
<1>18. y0 + Base * y1 + Base * Base * (carry1 + carry2 + carry3)
          = pl + c + Base * ph + Base * ql + Base * rl
  <2>1. Base * y1 + Base * Base * carry3 = Base * p2 + Base * rl
    <3>1. Base * (y1 + Base * carry3) = Base * (p2 + rl)
      BY <1>12
    <3>. QED BY <1>0, <1>13, <3>1
  <2>2. Base * p2 + Base * Base * carry2 = Base * p1 + Base * ql
    <3>1. Base * (p2 + Base * carry2) = Base * (p1 + ql)
      BY <1>11
    <3>. QED BY <1>0, <1>13, <3>1
  <2>3. Base * p1 + Base * Base * carry1 = Base * ph + Base * carry0
    <3>1. Base * (p1 + Base * carry1) = Base * (ph + carry0)
      BY <1>10
    <3>. QED BY <1>0, <1>13, <3>1
  <2>4. Base * Base * (carry1 + carry2 + carry3)
           = Base * Base * carry1 + Base * Base * carry2 + Base * Base * carry3
    BY <1>0, <1>13
  <2>5. /\ Base * y1 \in Int /\ Base * p2 \in Int /\ Base * p1 \in Int /\ Base * ph \in Int
        /\ Base * ql \in Int /\ Base * rl \in Int /\ Base * carry0 \in Int
        /\ Base * Base * carry1 \in Int /\ Base * Base * carry2 \in Int
        /\ Base * Base * carry3 \in Int
    BY <1>0, <1>13
  <2>. QED BY <1>0, <1>9, <1>13, <2>1, <2>2, <2>3, <2>4, <2>5
<1>19. Base * Base * y2 + Base * Base * Base * k
          = Base * Base * (carry1 + carry2 + carry3) + Base * Base * qh + Base * Base * rh
            + Base * Base * s
  <2>1. s \in Int
    BY <1>13
  <2>2. Base * k + y2 = (carry1 + carry2 + carry3) + qh + rh + s
    BY <1>8, <1>13, <1>15
  <2> HIDE DEF s
  <2>3. Base * Base * (Base * k + y2) = Base * Base * ((carry1 + carry2 + carry3) + qh + rh + s)
    BY <2>2
  <2>. QED BY <1>0, <1>13, <1>15, <1>16, <2>1, <2>3
<1>20. /\ a0 * w0 = pl + Base * ph
       /\ Base * (a0 * w1) = Base * ql + Base * Base * qh
       /\ Base * (a1 * w0) = Base * rl + Base * Base * rh
  <2>1. Base * (a0 * w1) = Base * (ql + Base * qh)
    BY <1>6
  <2>2. Base * (a1 * w0) = Base * (rl + Base * rh)
    BY <1>7
  <2>3. Base * (ql + Base * qh) = Base * ql + Base * Base * qh
    BY <1>0, <1>13
  <2>4. Base * (rl + Base * rh) = Base * rl + Base * Base * rh
    BY <1>0, <1>13
  <2>. QED BY <1>5, <2>1, <2>2, <2>3, <2>4
<1>21. v + Base * Base * Base * k = full
  <2>1. /\ Base * y1 \in Int /\ Base * Base * y2 \in Int /\ Base * Base * Base * k \in Int
        /\ Base * ph \in Int /\ Base * ql \in Int /\ Base * rl \in Int
        /\ Base * Base * qh \in Int /\ Base * Base * rh \in Int
        /\ Base * Base * (carry1 + carry2 + carry3) \in Int
    BY <1>0, <1>13, <1>15, <1>16
  <2>2. Base * Base * s \in Int
    BY <1>0, <1>13
  <2> DEFINE t == Base * Base * s
             by1 == Base * y1
             by2 == Base * Base * y2
             bk == Base * Base * Base * k
             bp == Base * ph
             bq == Base * ql
             br == Base * rl
             bqh == Base * Base * qh
             brh == Base * Base * rh
             bc == Base * Base * (carry1 + carry2 + carry3)
             x00 == a0 * w0
             x01 == Base * (a0 * w1)
             x10 == Base * (a1 * w0)
  <2>3. y0 + by1 + bc = pl + c + bp + bq + br
    BY <1>18
  <2>4. by2 + bk = bc + bqh + brh + t
    BY <1>19
  <2>5. x00 = pl + bp /\ x01 = bq + bqh /\ x10 = br + brh
    BY <1>20
  <2>6. v = y0 + by1 + by2 /\ full = x00 + x01 + x10 + t + c
    OBVIOUS
  <2>7. /\ by1 \in Int /\ by2 \in Int /\ bk \in Int /\ bp \in Int /\ bq \in Int /\ br \in Int
        /\ bqh \in Int /\ brh \in Int /\ bc \in Int /\ t \in Int
    BY <2>1, <2>2
  <2> HIDE DEF t, by1, by2, bk, bp, bq, br, bqh, brh, bc, x00, x01, x10, v, full
  <2>8. v + bk = full
    BY <1>13, <2>3, <2>4, <2>5, <2>6, <2>7
  <2>. QED BY <2>8 DEF bk
<1>22. Gen!Value(a) * Gen!Value(w) + c = full + Base * Base * Base * m
  <2>1. Gen!Value(a) = a0 + Base * a1 + Base * Base * a2
    BY DEF Gen!Value, a0, a1, a2
  <2>2. Gen!Value(w) = w0 + Base * w1 + Base * Base * w2
    BY DEF Gen!Value, w0, w1, w2
  <2>3. (a0 + Base * a1 + Base * Base * a2) * (w0 + Base * w1 + Base * Base * w2) + c
           = full + Base * Base * Base * m
    BY <1>0, <1>13
  <2>. QED BY <2>1, <2>2, <2>3
<1>23. Gen!Value(next(a, c, w)) = v
  BY <1>17 DEF Gen!Value
<1>24. v \in 0..(Base * Base * Base - 1)
  BY <1>17, <1>23, ValueBound
<1> DEFINE B3 == Base * Base * Base
           sum == Gen!Value(a) * Gen!Value(w) + c
<1>25. sum = B3 * (k + m) + v /\ sum \in Int /\ k + m \in Int /\ B3 \in Nat \ {0}
  <2>1. m \in Int /\ full \in Int /\ v \in Int
    BY <1>0, <1>13, <1>16
  <2>2. sum = v + B3 * k + B3 * m
    BY <1>21, <1>22
  <2>3. B3 \in Nat \ {0}
    BY <1>0
  <2> HIDE DEF m, full, v, B3, sum
  <2>4. B3 * (k + m) = B3 * k + B3 * m /\ B3 * k \in Int /\ B3 * m \in Int
    BY <1>15, <2>1, <2>3
  <2>. QED BY <1>15, <2>1, <2>2, <2>3, <2>4
<1> HIDE DEF m, full, v, B3, sum
<1>26. sum % B3 = v
  <2>1. v \in 0..(B3 - 1)
    BY <1>24 DEF B3
  <2>. QED BY <1>25, <2>1, DivModUnique
<1>. QED BY <1>17, <1>23, <1>26 DEF B3, sum

\* What is drawn are the upper 2N - 1 bits of the value.
LEMMA DrawIsTop ==
    ASSUME NEW w \in Word
    PROVE  Draw(w) = Gen!Value(w) \div (2 * Base)
<1> DEFINE h == Base \div 2
           w0 == w[0]
           w1 == w[1]
           w2 == w[2]
           d == w1 \div 2
           b == w1 % 2
<1>0. h \in Nat \ {0} /\ Base = 2 * h
  BY BaseAssumption
<1>1. w0 \in 0..(Base - 1) /\ w1 \in 0..(Base - 1) /\ w2 \in 0..(Base - 1)
  BY DEF Word, Limb
<1>2. d \in Int /\ b \in {0, 1} /\ w1 = 2 * d + b
  <2>1. w1 \in Int
    BY <1>0, <1>1
  <2>. QED BY <2>1
<1>3. Draw(w) = w2 * h + d /\ Gen!Value(w) = w0 + Base * w1 + Base * Base * w2
  BY DEF Draw, Gen!Value
<1> HIDE DEF h, d, b, w0, w1, w2
<1>4. w0 \in Int /\ w1 \in Int /\ w2 \in Int
  BY <1>0, <1>1
<1>5. Base * w1 = 4 * (h * d) + Base * b
  BY <1>0, <1>2
<1>6. Base * Base * w2 = 4 * (h * (w2 * h))
  BY <1>0, <1>4
<1>7. (2 * Base) * (w2 * h + d) = 4 * (h * (w2 * h)) + 4 * (h * d)
  BY <1>0, <1>2, <1>4
<1> DEFINE q == w2 * h + d
           v == Gen!Value(w)
           r == w0 + Base * b
<1>8. q \in Int /\ r \in 0..(2 * Base - 1) /\ v \in Int
  <2>1. q \in Int
    BY <1>0, <1>2, <1>4
  <2>2. r \in 0..(2 * Base - 1)
    BY <1>0, <1>1, <1>2
  <2>3. v \in Int
    BY <1>0, <1>3, <1>4
  <2>. QED BY <2>1, <2>2, <2>3
<1>9. v = (2 * Base) * q + r
  <2>1. h * d \in Int /\ h * (w2 * h) \in Int /\ Base * b \in Int
    BY <1>0, <1>2, <1>4
  <2>. QED BY <1>3, <1>4, <1>5, <1>6, <1>7, <2>1
<1>10. 2 * Base \in Nat \ {0}
  BY <1>0
<1> HIDE DEF q, v, r
<1>11. v \div (2 * Base) = q
  BY <1>8, <1>9, <1>10, DivModUnique
<1>. QED BY <1>3, <1>11 DEF q, v

\* The seed goes into the upper two limbs whatever its sign.
LEMMA SeededValue ==
    ASSUME NEW X0 \in Limb, NEW sv \in Int
    PROVE  /\ Seeded(X0, sv) \in Word
           /\ Gen!Value(Seeded(X0, sv)) = X0 + Base * (sv % (Base * Base))
<1> DEFINE lo == LOW(sv)
           hi == HIGH(sv)
           e == sv % (Base * Base)
<1>1. lo \in Limb /\ hi \in Limb /\ e = lo + Base * hi
  BY Halves
<1>2. Seeded(X0, sv) = [l \in 0..2 |-> <<X0, lo, hi>>[l + 1]]
  BY DEF Seeded
<1> HIDE DEF lo, hi, e
<1>3. \A l \in 0..2 : l = 0 \/ l = 1 \/ l = 2
  OBVIOUS
<1>4. /\ Seeded(X0, sv) \in Word
      /\ Seeded(X0, sv)[0] = X0 /\ Seeded(X0, sv)[1] = lo /\ Seeded(X0, sv)[2] = hi
  BY <1>1, <1>2, <1>3 DEF Word
<1>5. X0 \in Nat /\ lo \in Nat /\ hi \in Nat /\ Base \in Nat
  BY <1>1, BaseAssumption DEF Limb
<1>6. Base * (lo + Base * hi) = Base * lo + Base * Base * hi
  BY <1>5
<1>7. Gen!Value(Seeded(X0, sv)) = X0 + Base * lo + Base * Base * hi
  BY <1>4 DEF Gen!Value
<1>8. X0 + Base * lo + Base * Base * hi = X0 + Base * e
  <2>1. Base * lo \in Int /\ Base * Base * hi \in Int
    BY <1>5
  <2>. QED BY <1>1, <1>5, <1>6, <2>1
<1>. QED BY <1>4, <1>7, <1>8 DEF e

\* A step of the generator turns limbs into limbs, whatever limbs it starts from.
LEMMA NextWord ==
    ASSUME NEW w \in Word
    PROVE  next(A, C, w) \in Word
BY NextIsLcg, RandAssumption

\* What redisSrand48 leaves in x are limbs.
LEMMA SeededWord == Seeded(X[0], Seed) \in Word
<1>1. X[0] \in Limb
  BY RandAssumption DEF Word
<1>. QED BY <1>1, SeededValue, RandAssumption

\* Every draw is the number of a key.
LEMMA DrawnKeys ==
    ASSUME NEW w \in Word
    PROVE  /\ Draw(w) % NElements \in Key
           /\ ((Draw(w) + 1) * 4) % NElements \in Key
<1>1. w[1] \in Int /\ w[2] \in Int
  BY BaseAssumption DEF Word, Limb
<1>2. Base \div 2 \in Int /\ w[1] \div 2 \in Int
  BY <1>1, BaseAssumption
<1>3. w[2] * (Base \div 2) \in Int
  BY <1>1, <1>2
<1>4. Draw(w) \in Int
  BY <1>2, <1>3 DEF Draw
<1>5. \A d \in Int : d % NElements \in 0..(NElements - 1)
  BY ElementsAssumption
<1>. QED BY <1>4, <1>5 DEF Key

\* The schedule gives every thread a number of iterations.
LEMMA SchedulesType == Schedules \subseteq [Thread -> Nat]
<1>1. Cardinality(Thread) \in Nat /\ Cardinality(Thread) # 0
  BY ThreadAssumption, FS_CardinalityType, FS_EmptySet
<1>2. NLookup \div Cardinality(Thread) \in Nat
  BY <1>1, LookupAssumption
<1>. QED BY <1>2 DEF Schedules

\* The invariant holds when main starts.
LEMMA InitInv == Init => IndInv
<1> SUFFICES ASSUME Init PROVE IndInv
  OBVIOUS
<1>1. TypeOK
  <2>1. left \in [Thread -> Nat]
    BY SchedulesType DEF Init
  <2>2. 0 \in Limb
    BY BaseAssumption DEF Limb
  <2>3. x \in Word
    BY RandAssumption DEF Init
  <2>4. th \in [Thread -> ThreadRec]
    BY <2>2 DEF Init, Load, ThreadRec, Word
  <2>5. hd \in [Thread -> HandlerRec]
    BY DEF Init, NoHandler, HandlerRec
  <2>6. tree \in [Key -> ({"elms", "elms2"} \X Nat) \cup {NULL}]
    BY DEF Init
  <2>7. log \in Seq(Nat \X Nat)
    BY DEF Init
  <2>8. phase \in {"start", "insert", "lookup", "done"} /\ armed \in BOOLEAN
    BY DEF Init
  <2>9. i \in Nat /\ processed \in Nat /\ time_total \in Nat /\ iters \in Nat /\ reported \in Nat
    BY DEF Init
  <2>. QED BY <2>1, <2>3, <2>4, <2>5, <2>6, <2>7, <2>8, <2>9 DEF TypeOK
<1>2. Filled
  BY ElementsAssumption DEF Init, Filled, Load, Key
<1>3. Bounded
  BY DEF Init, Bounded, Load, NoHandler, SamplesBounded
<1>4. OneHandler
  BY DEF Init, OneHandler, NoHandler, SamplesNumbered
<1>5. Account
  BY ThreadAssumption DEF Init, Account, Load, NoHandler
<1>6. Drawing
  BY ThreadAssumption DEF Init, Drawing, Load
<1>. QED BY <1>1, <1>2, <1>3, <1>4, <1>5, <1>6 DEF IndInv

\* Every step keeps the types.
LEMMA TypeInv ==
    ASSUME TypeOK, [Next]_vars
    PROVE  TypeOK'
<1>1. CASE seed
  BY <1>1, SeededWord DEF TypeOK, seed
<1>2. CASE insert_pair
  BY <1>2, ElementsAssumption DEF TypeOK, insert_pair, Key
<1>3. CASE start_lookups
  BY <1>3, ElementsAssumption DEF TypeOK, ThreadRec, HandlerRec, start_lookups
<1>4. CASE exit
  BY <1>4, ElementsAssumption DEF TypeOK, ThreadRec, HandlerRec, exit
<1>5. CASE Terminated
  BY <1>5, ElementsAssumption DEF TypeOK, ThreadRec, HandlerRec, Terminated, vars
<1>6. ASSUME NEW t \in Thread, load_limb(t) PROVE TypeOK'
  <2>1. PICK l \in th[t].todo : th' = [th EXCEPT ![t] = Loaded(@, l)]
    BY <1>6 DEF load_limb
  <2> DEFINE reg == [th[t].reg EXCEPT ![l] = x[l]]
  <2>2. th[t] \in ThreadRec
    BY DEF TypeOK
  <2>3. l \in 0..2
    BY <2>2 DEF ThreadRec
  <2>4. reg \in Word
    BY <2>2, <2>3 DEF TypeOK, ThreadRec, Word
  <2>5. next(A, C, reg) \in Word
    BY <2>4, NextWord
  <2>6. Loaded(th[t], l) = IF th[t].todo = {l}
            THEN [th[t] EXCEPT !.reg = next(A, C, reg), !.todo = 0..2, !.pc = "store"]
            ELSE [th[t] EXCEPT !.reg = reg, !.todo = @ \ {l}]
    BY DEF Loaded
  <2> HIDE DEF reg
  <2>7. Loaded(th[t], l) \in ThreadRec
    BY <2>2, <2>4, <2>5, <2>6 DEF ThreadRec
  <2>8. th' \in [Thread -> ThreadRec]
    BY <2>1, <2>7 DEF TypeOK
  <2>. QED BY <1>6, <2>8 DEF TypeOK, load_limb
<1>7. ASSUME NEW t \in Thread, store_limb(t) PROVE TypeOK'
  <2>1. PICK l \in th[t].todo : /\ x' = [x EXCEPT ![l] = th[t].reg[l]]
                                /\ th' = [th EXCEPT ![t] = Stored(@, l)]
    BY <1>7 DEF store_limb
  <2>2. th[t] \in ThreadRec
    BY DEF TypeOK
  <2>3. l \in 0..2 /\ th[t].reg[l] \in Limb
    BY <2>2 DEF ThreadRec, Word
  <2>4. x' \in Word
    BY <2>1, <2>3 DEF TypeOK, Word
  <2>5. Stored(th[t], l) \in ThreadRec
    BY <2>2 DEF Stored, ThreadRec
  <2>6. th' \in [Thread -> ThreadRec]
    BY <2>1, <2>5 DEF TypeOK
  <2>. QED BY <1>7, <2>4, <2>6 DEF TypeOK, store_limb
<1>8. ASSUME NEW t \in Thread, find(t) PROVE TypeOK'
  <2>1. th' \in [Thread -> ThreadRec]
    BY <1>8 DEF TypeOK, ThreadRec, find
  <2>. QED BY <1>8, <2>1 DEF TypeOK, find
<1>9. ASSUME NEW t \in Thread, load_processed(t) PROVE TypeOK'
  <2>1. th' \in [Thread -> ThreadRec]
    BY <1>9 DEF TypeOK, ThreadRec, load_processed
  <2>. QED BY <1>9, <2>1 DEF TypeOK, load_processed
<1>10. ASSUME NEW t \in Thread, store_processed(t) PROVE TypeOK'
  <2>1. th[t].cnt \in Nat /\ left[t] \in Nat
    BY DEF TypeOK, ThreadRec
  <2>2. 0 \in Limb
    BY BaseAssumption DEF Limb
  <2>3. Load \in ThreadRec
    BY <2>2 DEF Load, ThreadRec, Word
  <2>4. th' \in [Thread -> ThreadRec]
    BY <1>10, <2>3 DEF TypeOK, store_processed
  <2>5. left' \in [Thread -> Nat]
    BY <1>10, <2>1 DEF TypeOK, store_processed, At
  <2>. QED BY <1>10, <2>1, <2>4, <2>5 DEF TypeOK, store_processed
<1>11. ASSUME NEW t \in Thread, SIGALRM(t) PROVE TypeOK'
  <2>1. hd' \in [Thread -> HandlerRec]
    BY <1>11 DEF TypeOK, HandlerRec, SIGALRM
  <2>. QED BY <1>11, <2>1 DEF TypeOK, SIGALRM
<1>12. ASSUME NEW t \in Thread, sig_load(t) PROVE TypeOK'
  <2>1. hd' \in [Thread -> HandlerRec]
    BY <1>12 DEF TypeOK, HandlerRec, sig_load
  <2>. QED BY <1>12, <2>1 DEF TypeOK, sig_load
<1>13. ASSUME NEW t \in Thread, sig_print(t) PROVE TypeOK'
  <2>1. hd[t].time \in Nat /\ hd[t].entries \in Nat
    BY DEF TypeOK, HandlerRec
  <2>2. log' \in Seq(Nat \X Nat)
    BY <1>13, <2>1 DEF TypeOK, sig_print
  <2>3. hd' \in [Thread -> HandlerRec]
    BY <1>13 DEF TypeOK, HandlerRec, sig_print
  <2>. QED BY SMTT(30), <1>13, <2>1, <2>2, <2>3 DEF TypeOK, sig_print
<1>14. ASSUME NEW t \in Thread, sig_reset(t) PROVE TypeOK'
  <2>1. hd' \in [Thread -> HandlerRec]
    BY <1>14 DEF TypeOK, HandlerRec, sig_reset
  <2>. QED BY <1>14, <2>1 DEF TypeOK, sig_reset
<1>15. ASSUME NEW t \in Thread, sig_rearm(t) PROVE TypeOK'
  <2>1. hd' \in [Thread -> HandlerRec]
    BY <1>15 DEF TypeOK, HandlerRec, sig_rearm, NoHandler
  <2>. QED BY <1>15, <2>1 DEF TypeOK, sig_rearm
<1>16. CASE UNCHANGED vars
  BY <1>16, ElementsAssumption DEF TypeOK, ThreadRec, HandlerRec, vars
<1>. QED BY <1>1, <1>2, <1>3, <1>4, <1>5, <1>6, <1>7, <1>8, <1>9, <1>10, <1>11,
            <1>12, <1>13, <1>14, <1>15, <1>16
         DEF Next, Iteration, sig_handler

\* Every step keeps Filled: the insertion of a pair fills the two keys next in turn.
LEMMA FillInv ==
    ASSUME TypeOK, Filled, [Next]_vars
    PROVE  Filled'
<1>1. CASE seed
  BY <1>1 DEF TypeOK, Filled, ThreadRec, seed
<1>2. CASE insert_pair
  <2>1. i \in Nat /\ i' = i + 2 /\ i < NElements /\ i % 2 = 0
    BY <1>2 DEF insert_pair, TypeOK, Filled
  <2>2. i \in Key /\ NElements - i - 1 \in Key
    BY <2>1, ElementsAssumption DEF Key
  <2>3. (NElements - i - 1) % 2 = 1
    BY <2>1, ElementsAssumption
  <2>4. Element(i) = <<"elms", i \div 2>>
    BY <2>1 DEF Element
  <2>5. Element(NElements - i - 1) = <<"elms2", i \div 2>>
    <3>1. NElements - 1 - (NElements - i - 1) = i
      BY <2>1, ElementsAssumption
    <3>. QED BY <2>3, <3>1 DEF Element
  <2>6. ASSUME NEW k \in Key,
               (k % 2 = 0 /\ k < i') \/ (k % 2 = 1 /\ NElements - 1 - k < i')
        PROVE  tree'[k] = Element(k)
    <3>1. tree' = [tree EXCEPT ![i] = Element(i),
                               ![NElements - i - 1] = Element(NElements - i - 1)]
      BY <1>2, <2>4, <2>5 DEF insert_pair
    <3>2. \/ k = i \/ k = NElements - i - 1
          \/ (k % 2 = 0 /\ k < i) \/ (k % 2 = 1 /\ NElements - 1 - k < i)
      BY <2>1, <2>6, ElementsAssumption DEF Key
    <3>. QED BY <2>2, <3>1, <3>2 DEF TypeOK, Filled
  <2>7. i' % 2 = 0
    BY <2>1
  <2>. QED BY <1>2, <2>6, <2>7 DEF Filled, insert_pair
<1>3. CASE start_lookups
  BY <1>3 DEF TypeOK, Filled, ThreadRec, start_lookups
<1>4. CASE exit
  BY <1>4 DEF TypeOK, Filled, ThreadRec, exit
<1>5. CASE Terminated
  BY <1>5 DEF TypeOK, Filled, ThreadRec, Terminated, vars
<1>6. ASSUME NEW t \in Thread, load_limb(t) PROVE Filled'
  BY <1>6 DEF TypeOK, Filled, ThreadRec, load_limb, At
<1>7. ASSUME NEW t \in Thread, store_limb(t) PROVE Filled'
  BY <1>7 DEF TypeOK, Filled, ThreadRec, store_limb, At
<1>8. ASSUME NEW t \in Thread, find(t) PROVE Filled'
  BY <1>8 DEF TypeOK, Filled, ThreadRec, find, At
<1>9. ASSUME NEW t \in Thread, load_processed(t) PROVE Filled'
  BY <1>9 DEF TypeOK, Filled, ThreadRec, load_processed, At
<1>10. ASSUME NEW t \in Thread, store_processed(t) PROVE Filled'
  BY <1>10 DEF TypeOK, Filled, ThreadRec, store_processed, At, Load
<1>11. ASSUME NEW t \in Thread, SIGALRM(t) PROVE Filled'
  BY <1>11 DEF TypeOK, Filled, ThreadRec, SIGALRM
<1>12. ASSUME NEW t \in Thread, sig_load(t) PROVE Filled'
  BY <1>12 DEF TypeOK, Filled, ThreadRec, sig_load, InHandler
<1>13. ASSUME NEW t \in Thread, sig_print(t) PROVE Filled'
  BY <1>13 DEF TypeOK, Filled, ThreadRec, sig_print, InHandler
<1>14. ASSUME NEW t \in Thread, sig_reset(t) PROVE Filled'
  BY <1>14 DEF TypeOK, Filled, ThreadRec, sig_reset, InHandler
<1>15. ASSUME NEW t \in Thread, sig_rearm(t) PROVE Filled'
  BY <1>15 DEF TypeOK, Filled, ThreadRec, sig_rearm, InHandler, NoHandler
<1>16. CASE UNCHANGED vars
  BY <1>16 DEF TypeOK, Filled, ThreadRec, vars
<1>. QED BY <1>1, <1>2, <1>3, <1>4, <1>5, <1>6, <1>7, <1>8, <1>9, <1>10, <1>11,
            <1>12, <1>13, <1>14, <1>15, <1>16
         DEF Next, Iteration, sig_handler

\* The steps of a draw leave the thread's copy of processed alone, and lead
\* neither to nor from its increment.
LEMMA DrawKeeps ==
    ASSUME TypeOK, NEW t \in Thread, load_limb(t) \/ store_limb(t)
    PROVE  \A u \in Thread : /\ th'[u].cnt = th[u].cnt
                             /\ th'[u].pc = "add" <=> th[u].pc = "add"
<1>0. th[t] \in ThreadRec
  BY DEF TypeOK
<1>1. PICK r \in ThreadRec : /\ r.cnt = th[t].cnt
                             /\ r.pc # "add" /\ th[t].pc # "add"
                             /\ th' = [th EXCEPT ![t] = r]
  <2>1. CASE load_limb(t)
    <3>1. PICK l \in th[t].todo : th' = [th EXCEPT ![t] = Loaded(@, l)]
      BY <2>1 DEF load_limb
    <3>2. th[t].pc = "load"
      BY <2>1 DEF load_limb, At
    <3>3. Loaded(th[t], l).cnt = th[t].cnt /\ Loaded(th[t], l).pc # "add"
      BY <1>0, <3>2 DEF Loaded, ThreadRec
    <3>4. Loaded(th[t], l) = th'[t] /\ th'[t] \in ThreadRec
      BY <2>1, <3>1, TypeInv DEF Next, Iteration, TypeOK
    <3>. QED BY <3>1, <3>2, <3>3, <3>4
  <2>2. CASE store_limb(t)
    <3>1. PICK l \in th[t].todo : th' = [th EXCEPT ![t] = Stored(@, l)]
      BY <2>2 DEF store_limb
    <3>2. th[t].pc = "store"
      BY <2>2 DEF store_limb, At
    <3>3. Stored(th[t], l).cnt = th[t].cnt /\ Stored(th[t], l).pc # "add"
      BY <1>0, <3>2 DEF Stored, ThreadRec
    <3>4. Stored(th[t], l) = th'[t] /\ th'[t] \in ThreadRec
      BY <2>2, <3>1, TypeInv DEF Next, Iteration, TypeOK
    <3>. QED BY <3>1, <3>2, <3>3, <3>4
  <2>. QED BY <2>1, <2>2
<1>. QED BY <1>1 DEF TypeOK

\* Every step keeps Bounded: a stored count is a loaded one and one iteration.
LEMMA BoundInv ==
    ASSUME TypeOK, Bounded, [Next]_vars
    PROVE  Bounded'
<1>1. CASE seed
  BY <1>1 DEF TypeOK, Bounded, SamplesBounded, ThreadRec, HandlerRec, seed
<1>2. CASE insert_pair
  BY <1>2 DEF TypeOK, Bounded, SamplesBounded, ThreadRec, HandlerRec, insert_pair
<1>3. CASE start_lookups
  BY <1>3 DEF TypeOK, Bounded, SamplesBounded, ThreadRec, HandlerRec, start_lookups
<1>4. CASE exit
  BY <1>4 DEF TypeOK, Bounded, SamplesBounded, ThreadRec, HandlerRec, exit
<1>5. CASE Terminated
  BY <1>5 DEF TypeOK, Bounded, SamplesBounded, ThreadRec, HandlerRec, Terminated, vars
<1>6. ASSUME NEW t \in Thread, load_limb(t) PROVE Bounded'
  <2>1. \A u \in Thread : /\ th'[u].cnt = th[u].cnt
                          /\ th'[u].pc = "add" <=> th[u].pc = "add"
    BY <1>6, DrawKeeps
  <2>. QED BY <1>6, <2>1 DEF Bounded, SamplesBounded, load_limb
<1>7. ASSUME NEW t \in Thread, store_limb(t) PROVE Bounded'
  <2>1. \A u \in Thread : /\ th'[u].cnt = th[u].cnt
                          /\ th'[u].pc = "add" <=> th[u].pc = "add"
    BY <1>7, DrawKeeps
  <2>. QED BY <1>7, <2>1 DEF Bounded, SamplesBounded, store_limb
<1>8. ASSUME NEW t \in Thread, find(t) PROVE Bounded'
  BY <1>8 DEF TypeOK, Bounded, SamplesBounded, ThreadRec, HandlerRec, find, At
<1>9. ASSUME NEW t \in Thread, load_processed(t) PROVE Bounded'
  BY <1>9 DEF TypeOK, Bounded, SamplesBounded, ThreadRec, HandlerRec, load_processed, At
<1>10. ASSUME NEW t \in Thread, store_processed(t) PROVE Bounded'
  <2>1. iters \in Nat /\ iters' = iters + 1
    BY <1>10 DEF TypeOK, store_processed
  <2>2. th[t].cnt \in Nat /\ th[t].cnt <= iters
    BY DEF TypeOK, ThreadRec, Bounded
  <2>3. processed' <= iters'
    BY <1>10, <2>1, <2>2 DEF store_processed
  <2>4. ASSUME NEW u \in Thread PROVE th'[u].cnt <= iters' /\ hd'[u].entries <= iters'
    <3>1. th[u].cnt \in Nat /\ hd[u].entries \in Nat
      BY DEF TypeOK, ThreadRec, HandlerRec
    <3>2. th'[u].cnt = IF u = t THEN 0 ELSE th[u].cnt
      BY <1>10 DEF store_processed, TypeOK, Load
    <3>. QED BY <1>10, <2>1, <3>1, <3>2 DEF Bounded, store_processed
  <2>5. ASSUME NEW n \in 1..Len(log) PROVE log[n][2] <= iters'
    <3>1. log[n][2] \in Nat
      BY DEF TypeOK
    <3>. QED BY <2>1, <3>1 DEF Bounded, SamplesBounded
  <2>. QED BY <1>10, <2>3, <2>4, <2>5 DEF Bounded, SamplesBounded, store_processed
<1>11. ASSUME NEW t \in Thread, SIGALRM(t) PROVE Bounded'
  BY <1>11 DEF TypeOK, Bounded, SamplesBounded, ThreadRec, HandlerRec, SIGALRM
<1>12. ASSUME NEW t \in Thread, sig_load(t) PROVE Bounded'
  BY <1>12 DEF TypeOK, Bounded, SamplesBounded, ThreadRec, HandlerRec, sig_load, InHandler
<1>13. ASSUME NEW t \in Thread, sig_print(t) PROVE Bounded'
  BY <1>13 DEF TypeOK, Bounded, SamplesBounded, ThreadRec, HandlerRec, sig_print, InHandler
<1>14. ASSUME NEW t \in Thread, sig_reset(t) PROVE Bounded'
  BY <1>14 DEF TypeOK, Bounded, SamplesBounded, ThreadRec, HandlerRec, sig_reset, InHandler
<1>15. ASSUME NEW t \in Thread, sig_rearm(t) PROVE Bounded'
  BY <1>15 DEF TypeOK, Bounded, SamplesBounded, ThreadRec, HandlerRec, sig_rearm, InHandler, NoHandler
<1>16. CASE UNCHANGED vars
  BY <1>16 DEF TypeOK, Bounded, SamplesBounded, ThreadRec, HandlerRec, vars
<1>. QED BY <1>1, <1>2, <1>3, <1>4, <1>5, <1>6, <1>7, <1>8, <1>9, <1>10, <1>11,
            <1>12, <1>13, <1>14, <1>15, <1>16
         DEF Next, Iteration, sig_handler

\* Every step keeps OneHandler.
LEMMA HandlerInv ==
    ASSUME TypeOK, OneHandler, [Next]_vars
    PROVE  OneHandler'
<1>1. CASE seed
  BY <1>1 DEF TypeOK, OneHandler, SamplesNumbered, ThreadRec, HandlerRec, seed
<1>2. CASE insert_pair
  BY <1>2 DEF TypeOK, OneHandler, SamplesNumbered, ThreadRec, HandlerRec, insert_pair
<1>3. CASE start_lookups
  BY <1>3 DEF TypeOK, OneHandler, SamplesNumbered, ThreadRec, HandlerRec, start_lookups
<1>4. CASE exit
  BY <1>4 DEF TypeOK, OneHandler, SamplesNumbered, ThreadRec, HandlerRec, exit
<1>5. CASE Terminated
  BY <1>5 DEF TypeOK, OneHandler, SamplesNumbered, ThreadRec, HandlerRec, Terminated, vars
<1>6. ASSUME NEW t \in Thread, load_limb(t) PROVE OneHandler'
  BY <1>6 DEF TypeOK, OneHandler, SamplesNumbered, ThreadRec, HandlerRec, load_limb, At
<1>7. ASSUME NEW t \in Thread, store_limb(t) PROVE OneHandler'
  BY <1>7 DEF TypeOK, OneHandler, SamplesNumbered, ThreadRec, HandlerRec, store_limb, At
<1>8. ASSUME NEW t \in Thread, find(t) PROVE OneHandler'
  BY <1>8 DEF TypeOK, OneHandler, SamplesNumbered, ThreadRec, HandlerRec, find, At
<1>9. ASSUME NEW t \in Thread, load_processed(t) PROVE OneHandler'
  BY <1>9 DEF TypeOK, OneHandler, SamplesNumbered, ThreadRec, HandlerRec, load_processed, At
<1>10. ASSUME NEW t \in Thread, store_processed(t) PROVE OneHandler'
  BY <1>10 DEF TypeOK, OneHandler, SamplesNumbered, ThreadRec, HandlerRec, store_processed, At, Load
<1>11. ASSUME NEW t \in Thread, SIGALRM(t) PROVE OneHandler'
  BY <1>11 DEF TypeOK, OneHandler, SamplesNumbered, ThreadRec, HandlerRec, SIGALRM
<1>12. ASSUME NEW t \in Thread, sig_load(t) PROVE OneHandler'
  BY <1>12 DEF TypeOK, OneHandler, SamplesNumbered, ThreadRec, HandlerRec, sig_load, InHandler
<1>13. ASSUME NEW t \in Thread, sig_print(t) PROVE OneHandler'
  <2>1. hd[t].time = time_total + 1 /\ hd[t].pc = "print"
    BY <1>13 DEF OneHandler, sig_print, InHandler
  <2>2. /\ Len(log') = time_total' /\ time_total \in Nat /\ time_total' = time_total + 1
        /\ Len(log) = time_total
    BY <1>13, <2>1 DEF TypeOK, OneHandler, sig_print
  <2>3. ASSUME NEW n \in 1..Len(log') PROVE log'[n][1] = n
    BY <1>13, <2>1, <2>2 DEF TypeOK, OneHandler, SamplesNumbered, sig_print
  <2>4. \A u \in Thread : hd'[u].pc = IF u = t THEN "reset" ELSE hd[u].pc
    BY <1>13 DEF TypeOK, HandlerRec, sig_print
  <2>5. \A u \in Thread : hd[u].pc # "none" => u = t
    BY <2>1 DEF OneHandler
  <2>6. ~armed /\ phase = "lookup"
    BY <1>13, <2>1 DEF OneHandler, sig_print, InHandler
  <2>. QED BY <1>13, <2>2, <2>3, <2>4, <2>5, <2>6 DEF OneHandler, SamplesNumbered, sig_print
<1>14. ASSUME NEW t \in Thread, sig_reset(t) PROVE OneHandler'
  BY SMTT(30), <1>14 DEF TypeOK, OneHandler, SamplesNumbered, ThreadRec, HandlerRec, sig_reset, InHandler
<1>15. ASSUME NEW t \in Thread, sig_rearm(t) PROVE OneHandler'
  BY <1>15 DEF TypeOK, OneHandler, SamplesNumbered, ThreadRec, HandlerRec, sig_rearm, InHandler, NoHandler
<1>16. CASE UNCHANGED vars
  BY <1>16 DEF TypeOK, OneHandler, SamplesNumbered, ThreadRec, HandlerRec, vars
<1>. QED BY <1>1, <1>2, <1>3, <1>4, <1>5, <1>6, <1>7, <1>8, <1>9, <1>10, <1>11,
            <1>12, <1>13, <1>14, <1>15, <1>16
         DEF Next, Iteration, sig_handler

\* Every step keeps Account.
LEMMA AccountInv ==
    ASSUME TypeOK, Account, [Next]_vars
    PROVE  Account'
<1>1. CASE seed
  BY <1>1, ThreadAssumption DEF TypeOK, Account, ThreadRec, HandlerRec, seed
<1>2. CASE insert_pair
  BY <1>2, ThreadAssumption DEF TypeOK, Account, ThreadRec, HandlerRec, insert_pair
<1>3. CASE start_lookups
  BY <1>3, ThreadAssumption DEF TypeOK, Account, ThreadRec, HandlerRec, start_lookups
<1>4. CASE exit
  BY <1>4, ThreadAssumption DEF TypeOK, Account, ThreadRec, HandlerRec, exit
<1>5. CASE Terminated
  BY <1>5, ThreadAssumption DEF TypeOK, Account, ThreadRec, HandlerRec, Terminated, vars
<1>6. ASSUME NEW t \in Thread, load_limb(t) PROVE Account'
  <2>1. \A u \in Thread : /\ th'[u].cnt = th[u].cnt
                          /\ th'[u].pc = "add" <=> th[u].pc = "add"
    BY <1>6, DrawKeeps
  <2>2. /\ th'[Main].cnt = th[Main].cnt
        /\ th'[Main].pc = "add" => th[Main].pc = "add"
    BY <2>1, ThreadAssumption
  <2>3. UNCHANGED <<hd, processed, iters, reported>>
    BY <1>6 DEF load_limb
  <2>. QED BY <2>2, <2>3 DEF Account
<1>7. ASSUME NEW t \in Thread, store_limb(t) PROVE Account'
  <2>1. \A u \in Thread : /\ th'[u].cnt = th[u].cnt
                          /\ th'[u].pc = "add" <=> th[u].pc = "add"
    BY <1>7, DrawKeeps
  <2>2. /\ th'[Main].cnt = th[Main].cnt
        /\ th'[Main].pc = "add" => th[Main].pc = "add"
    BY <2>1, ThreadAssumption
  <2>3. UNCHANGED <<hd, processed, iters, reported>>
    BY <1>7 DEF store_limb
  <2>. QED BY <2>2, <2>3 DEF Account
<1>8. ASSUME NEW t \in Thread, find(t) PROVE Account'
  BY <1>8, ThreadAssumption DEF TypeOK, Account, ThreadRec, HandlerRec, find, At
<1>9. ASSUME NEW t \in Thread, load_processed(t) PROVE Account'
  BY <1>9, ThreadAssumption DEF TypeOK, Account, ThreadRec, HandlerRec, load_processed, At
<1>10. ASSUME NEW t \in Thread, store_processed(t) PROVE Account'
  <2>. SUFFICES ASSUME Thread = {Main} PROVE Account'
    BY DEF Account
  <2>1. t = Main
    BY <1>10
  <2>2. /\ th[Main].pc = "add" /\ hd[Main].pc = "none"
        /\ processed' = th[Main].cnt + 1 /\ iters' = iters + 1
        /\ UNCHANGED <<hd, reported>>
        /\ th'[Main].pc = "load"
    BY <1>10, <2>1 DEF TypeOK, store_processed, At, Load
  <2>3. th[Main].cnt = processed /\ iters = reported + processed
    BY <2>2 DEF Account
  <2>4. iters' = reported' + processed'
    BY <2>2, <2>3 DEF TypeOK
  <2>. QED BY <2>2, <2>4 DEF Account
<1>11. ASSUME NEW t \in Thread, SIGALRM(t) PROVE Account'
  BY <1>11, ThreadAssumption DEF TypeOK, Account, ThreadRec, HandlerRec, SIGALRM
<1>12. ASSUME NEW t \in Thread, sig_load(t) PROVE Account'
  BY <1>12, ThreadAssumption DEF TypeOK, Account, ThreadRec, HandlerRec, sig_load, InHandler
<1>13. ASSUME NEW t \in Thread, sig_print(t) PROVE Account'
  BY <1>13, ThreadAssumption DEF TypeOK, Account, ThreadRec, HandlerRec, sig_print, InHandler
<1>14. ASSUME NEW t \in Thread, sig_reset(t) PROVE Account'
  BY <1>14, ThreadAssumption DEF TypeOK, Account, ThreadRec, HandlerRec, sig_reset, InHandler
<1>15. ASSUME NEW t \in Thread, sig_rearm(t) PROVE Account'
  BY <1>15, ThreadAssumption DEF TypeOK, Account, ThreadRec, HandlerRec, sig_rearm, InHandler, NoHandler
<1>16. CASE UNCHANGED vars
  BY <1>16, ThreadAssumption DEF TypeOK, Account, ThreadRec, HandlerRec, vars
<1>. QED BY <1>1, <1>2, <1>3, <1>4, <1>5, <1>6, <1>7, <1>8, <1>9, <1>10, <1>11,
            <1>12, <1>13, <1>14, <1>15, <1>16
         DEF Next, Iteration, sig_handler

\* What the loading or the storing of limb l does to the registers and to x:
\* the last load, another load, a store.
DrawStep(l) ==
    LET r == th[Main]
        reg == [r.reg EXCEPT ![l] = x[l]]
    IN  /\ l \in 0..2
        /\ \/ /\ r.pc = "load" /\ r.todo = {l} /\ x' = x
              /\ th'[Main].pc = "store" /\ th'[Main].todo = 0..2
              /\ th'[Main].reg = next(A, C, reg)
           \/ /\ r.pc = "load" /\ r.todo # {l} /\ x' = x
              /\ th'[Main].pc = "load" /\ th'[Main].todo = r.todo \ {l}
              /\ th'[Main].reg = reg
           \/ /\ r.pc = "store" /\ x' = [x EXCEPT ![l] = r.reg[l]]
              /\ th'[Main].pc = IF r.todo = {l} THEN "find" ELSE "store"
              /\ th'[Main].todo = r.todo \ {l}
              /\ th'[Main].reg = r.reg

\* A single thread's draw consists of such steps.
LEMMA DrawSteps ==
    ASSUME TypeOK, Thread = {Main},
           load_limb(Main) \/ store_limb(Main)
    PROVE  /\ phase = "lookup" /\ UNCHANGED <<phase, iters>>
           /\ \E l \in th[Main].todo : DrawStep(l)
<1>0. Main \in Thread /\ th[Main] \in ThreadRec
  BY ThreadAssumption DEF TypeOK
<1>1. phase = "lookup" /\ UNCHANGED <<phase, iters>>
  BY DEF load_limb, store_limb, At
<1>2. CASE load_limb(Main)
  <2>1. PICK l \in th[Main].todo : th' = [th EXCEPT ![Main] = Loaded(@, l)]
    BY <1>2 DEF load_limb
  <2>2. th[Main].pc = "load" /\ x' = x
    BY <1>2 DEF load_limb, At
  <2>3. l \in 0..2
    BY <1>0 DEF ThreadRec
  <2> DEFINE reg == [th[Main].reg EXCEPT ![l] = x[l]]
  <2>4. th'[Main] = IF th[Main].todo = {l}
            THEN [th[Main] EXCEPT !.reg = next(A, C, reg), !.todo = 0..2, !.pc = "store"]
            ELSE [th[Main] EXCEPT !.reg = reg, !.todo = @ \ {l}]
    BY <1>0, <2>1 DEF TypeOK, Loaded
  <2> HIDE DEF reg
  <2>5. CASE th[Main].todo = {l}
    <3>1. /\ th'[Main].pc = "store" /\ th'[Main].todo = 0..2
          /\ th'[Main].reg = next(A, C, reg)
      BY <1>0, <2>4, <2>5 DEF ThreadRec
    <3>. QED BY <1>1, <2>2, <2>3, <2>5, <3>1 DEF reg, DrawStep
  <2>6. CASE th[Main].todo # {l}
    <3>1. /\ th'[Main].pc = "load" /\ th'[Main].todo = th[Main].todo \ {l}
          /\ th'[Main].reg = reg
      BY <1>0, <2>2, <2>4, <2>6 DEF ThreadRec
    <3>. QED BY <1>1, <2>2, <2>3, <2>6, <3>1 DEF reg, DrawStep
  <2>. QED BY <2>5, <2>6
<1>3. CASE store_limb(Main)
  <2>1. PICK l \in th[Main].todo : /\ x' = [x EXCEPT ![l] = th[Main].reg[l]]
                                   /\ th' = [th EXCEPT ![Main] = Stored(@, l)]
    BY <1>3 DEF store_limb
  <2>2. th[Main].pc = "store"
    BY <1>3 DEF store_limb, At
  <2>3. l \in 0..2
    BY <1>0 DEF ThreadRec
  <2>4. th'[Main] = Stored(th[Main], l)
    BY <1>0, <2>1 DEF TypeOK
  <2>5. /\ th'[Main].pc = IF th[Main].todo = {l} THEN "find" ELSE "store"
        /\ th'[Main].todo = th[Main].todo \ {l}
        /\ th'[Main].reg = th[Main].reg
    BY <1>0, <2>2, <2>4 DEF Stored, ThreadRec
  <2>. QED BY <1>1, <2>1, <2>2, <2>3, <2>5 DEF DrawStep
<1>. QED BY <1>2, <1>3

\* Every step keeps Drawing.
LEMMA DrawingInv ==
    ASSUME TypeOK, Drawing, [Next]_vars
    PROVE  Drawing'
<1> SUFFICES ASSUME Thread = {Main} PROVE Drawing'
  BY DEF Drawing
<1>0. Main \in Thread /\ th[Main] \in ThreadRec /\ x \in Word
  BY ThreadAssumption DEF TypeOK
<1>1. CASE load_limb(Main) \/ store_limb(Main)
  <2>1. PICK l \in th[Main].todo : DrawStep(l)
    BY <1>1, DrawSteps
  <2>2. phase' = "lookup"
    BY <1>1, DrawSteps
  <2>3. th[Main].pc \in {"load", "store"} =>
              \A m \in 0..2 : m \in th[Main].todo \/ th[Main].reg[m] = x[m]
    BY DEF Drawing
  <2>4. th[Main].reg \in Word
    BY <1>0 DEF ThreadRec
  <2>5. ASSUME th'[Main].pc \in {"load", "store"}, NEW m \in 0..2
        PROVE  m \in th'[Main].todo \/ th'[Main].reg[m] = x'[m]
    BY <1>0, <2>1, <2>3, <2>4, <2>5 DEF Word, DrawStep
  <2>. QED BY <2>2, <2>5 DEF Drawing
<1>2. CASE UNCHANGED <<th, x, iters>> /\ phase' \in {phase, "insert", "lookup", "done"}
                                     /\ (phase' = "insert" => phase = "insert")
  BY <1>2 DEF Drawing
<1>3. CASE seed
  <2>1. th'[Main] = Load /\ iters' = 0 /\ phase' = "insert"
    BY <1>3 DEF seed, Drawing
  <2>. QED BY <2>1 DEF Drawing, Load
<1>4. CASE find(Main) \/ load_processed(Main)
  <2>1. phase' = "lookup"
    BY <1>4 DEF find, load_processed, At
  <2>2. CASE find(Main)
    <3>1. th'[Main].pc = "count"
      BY <1>0, <2>2 DEF find, TypeOK, ThreadRec
    <3>. QED BY <2>1, <3>1 DEF Drawing
  <2>3. CASE load_processed(Main)
    <3>1. th'[Main] = [th[Main] EXCEPT !.pc = "add", !.cnt = processed]
      BY <1>0, <2>3 DEF load_processed, TypeOK
    <3>2. th'[Main].pc = "add"
      BY <1>0, <3>1 DEF ThreadRec
    <3>. QED BY <2>1, <3>2 DEF Drawing
  <2>. QED BY <1>4, <2>2, <2>3
<1>5. CASE store_processed(Main)
  <2>1. th'[Main] = Load /\ phase' = "lookup"
    BY <1>0, <1>5 DEF store_processed, At, TypeOK
  <2>. QED BY <2>1 DEF Drawing, Load
<1>6. CASE insert_pair \/ start_lookups \/ exit \/ Terminated \/ UNCHANGED vars
  BY <1>2, <1>6 DEF insert_pair, start_lookups, exit, Terminated, vars
<1>7. CASE SIGALRM(Main) \/ sig_handler(Main)
  BY <1>2, <1>7 DEF SIGALRM, sig_handler, sig_load, sig_print, sig_reset, sig_rearm, InHandler
<1>. QED BY <1>1, <1>3, <1>4, <1>5, <1>6, <1>7 DEF Next, Iteration

\* The invariant is inductive.
THEOREM ThroughputInductive == Spec => []IndInv
<1>1. IndInv /\ [Next]_vars => IndInv'
  BY TypeInv, FillInv, BoundInv, HandlerInv, AccountInv, DrawingInv DEF IndInv
<1>. QED BY <1>1, InitInv, PTL DEF Spec

\* However the threads' draws interleave, every lookup finds the element that
\* was inserted with its key.
THEOREM AllLookupsHit == Spec => []LookupsHit
<1>1. ASSUME IndInv PROVE LookupsHit
  <2> SUFFICES ASSUME NEW t \in Thread, th[t].pc = "find", NEW k \in LookedUp(t)
               PROVE  k \in Key /\ tree[k] = Element(k)
    BY DEF LookupsHit
  <2>1. th[t].reg \in Word
    BY <1>1 DEF IndInv, TypeOK, ThreadRec
  <2>2. k \in Key
    BY <2>1, DrawnKeys DEF LookedUp
  <2>3. i \in Nat /\ i >= NElements
    BY <1>1 DEF IndInv, TypeOK, Filled
  <2>4. (k % 2 = 0 /\ k < i) \/ (k % 2 = 1 /\ NElements - 1 - k < i)
    BY <2>2, <2>3, ElementsAssumption DEF Key
  <2>. QED BY <1>1, <2>2, <2>4 DEF IndInv, Filled
<1>. QED BY <1>1, ThroughputInductive, PTL

\* No sample shows more entries than iterations were done.
THEOREM SamplesNeverInflated == Spec => []SamplesBounded
<1>1. IndInv => SamplesBounded
  BY DEF IndInv, Bounded
<1>. QED BY <1>1, ThroughputInductive, PTL

\* The samples are numbered in the order they are written.
THEOREM SamplesInOrder == Spec => []SamplesNumbered
<1>1. IndInv => SamplesNumbered
  BY DEF IndInv, OneHandler
<1>. QED BY <1>1, ThroughputInductive, PTL

\* With a single thread the samples and the counter add up to the iterations.
THEOREM SingleThreadExact == Spec => []ExactAccount
<1>1. IndInv => ExactAccount
  BY DEF IndInv, Account, ExactAccount
<1>. QED BY <1>1, ThroughputInductive, PTL

\* Generator's copies of the operators of Rand48 are Throughput's.
LEMMA SameArithmetic ==
    /\ \A w : Gen!next(A, C, w) = next(A, C, w)
    /\ \A w : Gen!Draw(w) = Draw(w)
    /\ Gen!Seeded(X[0], Seed) = Seeded(X[0], Seed)
<1>1. \A w : Gen!next(A, C, w) = next(A, C, w)
  BY Zenon DEF Gen!next, next, Gen!MUL, MUL, Gen!CARRY, CARRY, Gen!LOW, LOW, Gen!HIGH, HIGH,
         Gen!Int32, Int32
<1>2. \A w : Gen!Draw(w) = Draw(w)
  BY Zenon DEF Gen!Draw, Draw
<1>3. Gen!Seeded(X[0], Seed) = Seeded(X[0], Seed)
  BY Zenon DEF Gen!Seeded, Seeded, Gen!LOW, LOW, Gen!HIGH, HIGH
<1>. QED BY <1>1, <1>2, <1>3

\* What the generator has drawn when the threads are here.
Drawn == IF iters = 0 /\ th[Main].pc = "load" THEN 0 ELSE Draw(Limbs)

\* With one thread, as under numactl -C 0, the loads and stores of the limbs
\* implement the generator: between a load and a store of one draw nothing
\* else writes x, so that every lookup's draw is the successor of the last.
THEOREM OneThreadDraws ==
    ASSUME Thread = {Main}
    PROVE  Spec => ImplementsGenerator
<1>0. Main \in Thread
  BY ThreadAssumption
<1>1. Init => Gen!Init
  <2> SUFFICES ASSUME Init PROVE Gen!Init
    OBVIOUS
  <2>1. th[Main].pc = "load" /\ x = X /\ iters = 0 /\ phase = "start"
    BY <1>0 DEF Init, Load
  <2>. QED BY <2>1 DEF Gen!Init, Limbs
<1>2. IndInv /\ [Next]_vars => [Gen!Next]_(Gen!vars)
  <2> SUFFICES ASSUME IndInv, [Next]_vars PROVE [Gen!Next]_(Gen!vars)
    OBVIOUS
  <2>0. /\ TypeOK /\ Drawing /\ th[Main] \in ThreadRec /\ th[Main].reg \in Word
        /\ x \in Word /\ iters \in Nat
    BY <1>0 DEF IndInv, TypeOK, ThreadRec
  <2>1. (Limbs' = Limbs /\ Drawn' = Drawn /\ (phase' = "start" <=> phase = "start"))
           => UNCHANGED Gen!vars
    BY DEF Gen!vars, Drawn
  <2>2. CASE UNCHANGED <<th, x, iters>> /\ (phase' = "start" <=> phase = "start")
    <3>1. Limbs' = Limbs
      BY <2>2 DEF Limbs
    <3>2. Drawn' = Drawn
      BY <2>2, <3>1 DEF Drawn, Draw
    <3>. QED BY <2>1, <2>2, <3>1, <3>2
  <2>3. CASE seed
    <3>1. th[Main].pc = "load" /\ iters = 0 /\ phase = "start" /\ phase' = "insert"
      BY <2>0, <2>3 DEF seed, Drawing, Load
    <3>2. UNCHANGED <<th, iters>> /\ x' = Gen!Seeded(X[0], Seed)
      BY <2>3, SameArithmetic DEF seed
    <3>3. Gen!redisSrand48(Seed)
      BY <3>1, <3>2 DEF Gen!redisSrand48, Limbs
    <3>. QED BY <3>3 DEF Gen!Next
  <2>4. CASE load_limb(Main) \/ store_limb(Main)
    <3>1. PICK l \in th[Main].todo : DrawStep(l)
      BY <2>0, <2>4, DrawSteps
    <3>2. phase = "lookup" /\ phase' = phase /\ iters' = iters
      BY <2>0, <2>4, DrawSteps
    <3>3. \A m \in 0..2 : m \in th[Main].todo \/ th[Main].reg[m] = x[m]
      BY <2>0, <3>1 DEF Drawing, DrawStep
    <3>4. CASE th[Main].pc = "load" /\ th[Main].todo = {l}
      <4>1. [th[Main].reg EXCEPT ![l] = x[l]] = x
        <5> DEFINE reg == [th[Main].reg EXCEPT ![l] = x[l]]
        <5>1. reg \in [0..2 -> Limb]
          BY <2>0, <3>1 DEF Word, DrawStep
        <5>2. x \in [0..2 -> Limb]
          BY <2>0 DEF Word
        <5>3. \A m \in 0..2 : reg[m] = x[m]
          BY <2>0, <3>1, <3>3, <3>4 DEF Word, DrawStep
        <5> HIDE DEF reg
        <5>4. reg = x
          BY <5>1, <5>2, <5>3
        <5>. QED BY <5>4 DEF reg
      <4>2. th'[Main].pc = "store" /\ th'[Main].reg = Gen!next(A, C, x)
        BY <3>1, <3>4, <4>1, SameArithmetic DEF DrawStep
      <4>3. Limbs = x /\ Limbs' = Gen!next(A, C, Limbs)
        BY <3>4, <4>2 DEF Limbs
      <4>4. Drawn' = Gen!Draw(Limbs')
        BY <4>2, SameArithmetic DEF Drawn, Draw, Gen!Draw
      <4>5. Gen!redisLrand48
        BY <3>2, <4>3, <4>4 DEF Gen!redisLrand48, Drawn
      <4>. QED BY <4>5 DEF Gen!Next
    <3>5. CASE th[Main].pc = "load" /\ th[Main].todo # {l}
      <4>1. th'[Main].pc = "load" /\ x' = x
        BY <3>1, <3>5 DEF DrawStep
      <4>2. Limbs' = Limbs
        BY <3>5, <4>1 DEF Limbs
      <4>3. Drawn' = Drawn
        BY <3>2, <3>5, <4>1, <4>2 DEF Drawn, Draw
      <4>. QED BY <2>1, <3>2, <4>2, <4>3
    <3>6. CASE th[Main].pc = "store"
      <4>1. /\ th'[Main].reg = th[Main].reg /\ x' = [x EXCEPT ![l] = th[Main].reg[l]]
            /\ th'[Main].pc = IF th[Main].todo = {l} THEN "find" ELSE "store"
        BY <3>1, <3>6 DEF DrawStep
      <4>2. Limbs' = Limbs
        <5>1. CASE th[Main].todo = {l}
          <6>1. x' \in [0..2 -> Limb] /\ th[Main].reg \in [0..2 -> Limb]
            BY <2>0, <3>1, <4>1 DEF Word, DrawStep
          <6>2. \A m \in 0..2 : x'[m] = th[Main].reg[m]
            BY <2>0, <3>1, <3>3, <4>1, <5>1 DEF Word, DrawStep
          <6>3. x' = th[Main].reg
            BY <6>1, <6>2
          <6>. QED BY <3>6, <4>1, <5>1, <6>3 DEF Limbs
        <5>2. CASE th[Main].todo # {l}
          BY <3>6, <4>1, <5>2 DEF Limbs
        <5>. QED BY <5>1, <5>2
      <4>3. th'[Main].pc # "load"
        BY <4>1
      <4>4. Drawn' = Drawn
        BY <3>6, <4>2, <4>3 DEF Drawn, Draw
      <4>. QED BY <2>1, <3>2, <4>2, <4>4
    <3>. QED BY <3>1, <3>4, <3>5, <3>6 DEF DrawStep
  <2>5. CASE find(Main) \/ load_processed(Main)
    <3>0. th[Main].pc \in {"find", "count"} /\ UNCHANGED <<phase, x>>
      BY <2>5 DEF find, load_processed, At
    <3>1. th'[Main].pc \in {"count", "add"}
      <4>1. CASE find(Main)
        BY <1>0, <2>0, <4>1 DEF find, TypeOK, ThreadRec
      <4>2. CASE load_processed(Main)
        <5>1. th'[Main] = [th[Main] EXCEPT !.pc = "add", !.cnt = processed]
          BY <1>0, <2>0, <4>2 DEF load_processed, TypeOK
        <5>. QED BY <2>0, <5>1 DEF ThreadRec
      <4>. QED BY <2>5, <4>1, <4>2
    <3>2. Limbs' = Limbs
      BY <3>0, <3>1 DEF Limbs
    <3>3. Drawn' = Drawn
      BY <3>0, <3>1, <3>2 DEF Drawn, Draw
    <3>. QED BY <2>1, <3>0, <3>2, <3>3
  <2>6. CASE store_processed(Main)
    <3>1. /\ th[Main].pc = "add" /\ th'[Main].pc = "load" /\ iters' = iters + 1
          /\ UNCHANGED <<phase, x>>
      BY <1>0, <2>0, <2>6 DEF store_processed, At, TypeOK, Load
    <3>2. Limbs' = Limbs
      BY <3>1 DEF Limbs
    <3>3. iters' # 0
      BY <2>0, <3>1
    <3>4. Drawn' = Drawn
      BY <3>1, <3>2, <3>3 DEF Drawn, Draw
    <3>. QED BY <2>1, <3>1, <3>2, <3>4
  <2>7. CASE insert_pair \/ start_lookups \/ exit \/ Terminated \/ UNCHANGED vars
    BY <2>2, <2>7 DEF insert_pair, start_lookups, exit, Terminated, vars
  <2>8. CASE SIGALRM(Main) \/ sig_handler(Main)
    BY <2>2, <2>8 DEF SIGALRM, sig_handler, sig_load, sig_print, sig_reset, sig_rearm
  <2>. QED BY <2>3, <2>4, <2>5, <2>6, <2>7, <2>8 DEF Next, Iteration
<1>. QED BY <1>1, <1>2, ThroughputInductive, PTL DEF Spec, ImplementsGenerator, Gen!Spec

\* And those draws are the linear congruence: the signed products, the masks and
\* the three carries of next compute a x + c mod Base^3, redisLrand48 returns its
\* upper bits, and redisSrand48 starts it from the seed, negative or not.
THEOREM OneThreadCongruence ==
    ASSUME Thread = {Main}
    PROVE  Spec => Gen!IsLcg
<1> DEFINE Congruence ==
        IF phase # "start"
        THEN /\ Gen!Value(Limbs') = (Gen!Value(A) * Gen!Value(Limbs) + C) % (Base * Base * Base)
             /\ Drawn' = Gen!Value(Limbs') \div (2 * Base)
        ELSE \E s \in {Seed} : Gen!Value(Limbs') = X[0] + Base * (s % (Base * Base))
<1>1. IndInv /\ [Gen!Next]_(Gen!vars) => [Congruence]_(Gen!vars)
  <2> SUFFICES ASSUME IndInv, Gen!Next PROVE Congruence
    OBVIOUS
  <2>1. Limbs \in Word
    BY ThreadAssumption DEF IndInv, TypeOK, ThreadRec, Limbs
  <2>2. CASE Gen!redisLrand48
    <3>1. Limbs' = next(A, C, Limbs) /\ Drawn' = Draw(Limbs') /\ phase # "start"
      BY <2>2, SameArithmetic DEF Gen!redisLrand48, Drawn
    <3>2. /\ Limbs' \in Word
          /\ Gen!Value(Limbs') = (Gen!Value(A) * Gen!Value(Limbs) + C) % (Base * Base * Base)
      BY <2>1, <3>1, NextIsLcg, RandAssumption, Zenon
    <3>3. Drawn' = Gen!Value(Limbs') \div (2 * Base)
      BY <3>1, <3>2, DrawIsTop, Zenon
    <3>. QED BY <3>1, <3>2, <3>3, Zenon
  <2>3. CASE Gen!redisSrand48(Seed)
    <3>1. Limbs' = Seeded(X[0], Seed) /\ phase = "start"
      BY <2>3, SameArithmetic DEF Gen!redisSrand48
    <3>2. X[0] \in Limb
      BY RandAssumption DEF Word
    <3>3. Gen!Value(Limbs') = X[0] + Base * (Seed % (Base * Base))
      BY <3>1, <3>2, SeededValue, RandAssumption, Zenon
    <3>. QED BY <3>1, <3>3, Zenon
  <2>. QED BY <2>2, <2>3 DEF Gen!Next
<1>2. [][Congruence]_(Gen!vars) => Gen!IsLcg
  BY PTL DEF Gen!IsLcg, Drawn
<1>. QED BY <1>1, <1>2, ThroughputInductive, OneThreadDraws, PTL
         DEF ImplementsGenerator, Gen!Spec
=============================================================================

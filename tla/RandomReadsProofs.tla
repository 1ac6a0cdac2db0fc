-------------------------- MODULE RandomReadsProofs --------------------------
(***************************************************************************)
(* What RandomReads guarantees for every width of the words, every page    *)
(* size, every number of pages and loops, and every multiplier and         *)
(* increment like the code's.  First division; then that such a generator  *)
(* goes through all of its states before it repeats one; then the two      *)
(* programs.                                                               *)
(***************************************************************************)
EXTENDS RandomReads, WellFoundedInduction, TLAPS

\* A number is a multiple of n and a remainder.
LEMMA DivMod ==
    ASSUME NEW v \in Int, NEW n \in Nat \ {0}
    PROVE  /\ v \div n \in Int /\ v % n \in 0..(n - 1)
           /\ v = n * (v \div n) + (v % n)
BY Z3

\* In one way only.
LEMMA DivModUnique ==
    ASSUME NEW v \in Int, NEW n \in Nat \ {0}, NEW q \in Int, NEW r \in 0..(n - 1),
           v = n * q + r
    PROVE  v \div n = q /\ v % n = r
<1> DEFINE d == v \div n
           m == v % n
<1>0. d \in Int /\ m \in 0..(n - 1) /\ v = n * d + m
  BY DivMod, Zenon
<1> HIDE DEF d, m
<1>1. d \in Int /\ m \in Int /\ 0 <= m /\ m < n /\ v = n * d + m
  BY <1>0
<1>2. ~(d > q)
  <2> SUFFICES ASSUME d > q PROVE FALSE
    OBVIOUS
  <2>1. PICK e \in Nat : d = q + 1 + e
    <3>1. d - q - 1 \in Nat /\ d = q + 1 + (d - q - 1)
      BY <1>1
    <3>. QED BY <3>1
  <2>2. n * d = n * q + n + n * e
    BY <2>1
  <2>3. n * e \in Nat
    BY <2>1
  <2>4. n * d \in Int /\ n * q \in Int
    BY <1>1
  <2>. QED BY <1>1, <2>2, <2>3, <2>4
<1>3. ~(d < q)
  <2> SUFFICES ASSUME d < q PROVE FALSE
    OBVIOUS
  <2>1. PICK e \in Nat : q = d + 1 + e
    <3>1. q - d - 1 \in Nat /\ q = d + 1 + (q - d - 1)
      BY <1>1
    <3>. QED BY <3>1
  <2>2. n * q = n * d + n + n * e
    BY <1>1, <2>1
  <2>3. n * e \in Nat
    BY <2>1
  <2>4. n * d \in Int /\ n * q \in Int
    BY <1>1
  <2>. QED BY <1>1, <2>2, <2>3, <2>4
<1>4. d = q
  BY <1>1, <1>2, <1>3
<1>5. m = r
  <2>1. n * d \in Int
    BY <1>1
  <2>. QED BY <1>1, <1>4, <2>1
<1>. QED BY <1>4, <1>5 DEF d, m

\* A set of numbers that is not empty has a least one.
LEMMA LeastOf ==
    ASSUME NEW S \in SUBSET Nat, S # {}
    PROVE  \E m \in S : \A k \in S : m <= k
<1>1. PICK m \in S : \A k \in S : <<k, m>> \notin OpToRel(<, Nat)
  BY WFMin, NatLessThanWellFounded
<1>2. \A k \in S : ~(k < m)
  BY <1>1 DEF OpToRel
<1>. QED BY <1>2

-----------------------------------------------------------------------------
(***************************************************************************)
(* The period.  Two steps of a generator modulo 2 h keep the parity of the *)
(* state; on the states of one parity they are a generator modulo h, whose *)
(* multiplier is 1 modulo 4 and whose increment is odd again.  Hence it    *)
(* goes through all of them when the smaller one does.                     *)
(***************************************************************************)
Pow2(m) == m \in Nat \ {0} /\ \A d \in 2..m : m % d = 0 => d % 2 = 0

\* x is the course of a generator modulo m, from its first state on.
Course(a, c, m, x) ==
    /\ x \in [0..(m - 1) -> 0..(m - 1)]
    /\ \A n \in 0..(m - 2) : x[n + 1] = (x[n] * a + c) % m

\* Every such course has every state in it.
Covers(m) ==
    \A a \in Nat, c \in Nat : a % 4 = 1 /\ c % 2 = 1 =>
        \A x : Course(a, c, m, x) => \A y \in 0..(m - 1) : \E n \in 0..(m - 1) : x[n] = y

\* Half of a power of two is one.
LEMMA Half ==
    ASSUME NEW m, Pow2(m), m # 1
    PROVE  \E h \in Nat \ {0} : m = 2 * h /\ h < m /\ Pow2(h)
<1>1. m \in Nat /\ m >= 2
  BY DEF Pow2
<1>2. m % m = 0
  <2>1. m = m * 1 + 0 /\ 0 \in 0..(m - 1) /\ m \in Nat \ {0}
    BY <1>1
  <2>. QED BY <2>1, DivModUnique
<1>3. m % 2 = 0
  BY <1>1, <1>2 DEF Pow2
<1>4. PICK h \in Nat \ {0} : m = 2 * h
  BY <1>1, <1>3
<1>5. ASSUME NEW d \in 2..h, h % d = 0
      PROVE  d % 2 = 0
  <2>1. d \in Nat \ {0} /\ d \in 2..m
    BY <1>4
  <2>2. PICK q \in Int : h = d * q + 0
    <3>1. h \div d \in Int /\ h = d * (h \div d) + (h % d)
      BY <1>4, <2>1, DivMod
    <3>2. h = d * (h \div d) + 0
      BY <1>5, <3>1
    <3>. QED BY <3>1, <3>2
  <2>3. m = d * (2 * q) + 0
    BY <1>4, <2>1, <2>2
  <2>4. 2 * q \in Int /\ 0 \in 0..(d - 1) /\ m \in Int
    BY <1>1, <2>1, <2>2
  <2>5. m % d = 0
    BY <2>1, <2>3, <2>4, DivModUnique
  <2>. QED BY <2>1, <2>5 DEF Pow2
<1>6. h < m
  BY <1>4
<1>7. Pow2(h)
  BY <1>4, <1>5, Zenon DEF Pow2
<1>. QED BY <1>4, <1>6, <1>7, Zenon

\* The parity of the state changes with every step.
LEMMA Parity ==
    ASSUME NEW a \in Nat, NEW c \in Nat, a % 4 = 1, c % 2 = 1,
           NEW h \in Nat \ {0}, NEW x, Course(a, c, 2 * h, x)
    PROVE  \A n \in 0..(2 * h - 1) : x[n] % 2 = (x[0] + n) % 2
<1> DEFINE m == 2 * h
           U == {n \in 0..(m - 1) : x[n] % 2 # (x[0] + n) % 2}
<1>1. m \in Nat \ {0} /\ m >= 2 /\ \A n \in 0..(m - 1) : x[n] \in Nat
  BY DEF Course
<1>2. PICK al \in Nat, ga \in Nat : a = 4 * al + 1 /\ c = 2 * ga + 1
  <2>1. PICK al \in Nat : a = 4 * al + 1
    OBVIOUS
  <2>2. PICK ga \in Nat : c = 2 * ga + 1
    OBVIOUS
  <2>. QED BY <2>1, <2>2
<1>3. ASSUME NEW n \in 0..(m - 2)
      PROVE  x[n + 1] % 2 = (x[n] + 1) % 2
  <2> DEFINE s == x[n]
             s1 == x[n + 1]
  <2>1. s \in Nat /\ s1 \in Nat
    <3>1. n \in 0..(m - 1) /\ n + 1 \in 0..(m - 1)
      BY <1>1
    <3>. QED BY <1>1, <3>1
  <2>2. s1 = (s * a + c) % m
    BY DEF Course
  <2> HIDE DEF s, s1
  <2>3. PICK k \in Int : s * a + c = m * k + s1
    <3>1. s * a + c \in Int
      BY <2>1
    <3>2. (s * a + c) \div m \in Int /\ s * a + c = m * ((s * a + c) \div m) + ((s * a + c) % m)
      BY <1>1, <3>1, DivMod
    <3>. QED BY <2>2, <3>2
  <2>4. s * a = 4 * (s * al) + s
    BY <1>2, <2>1
  <2>5. m * k = 2 * (h * k)
    BY <2>3
  <2>6. s * al \in Int /\ h * k \in Int
    BY <1>2, <2>1, <2>3
  <2>7. s1 = s + 1 + 2 * (2 * (s * al) + ga - h * k)
    BY <1>2, <2>1, <2>3, <2>4, <2>5, <2>6
  <2>8. PICK g \in Int : s1 = s + 1 + 2 * g
    <3>1. 2 * (s * al) + ga - h * k \in Int
      BY <1>2, <2>6
    <3>. QED BY <2>7, <3>1
  <2>9. s1 % 2 = (s + 1) % 2
    BY <2>1, <2>8
  <2>. QED BY <2>9 DEF s, s1
<1>4. ASSUME U # {} PROVE FALSE
  <2>1. U \in SUBSET Nat
    BY <1>1
  <2>2. PICK n \in U : \A k \in U : n <= k
    BY <1>4, <2>1, LeastOf
  <2>3. n \in Nat /\ n # 0 /\ n - 1 \in 0..(m - 2) /\ n - 1 \in 0..(m - 1)
    BY <1>1, <2>2
  <2>4. n - 1 \notin U
    BY <2>2, <2>3
  <2>5. x[n - 1] % 2 = (x[0] + (n - 1)) % 2
    BY <2>3, <2>4
  <2>6. x[n] % 2 = (x[n - 1] + 1) % 2
    <3>1. x[(n - 1) + 1] % 2 = (x[n - 1] + 1) % 2
      BY <1>3, <2>3
    <3>. QED BY <2>3, <3>1
  <2>7. x[n - 1] \in Nat /\ x[0] \in Nat
    BY <1>1, <2>3
  <2>8. x[n] % 2 = (x[0] + n) % 2
    BY <2>3, <2>5, <2>6, <2>7
  <2>. QED BY <2>2, <2>8
<1>. QED BY <1>4

\* Two steps, seen on the states of parity p: from 2 z + p to 2 z2 + p.
Twice(a, c, h, p, al, ga, z, s1, z2) ==
    /\ a \in Nat /\ c \in Nat /\ h \in Nat \ {0} /\ p \in {0, 1} /\ al \in Nat /\ ga \in Nat
    /\ a = 4 * al + 1 /\ c = 2 * ga + 1
    /\ z \in 0..(h - 1) /\ z2 \in 0..(h - 1) /\ s1 \in Nat
    /\ s1 = ((2 * z + p) * a + c) % (2 * h)
    /\ 2 * z2 + p = (s1 * a + c) % (2 * h)

\* The increment of the smaller generator.
Incr(p, al, ga) == p * (8 * (al * al) + 4 * al) + (2 * ga + 1) * (2 * al + 1)

\* Two steps from 2 z + p are one step of the smaller generator from z.
LEMMA TwoSteps ==
    ASSUME NEW a, NEW c, NEW h, NEW p, NEW al, NEW ga, NEW z, NEW s1, NEW z2,
           Twice(a, c, h, p, al, ga, z, s1, z2)
    PROVE  z2 = (z * (a * a) + Incr(p, al, ga)) % h
<1> USE DEF Twice
<1> DEFINE m == 2 * h
           s == 2 * z + p
<1>1. m \in Nat \ {0} /\ s \in Nat /\ z \in Nat /\ z2 \in Nat
  OBVIOUS
<1>2. PICK k1 \in Int : s * a + c = m * k1 + s1
  <2>1. s * a + c \in Int
    BY <1>1
  <2>2. (s * a + c) \div m \in Int /\ s * a + c = m * ((s * a + c) \div m) + ((s * a + c) % m)
    BY <1>1, <2>1, DivMod
  <2>. QED BY <2>2
<1>3. PICK k2 \in Int : s1 * a + c = m * k2 + (2 * z2 + p)
  <2>1. s1 * a + c \in Int
    OBVIOUS
  <2>2. (s1 * a + c) \div m \in Int /\ s1 * a + c = m * ((s1 * a + c) \div m) + ((s1 * a + c) % m)
    BY <1>1, <2>1, DivMod
  <2>. QED BY <2>2
<1>4. 2 * z2 + p = s * (a * a) + c * a + c - 2 * (h * (k1 * a + k2))
  <2>1. s1 = s * a + c - m * k1
    BY <1>1, <1>2
  <2>2. s1 * a = s * (a * a) + c * a - 2 * (h * (k1 * a))
    BY <1>1, <1>2, <2>1
  <2>3. 2 * (h * (k1 * a + k2)) = 2 * (h * (k1 * a)) + 2 * (h * k2)
    BY <1>2, <1>3
  <2>4. m * k2 = 2 * (h * k2)
    BY <1>3
  <2>5. /\ s * (a * a) \in Int /\ c * a \in Int /\ h * (k1 * a) \in Int /\ h * k2 \in Int
        /\ h * (k1 * a + k2) \in Int /\ s1 * a \in Int
    BY <1>1, <1>2, <1>3
  <2>. QED BY <1>1, <1>3, <2>2, <2>3, <2>4, <2>5
<1> DEFINE c2 == Incr(p, al, ga)
<1>5. s * (a * a) + c * a + c = 2 * (z * (a * a) + c2) + p
  <2>1. s * (a * a) = 2 * (z * (a * a)) + p * (a * a)
    BY <1>1
  <2>2. a * a = 16 * (al * al) + 8 * al + 1
    OBVIOUS
  <2>3. p * (a * a) = 2 * (p * (8 * (al * al) + 4 * al)) + p
    BY <2>2
  <2>4. c * a + c = 2 * ((2 * ga + 1) * (2 * al + 1))
    OBVIOUS
  <2>5. /\ z * (a * a) \in Int /\ p * (8 * (al * al) + 4 * al) \in Int /\ c * a \in Int
        /\ (2 * ga + 1) * (2 * al + 1) \in Int /\ p * (a * a) \in Int /\ s * (a * a) \in Int
    BY <1>1
  <2>. QED BY <2>1, <2>3, <2>4, <2>5 DEF Incr
<1>6. z * (a * a) + c2 = h * (k1 * a + k2) + z2
  <2>1. /\ z * (a * a) \in Int /\ c2 \in Int /\ h * (k1 * a + k2) \in Int
    BY <1>1, <1>2, <1>3 DEF Incr
  <2> HIDE DEF c2
  <2>. QED BY <1>1, <1>4, <1>5, <2>1
<1>7. z * (a * a) + c2 \in Int /\ k1 * a + k2 \in Int
  BY <1>1, <1>2, <1>3 DEF Incr
<1> HIDE DEF c2
<1>8. (z * (a * a) + c2) % h = z2
  <2> DEFINE v == z * (a * a) + c2
             q == k1 * a + k2
  <2>1. v \in Int /\ q \in Int /\ v = h * q + z2
    BY <1>6, <1>7
  <2> HIDE DEF v, q
  <2>2. v % h = z2
    BY <2>1, DivModUnique
  <2>. QED BY <2>2 DEF v
<1>. QED BY <1>8 DEF c2

\* A generator modulo 2 h goes through all states when those modulo h do.
LEMMA CoversTwice ==
    ASSUME NEW h \in Nat \ {0}, Covers(h)
    PROVE  Covers(2 * h)
<1> DEFINE m == 2 * h
<1> SUFFICES ASSUME NEW a \in Nat, NEW c \in Nat, a % 4 = 1, c % 2 = 1,
                    NEW x, Course(a, c, m, x), NEW y \in 0..(m - 1)
             PROVE  \E n \in 0..(m - 1) : x[n] = y
  BY DEF Covers
<1>1. m \in Nat \ {0} /\ m >= 2 /\ \A n \in 0..(m - 1) : x[n] \in 0..(m - 1)
  <2>1. m \in Nat \ {0} /\ m >= 2
    OBVIOUS
  <2>2. x \in [0..(m - 1) -> 0..(m - 1)]
    BY Zenon DEF Course
  <2>. QED BY ONLY <2>1, <2>2
<1>2. PICK al \in Nat, ga \in Nat : a = 4 * al + 1 /\ c = 2 * ga + 1
  <2>1. PICK al \in Nat : a = 4 * al + 1
    OBVIOUS
  <2>2. PICK ga \in Nat : c = 2 * ga + 1
    OBVIOUS
  <2>. QED BY <2>1, <2>2
<1>3. PICK p \in {0, 1}, t \in 0..(h - 1) : y = 2 * t + p
  <2>1. y % 2 \in {0, 1} /\ y \div 2 \in 0..(h - 1) /\ y = 2 * (y \div 2) + (y % 2)
    OBVIOUS
  <2>. QED BY <2>1
<1>4. \A n \in 0..(m - 1) : x[n] % 2 = (x[0] + n) % 2
  BY Parity
<1>5. PICK e \in {0, 1} : (x[0] + e) % 2 = p
  <2>1. x[0] \in Nat
    BY <1>1
  <2>2. (x[0] + 0) % 2 = p \/ (x[0] + 1) % 2 = p
    BY <2>1
  <2>. QED BY <2>2
<1> DEFINE z == [n \in 0..(h - 1) |-> (x[2 * n + e] - p) \div 2]
<1>6. ASSUME NEW n \in 0..(h - 1)
      PROVE  2 * n + e \in 0..(m - 1) /\ z[n] \in 0..(h - 1) /\ x[2 * n + e] = 2 * z[n] + p
  <2>1. 2 * n + e \in 0..(m - 1)
    OBVIOUS
  <2>2. x[2 * n + e] \in 0..(m - 1) /\ x[2 * n + e] % 2 = (x[0] + (2 * n + e)) % 2
    BY <1>1, <1>4, <2>1
  <2>3. (x[0] + (2 * n + e)) % 2 = p
    <3>1. x[0] \in Nat
      BY <1>1
    <3>. QED BY <1>5, <3>1
  <2>4. PICK v \in 0..(m - 1) : v = x[2 * n + e] /\ v % 2 = p
    BY <2>2, <2>3
  <2>5. (v - p) \div 2 \in 0..(h - 1) /\ v = 2 * ((v - p) \div 2) + p
    BY <2>4
  <2>. QED BY <2>1, <2>4, <2>5
<1> HIDE DEF z
<1> DEFINE a2 == a * a
           c2 == Incr(p, al, ga)
<1>7. ASSUME NEW n \in 0..(h - 2)
      PROVE  z[n + 1] = (z[n] * a2 + c2) % h
  <2>1. n \in 0..(h - 1) /\ n + 1 \in 0..(h - 1)
    OBVIOUS
  <2> DEFINE s1 == x[2 * n + e + 1]
  <2>2. 2 * n + e \in 0..(m - 2) /\ 2 * n + e + 1 \in 0..(m - 2) /\ 2 * n + e + 1 \in 0..(m - 1)
    OBVIOUS
  <2>3. s1 = (x[2 * n + e] * a + c) % m
    BY <2>2 DEF Course
  <2>4. x[2 * (n + 1) + e] = (s1 * a + c) % m
    <3>1. x[(2 * n + e + 1) + 1] = (s1 * a + c) % m
      BY <2>2 DEF Course
    <3>2. (2 * n + e + 1) + 1 = 2 * (n + 1) + e
      OBVIOUS
    <3>. QED BY <3>1, <3>2
  <2>5. s1 \in Nat
    BY <1>1, <2>2
  <2> HIDE DEF s1
  <2>6. /\ x[2 * n + e] = 2 * z[n] + p /\ z[n] \in 0..(h - 1)
        /\ x[2 * (n + 1) + e] = 2 * z[n + 1] + p /\ z[n + 1] \in 0..(h - 1)
    BY <1>6, <2>1
  <2> DEFINE z0 == z[n]
             z1 == z[n + 1]
  <2>7. /\ z0 \in 0..(h - 1) /\ z1 \in 0..(h - 1)
        /\ s1 = ((2 * z0 + p) * a + c) % (2 * h)
        /\ 2 * z1 + p = (s1 * a + c) % (2 * h)
    BY <2>3, <2>4, <2>6
  <2> HIDE DEF z0, z1
  <2>8. Twice(a, c, h, p, al, ga, z0, s1, z1)
    BY <1>2, <1>3, <2>5, <2>7, Zenon DEF Twice
  <2>9. z1 = (z0 * a2 + c2) % h
    <3>1. z1 = (z0 * (a * a) + Incr(p, al, ga)) % h
      BY ONLY <2>8, TwoSteps
    <3>. QED BY ONLY <3>1 DEF a2, c2
  <2>. QED BY <2>9 DEF z0, z1
<1>8. a2 \in Nat /\ a2 % 4 = 1
  <2>1. a2 = 4 * (4 * (al * al) + 2 * al) + 1
    BY <1>2
  <2>2. PICK u \in Nat : u = 4 * (al * al) + 2 * al
    BY <1>2
  <2>3. a2 = 4 * u + 1
    BY <2>1, <2>2
  <2>. QED BY <2>2, <2>3
<1>9. c2 \in Nat /\ c2 % 2 = 1
  <2>1. (2 * ga + 1) * (2 * al + 1) = 2 * (2 * (ga * al) + ga + al) + 1
    BY <1>2
  <2>2. p * (8 * (al * al) + 4 * al) = 2 * (p * (4 * (al * al) + 2 * al))
    BY <1>2, <1>3
  <2>3. PICK u \in Nat, v \in Nat : /\ u = 2 * (ga * al) + ga + al
                                    /\ v = p * (4 * (al * al) + 2 * al)
    <3>1. 2 * (ga * al) + ga + al \in Nat
      BY <1>2
    <3>2. p * (4 * (al * al) + 2 * al) \in Nat
      BY <1>2, <1>3
    <3>. QED BY <3>1, <3>2
  <2>4. c2 = 2 * (u + v) + 1
    BY <2>1, <2>2, <2>3 DEF Incr
  <2> HIDE DEF c2
  <2>. QED BY <2>3, <2>4
<1> HIDE DEF a2, c2
<1>10. Course(a2, c2, h, z)
  BY <1>6, <1>7 DEF Course, z
<1>11. PICK n \in 0..(h - 1) : z[n] = t
  BY <1>3, <1>8, <1>9, <1>10 DEF Covers
<1>. QED BY <1>3, <1>6, <1>11

\* A generator modulo a power of two goes through all states.
LEMMA FullPeriod ==
    ASSUME NEW m, Pow2(m)
    PROVE  Covers(m)
<1> DEFINE U == {k \in Nat : Pow2(k) /\ ~Covers(k)}
<1>1. ASSUME U # {} PROVE FALSE
  <2>1. PICK k \in U : \A g \in U : k <= g
    BY <1>1, LeastOf
  <2>2. CASE k = 1
    <3>1. \A y \in 0..(1 - 1) : y = 0
      OBVIOUS
    <3>2. Covers(1)
      <4> SUFFICES ASSUME NEW a, NEW c, NEW x, Course(a, c, 1, x), NEW y \in 0..(1 - 1)
                   PROVE  \E n \in 0..(1 - 1) : x[n] = y
        BY DEF Covers
      <4>1. x[0] \in 0..(1 - 1)
        BY DEF Course
      <4>. QED BY <3>1, <4>1
    <3>. QED BY <2>1, <2>2, <3>2
  <2>3. CASE k # 1
    <3>1. PICK h \in Nat \ {0} : k = 2 * h /\ h < k /\ Pow2(h)
      BY <2>1, <2>3, Half
    <3>2. Covers(h)
      BY <2>1, <3>1
    <3>. QED BY <2>1, <3>1, <3>2, CoversTwice
  <2>. QED BY <2>2, <2>3
<1>. QED BY <1>1 DEF Pow2

-----------------------------------------------------------------------------
(***************************************************************************)
(* The two programs.  The states that wl-randomreads-inputpages.c drew are *)
(* a trail of the generator from 1, and the words it read are what Ranged  *)
(* makes of them.  The state of the sibling stays 0.                       *)
(***************************************************************************)
\* x holds the first state and those of n draws.
Trail(a, c, n, x) ==
    /\ x \in [0..n -> 0..(Mod - 1)]
    /\ x[0] = 1
    /\ \A k \in 0..(n - 1) : x[k + 1] = (x[k] * a + c) % Mod

\* What the first program has drawn and read.
Drawn ==
    \E x : /\ Trail(A, C, draws, x)
           /\ x[draws] = state
           /\ seen = {Ranged(x[k], total_size) : k \in 1..draws}

IInv ==
    /\ A \in Multipliers /\ C \in Increments /\ num_of_pages \in Pages
    /\ draws \in Nat
    /\ IF sibling THEN state = 0 /\ seen \subseteq {total_size \div 2} ELSE Drawn

\* The array has a word.
LEMMA TotalSize ==
    ASSUME num_of_pages \in Pages
    PROVE  total_size \in Nat \ {0}
<1>1. PageInts \in Nat \ {0} /\ num_of_pages \in Nat \ {0}
  BY WidthAssumption, PagesAssumption
<1>. QED BY <1>1 DEF total_size

\* A trail goes on with the next state.
LEMMA TrailGrows ==
    ASSUME NEW a \in 0..(Mod - 1), NEW c \in 0..(Mod - 1), NEW n \in Nat, NEW x, Trail(a, c, n, x)
    PROVE  LET s == (x[n] * a + c) % Mod
               y == [k \in 0..(n + 1) |-> IF k = n + 1 THEN s ELSE x[k]]
           IN  Trail(a, c, n + 1, y)
<1> DEFINE s == (x[n] * a + c) % Mod
           y == [k \in 0..(n + 1) |-> IF k = n + 1 THEN s ELSE x[k]]
<1>1. Mod \in Nat \ {0} /\ x[n] \in Nat /\ x[n] * a + c \in Int
  <2>1. Mod \in Nat \ {0} /\ x[n] \in 0..(Mod - 1)
    BY WidthAssumption DEF Trail
  <2>2. PICK v \in Nat : v = x[n]
    BY <2>1
  <2>3. v * a + c \in Int
    BY <2>2
  <2>. QED BY <2>1, <2>2, <2>3
<1>2. s \in 0..(Mod - 1)
  BY <1>1, DivMod
<1> HIDE DEF s
<1>3. \A k \in 0..(n + 1) : y[k] \in 0..(Mod - 1)
  BY <1>2 DEF Trail
<1>4. y \in [0..(n + 1) -> 0..(Mod - 1)]
  BY <1>3
<1>5. y[0] = 1
  BY DEF Trail
<1>6. ASSUME NEW k \in 0..((n + 1) - 1)
      PROVE  y[k + 1] = (y[k] * a + c) % Mod
  <2>1. CASE k = n
    <3>1. y[k + 1] = s /\ y[k] = x[n]
      BY <2>1
    <3>. QED BY <3>1 DEF s
  <2>2. CASE k # n
    <3>1. k \in 0..(n - 1) /\ y[k + 1] = x[k + 1] /\ y[k] = x[k]
      BY <2>2
    <3>. QED BY <3>1 DEF Trail
  <2>. QED BY <2>1, <2>2
<1>7. Trail(a, c, n + 1, y)
  BY <1>4, <1>5, <1>6 DEF Trail
<1>. QED BY <1>7 DEF s

\* After a period every state was drawn.
LEMMA TrailCovers ==
    ASSUME NEW a \in Multipliers, NEW c \in Increments, NEW n \in Nat, n >= Mod,
           NEW x, Trail(a, c, n, x), NEW y \in 0..(Mod - 1)
    PROVE  \E k \in 1..n : x[k] = y
<1>1. /\ Mod \in Nat \ {0} /\ a \in Nat /\ a % 4 = 1 /\ c \in Nat /\ c % 2 = 1
  BY WidthAssumption, MultiplierAssumption, IncrementAssumption
<1>2. Covers(Mod)
  BY <1>1, ModAssumption, FullPeriod DEF Pow2
<1> DEFINE z == [k \in 0..(Mod - 1) |-> x[k + 1]]
<1>3. Course(a, c, Mod, z)
  <2>1. ASSUME NEW k \in 0..(Mod - 1) PROVE z[k] \in 0..(Mod - 1)
    BY <1>1 DEF Trail
  <2>2. z \in [0..(Mod - 1) -> 0..(Mod - 1)]
    BY <2>1
  <2>3. ASSUME NEW k \in 0..(Mod - 2) PROVE z[k + 1] = (z[k] * a + c) % Mod
    <3>1. k + 1 \in 0..(n - 1) /\ z[k] = x[k + 1] /\ z[k + 1] = x[(k + 1) + 1]
      BY <1>1
    <3>2. x[(k + 1) + 1] = (x[k + 1] * a + c) % Mod
      BY <3>1 DEF Trail
    <3>. QED BY <3>1, <3>2
  <2>. QED BY <2>2, <2>3 DEF Course
<1> HIDE DEF z
<1>4. PICK k \in 0..(Mod - 1) : z[k] = y
  <2>1. \A u : Course(a, c, Mod, u) => \A v \in 0..(Mod - 1) : \E k \in 0..(Mod - 1) : u[k] = v
    BY <1>1, <1>2, Zenon DEF Covers
  <2>. QED BY <1>3, <2>1, Zenon
<1>5. k + 1 \in 1..n /\ x[k + 1] = y
  BY <1>1, <1>4 DEF z
<1>. QED BY <1>5

\* A word is drawn from a state of its own, and no word is beyond Reach.
LEMMA RangedSpread ==
    ASSUME NEW t \in Nat \ {0}
    PROVE  /\ \A s \in 0..(Mod - 1) : Ranged(s, t) \in 0..(t - 1) /\ Ranged(s, t) <= Reach
           /\ \A w \in 0..(t - 1) : w <= Reach =>
                  w * Divisor \in 0..(Mod - 1) /\ Ranged(w * Divisor, t) = w
<1>1. Mod \in Nat \ {0} /\ Divisor \in Nat \ {0} /\ Divisor < Mod
  BY WidthAssumption
<1>2. ASSUME NEW s \in 0..(Mod - 1)
      PROVE  s \div Divisor \in Nat /\ s \div Divisor <= Reach
  <2>1. s \div Divisor \in Nat /\ Reach \in Nat
    BY <1>1 DEF Reach
  <2>2. s = Divisor * (s \div Divisor) + (s % Divisor) /\ s % Divisor \in 0..(Divisor - 1)
    BY <1>1, DivMod
  <2>3. /\ Mod - 1 = Divisor * Reach + ((Mod - 1) % Divisor)
        /\ (Mod - 1) % Divisor \in 0..(Divisor - 1)
    <3>1. Mod - 1 \in Int
      BY <1>1
    <3>. QED BY <1>1, <3>1, DivMod DEF Reach
  <2> DEFINE q == s \div Divisor
             r == s % Divisor
             r1 == (Mod - 1) % Divisor
  <2>4. /\ q \in Nat /\ Reach \in Nat /\ r \in 0..(Divisor - 1) /\ r1 \in 0..(Divisor - 1)
        /\ s = Divisor * q + r /\ Mod - 1 = Divisor * Reach + r1
    BY <2>1, <2>2, <2>3
  <2> HIDE DEF q, r, r1
  <2>5. ~(q > Reach)
    <3> SUFFICES ASSUME q > Reach PROVE FALSE
      OBVIOUS
    <3>1. PICK e \in Nat : q = Reach + 1 + e
      <4>1. q - Reach - 1 \in Nat /\ q = Reach + 1 + (q - Reach - 1)
        BY <2>4
      <4>. QED BY <4>1
    <3>2. Divisor * q = Divisor * Reach + Divisor + Divisor * e
      BY <1>1, <2>4, <3>1
    <3>3. Divisor * e \in Nat /\ Divisor * Reach \in Nat /\ Divisor * q \in Nat
      BY <1>1, <2>4, <3>1
    <3>. QED BY <1>1, <2>4, <3>2, <3>3
  <2>6. q <= Reach
    BY <2>4, <2>5
  <2>. QED BY <2>4, <2>6 DEF q
<1>3. ASSUME NEW s \in 0..(Mod - 1)
      PROVE  Ranged(s, t) \in 0..(t - 1) /\ Ranged(s, t) <= Reach
  <2> DEFINE q == s \div Divisor
  <2>1. q \in Nat /\ q <= Reach /\ Reach \in Int
    BY <1>1, <1>2 DEF Reach
  <2> HIDE DEF q
  <2>2. q % t \in 0..(t - 1) /\ q % t <= q
    <3>1. q \div t \in Nat
      BY <2>1
    <3>2. q = t * (q \div t) + (q % t) /\ q % t \in 0..(t - 1)
      BY <2>1, DivMod
    <3>3. t * (q \div t) \in Nat
      BY <3>1
    <3>. QED BY <2>1, <3>2, <3>3
  <2>. QED BY <2>1, <2>2 DEF q, Ranged
<1>4. ASSUME NEW w \in 0..(t - 1), w <= Reach
      PROVE  w * Divisor \in 0..(Mod - 1) /\ Ranged(w * Divisor, t) = w
  <2>1. w \in Nat /\ Reach \in Nat
    BY <1>1 DEF Reach
  <2>2. PICK r \in Nat : Mod - 1 = Divisor * Reach + r
    <3>1. Mod - 1 \in Int
      BY <1>1
    <3>2. /\ Mod - 1 = Divisor * ((Mod - 1) \div Divisor) + ((Mod - 1) % Divisor)
          /\ (Mod - 1) % Divisor \in 0..(Divisor - 1)
      BY <1>1, <3>1, DivMod
    <3>3. (Mod - 1) % Divisor \in Nat
      BY <1>1, <3>2
    <3>. QED BY <3>2, <3>3, Zenon DEF Reach
  <2>3. PICK e \in Nat : Reach = w + e
    <3>1. Reach - w \in Nat /\ Reach = w + (Reach - w)
      BY <1>4, <2>1
    <3>. QED BY <3>1
  <2>4. Divisor * Reach = w * Divisor + Divisor * e
    BY <1>1, <2>1, <2>3
  <2>5. w * Divisor \in Nat /\ Divisor * e \in Nat /\ Divisor * Reach \in Nat
    BY <1>1, <2>1, <2>3
  <2>6. w * Divisor \in 0..(Mod - 1)
    BY <1>1, <2>2, <2>4, <2>5
  <2>7. (w * Divisor) \div Divisor = w
    <3>1. w * Divisor = Divisor * w + 0 /\ 0 \in 0..(Divisor - 1) /\ w \in Int
      BY <1>1, <2>1
    <3>2. w * Divisor \in Int
      BY <2>5
    <3>. QED BY <1>1, <3>1, <3>2, DivModUnique
  <2>8. w % t = w
    <3>1. w = t * 0 + w /\ 0 \in Int /\ w \in Int
      BY <2>1
    <3>. QED BY <3>1, DivModUnique
  <2>. QED BY <2>6, <2>7, <2>8 DEF Ranged
<1>. QED BY <1>3, <1>4

-----------------------------------------------------------------------------
\* The trail begins with the first state, and nothing was read.
LEMMA InitIInv == Init => IInv
<1> SUFFICES ASSUME Init PROVE IInv
  OBVIOUS
<1> USE DEF Init
<1>1. CASE sibling
  BY <1>1 DEF IInv, Seed
<1>2. CASE ~sibling
  <2> DEFINE x == [k \in 0..0 |-> 1]
  <2>1. Mod - 1 \in Nat \ {0}
    BY WidthAssumption
  <2>2. x \in [0..0 -> 0..(Mod - 1)] /\ x[0] = 1
    <3>1. 1 \in 0..(Mod - 1) /\ 0 \in 0..0
      BY ONLY <2>1, WidthAssumption
    <3>2. x[0] = 1
      BY <3>1, Zenon
    <3>3. x \in [0..0 -> 0..(Mod - 1)]
      BY <3>1, Zenon
    <3>. QED BY <3>2, <3>3
  <2>3. Trail(A, C, 0, x)
    BY <2>2 DEF Trail
  <2>4. seen = {Ranged(x[k], total_size) : k \in 1..0} /\ state = 1 /\ draws = 0
    BY <1>2 DEF Seed
  <2>5. Drawn
    BY <2>2, <2>3, <2>4 DEF Drawn
  <2>. QED BY <1>2, <2>4, <2>5 DEF IInv
<1>. QED BY <1>1, <1>2

\* The word the first program reads comes from the state it draws.
LEMMA ReadIInv == IInv /\ read => IInv'
<1> SUFFICES ASSUME IInv, read PROVE IInv'
  OBVIOUS
<1>1. /\ ~sibling /\ ~sibling' /\ A' = A /\ C' = C /\ num_of_pages' = num_of_pages
      /\ draws' = draws + 1 /\ draws \in Nat /\ A \in Multipliers /\ C \in Increments
      /\ num_of_pages \in Pages /\ total_size' = total_size
      /\ state' = State(state) /\ seen' = seen \cup {Ranged(state', total_size)}
  BY DEF IInv, read, params, total_size
<1>2. PICK x : /\ Trail(A, C, draws, x) /\ x[draws] = state
               /\ seen = {Ranged(x[k], total_size) : k \in 1..draws}
  BY <1>1 DEF IInv, Drawn
<1> DEFINE y == [k \in 0..(draws + 1) |-> IF k = draws + 1 THEN state' ELSE x[k]]
<1>3. Trail(A, C, draws + 1, y)
  <2>1. state' = (x[draws] * A + C) % Mod
    BY <1>1, <1>2 DEF State
  <2>2. A \in 0..(Mod - 1) /\ C \in 0..(Mod - 1)
    BY <1>1, MultiplierAssumption, IncrementAssumption
  <2>. QED BY <1>1, <1>2, <2>1, <2>2, TrailGrows
<1>4. y[draws + 1] = state'
  BY <1>1
<1>5. seen' = {Ranged(y[k], total_size) : k \in 1..(draws + 1)}
  <2>1. \A k \in 1..draws : k \in 1..(draws + 1) /\ y[k] = x[k]
    BY <1>1
  <2>2. draws + 1 \in 1..(draws + 1)
    BY <1>1
  <2>3. \A k \in 1..(draws + 1) : k = draws + 1 \/ k \in 1..draws
    BY <1>1
  <2> HIDE DEF y
  <2>4. ASSUME NEW w \in seen' PROVE w \in {Ranged(y[k], total_size) : k \in 1..(draws + 1)}
    BY <1>1, <1>2, <1>4, <2>1, <2>2, Zenon
  <2>5. ASSUME NEW k \in 1..(draws + 1) PROVE Ranged(y[k], total_size) \in seen'
    <3>1. CASE k = draws + 1
      BY <1>1, <1>4, <3>1, Zenon
    <3>2. CASE k \in 1..draws
      <4>1. Ranged(x[k], total_size) \in seen
        BY <1>2, <3>2, Zenon
      <4>. QED BY <1>1, <2>1, <3>2, <4>1, Zenon
    <3>. QED BY <2>3, <3>1, <3>2
  <2>. QED BY <2>4, <2>5, Zenon
<1>6. Drawn'
  <2> HIDE DEF y
  <2>1. /\ Trail(A', C', draws', y) /\ y[draws'] = state'
        /\ seen' = {Ranged(y[k], total_size') : k \in 1..draws'}
    BY <1>1, <1>3, <1>4, <1>5
  <2>. QED BY <2>1 DEF Drawn, Ranged
<1>7. draws' \in Nat
  BY <1>1
<1>. QED BY <1>1, <1>6, <1>7 DEF IInv

\* The sibling multiplies 0.
LEMMA Read2IInv == IInv /\ read_2 => IInv'
<1> SUFFICES ASSUME IInv, read_2 PROVE IInv'
  OBVIOUS
<1>1. /\ sibling /\ sibling' /\ A' = A /\ C' = C /\ num_of_pages' = num_of_pages
      /\ draws' = draws + 2 /\ draws \in Nat /\ A \in Multipliers /\ C \in Increments
      /\ num_of_pages \in Pages /\ total_size' = total_size
      /\ state = 0 /\ seen \subseteq {total_size \div 2}
  BY DEF IInv, read_2, params, total_size
<1>2. /\ Mod \in Nat \ {0} /\ Divisor + 1 \in Nat \ {0} /\ PageInts \in Nat \ {0}
      /\ num_of_pages \in Nat \ {0} /\ A + C \in Nat
  BY <1>1, WidthAssumption, PagesAssumption, MultiplierAssumption, IncrementAssumption
<1>3. \A n \in Nat \ {0} : 0 % n = 0 /\ 0 \div n = 0
  <2> SUFFICES ASSUME NEW n \in Nat \ {0} PROVE 0 % n = 0 /\ 0 \div n = 0
    OBVIOUS
  <2>1. 0 = n * 0 + 0 /\ 0 \in 0..(n - 1)
    OBVIOUS
  <2>. QED BY <2>1, DivModUnique
<1>4. State2(0) = 0
  <2>1. 0 * (A + C) = 0
    BY <1>2
  <2>. QED BY <1>2, <1>3, <2>1 DEF State2
<1>5. Ranged2(0, num_of_pages) = 0 /\ Ranged2(0, PageInts) = 0
  BY <1>2, <1>3 DEF Ranged2
<1>6. state' = 0
  BY <1>1, <1>4 DEF read_2
<1>7. total_size \div 2 \in Int
  BY <1>1, TotalSize
<1>8. total_size \div 2 + 0 * PageInts + 0 = total_size \div 2
  BY <1>2, <1>7
<1>9. seen' = seen \cup {total_size \div 2 + 0 * PageInts + 0}
  BY <1>1, <1>4, <1>5, <1>6 DEF read_2
<1>10. seen' \subseteq {total_size' \div 2}
  BY <1>1, <1>8, <1>9
<1>11. draws' \in Nat
  BY <1>1
<1>. QED BY <1>1, <1>6, <1>10, <1>11 DEF IInv

\* The next run over the array goes on with the trail.
LEMMA NextIInv == IInv /\ [Next]_vars => IInv'
<1> SUFFICES ASSUME IInv, [Next]_vars PROVE IInv'
  OBVIOUS
<1>1. CASE next_loop \/ UNCHANGED vars
  <2>1. UNCHANGED <<sibling, A, C, num_of_pages, state, draws, seen>>
    BY <1>1 DEF next_loop, params, vars
  <2>. QED BY <2>1 DEF IInv, Drawn, total_size, Ranged
<1>. QED BY <1>1, ReadIInv, Read2IInv DEF Next

\* The words that were read are those of the states that were drawn, always.
THEOREM InvariantHolds == Spec => []IInv
BY InitIInv, NextIInv, PTL DEF Spec

\* The remainder is a word of the array.
LEMMA IInvReadsInside == IInv => ReadsInside
<1> SUFFICES ASSUME IInv, ~sibling PROVE seen \subseteq 0..(total_size - 1)
  BY DEF IInv, ReadsInside
<1>1. PICK x : /\ Trail(A, C, draws, x)
               /\ seen = {Ranged(x[k], total_size) : k \in 1..draws}
  BY DEF IInv, Drawn
<1>2. \A k \in 1..draws : x[k] \in 0..(Mod - 1)
  BY <1>1 DEF Trail, IInv
<1>3. \A s \in 0..(Mod - 1) : Ranged(s, total_size) \in 0..(total_size - 1)
  BY TotalSize, RangedSpread DEF IInv
<1>. QED BY <1>1, <1>2, <1>3

\* A word within reach is the quotient of a state, which the trail has come to.
LEMMA IInvReadsSpread == IInv => ReadsSpread
<1> SUFFICES ASSUME IInv, ~sibling
             PROVE  /\ \A w \in seen : w <= Reach
                    /\ draws >= Mod => \A w \in 0..(total_size - 1) : w <= Reach => w \in seen
  BY DEF ReadsSpread
<1>1. PICK x : /\ Trail(A, C, draws, x)
               /\ seen = {Ranged(x[k], total_size) : k \in 1..draws}
  BY DEF IInv, Drawn
<1>2. \A k \in 1..draws : x[k] \in 0..(Mod - 1)
  BY <1>1 DEF Trail, IInv
<1>3. total_size \in Nat \ {0}
  BY TotalSize DEF IInv
<1>4. \A w \in seen : w <= Reach
  BY <1>1, <1>2, <1>3, RangedSpread
<1>5. ASSUME draws >= Mod, NEW w \in 0..(total_size - 1), w <= Reach
      PROVE  w \in seen
  <2>1. w * Divisor \in 0..(Mod - 1) /\ Ranged(w * Divisor, total_size) = w
    BY <1>3, <1>5, RangedSpread
  <2>2. PICK k \in 1..draws : x[k] = w * Divisor
    BY <1>1, <1>5, <2>1, TrailCovers DEF IInv
  <2>3. w = Ranged(x[k], total_size)
    BY <2>1, <2>2
  <2>. QED BY <1>1, <2>2, <2>3
<1>. QED BY <1>4, <1>5

\* No read is outside the array, whatever its size and however often it is gone
\* through; the sibling only reads the word in the middle (lines 53, 51 and 66).
THEOREM ReadsStayInside == Spec => []ReadsInside
BY InvariantHolds, IInvReadsInside, PTL

\* The quotient by 2^32 - 1 bounds the words that are read, and after a period of
\* the generator every word below that bound was read (lines 52, 53 and 78).
THEOREM ReadsSpreadOut == Spec => []ReadsSpread
BY InvariantHolds, IInvReadsSpread, PTL
=============================================================================

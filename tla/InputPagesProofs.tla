-------------------------- MODULE InputPagesProofs --------------------------
(***************************************************************************)
(* InputPages for every width of int and of unsigned long, every page size *)
(* and every command line.                                                 *)
(***************************************************************************)
EXTENDS InputPages, TLAPS

-----------------------------------------------------------------------------
(* Remainders.                                                             *)

\* Quotient and remainder.
LEMMA DivMod ==
    ASSUME NEW a \in Int, NEW d \in Nat \ {0}
    PROVE  /\ a \div d \in Int
           /\ a % d \in 0..(d - 1)
           /\ a = d * (a \div d) + (a % d)
OBVIOUS

\* A product with a whole number is no smaller than the factor.
LEMMA Grows ==
    ASSUME NEW d \in Nat \ {0}, NEW q \in Int
    PROVE  /\ q >= 1 => d * q >= d
           /\ q <= -1 => d * q <= -d
           /\ d * q \in Int
OBVIOUS

\* The remainder is the only one.
LEMMA ModUnique ==
    ASSUME NEW d \in Nat \ {0}, NEW q \in Int, NEW r \in 0..(d - 1),
           NEW a \in Int, a = d * q + r
    PROVE  a % d = r /\ a \div d = q
<1> DEFINE q0 == a \div d
           r0 == a % d
<1>1. q0 \in Int /\ r0 \in 0..(d - 1) /\ a = d * q0 + r0
  BY DivMod
<1> HIDE DEF q0, r0
<1>2. d * (q - q0) = d * q - d * q0
  BY <1>1
<1>3. d * q \in Int /\ d * q0 \in Int /\ q - q0 \in Int
  BY <1>1, Grows
<1>4. d * (q - q0) = r0 - r
  BY <1>1, <1>2, <1>3
<1>5. ~(q - q0 >= 1)
  BY <1>1, <1>3, <1>4, Grows
<1>6. ~(q - q0 <= -1)
  BY <1>1, <1>3, <1>4, Grows
<1>7. q = q0
  BY <1>1, <1>5, <1>6
<1>8. r = r0
  BY <1>1, <1>7, <1>3
<1>. QED BY <1>7, <1>8 DEF q0, r0

\* Remainders are equal when the difference is a multiple.
LEMMA ModCong ==
    ASSUME NEW d \in Nat \ {0}, NEW a \in Int, NEW b \in Int
    PROVE  (a % d = b % d) <=> ((a - b) % d = 0)
<1>1. /\ a \div d \in Int /\ a % d \in 0..(d - 1) /\ a = d * (a \div d) + (a % d)
      /\ b \div d \in Int /\ b % d \in 0..(d - 1) /\ b = d * (b \div d) + (b % d)
  BY DivMod
<1> DEFINE qa == a \div d
           qb == b \div d
           ra == a % d
           rb == b % d
<1>2. /\ qa \in Int /\ ra \in 0..(d - 1) /\ a = d * qa + ra
      /\ qb \in Int /\ rb \in 0..(d - 1) /\ b = d * qb + rb
  BY <1>1
<1>a. /\ (a - b) \div d \in Int /\ (a - b) = d * ((a - b) \div d) + ((a - b) % d)
      /\ a - b \in Int
  BY DivMod
<1> HIDE DEF qa, qb, ra, rb
<1>3. ASSUME ra = rb PROVE (a - b) % d = 0
  <2>1. d * (qa - qb) = d * qa - d * qb
    BY <1>2
  <2>2. d * qa \in Int /\ d * qb \in Int /\ qa - qb \in Int
    BY <1>2, Grows
  <2>3. a - b = d * (qa - qb) + 0
    BY <1>2, <1>3, <2>1, <2>2
  <2>4. 0 \in 0..(d - 1)
    OBVIOUS
  <2> DEFINE q == qa - qb
             c == a - b
  <2>5. q \in Int /\ c \in Int /\ c = d * q + 0
    BY <1>a, <2>2, <2>3
  <2> HIDE DEF q, c
  <2>6. c % d = 0
    BY <2>4, <2>5, ModUnique
  <2>. QED BY <2>6 DEF c
<1>4. ASSUME (a - b) % d = 0 PROVE ra = rb
  <2> DEFINE q == (a - b) \div d
  <2>1. q \in Int /\ a - b = d * q
    BY <1>a, <1>4, Grows
  <2> HIDE DEF q
  <2>2. d * (qb + q) = d * qb + d * q
    BY <1>2, <2>1
  <2>3. d * qb \in Int /\ d * q \in Int /\ qb + q \in Int
    BY <1>2, <2>1, Grows
  <2>4. a = d * (qb + q) + rb
    BY <1>2, <2>1, <2>2, <2>3
  <2>5. a % d = rb
    BY <1>2, <2>3, <2>4, ModUnique
  <2>. QED BY <2>5 DEF ra
<1>. QED BY <1>3, <1>4 DEF ra, rb

\* Multiples have no remainder.
LEMMA ModMultiple ==
    ASSUME NEW d \in Nat \ {0}, NEW q \in Int
    PROVE  (d * q) % d = 0
<1> DEFINE a == d * q
<1>1. a \in Int /\ a = d * q + 0 /\ 0 \in 0..(d - 1)
  BY Grows
<1> HIDE DEF a
<1>2. a % d = 0
  BY <1>1, ModUnique
<1>. QED BY <1>2 DEF a

\* Cutting to the longer type first makes no difference.
LEMMA ModMod ==
    ASSUME NEW d \in Nat \ {0}, NEW l \in Nat \ {0}, l % d = 0, NEW a \in Int
    PROVE  (a % l) % d = a % d
<1> DEFINE c == l \div d
           x == a \div l
           r == a % l
<1>1. c \in Int /\ l = d * c
  <2>1. l \div d \in Int /\ l = d * (l \div d) + (l % d)
    BY DivMod
  <2>. QED BY <2>1, Grows
<1>2. x \in Int /\ r \in Int /\ a = l * x + r
  BY DivMod
<1> HIDE DEF c, x, r
<1>3. l * x = d * (c * x)
  BY <1>1, <1>2
<1>4. c * x \in Int
  BY <1>1, <1>2
<1> DEFINE z == c * x
<1>5. z \in Int /\ a - r = d * z
  <2>1. d * (c * x) \in Int
    BY <1>4, Grows
  <2>. QED BY <1>2, <1>3, <1>4, <2>1
<1> HIDE DEF z
<1>6. (a - r) % d = 0
  BY <1>5, ModMultiple
<1>7. a % d = r % d
  BY <1>2, <1>6, ModCong
<1>. QED BY <1>7 DEF r

\* A factor may be cut before the product is.
LEMMA ModTimes ==
    ASSUME NEW d \in Nat \ {0}, NEW k \in Int, NEW m \in Int
    PROVE  (k * (m % d)) % d = (k * m) % d
<1> DEFINE x == m \div d
           r == m % d
<1>1. x \in Int /\ r \in Int /\ m = d * x + r
  BY DivMod
<1> HIDE DEF x, r
<1>2. k * m = k * (d * x) + k * r
  BY <1>1
<1>3. k * (d * x) = d * (k * x)
  BY <1>1
<1>4. k * x \in Int /\ k * r \in Int /\ k * m \in Int
  BY <1>1
<1> DEFINE z == k * x
           a == k * m
           b == k * r
<1>5. z \in Int /\ a \in Int /\ b \in Int /\ a - b = d * z
  <2>1. d * (k * x) \in Int
    BY <1>4, Grows
  <2>. QED BY <1>2, <1>3, <1>4, <2>1
<1> HIDE DEF z, a, b
<1>6. (a - b) % d = 0
  BY <1>5, ModMultiple
<1>7. a % d = b % d
  BY <1>5, <1>6, ModCong
<1>. QED BY <1>7 DEF a, b, r

-----------------------------------------------------------------------------
(* The size and the stores.                                                *)

\* The int that is stored is the product, cut to an int once.
LEMMA StoredInt ==
    ASSUME NEW k \in Int, NEW m \in Int
    PROVE  Stored(k, m) = (k * m) % IntMod
<1>1. LongMod \in Nat \ {0} /\ LongMod % IntMod = 0 /\ IntMod \in Nat \ {0}
  BY LongAssumption, IntAssumption
<1>2. (k * ULong(m)) % LongMod = (k * m) % LongMod
  BY <1>1, ModTimes DEF ULong
<1>3. k * m \in Int
  OBVIOUS
<1>4. ((k * m) % LongMod) % IntMod = (k * m) % IntMod
  BY <1>1, <1>3, ModMod
<1>. QED BY <1>2, <1>4 DEF Stored

\* Two stores leave the same int when their products differ by a multiple.
LEMMA StoredAlike ==
    ASSUME NEW k \in Int, NEW l \in Int, NEW m \in Int
    PROVE  Stored(k, m) = Stored(l, m) <=> ((k - l) * m) % IntMod = 0
<1> DEFINE a == k * m
           b == l * m
<1>1. a \in Int /\ b \in Int /\ (k - l) * m = a - b
  OBVIOUS
<1>2. Stored(k, m) = a % IntMod /\ Stored(l, m) = b % IntMod
  BY StoredInt
<1> HIDE DEF a, b
<1>3. a % IntMod = b % IntMod <=> (a - b) % IntMod = 0
  BY <1>1, ModCong, IntAssumption
<1>. QED BY <1>1, <1>2, <1>3

\* What arguments(_) computes for the numbers an int can be.
LEMMA SizeOf ==
    ASSUME NEW n \in Int, n >= -(IntMod \div 2), n < IntMod \div 2
    PROVE  /\ n >= 0 => PageSize(n) = PageBytes * n
           /\ n < 0  => PageSize(n) = LongMod + PageBytes * n
           /\ n < 0  => PageSize(n) > AddressSpace
           /\ PageSize(n) \in 0..(LongMod - 1)
<1>1. PageBytes \in Nat \ {0}
  <2>1. \A x, y \in Nat \ {0} : x * y \in Nat \ {0}
    OBVIOUS
  <2>. QED BY <2>1, PageAssumption DEF PageBytes
<1> DEFINE h == IntMod \div 2
           w == PageBytes * n
<1>2. h \in Nat /\ LongMod \in Nat \ {0} /\ AddressSpace \in Nat
  BY IntAssumption, LongAssumption
<1>3. w \in Int /\ PageBytes * h \in Int
  BY <1>1, <1>2
<1>4. PageBytes * h + AddressSpace < LongMod
  BY LongAssumption
<1>5. n >= -h /\ n < h
  OBVIOUS
<1> HIDE DEF h
<1>6. w <= PageBytes * h /\ w >= -(PageBytes * h)
  <2>1. \A u \in Nat, v \in Nat : u * v \in Nat
    OBVIOUS
  <2>2. PageBytes * (h - n) \in Nat /\ PageBytes * (h + n) \in Nat
    BY <1>1, <1>2, <1>5, <2>1
  <2>3. PageBytes * (h - n) = PageBytes * h - PageBytes * n
    BY <1>1, <1>2
  <2>4. PageBytes * (h + n) = PageBytes * h + PageBytes * n
    BY <1>1, <1>2
  <2>. QED BY <1>3, <2>2, <2>3, <2>4
<1>7. PageSize(n) = w % LongMod
  <2>1. (PageBytes * (n % LongMod)) % LongMod = (PageBytes * n) % LongMod
    <3>1. PageBytes \in Int
      BY <1>1
    <3> HIDE DEF w
    <3>. QED BY <3>1, <1>2, ModTimes
  <2>. QED BY <2>1 DEF PageSize, ULong
<1>8. /\ n >= 0 => w >= 0
      /\ n < 0 => w < 0
  BY <1>1
<1> HIDE DEF w
<1>9. ASSUME n >= 0 PROVE w % LongMod = w
  <2>1. w \in 0..(LongMod - 1) /\ w = LongMod * 0 + w
    BY <1>2, <1>3, <1>4, <1>6, <1>8, <1>9
  <2>. QED BY <1>2, <1>3, <2>1, ModUnique
<1>10. ASSUME n < 0 PROVE w % LongMod = LongMod + w
  <2> DEFINE r == LongMod + w
  <2>1. r \in 0..(LongMod - 1) /\ w = LongMod * (-1) + r
    BY <1>2, <1>3, <1>4, <1>6, <1>8, <1>10
  <2> HIDE DEF r
  <2>2. w % LongMod = r
    BY <1>2, <1>3, <2>1, ModUnique
  <2>. QED BY <2>2 DEF r
<1>11. w % LongMod \in 0..(LongMod - 1)
  BY <1>2, <1>3, DivMod
<1>12. n < 0 => LongMod + w > AddressSpace
  BY <1>2, <1>3, <1>4, <1>6
<1>. QED BY <1>7, <1>9, <1>10, <1>11, <1>12 DEF w

\* The loop's bound is the number of ints in the pages.
LEMMA IntsOf ==
    ASSUME NEW n \in Nat
    PROVE  /\ (PageBytes * n) \div SizeofInt = PageInts * n
           /\ n > 0 => PageBytes * n >= SizeofInt
           /\ PageInts * n \in Nat
<1>1. PageInts \in Nat \ {0} /\ SizeofInt \in Nat \ {0}
  BY PageAssumption
<1> DEFINE q == PageInts * n
           a == PageBytes * n
<1>2. q \in Nat
  BY <1>1
<1>3. a = SizeofInt * q
  BY <1>1 DEF PageBytes
<1>4. n > 0 => q >= 1
  BY <1>1
<1> HIDE DEF q, a
<1>5. a \in Int /\ a = SizeofInt * q + 0 /\ 0 \in 0..(SizeofInt - 1)
  BY <1>1, <1>2, <1>3
<1>6. a \div SizeofInt = q
  BY <1>1, <1>2, <1>5, ModUnique
<1>7. q >= 1 => a >= SizeofInt
  BY <1>1, <1>2, <1>3, Grows
<1>. QED BY <1>2, <1>4, <1>6, <1>7 DEF q, a

-----------------------------------------------------------------------------
(* The inductive invariant.                                                *)

\* What is mapped and written is tied to the point the program has reached; the
\* contents are needed for PagesAlike only.
IInv ==
    /\ TypeOK
    /\ SizeExact
    /\ StoresInside
    /\ pc \in {"mlockall", "usage", "exit", "mmap"} => i = 0 /\ mapped = {"program"}
    /\ pc \in {"mmap", "fill", "sleep", "segv", "killed"} => size = PageSize(num_of_pages)
    /\ \A k \in 0..(i - 1) : mem[k] = Stored(k, multiplier)
    /\ pc = "sleep" => i >= Ints

\* An argument is an int.
LEMMA ArgInt ==
    ASSUME NEW n \in Arg \cup {0, 1}
    PROVE  /\ n \in Int
           /\ n \in Arg \cup {0} => n >= -(IntMod \div 2) /\ n < IntMod \div 2
<1>1. IntMod \div 2 \in Nat /\ IntMod \div 2 > 0
  BY IntAssumption
<1>. QED BY <1>1, ArgAssumption

\* The program starts in it.
LEMMA InitIInv == Init => IInv
<1> SUFFICES ASSUME Init PROVE IInv
  OBVIOUS
<1>1. LongMod \in Nat \ {0} /\ IntMod \in Nat \ {0}
  BY LongAssumption, IntAssumption
<1>2. mem \in [0..(0 - 1) -> 0..(IntMod - 1)]
  <2>1. 0..(0 - 1) = {}
    OBVIOUS
  <2>. QED BY <2>1 DEF Init
<1>3. TypeOK
  BY <1>1, <1>2 DEF Init, TypeOK
<1>4. \A k \in 0..(i - 1) : FALSE
  BY DEF Init
<1>. QED BY <1>3, <1>4 DEF Init, IInv, SizeExact, StoresInside

\* A step that leaves the data alone keeps what is known of the data.
LEMMA arguments_Keeps == IInv /\ arguments => IInv'
<1> SUFFICES ASSUME IInv, arguments PROVE IInv'
  OBVIOUS
<1> USE DEF IInv
<1>1. TypeOK /\ pc = "usage" /\ pc' = "mmap" /\ i = 0 /\ mapped = {"program"}
  BY DEF arguments
<1>2. \A x \in Arg \cup {Text} : atoi(x) \in Arg \cup {0}
  BY DEF atoi
<1>3. argv[1] \in Arg \cup {Text} /\ argv[2] \in Arg \cup {Text}
  BY <1>1 DEF TypeOK
<1>4. num_of_pages' \in Arg \cup {0}
  BY <1>2, <1>3 DEF arguments
<1>5. multiplier' \in Arg \cup {0, 1}
  BY <1>2, <1>3 DEF arguments
<1>6. size' = PageSize(num_of_pages')
  BY DEF arguments
<1>7. size' \in 0..(LongMod - 1)
  <2>1. /\ num_of_pages' \in Int
        /\ num_of_pages' >= -(IntMod \div 2)
        /\ num_of_pages' < IntMod \div 2
    BY <1>4, ArgInt
  <2> DEFINE n == num_of_pages'
  <2> HIDE DEF n
  <2>2. n \in Int /\ n >= -(IntMod \div 2) /\ n < IntMod \div 2
    BY <2>1 DEF n
  <2>3. PageSize(n) \in 0..(LongMod - 1)
    BY <2>2, SizeOf
  <2>. QED BY <1>6, <2>3 DEF n
<1>8. UNCHANGED <<argc, argv, i, mapped, locked, mem>>
  BY DEF arguments, args
<1>9. TypeOK'
  BY <1>1, <1>4, <1>5, <1>7, <1>8 DEF TypeOK
<1>10. \A k \in 0..(i' - 1) : FALSE
  BY <1>1, <1>8
<1>. QED BY <1>1, <1>6, <1>8, <1>9, <1>10 DEF SizeExact, StoresInside

\* A mapping that was granted has the size the command line asks for.
LEMMA mmap_Keeps == IInv /\ mmap => IInv'
<1> SUFFICES ASSUME IInv, mmap PROVE IInv'
  OBVIOUS
<1> USE DEF IInv
<1>1. /\ TypeOK /\ pc = "mmap" /\ pc' = "fill" /\ i = 0 /\ mapped = {"program"}
      /\ size = PageSize(num_of_pages)
      /\ UNCHANGED <<argc, argv, multiplier, num_of_pages, size, i, locked, mem>>
  BY DEF mmap, args
<1>2. mapped' \in SUBSET {"program", "data"}
  BY <1>1 DEF mmap
<1>3. TypeOK'
  BY <1>1, <1>2 DEF TypeOK
<1>4. num_of_pages \in Int /\ num_of_pages >= -(IntMod \div 2) /\ num_of_pages < IntMod \div 2
  BY <1>1, ArgInt DEF TypeOK
<1>5. ASSUME "data" \in mapped' PROVE num_of_pages > 0 /\ size = PageBytes * num_of_pages
  <2>1. size > 0 /\ size <= AddressSpace
    BY <1>1, <1>5 DEF mmap
  <2>2. size \in Nat /\ AddressSpace \in Nat
    BY <1>1, LongAssumption DEF TypeOK
  <2>3. num_of_pages >= 0
    BY <1>1, <1>4, <2>1, <2>2, SizeOf
  <2>4. size = PageBytes * num_of_pages
    BY <1>1, <1>4, <2>3, SizeOf
  <2>5. num_of_pages # 0
    <3>1. \A x \in Nat : x * 0 = 0
      OBVIOUS
    <3>2. PageBytes \in Nat
      BY PageAssumption DEF PageBytes
    <3>. QED BY <2>1, <2>4, <3>1, <3>2
  <2>. QED BY <1>4, <2>3, <2>4, <2>5
<1>6. SizeExact'
  BY <1>1, <1>5 DEF SizeExact
<1>7. \A n \in Nat : PageInts * n \in Nat
  BY IntsOf
<1>8. StoresInside'
  BY <1>1, <1>4, <1>5, <1>7 DEF StoresInside
<1>9. \A k \in 0..(i' - 1) : FALSE
  BY <1>1
<1>. QED BY <1>1, <1>3, <1>6, <1>8, <1>9

\* A store is at the next index, inside the mapping.
LEMMA write_Keeps == IInv /\ write => IInv'
<1> SUFFICES ASSUME IInv, write PROVE IInv'
  OBVIOUS
<1> USE DEF IInv
<1>1. /\ TypeOK /\ pc = "fill" /\ i < Ints /\ "data" \in mapped
      /\ i' = i + 1
      /\ UNCHANGED <<pc, argc, argv, multiplier, num_of_pages, size, mapped, locked>>
  BY DEF write, args
<1>2. i \in Nat /\ mem \in [0..(i - 1) -> 0..(IntMod - 1)] /\ multiplier \in Int
  BY <1>1, ArgInt DEF TypeOK
<1>3. 0..(i' - 1) = (0..(i - 1)) \cup {i} /\ i \notin 0..(i - 1)
  BY <1>1, <1>2
<1>4. mem' = [k \in 0..(i' - 1) |-> IF k = i THEN Stored(i, multiplier) ELSE mem[k]]
  BY <1>2, <1>3 DEF write
<1>5. Stored(i, multiplier) \in 0..(IntMod - 1)
  <2> DEFINE a == i * multiplier
  <2>1. a \in Int
    BY <1>2
  <2>2. Stored(i, multiplier) = a % IntMod
    BY <1>2, StoredInt
  <2> HIDE DEF a
  <2>. QED BY <2>1, <2>2, DivMod, IntAssumption
<1>6. mem' \in [0..(i' - 1) -> 0..(IntMod - 1)]
  BY <1>2, <1>3, <1>4, <1>5
<1>7. TypeOK'
  BY <1>1, <1>2, <1>6 DEF TypeOK
<1>8. \A k \in 0..(i' - 1) : mem'[k] = Stored(k, multiplier)
  BY <1>2, <1>3, <1>4
<1>9. num_of_pages \in Nat \ {0} /\ size = PageBytes * num_of_pages
  BY <1>1, ArgInt DEF SizeExact, TypeOK
<1>10. Ints = PageInts * num_of_pages /\ PageInts * num_of_pages \in Nat
  BY <1>9, IntsOf DEF Ints
<1>11. i' <= PageInts * num_of_pages
  BY <1>1, <1>2, <1>10
<1>12. StoresInside'
  BY <1>1, <1>11 DEF StoresInside
<1>13. SizeExact'
  BY <1>1 DEF SizeExact
<1>. QED BY <1>1, <1>7, <1>8, <1>12, <1>13

\* A fault comes only when there is no mapping.
LEMMA fault_Keeps == IInv /\ fault => IInv'
<1> SUFFICES ASSUME IInv, fault PROVE IInv'
  OBVIOUS
<1> USE DEF IInv
<1>1. /\ TypeOK /\ pc = "fill" /\ pc' = "segv" /\ i < Ints /\ "data" \notin mapped
      /\ UNCHANGED <<argc, argv, multiplier, num_of_pages, size, i, mapped, locked, mem>>
  BY DEF fault, args
<1>2. i = 0
  BY <1>1 DEF StoresInside
<1>3. num_of_pages # 0
  <2>1. SUFFICES ASSUME num_of_pages = 0 PROVE FALSE
    OBVIOUS
  <2>2. PageSize(0) = PageBytes * 0
    <3>1. 0 \in Int /\ 0 >= -(IntMod \div 2) /\ 0 < IntMod \div 2
      BY ArgInt
    <3>. QED BY <3>1, SizeOf
  <2>3. (PageBytes * 0) \div SizeofInt = PageInts * 0
    BY IntsOf
  <2>4. PageInts * 0 = 0
    BY PageAssumption
  <2>. QED BY <1>1, <1>2, <2>1, <2>2, <2>3, <2>4 DEF Ints
<1>4. TypeOK'
  BY <1>1 DEF TypeOK
<1>5. StoresInside'
  BY <1>1, <1>2, <1>3 DEF StoresInside
<1>6. SizeExact'
  BY <1>1 DEF SizeExact
<1>. QED BY <1>1, <1>4, <1>5, <1>6

\* Every step keeps the invariant.
LEMMA NextIInv == IInv /\ [Next]_vars => IInv'
<1> SUFFICES ASSUME IInv, [Next]_vars PROVE IInv'
  OBVIOUS
<1>0. ASSUME UNCHANGED vars PROVE IInv'
  BY <1>0 DEF vars, IInv, TypeOK, SizeExact, StoresInside, Ints
<1>1. CASE mlockall
  BY <1>1 DEF mlockall, args, IInv, TypeOK, SizeExact, StoresInside, Ints
<1>2. CASE usage
  BY <1>2 DEF usage, args, IInv, TypeOK, SizeExact, StoresInside, Ints
<1>3. CASE arguments
  BY <1>3, arguments_Keeps
<1>4. CASE mmap
  BY <1>4, mmap_Keeps
<1>5. CASE write
  BY <1>5, write_Keeps
<1>6. CASE fault
  BY <1>6, fault_Keeps
<1>7. CASE oom_kill
  BY <1>7 DEF oom_kill, args, IInv, TypeOK, SizeExact, StoresInside, Ints
<1>8. CASE populated
  BY <1>8 DEF populated, args, IInv, TypeOK, SizeExact, StoresInside, Ints
<1>9. CASE rest
  BY <1>9, <1>0 DEF rest
<1>. QED BY <1>0, <1>1, <1>2, <1>3, <1>4, <1>5, <1>6, <1>7, <1>8, <1>9 DEF Next

\* The invariant holds throughout.
LEMMA Invariance == Spec => []IInv
BY InitIInv, NextIInv, PTL DEF Spec

\* When the program sleeps, every int of the pages has been written.
LEMMA AllWritten ==
    ASSUME IInv, pc = "sleep"
    PROVE  /\ i = PageInts * num_of_pages
           /\ num_of_pages \in Nat
<1> USE DEF IInv
<1>1. /\ TypeOK /\ StoresInside /\ SizeExact /\ i >= Ints
      /\ size = PageSize(num_of_pages)
  OBVIOUS
<1>2. /\ i \in Nat /\ num_of_pages \in Int /\ size \in Nat
      /\ num_of_pages >= -(IntMod \div 2) /\ num_of_pages < IntMod \div 2
  BY <1>1, ArgInt, LongAssumption DEF TypeOK
<1>3. CASE "data" \in mapped
  <2>1. num_of_pages \in Nat /\ size = PageBytes * num_of_pages
    BY <1>1, <1>2, <1>3 DEF SizeExact
  <2>2. Ints = PageInts * num_of_pages /\ PageInts * num_of_pages \in Nat
    BY <2>1, IntsOf DEF Ints
  <2>3. i <= PageInts * num_of_pages
    BY <1>1, <1>3 DEF StoresInside
  <2>. QED BY <1>1, <1>2, <2>1, <2>2, <2>3
<1>4. CASE "data" \notin mapped
  <2>1. i = 0
    BY <1>1, <1>4 DEF StoresInside
  <2>2. size < SizeofInt
    <3>1. size \div SizeofInt \in Int /\ size = SizeofInt * (size \div SizeofInt) + (size % SizeofInt)
          /\ size % SizeofInt \in 0..(SizeofInt - 1)
      <4>1. size \in Int /\ SizeofInt \in Nat \ {0}
        BY <1>2, PageAssumption
      <4> HIDE DEF IInv
      <4>. QED BY <4>1, DivMod
    <3>2. size \div SizeofInt <= 0
      BY <1>1, <2>1, <3>1 DEF Ints
    <3> DEFINE q == size \div SizeofInt
               r == size % SizeofInt
    <3> HIDE DEF q, r
    <3>3. q \in Int /\ size = SizeofInt * q + r /\ r \in 0..(SizeofInt - 1) /\ q <= 0
      BY <3>1, <3>2 DEF q, r
    <3>4. SizeofInt * q \in Int /\ SizeofInt * q <= 0
      BY <3>3, PageAssumption
    <3>. QED BY <1>2, <3>3, <3>4, PageAssumption
  <2>3. AddressSpace \in Nat /\ AddressSpace >= SizeofInt
    <3>1. PageBytes >= SizeofInt /\ PageBytes \in Nat
      BY PageAssumption DEF PageBytes
    <3>. QED BY <3>1, LongAssumption, PageAssumption
  <2>4. num_of_pages >= 0
    BY <1>1, <1>2, <2>2, <2>3, SizeOf, PageAssumption
  <2>5. ~(num_of_pages > 0)
    <3>1. size = PageBytes * num_of_pages
      BY <1>1, <1>2, <2>4, SizeOf
    <3>2. num_of_pages > 0 => size >= SizeofInt
      BY <1>2, <2>4, <3>1, IntsOf
    <3>. QED BY <1>2, <2>2, <3>2, PageAssumption
  <2>6. num_of_pages = 0
    BY <1>2, <2>4, <2>5
  <2>7. PageInts * 0 = 0
    BY PageAssumption
  <2>. QED BY <2>1, <2>6, <2>7
<1>. QED BY <1>3, <1>4

\* Pages are alike when the difference of their products is a multiple.
LEMMA PagesOf == IInv => PagesAlike
<1> SUFFICES ASSUME IInv, pc = "sleep"
             PROVE  /\ DOMAIN mem = 0..(PageInts * num_of_pages - 1)
                    /\ \A p, q \in 0..(num_of_pages - 1) :
                          Page(p) = Page(q) <=> (PageInts * (q - p) * multiplier) % IntMod = 0
  BY DEF PagesAlike
<1> USE DEF IInv
<1>1. i = PageInts * num_of_pages /\ num_of_pages \in Nat /\ PageInts \in Nat \ {0}
  BY AllWritten, PageAssumption
<1>2. DOMAIN mem = 0..(PageInts * num_of_pages - 1) /\ multiplier \in Int
  BY <1>1, ArgInt DEF TypeOK
<1>3. ASSUME NEW p \in 0..(num_of_pages - 1), NEW q \in 0..(num_of_pages - 1)
      PROVE  Page(p) = Page(q) <=> (PageInts * (q - p) * multiplier) % IntMod = 0
  <2> DEFINE D == 0..(PageInts - 1)
             N == num_of_pages
             W == PageInts * N
  <2>1. \A x \in 0..(N - 1), k \in D : PageInts * x + k \in 0..(W - 1)
    <3> SUFFICES ASSUME NEW x \in 0..(N - 1), NEW k \in D
                 PROVE  PageInts * x + k \in 0..(W - 1)
      OBVIOUS
    <3>1. PageInts * (N - x) = W - PageInts * x
      BY <1>1
    <3>2. PageInts * (N - x) >= PageInts
      BY <1>1, Grows
    <3>3. PageInts * x \in Nat /\ W \in Nat
      BY <1>1
    <3>. QED BY <1>1, <3>1, <3>2, <3>3
  <2>2. \A x \in 0..(N - 1), k \in D : mem[PageInts * x + k] = Stored(PageInts * x + k, multiplier)
    <3>1. 0..(i - 1) = 0..(W - 1)
      BY <1>1
    <3>. QED BY <2>1, <3>1
  <2>3. Page(p) = Page(q) <=> \A k \in D : mem[PageInts * p + k] = mem[PageInts * q + k]
    BY DEF Page
  <2>4. ASSUME NEW k \in D
        PROVE  mem[PageInts * p + k] = mem[PageInts * q + k]
                 <=> (PageInts * (q - p) * multiplier) % IntMod = 0
    <3> DEFINE a == PageInts * q + k
               b == PageInts * p + k
    <3>1. a \in Int /\ b \in Int /\ a - b = PageInts * (q - p)
      BY <1>1
    <3>2. mem[b] = Stored(b, multiplier) /\ mem[a] = Stored(a, multiplier)
      BY <2>2
    <3> HIDE DEF a, b
    <3>3. Stored(a, multiplier) = Stored(b, multiplier) <=> ((a - b) * multiplier) % IntMod = 0
      BY <1>2, <3>1, StoredAlike
    <3>4. mem[b] = mem[a] <=> (PageInts * (q - p) * multiplier) % IntMod = 0
      BY <3>1, <3>2, <3>3
    <3>. QED BY <3>4 DEF a, b
  <2>5. 0 \in D
    BY <1>1
  <2> HIDE DEF D
  <2>. QED BY <2>3, <2>4, <2>5
<1>. QED BY <1>2, <1>3

\* The type invariant of InputPages, for all widths.
THEOREM TypeCorrect == Spec => []TypeOK
<1>1. IInv => TypeOK
  BY DEF IInv
<1>. QED BY <1>1, Invariance, PTL

\* The size is exact: an int number of pages never overflows the unsigned long,
\* and a negative one is never granted (lines 25 to 28).
THEOREM SizeCorrect == Spec => []SizeExact
<1>1. IInv => SizeExact
  BY DEF IInv
<1>. QED BY <1>1, Invariance, PTL

\* No store is outside the mapping; without a mapping the first one faults
\* (lines 28 to 35).
THEOREM StoresCorrect == Spec => []StoresInside
<1>1. IInv => StoresInside
  BY DEF IInv
<1>. QED BY <1>1, Invariance, PTL

\* All ints are written before the program sleeps, and two pages are alike
\* exactly when the product wraps around between them; in the code's widths,
\* with an odd multiplier, that is every 2^22 pages (lines 32 to 36).
THEOREM PagesCorrect == Spec => []PagesAlike
BY PagesOf, Invariance, PTL
=============================================================================

---------------------------- MODULE BTreeSafety -----------------------------
(***************************************************************************)
(* The safety theorems of BTree: every step keeps IndInv, one lemma for    *)
(* each action. First facts about the sequences that stand for the arrays  *)
(* of a node, and what each update does to the links, as facts about a     *)
(* heap h before it and a heap g after it; then the client's calls, find,  *)
(* find_range and insert; then delete_entry and delete.  At the end facts  *)
(* about the order of the keys in a node and in a tree: what an update of  *)
(* some nodes has to show to keep it.                                      *)
(* Hypotheses that go together have a name (Pair, Absorbs, Merge, Balance, *)
(* Move): a lemma is then applied by matching its name, and the            *)
(* definitions are expanded only where they are needed.                    *)
(***************************************************************************)
EXTENDS BTreeInv, TLAPS

\* A slice: its type, its length and its entries.
LEMMA SubSeqProps ==
  ASSUME NEW S, NEW s \in Seq(S), NEW m \in Int, NEW n \in Int, 1 <= m, m <= n + 1, n <= Len(s)
  PROVE  /\ SubSeq(s, m, n) \in Seq(S)
         /\ Len(SubSeq(s, m, n)) = n - m + 1
         /\ \A k \in 1..(n - m + 1) : SubSeq(s, m, n)[k] = s[m + k - 1]
  OBVIOUS

\* Two sequences joined: type, length and entries.
LEMMA ConcatProps ==
  ASSUME NEW S, NEW s \in Seq(S), NEW t \in Seq(S)
  PROVE  /\ s \o t \in Seq(S)
         /\ Len(s \o t) = Len(s) + Len(t)
         /\ \A k \in 1..Len(s) : (s \o t)[k] = s[k]
         /\ \A k \in 1..Len(t) : (s \o t)[Len(s) + k] = t[k]
  OBVIOUS

\* InsertAt: type, length, and where each entry comes from.
LEMMA InsertAtProps ==
  ASSUME NEW S, NEW s \in Seq(S), NEW e \in S, NEW i \in 1..(Len(s) + 1)
  PROVE  /\ InsertAt(s, i, e) \in Seq(S)
         /\ Len(InsertAt(s, i, e)) = Len(s) + 1
         /\ \A k \in 1..(i - 1) : InsertAt(s, i, e)[k] = s[k]
         /\ InsertAt(s, i, e)[i] = e
         /\ \A k \in (i + 1)..(Len(s) + 1) : InsertAt(s, i, e)[k] = s[k - 1]
<1> DEFINE a == SubSeq(s, 1, i - 1)
           b == SubSeq(s, i, Len(s))
           ae == a \o <<e>>
<1>0. Len(s) \in Nat /\ i \in Int /\ 1 <= i /\ i <= Len(s) + 1
  OBVIOUS
<1>1. /\ a \in Seq(S) /\ Len(a) = i - 1
      /\ \A k \in 1..(i - 1) : a[k] = s[k]
  OBVIOUS
<1>2. /\ b \in Seq(S) /\ Len(b) = Len(s) - i + 1
      /\ \A k \in 1..(Len(s) - i + 1) : b[k] = s[i + k - 1]
  OBVIOUS
<1>3. /\ ae \in Seq(S) /\ Len(ae) = i
      /\ \A k \in 1..(i - 1) : ae[k] = s[k]
      /\ ae[i] = e
  <2> HIDE DEF a
  <2> QED BY <1>1
<1>4. InsertAt(s, i, e) = ae \o b
  BY DEF InsertAt
<1> HIDE DEF a, b, ae
<1>5. /\ ae \o b \in Seq(S) /\ Len(ae \o b) = Len(ae) + Len(b)
      /\ \A k \in 1..Len(b) : (ae \o b)[Len(ae) + k] = b[k]
  <2>1. ae \in Seq(S) /\ b \in Seq(S)
    BY <1>2, <1>3
  <2>. QED BY ONLY <2>1, ConcatProps
<1>6. Len(ae \o b) = Len(s) + 1
  BY <1>0, <1>2, <1>3, <1>5
<1>7. \A k \in 1..(i - 1) : (ae \o b)[k] = s[k]
  BY <1>0, <1>2, <1>3
<1>8. (ae \o b)[i] = e
  BY <1>0, <1>2, <1>3
<1>9. ASSUME NEW k \in (i + 1)..(Len(s) + 1)
      PROVE  (ae \o b)[k] = s[k - 1]
  <2>1. k - i \in 1..(Len(s) - i + 1)
    BY <1>0
  <2>2. (ae \o b)[k] = b[k - i]
    <3>1. k - i \in 1..Len(b) /\ Len(ae) + (k - i) = k
      BY <1>0, <1>2, <1>3, <2>1
    <3>2. (ae \o b)[Len(ae) + (k - i)] = b[k - i]
      BY ONLY <1>5, <3>1, Zenon
    <3>. QED BY ONLY <3>1, <3>2
  <2>. QED BY <1>0, <2>1, <2>2, <1>2
<1>. QED BY <1>4, <1>5, <1>6, <1>7, <1>8, <1>9

\* RemoveAt: type, length, and where each entry comes from.
LEMMA RemoveAtProps ==
  ASSUME NEW S, NEW s \in Seq(S), NEW i \in 1..Len(s)
  PROVE  /\ RemoveAt(s, i) \in Seq(S)
         /\ Len(RemoveAt(s, i)) = Len(s) - 1
         /\ \A k \in 1..(i - 1) : RemoveAt(s, i)[k] = s[k]
         /\ \A k \in i..(Len(s) - 1) : RemoveAt(s, i)[k] = s[k + 1]
<1> DEFINE a == SubSeq(s, 1, i - 1)
           b == SubSeq(s, i + 1, Len(s))
<1>0. Len(s) \in Nat /\ i \in Int /\ 1 <= i /\ i <= Len(s)
  OBVIOUS
<1>1. /\ a \in Seq(S) /\ Len(a) = i - 1
      /\ \A k \in 1..(i - 1) : a[k] = s[k]
  OBVIOUS
<1>2. /\ b \in Seq(S) /\ Len(b) = Len(s) - i
      /\ \A k \in 1..(Len(s) - i) : b[k] = s[i + k]
  OBVIOUS
<1>3. RemoveAt(s, i) = a \o b
  BY DEF RemoveAt
<1> HIDE DEF a, b
<1>4. a \o b \in Seq(S) /\ Len(a \o b) = Len(a) + Len(b)
  <2>1. a \in Seq(S) /\ b \in Seq(S)
    BY <1>1, <1>2
  <2>. QED BY ONLY <2>1, ConcatProps
<1>5. Len(a \o b) = Len(s) - 1
  BY <1>0, <1>1, <1>2, <1>4
<1>6. \A k \in 1..(i - 1) : (a \o b)[k] = s[k]
  BY <1>0, <1>1, <1>2
<1>7. ASSUME NEW k \in i..(Len(s) - 1)
      PROVE  (a \o b)[k] = s[k + 1]
  <2>1. k - (i - 1) \in 1..(Len(s) - i)
    BY <1>0
  <2>2. (a \o b)[k] = b[k - (i - 1)]
    BY <1>0, <1>1, <1>2, <2>1
  <2>. QED BY <1>0, <2>1, <2>2, <1>2
<1>. QED BY <1>3, <1>4, <1>5, <1>6, <1>7

\* The range of a sequence holds its entries.
LEMMA InRange ==
  ASSUME NEW S, NEW s \in Seq(S), NEW x
  PROVE  x \in Range(s) <=> \E k \in 1..Len(s) : s[k] = x
  BY DEF Range

\* An injective sequence lists nothing twice.
LEMMA Injective ==
  ASSUME NEW S, NEW s \in Seq(S)
  PROVE  IsInjective(s) <=> \A a, b \in 1..Len(s) : s[a] = s[b] => a = b
<1>1. DOMAIN s = 1..Len(s)
  OBVIOUS
<1>. QED BY <1>1 DEF IsInjective

\* t lists elements of s, entry k of t being entry o[k] of s.
LEMMA Reindex ==
  ASSUME NEW S, NEW s \in Seq(S), NEW t \in Seq(S),
         NEW o \in [1..Len(t) -> 1..Len(s)],
         \A k \in 1..Len(t) : t[k] = s[o[k]]
  PROVE  /\ Range(t) \subseteq Range(s)
         /\ IsInjective(s) /\ (\A a, b \in 1..Len(t) : o[a] = o[b] => a = b)
               => IsInjective(t)
<1>1. ASSUME NEW x \in Range(t) PROVE x \in Range(s)
  <2>1. PICK k \in 1..Len(t) : t[k] = x
    BY InRange
  <2>2. o[k] \in 1..Len(s) /\ s[o[k]] = x
    BY <2>1
  <2>. QED BY ONLY <2>2, s \in Seq(S), InRange
<1>2. ASSUME IsInjective(s), \A a, b \in 1..Len(t) : o[a] = o[b] => a = b
      PROVE  IsInjective(t)
  <2>1. \A a, b \in 1..Len(s) : s[a] = s[b] => a = b
    BY <1>2, Injective
  <2>2. ASSUME NEW a \in 1..Len(t), NEW b \in 1..Len(t), t[a] = t[b] PROVE a = b
    <3>1. s[o[a]] = s[o[b]] /\ o[a] \in 1..Len(s) /\ o[b] \in 1..Len(s)
      BY <2>2
    <3>. QED BY <1>2, <2>1, <3>1
  <2>. QED BY <2>2, Injective
<1>. QED BY <1>1, <1>2

\* A new element inserted: one more in the range, still no repetition.
LEMMA InsertAtRange ==
  ASSUME NEW S, NEW s \in Seq(S), NEW e \in S, NEW i \in 1..(Len(s) + 1)
  PROVE  /\ Range(InsertAt(s, i, e)) = Range(s) \cup {e}
         /\ IsInjective(s) /\ e \notin Range(s) => IsInjective(InsertAt(s, i, e))
<1> DEFINE t == InsertAt(s, i, e)
           old(k) == IF k < i THEN k ELSE k - 1
<1>0. Len(s) \in Nat /\ i \in Int /\ 1 <= i /\ i <= Len(s) + 1
  OBVIOUS
<1>1. /\ t \in Seq(S) /\ Len(t) = Len(s) + 1
      /\ \A k \in 1..(i - 1) : t[k] = s[k]
      /\ t[i] = e
      /\ \A k \in (i + 1)..(Len(s) + 1) : t[k] = s[k - 1]
  BY InsertAtProps
<1> HIDE DEF t
<1>2. ASSUME NEW k \in 1..(Len(s) + 1), k # i
      PROVE  old(k) \in 1..Len(s) /\ t[k] = s[old(k)]
  <2>1. CASE k < i
    BY <1>0, <1>1, <2>1
  <2>2. CASE k > i
    <3>1. k \in (i + 1)..(Len(s) + 1)
      BY <1>0, <2>2
    <3>. QED BY <1>0, <1>1, <2>2, <3>1
  <2>. QED BY <1>0, <1>2, <2>1, <2>2
<1>3. ASSUME NEW x \in Range(t) PROVE x \in Range(s) \cup {e}
  <2>1. PICK k \in 1..(Len(s) + 1) : t[k] = x
    BY <1>1, InRange
  <2>2. CASE k = i
    BY <2>1, <2>2, <1>1
  <2>3. CASE k # i
    <3>1. old(k) \in 1..Len(s) /\ s[old(k)] = x
      BY <1>2, <2>1, <2>3
    <3> HIDE DEF old
    <3>. QED BY <3>1, InRange
  <2>. QED BY <2>2, <2>3
<1>4. ASSUME NEW x \in Range(s) PROVE x \in Range(t)
  <2>1. PICK k \in 1..Len(s) : s[k] = x
    BY InRange
  <2>2. \E m \in 1..Len(t) : t[m] = x
    <3>1. CASE k < i
      BY <1>0, <1>1, <2>1, <3>1
    <3>2. CASE k >= i
      <4>1. k + 1 \in (i + 1)..(Len(s) + 1) /\ (k + 1) - 1 = k /\ k + 1 \in 1..Len(t)
        BY <1>0, <1>1, <3>2
      <4>2. t[k + 1] = s[k]
        BY <1>1, <4>1
      <4>. QED BY <2>1, <4>1, <4>2
    <3>. QED BY <1>0, <3>1, <3>2
  <2>. QED BY <1>1, <2>2, InRange
<1>5. e \in Range(t)
  <2>1. i \in 1..Len(t)
    BY <1>0, <1>1
  <2>. QED BY <1>1, <2>1, InRange
<1>6. ASSUME IsInjective(s), e \notin Range(s) PROVE IsInjective(t)
  <2>1. \A k \in 1..Len(s) : s[k] # e
    BY <1>6, InRange
  <2>2. \A a, b \in 1..Len(s) : s[a] = s[b] => a = b
    BY <1>6, Injective
  <2>3. ASSUME NEW a \in 1..(Len(s) + 1), NEW b \in 1..(Len(s) + 1), t[a] = t[b]
        PROVE  a = b
    <3>1. CASE a = i \/ b = i
      <4> HIDE DEF old
      <4>. QED BY <1>1, <1>2, <2>1, <2>3, <3>1
    <3>2. CASE a # i /\ b # i
      <4>1. old(a) = old(b)
        <5> HIDE DEF old
        <5>. QED BY <1>2, <2>2, <2>3, <3>2
      <4>. QED BY <1>0, <4>1, <3>2
    <3>. QED BY <3>1, <3>2
  <2>. QED BY <1>1, <2>3, Injective
<1>. QED BY <1>3, <1>4, <1>5, <1>6 DEF t

\* An entry removed from a sequence without repetitions: one less in the range.
LEMMA RemoveAtRange ==
  ASSUME NEW S, NEW s \in Seq(S), NEW i \in 1..Len(s), IsInjective(s)
  PROVE  /\ Range(RemoveAt(s, i)) = Range(s) \ {s[i]}
         /\ IsInjective(RemoveAt(s, i))
<1> DEFINE t == RemoveAt(s, i)
           o == [k \in 1..Len(t) |-> IF k < i THEN k ELSE k + 1]
<1>0. Len(s) \in Nat /\ i \in Int /\ 1 <= i /\ i <= Len(s)
  OBVIOUS
<1>1. /\ t \in Seq(S) /\ Len(t) = Len(s) - 1
      /\ \A k \in 1..(i - 1) : t[k] = s[k]
      /\ \A k \in i..(Len(s) - 1) : t[k] = s[k + 1]
  BY RemoveAtProps
<1> HIDE DEF t
<1>2. /\ o \in [1..Len(t) -> 1..Len(s)]
      /\ \A k \in 1..Len(t) : t[k] = s[o[k]]
      /\ \A k \in 1..Len(t) : o[k] # i
      /\ \A a, b \in 1..Len(t) : o[a] = o[b] => a = b
  BY <1>0, <1>1
<1> HIDE DEF o
<1>3. Range(t) \subseteq Range(s) /\ IsInjective(t)
  BY <1>1, <1>2, Reindex
<1>4. \A a, b \in 1..Len(s) : s[a] = s[b] => a = b
  BY Injective
<1>5. s[i] \notin Range(t)
  <2> SUFFICES ASSUME NEW k \in 1..Len(t), t[k] = s[i] PROVE FALSE
    BY <1>1, InRange
  <2>. QED BY <1>2, <1>4
<1>6. ASSUME NEW x \in Range(s) \ {s[i]} PROVE x \in Range(t)
  <2>1. PICK k \in 1..Len(s) : s[k] = x
    BY InRange
  <2>2. \E m \in 1..Len(t) : t[m] = x
    <3>1. CASE k < i
      BY <1>0, <1>1, <2>1, <3>1
    <3>2. CASE k > i
      <4>1. k - 1 \in i..(Len(s) - 1) /\ (k - 1) + 1 = k /\ k - 1 \in 1..Len(t)
        BY <1>0, <1>1, <3>2
      <4>2. t[k - 1] = s[k]
        BY <1>1, <4>1
      <4>. QED BY <2>1, <4>1, <4>2
    <3>. QED BY <1>0, <2>1, <3>1, <3>2
  <2>. QED BY <1>1, <2>2, InRange
<1>. QED BY <1>3, <1>5, <1>6 DEF t

\* The range of two sequences joined; disjoint ones stay without repetitions.
LEMMA ConcatRange ==
  ASSUME NEW S, NEW s \in Seq(S), NEW t \in Seq(S)
  PROVE  /\ Range(s \o t) = Range(s) \cup Range(t)
         /\ IsInjective(s) /\ IsInjective(t) /\ Range(s) \cap Range(t) = {}
               => IsInjective(s \o t)
<1> DEFINE u == s \o t
<1>0. Len(s) \in Nat /\ Len(t) \in Nat
  OBVIOUS
<1>1. /\ u \in Seq(S) /\ Len(u) = Len(s) + Len(t)
      /\ \A k \in 1..Len(s) : u[k] = s[k]
      /\ \A k \in 1..Len(t) : u[Len(s) + k] = t[k]
  BY ConcatProps
<1> HIDE DEF u
<1>2. ASSUME NEW k \in 1..Len(u), k > Len(s)
      PROVE  k - Len(s) \in 1..Len(t) /\ u[k] = t[k - Len(s)]
  BY <1>0, <1>1, <1>2
<1>3. ASSUME NEW k \in 1..Len(u), k <= Len(s)
      PROVE  k \in 1..Len(s) /\ u[k] = s[k]
  BY <1>0, <1>1, <1>3
<1>4. \A k \in 1..Len(u) : k > Len(s) \/ k <= Len(s)
  BY <1>0
<1>5. ASSUME NEW x \in Range(u) PROVE x \in Range(s) \cup Range(t)
  <2>1. PICK k \in 1..Len(u) : u[k] = x
    BY <1>1, InRange
  <2>2. (\E m \in 1..Len(s) : s[m] = x) \/ (\E m \in 1..Len(t) : t[m] = x)
    BY <1>2, <1>3, <1>4, <2>1
  <2>. QED BY <2>2, InRange
<1>6. ASSUME NEW x \in Range(s) PROVE x \in Range(u)
  <2>1. PICK k \in 1..Len(s) : s[k] = x
    BY InRange
  <2>2. k \in 1..Len(u) /\ u[k] = x
    BY <1>0, <1>1, <2>1
  <2>. QED BY <1>1, <2>2, InRange
<1>7. ASSUME NEW x \in Range(t) PROVE x \in Range(u)
  <2>1. PICK k \in 1..Len(t) : t[k] = x
    BY InRange
  <2>2. Len(s) + k \in 1..Len(u) /\ u[Len(s) + k] = x
    BY <1>0, <1>1, <2>1
  <2>. QED BY <1>1, <2>2, InRange
<1>8. ASSUME IsInjective(s), IsInjective(t), Range(s) \cap Range(t) = {}
      PROVE  IsInjective(u)
  <2>1. /\ \A a, b \in 1..Len(s) : s[a] = s[b] => a = b
        /\ \A a, b \in 1..Len(t) : t[a] = t[b] => a = b
    BY <1>8, Injective
  <2>2. \A a \in 1..Len(s), b \in 1..Len(t) : s[a] # t[b]
    BY <1>8, InRange
  <2>3. ASSUME NEW a \in 1..Len(u), NEW b \in 1..Len(u), u[a] = u[b] PROVE a = b
    <3>1. CASE a <= Len(s) /\ b <= Len(s)
      BY <1>3, <2>1, <2>3, <3>1
    <3>2. CASE a > Len(s) /\ b > Len(s)
      <4>1. a - Len(s) = b - Len(s)
        BY <1>2, <2>1, <2>3, <3>2
      <4>. QED BY <1>0, <4>1
    <3>3. CASE a <= Len(s) /\ b > Len(s)
      BY <1>2, <1>3, <2>2, <2>3, <3>3
    <3>4. CASE a > Len(s) /\ b <= Len(s)
      BY <1>2, <1>3, <2>2, <2>3, <3>4
    <3>. QED BY <1>4, <3>1, <3>2, <3>3, <3>4
  <2>. QED BY <1>1, <2>3, Injective
<1>. QED BY <1>5, <1>6, <1>7, <1>8 DEF u

\* A sequence without repetitions cut in two: disjoint parts.
LEMMA SplitRange ==
  ASSUME NEW S, NEW s \in Seq(S), NEW m \in 0..Len(s), IsInjective(s)
  PROVE  LET l == SubSeq(s, 1, m)  r == SubSeq(s, m + 1, Len(s))
         IN  /\ Range(l) \cup Range(r) = Range(s)
             /\ Range(l) \cap Range(r) = {}
             /\ IsInjective(l) /\ IsInjective(r)
<1> DEFINE l == SubSeq(s, 1, m)
           r == SubSeq(s, m + 1, Len(s))
           ol == [k \in 1..Len(l) |-> k]
           or == [k \in 1..Len(r) |-> m + k]
<1>0. Len(s) \in Nat /\ m \in Int /\ 0 <= m /\ m <= Len(s)
  OBVIOUS
<1>1. l \in Seq(S) /\ Len(l) = m /\ \A k \in 1..m : l[k] = s[k]
  OBVIOUS
<1>2. r \in Seq(S) /\ Len(r) = Len(s) - m /\ \A k \in 1..(Len(s) - m) : r[k] = s[m + k]
  OBVIOUS
<1> HIDE DEF l, r
<1>3. /\ ol \in [1..Len(l) -> 1..Len(s)]
      /\ \A k \in 1..Len(l) : l[k] = s[ol[k]]
      /\ \A a, b \in 1..Len(l) : ol[a] = ol[b] => a = b
  BY <1>0, <1>1
<1>4. /\ or \in [1..Len(r) -> 1..Len(s)]
      /\ \A k \in 1..Len(r) : r[k] = s[or[k]]
      /\ \A a, b \in 1..Len(r) : or[a] = or[b] => a = b
  BY <1>0, <1>2
<1>5. \A a \in 1..Len(l), b \in 1..Len(r) : ol[a] # or[b]
  BY <1>0, <1>1, <1>2
<1> HIDE DEF ol, or
<1>6. Range(l) \subseteq Range(s) /\ IsInjective(l)
  BY <1>1, <1>3, Reindex
<1>7. Range(r) \subseteq Range(s) /\ IsInjective(r)
  BY <1>2, <1>4, Reindex
<1>8. ASSUME NEW x \in Range(s) PROVE x \in Range(l) \cup Range(r)
  <2>1. PICK k \in 1..Len(s) : s[k] = x
    BY InRange
  <2>2. CASE k <= m
    <3>1. k \in 1..Len(l) /\ l[k] = x
      BY <1>0, <1>1, <2>1, <2>2
    <3>. QED BY <1>1, <3>1, InRange
  <2>3. CASE k > m
    <3>1. k - m \in 1..Len(r) /\ m + (k - m) = k
      BY <1>0, <1>2, <2>3
    <3>2. r[k - m] = x
      BY <1>2, <2>1, <3>1
    <3>. QED BY <1>2, <3>1, <3>2, InRange
  <2>. QED BY <1>0, <2>2, <2>3
<1>9. Range(l) \cap Range(r) = {}
  <2> SUFFICES ASSUME NEW a \in 1..Len(l), NEW b \in 1..Len(r), l[a] = r[b]
               PROVE  FALSE
    BY <1>1, <1>2, InRange
  <2>1. \A c, d \in 1..Len(s) : s[c] = s[d] => c = d
    BY Injective
  <2>2. s[ol[a]] = s[or[b]] /\ ol[a] \in 1..Len(s) /\ or[b] \in 1..Len(s)
    BY <1>3, <1>4
  <2>. QED BY <1>5, <2>1, <2>2
<1>. QED BY <1>6, <1>7, <1>8, <1>9 DEF l, r

\* One element put before the others, or after them.
LEMMA ConsProps ==
  ASSUME NEW S, NEW s \in Seq(S), NEW e \in S
  PROVE  <<e>> \o s \in Seq(S) /\ Len(<<e>> \o s) = Len(s) + 1
  OBVIOUS

\* One element put after the others: type and length.
LEMMA AppendProps ==
  ASSUME NEW S, NEW s \in Seq(S), NEW e \in S
  PROVE  Append(s, e) \in Seq(S) /\ Len(Append(s, e)) = Len(s) + 1
  OBVIOUS

\* A sequence of one element.
LEMMA Singleton ==
  ASSUME NEW S, NEW e \in S
  PROVE  <<e>> \in Seq(S) /\ Range(<<e>>) = {e} /\ IsInjective(<<e>>)
<1>0. <<e>> \in Seq(S) /\ Len(<<e>>) = 1 /\ <<e>>[1] = e
  OBVIOUS
<1>1. PICK t \in Seq(S) : t = <<e>> /\ Len(t) = 1 /\ t[1] = e
  BY <1>0
<1>2. \A x : x \in Range(t) <=> x = e
  <2>1. ASSUME NEW x PROVE x \in Range(t) <=> \E k \in 1..Len(t) : t[k] = x
    BY InRange
  <2>. QED BY <1>1, <2>1
<1>3. IsInjective(t)
  <2>1. \A a, b \in 1..Len(t) : t[a] = t[b] => a = b
    BY <1>1
  <2>. QED BY <2>1, Injective
<1>. QED BY <1>1, <1>2, <1>3

\* A new element put before the others: range and injectivity.
LEMMA ConsRange ==
  ASSUME NEW S, NEW s \in Seq(S), NEW e \in S, e \notin Range(s), IsInjective(s)
  PROVE  Range(<<e>> \o s) = Range(s) \cup {e} /\ IsInjective(<<e>> \o s)
<1>1. PICK t \in Seq(S) : t = <<e>> /\ Range(t) = {e} /\ IsInjective(t)
  BY Singleton
<1>2. Range(t) \cap Range(s) = {}
  BY <1>1
<1>3. Range(t \o s) = Range(t) \cup Range(s)
  BY ConcatRange
<1>4. IsInjective(t \o s)
  BY <1>1, <1>2, ConcatRange
<1>. QED BY <1>1, <1>3, <1>4

\* A new element put after the others: range and injectivity.
LEMMA AppendRange ==
  ASSUME NEW S, NEW s \in Seq(S), NEW e \in S, e \notin Range(s), IsInjective(s)
  PROVE  Range(Append(s, e)) = Range(s) \cup {e} /\ IsInjective(Append(s, e))
<1>1. PICK t \in Seq(S) : t = <<e>> /\ Range(t) = {e} /\ IsInjective(t)
  BY Singleton
<1>2. Range(s \o t) = Range(s) \cup Range(t) /\ IsInjective(s \o t)
  BY ZenonT(30), <1>1, ConcatRange
<1>3. Append(s, e) = s \o <<e>>
  OBVIOUS
<1>. QED BY <1>1, <1>2, <1>3

\* One entry overwritten.
LEMMA ExceptProps ==
  ASSUME NEW S, NEW s \in Seq(S), NEW i \in 1..Len(s), NEW e \in S
  PROVE  [s EXCEPT ![i] = e] \in Seq(S) /\ Len([s EXCEPT ![i] = e]) = Len(s)
  OBVIOUS

-----------------------------------------------------------------------------
(***************************************************************************)
(* The links.                                                              *)
(***************************************************************************)

\* The children of a node are nodes.
LEMMA KidsAreNodes ==
  ASSUME NEW h \in [Node -> NodeRec], NEW n \in Node
  PROVE  Kids(h, n) \subseteq Node
BY DEF Kids, Range, NodeRec

\* Linked looks at the links only.
LEMMA LinksKept ==
  ASSUME NEW h \in [Node -> NodeRec], NEW g, NEW rt, NEW T \in SUBSET Node,
         NEW dangling, NEW orphan, Linked(h, rt, T, dangling, orphan),
         \A n \in Node : g[n].kids = h[n].kids /\ g[n].parent = h[n].parent
  PROVE  Linked(g, rt, T, dangling, orphan)
<1>1. \A n \in Node : Kids(g, n) = Kids(h, n) /\ Kids(h, n) \subseteq Node
  BY DEF Kids, Range, NodeRec
<1>2. \A p \in T : \A c \in Kids(g, p) :
         /\ g[c].parent = p
         /\ c \notin orphan
         /\ c \in T \/ <<p, c>> \in dangling
  <2> SUFFICES ASSUME NEW p \in T, NEW c \in Kids(g, p)
               PROVE  /\ g[c].parent = p
                      /\ c \notin orphan
                      /\ c \in T \/ <<p, c>> \in dangling
    OBVIOUS
  <2>1. c \in Kids(h, p) /\ g[c].parent = h[c].parent
    BY <1>1
  <2>. QED BY <2>1 DEF Linked
<1>3. ASSUME NEW n \in T \ orphan, n # rt
      PROVE  g[n].parent \in T /\ n \in Kids(g, g[n].parent)
  BY <1>1, <1>3 DEF Linked
<1>4. /\ rt \in T \cup {NULL}
      /\ rt # NULL => g[rt].parent = NULL
      /\ \A p \in T : IsInjective(g[p].kids)
  BY DEF Linked
<1>. QED BY <1>2, <1>3, <1>4 DEF Linked

\* The empty sequence lists nothing, twice or at all.
LEMMA NoKids ==
  ASSUME NEW h, NEW n, h[n].kids = <<>>
  PROVE  Kids(h, n) = {} /\ IsInjective(h[n].kids)
BY DEF Kids, Range, IsInjective

\* start_new_tree: a leaf becomes the root of an empty tree.
LEMMA LinkedNewTree ==
  ASSUME NEW h \in [Node -> NodeRec], NEW g, NEW T \in SUBSET Node, NEW new \in Node \ T,
         Linked(h, NULL, T, {}, {}),
         \A n \in Node \ {new} : g[n] = h[n],
         g[new].kids = <<>>, g[new].parent = NULL
  PROVE  Linked(g, new, T \cup {new}, {}, {})
<1>1. Kids(g, new) = {} /\ IsInjective(g[new].kids)
  BY NoKids
<1>2. \A n \in T : g[n] = h[n] /\ Kids(g, n) = Kids(h, n) /\ n # NULL
  BY NullAssumption DEF Kids
<1>3. \A p \in T : \A c \in Kids(g, p) : c \in T /\ g[c].parent = p
  BY <1>2 DEF Linked
<1>4. \A n \in T : g[n].parent \in T /\ n \in Kids(g, g[n].parent)
  BY <1>2 DEF Linked
<1>5. \A n \in T : IsInjective(g[n].kids)
  BY <1>2 DEF Linked
<1>. QED BY <1>1, <1>3, <1>4, <1>5 DEF Linked

\* insert_into_leaf_after_splitting: the new leaf is an orphan.
LEMMA LinkedLeafSplit ==
  ASSUME NEW h \in [Node -> NodeRec], NEW g, NEW rt, NEW T \in SUBSET Node,
         NEW new \in Node \ T,
         Linked(h, rt, T, {}, {}),
         \A n \in Node \ {new} : g[n].kids = h[n].kids /\ g[n].parent = h[n].parent,
         g[new].kids = <<>>
  PROVE  Linked(g, rt, T \cup {new}, {}, {new})
<1>1. Kids(g, new) = {} /\ IsInjective(g[new].kids)
  BY NoKids
<1>2. \A n \in T : Kids(g, n) = Kids(h, n) /\ g[n].parent = h[n].parent
                   /\ IsInjective(g[n].kids)
  BY DEF Kids, Linked
<1>3. \A p \in T : \A c \in Kids(g, p) : c \in T /\ g[c].parent = p /\ c # new
  BY <1>2 DEF Linked
<1>4. \A n \in T : n # rt => g[n].parent \in T /\ n \in Kids(g, g[n].parent)
  BY <1>2 DEF Linked
<1>5. rt \in T \cup {NULL} /\ (rt # NULL => g[rt].parent = NULL)
  BY <1>2 DEF Linked
<1>. QED BY <1>1, <1>2, <1>3, <1>4, <1>5 DEF Linked

\* insert_into_new_root: the old root and its orphaned half get a parent.
LEMMA LinkedNewRoot ==
  ASSUME NEW h \in [Node -> NodeRec], NEW g, NEW rt, NEW T \in SUBSET Node,
         NEW new \in Node \ T, NEW l \in T, NEW r \in T, l # r, r # rt,
         Linked(h, rt, T, {}, {r}), h[l].parent = NULL,
         \A n \in Node \ {new} : g[n].kids = h[n].kids,
         \A n \in Node \ {new, l, r} : g[n].parent = h[n].parent,
         g[new].kids = <<l, r>>, g[new].parent = NULL,
         g[l].parent = new, g[r].parent = new
  PROVE  Linked(g, new, T \cup {new}, {}, {})
<1>0. l = rt
  BY NullAssumption DEF Linked
<1>1. Kids(g, new) = {l, r} /\ IsInjective(g[new].kids)
  BY DEF Kids, Range, IsInjective
<1>2. \A n \in T : Kids(g, n) = Kids(h, n) /\ IsInjective(g[n].kids)
  BY DEF Kids, Linked
<1>3. ASSUME NEW p \in T, NEW c \in Kids(g, p)
      PROVE  c \in T /\ g[c].parent = p
  <2>1. c \in T /\ h[c].parent = p /\ c # r
    BY <1>2 DEF Linked
  <2>2. c # l
    BY <2>1, NullAssumption
  <2>. QED BY <2>1, <2>2
<1>4. ASSUME NEW n \in T
      PROVE  g[n].parent \in T \cup {new} /\ n \in Kids(g, g[n].parent)
  <2>1. CASE n \in {l, r}
    BY <1>1, <2>1
  <2>2. CASE n \notin {l, r}
    BY <1>0, <1>2, <2>2 DEF Linked
  <2>. QED BY <2>1, <2>2
<1>. QED BY <1>1, <1>2, <1>3, <1>4 DEF Linked

\* insert_into_node: the orphan r is hung under p.
LEMMA LinkedInsertNode ==
  ASSUME NEW h \in [Node -> NodeRec], NEW g, NEW rt, NEW T \in SUBSET Node,
         NEW p \in T, NEW r \in T, r # rt,
         Linked(h, rt, T, {}, {r}), h[r].parent = p,
         \A n \in Node : g[n].parent = h[n].parent,
         \A n \in Node \ {p} : g[n].kids = h[n].kids,
         Kids(g, p) = Kids(h, p) \cup {r}, IsInjective(g[p].kids)
  PROVE  Linked(g, rt, T, {}, {})
<1>1. \A n \in T \ {p} : Kids(g, n) = Kids(h, n)
  BY DEF Kids
<1>2. \A n \in T : IsInjective(g[n].kids) /\ Kids(h, n) \subseteq Kids(g, n)
  BY <1>1 DEF Linked
<1>3. ASSUME NEW q \in T, NEW c \in Kids(g, q)
      PROVE  c \in T /\ g[c].parent = q
  BY <1>1 DEF Linked
<1>4. ASSUME NEW n \in T, n # rt
      PROVE  g[n].parent \in T /\ n \in Kids(g, g[n].parent)
  BY <1>2, <1>4 DEF Linked
<1>5. rt \in T \cup {NULL} /\ (rt # NULL => g[rt].parent = NULL)
  BY DEF Linked
<1>. QED BY <1>2, <1>3, <1>4, <1>5 DEF Linked

\* insert_into_node_after_splitting: p and the new node share the children of
\* p and the orphan r; now the new node is the orphan.
LEMMA LinkedNodeSplit ==
  ASSUME NEW h \in [Node -> NodeRec], NEW g, NEW rt, NEW T \in SUBSET Node,
         NEW new \in Node \ T, NEW p \in T, NEW r \in T, r # rt,
         Linked(h, rt, T, {}, {r}), h[r].parent = p,
         \A n \in Node \ {p, new} : g[n].kids = h[n].kids,
         IsInjective(g[p].kids), IsInjective(g[new].kids),
         Kids(g, p) \cap Kids(g, new) = {},
         Kids(g, p) \cup Kids(g, new) = Kids(h, p) \cup {r},
         \A n \in Kids(g, new) : g[n].parent = new,
         \A n \in Node \ (Kids(g, new) \cup {new}) : g[n].parent = h[n].parent
  PROVE  Linked(g, rt, T \cup {new}, {}, {new})
<1>1. \A n \in T \ {p} : Kids(g, n) = Kids(h, n)
  BY DEF Kids
<1>2. Kids(h, p) \cup {r} \subseteq T
  BY DEF Linked
<1>3. \A c \in Kids(h, p) \cup {r} : h[c].parent = p
  BY DEF Linked
<1>4. ASSUME NEW q \in T \cup {new}, NEW c \in Kids(g, q)
      PROVE  c \in T /\ g[c].parent = q
  <2>1. CASE q = new
    BY <1>2, <1>4, <2>1
  <2>2. CASE q = p
    BY <1>2, <1>3, <1>4, <2>2
  <2>3. CASE q \in T \ {p}
    <3>1. c \in T /\ h[c].parent = q
      BY <1>1, <1>4, <2>3 DEF Linked
    <3>2. c \notin Kids(g, new)
      BY <1>3, <3>1, <2>3
    <3>. QED BY <3>1, <3>2
  <2>. QED BY <2>1, <2>2, <2>3
<1>5. ASSUME NEW n \in T, n # rt
      PROVE  g[n].parent \in T \cup {new} /\ n \in Kids(g, g[n].parent)
  <2>1. CASE n \in Kids(g, new)
    BY <2>1
  <2>2. CASE n \in Kids(g, p)
    <3>1. n \notin Kids(g, new) /\ n \in Kids(h, p) \cup {r}
      BY <2>2
    <3>2. g[n].parent = p
      BY <1>3, <3>1
    <3>. QED BY <2>2, <3>2
  <2>3. CASE n \notin Kids(h, p) \cup {r}
    <3>1. h[n].parent \in T /\ n \in Kids(h, h[n].parent)
      BY <1>5, <2>3 DEF Linked
    <3>2. h[n].parent # p /\ g[n].parent = h[n].parent
      BY <2>3, <3>1
    <3>. QED BY <1>1, <3>1, <3>2
  <2>. QED BY <2>1, <2>2, <2>3
<1>6. rt \in T \cup {NULL} /\ (rt # NULL => g[rt].parent = NULL)
  <2>1. CASE rt \in T
    <3>1. h[rt].parent = NULL
      BY <2>1, NullAssumption DEF Linked
    <3>2. rt \notin Kids(g, new)
      BY <1>3, <3>1, NullAssumption
    <3>. QED BY <2>1, <3>1, <3>2
  <2>. QED BY <2>1 DEF Linked
<1>7. \A n \in T \cup {new} : IsInjective(g[n].kids)
  BY DEF Linked
<1>. QED BY <1>4, <1>5, <1>6, <1>7 DEF Linked

\* remove_entry_from_node in a parent: the entry of the merged child d goes.
LEMMA LinkedRemove ==
  ASSUME NEW h \in [Node -> NodeRec], NEW g, NEW rt, NEW T \in SUBSET Node,
         NEW n \in T, NEW d, d \notin T,
         Linked(h, rt, T, {<<n, d>>}, {}),
         \A m \in Node : g[m].parent = h[m].parent,
         \A m \in Node \ {n} : g[m].kids = h[m].kids,
         Kids(g, n) = Kids(h, n) \ {d}, IsInjective(g[n].kids)
  PROVE  Linked(g, rt, T, {}, {})
<1>1. \A m \in T \ {n} : Kids(g, m) = Kids(h, m)
  BY DEF Kids
<1>2. \A m \in T : IsInjective(g[m].kids)
  BY DEF Linked
<1>3. ASSUME NEW q \in T, NEW c \in Kids(g, q)
      PROVE  c \in T /\ g[c].parent = q
  <2>1. CASE q = n
    BY <1>3, <2>1 DEF Linked
  <2>2. CASE q # n
    BY <1>1, <1>3, <2>2 DEF Linked
  <2>. QED BY <2>1, <2>2
<1>4. ASSUME NEW m \in T, m # rt
      PROVE  g[m].parent \in T /\ m \in Kids(g, g[m].parent)
  BY <1>1, <1>4 DEF Linked
<1>5. rt \in T \cup {NULL} /\ (rt # NULL => g[rt].parent = NULL)
  BY DEF Linked
<1>. QED BY <1>2, <1>3, <1>4, <1>5 DEF Linked

\* adjust_root: the last key of a tree that is one leaf has gone.
LEMMA LinkedDropLeaf ==
  ASSUME NEW h \in [Node -> NodeRec], NEW g, NEW T \in SUBSET Node, NEW rt \in T,
         Linked(h, rt, T, {}, {}), h[rt].kids = <<>>,
         \A m \in Node \ {rt} : g[m].kids = h[m].kids /\ g[m].parent = h[m].parent
  PROVE  Linked(g, NULL, T \ {rt}, {}, {})
<1>1. \A m \in T \ {rt} : Kids(g, m) = Kids(h, m)
  BY DEF Kids
<1>2. Kids(h, rt) = {}
  BY NoKids
<1>3. rt # NULL /\ h[rt].parent = NULL
  BY NullAssumption DEF Linked
<1>4. ASSUME NEW q \in T \ {rt}, NEW c \in Kids(g, q)
      PROVE  c \in T \ {rt} /\ g[c].parent = q
  BY <1>1, <1>3, <1>4, NullAssumption DEF Linked
<1>5. ASSUME NEW m \in T \ {rt}
      PROVE  g[m].parent \in T \ {rt} /\ m \in Kids(g, g[m].parent)
  BY <1>1, <1>2 DEF Linked
<1>6. \A m \in T \ {rt} : IsInjective(g[m].kids)
  BY DEF Linked
<1>. QED BY <1>4, <1>5, <1>6 DEF Linked

\* adjust_root: the only child of the root takes its place.
LEMMA LinkedDropRoot ==
  ASSUME NEW h \in [Node -> NodeRec], NEW g, NEW T \in SUBSET Node, NEW rt \in T, NEW c,
         Linked(h, rt, T, {}, {}), Kids(h, rt) = {c},
         \A m \in Node \ {rt} : g[m].kids = h[m].kids,
         \A m \in Node \ {rt, c} : g[m].parent = h[m].parent,
         g[c].parent = NULL
  PROVE  Linked(g, c, T \ {rt}, {}, {})
<1>1. \A m \in T \ {rt} : Kids(g, m) = Kids(h, m)
  BY DEF Kids
<1>2. rt # NULL /\ h[rt].parent = NULL
  BY NullAssumption DEF Linked
<1>3. c \in T /\ h[c].parent = rt /\ c # rt
  BY <1>2, NullAssumption DEF Linked
<1>4. ASSUME NEW q \in T \ {rt}, NEW d \in Kids(g, q)
      PROVE  d \in T \ {rt} /\ g[d].parent = q
  <2>1. d \in T /\ h[d].parent = q
    BY <1>1, <1>4 DEF Linked
  <2>. QED BY <1>2, <1>3, <2>1, NullAssumption
<1>5. ASSUME NEW m \in T \ {rt}, m # c
      PROVE  g[m].parent \in T \ {rt} /\ m \in Kids(g, g[m].parent)
  BY <1>1, <1>5 DEF Linked
<1>6. \A m \in T \ {rt} : IsInjective(g[m].kids)
  BY DEF Linked
<1>. QED BY <1>3, <1>4, <1>5, <1>6 DEF Linked

\* coalesce_nodes: l takes the children of its sibling r, which leaves the
\* tree while their parent p still points to it.
LEMMA LinkedMerge ==
  ASSUME NEW h \in [Node -> NodeRec], NEW g, NEW rt, NEW T \in SUBSET Node,
         NEW l \in T, NEW r \in T, NEW p \in T, l # r, p # l, p # r, r # rt,
         Linked(h, rt, T, {}, {}), h[l].parent = p, h[r].parent = p,
         \A m \in Node \ {l} : g[m].kids = h[m].kids,
         Kids(g, l) = Kids(h, l) \cup Kids(h, r), IsInjective(g[l].kids),
         \A m \in Kids(g, l) : g[m].parent = l,
         \A m \in Node \ Kids(g, l) : g[m].parent = h[m].parent
  PROVE  Linked(g, rt, T \ {r}, {<<p, r>>}, {})
<1>1. \A m \in T \ {l} : Kids(g, m) = Kids(h, m)
  BY DEF Kids
<1>2. \A c \in Kids(g, l) : c \in T /\ h[c].parent \in {l, r}
  BY DEF Linked
<1>3. ASSUME NEW q \in T \ {r}, NEW c \in Kids(g, q)
      PROVE  g[c].parent = q /\ (c \in T \ {r} \/ <<q, c>> = <<p, r>>)
  <2>1. CASE q = l
    BY <1>2, <1>3, <2>1
  <2>2. CASE q # l
    <3>1. c \in T /\ h[c].parent = q
      BY <1>1, <1>3, <2>2 DEF Linked
    <3>2. c \notin Kids(g, l)
      BY <1>2, <3>1, <2>2
    <3>. QED BY <3>1, <3>2
  <2>. QED BY <2>1, <2>2
<1>4. ASSUME NEW m \in T \ {r}, m # rt
      PROVE  g[m].parent \in T \ {r} /\ m \in Kids(g, g[m].parent)
  <2>1. CASE m \in Kids(g, l)
    BY <2>1
  <2>2. CASE m \notin Kids(g, l)
    <3>1. h[m].parent \in T /\ m \in Kids(h, h[m].parent) /\ g[m].parent = h[m].parent
      BY <1>4, <2>2 DEF Linked
    <3>2. h[m].parent # l /\ h[m].parent # r
      BY <2>2, <3>1
    <3>. QED BY <1>1, <3>1, <3>2
  <2>. QED BY <2>1, <2>2
<1>5. rt \in (T \ {r}) \cup {NULL} /\ (rt # NULL => g[rt].parent = NULL)
  <2>1. CASE rt \in T
    <3>1. h[rt].parent = NULL
      BY <2>1, NullAssumption DEF Linked
    <3>2. rt \notin Kids(g, l)
      BY <1>2, <3>1, NullAssumption
    <3>. QED BY <2>1, <3>1, <3>2
  <2>. QED BY <2>1 DEF Linked
<1>6. \A m \in T : IsInjective(g[m].kids)
  BY DEF Linked
<1>. QED BY <1>3, <1>4, <1>5, <1>6 DEF Linked

\* redistribute_nodes: the children X move from b to its sibling n.
LEMMA LinkedMove ==
  ASSUME NEW h \in [Node -> NodeRec], NEW g, NEW rt, NEW T \in SUBSET Node,
         NEW n \in T, NEW b \in T, NEW X, n # b, X \subseteq Kids(h, b),
         Linked(h, rt, T, {}, {}),
         \A m \in Node \ {n, b} : g[m].kids = h[m].kids,
         Kids(g, n) = Kids(h, n) \cup X, IsInjective(g[n].kids),
         Kids(g, b) = Kids(h, b) \ X, IsInjective(g[b].kids),
         \A m \in Kids(g, n) : g[m].parent = n,
         \A m \in Node \ Kids(g, n) : g[m].parent = h[m].parent
  PROVE  Linked(g, rt, T, {}, {})
<1>1. \A m \in T \ {n, b} : Kids(g, m) = Kids(h, m)
  BY DEF Kids
<1>2. \A c \in Kids(g, n) : c \in T /\ h[c].parent \in {n, b}
  BY DEF Linked
<1>3. ASSUME NEW q \in T, NEW c \in Kids(g, q)
      PROVE  g[c].parent = q /\ c \in T
  <2>1. CASE q = n
    BY <1>2, <1>3, <2>1
  <2>2. CASE q # n
    <3>1. c \in T /\ h[c].parent = q /\ c \notin Kids(h, n)
      BY <1>1, <1>3, <2>2 DEF Linked
    <3>2. c \notin Kids(g, n)
      <4>1. CASE q = b
        BY <1>3, <3>1, <4>1
      <4>2. CASE q # b
        BY <1>2, <2>2, <3>1, <4>2
      <4>. QED BY <4>1, <4>2
    <3>. QED BY <3>1, <3>2
  <2>. QED BY <2>1, <2>2
<1>4. ASSUME NEW m \in T, m # rt
      PROVE  g[m].parent \in T /\ m \in Kids(g, g[m].parent)
  <2>1. CASE m \in Kids(g, n)
    BY <2>1
  <2>2. CASE m \notin Kids(g, n)
    <3>1. h[m].parent \in T /\ m \in Kids(h, h[m].parent) /\ g[m].parent = h[m].parent
      BY <1>4, <2>2 DEF Linked
    <3>2. h[m].parent # n
      BY <2>2, <3>1
    <3>3. CASE h[m].parent = b
      BY <2>2, <3>1, <3>3
    <3>4. CASE h[m].parent # b
      BY <1>1, <3>1, <3>2, <3>4
    <3>. QED BY <3>3, <3>4
  <2>. QED BY <2>1, <2>2
<1>5. rt \in T \cup {NULL} /\ (rt # NULL => g[rt].parent = NULL)
  <2>1. CASE rt \in T
    <3>1. h[rt].parent = NULL
      BY <2>1, NullAssumption DEF Linked
    <3>2. rt \notin Kids(g, n)
      BY <1>2, <3>1, NullAssumption
    <3>. QED BY <2>1, <3>1, <3>2
  <2>. QED BY <2>1 DEF Linked
<1>6. \A m \in T : IsInjective(g[m].kids)
  BY DEF Linked
<1>. QED BY <1>3, <1>4, <1>5, <1>6 DEF Linked

-----------------------------------------------------------------------------
(***************************************************************************)
(* The client's calls, find, find_range and insert.                        *)
(***************************************************************************)
\* The arithmetic of cut: both halves of a split are large enough and fit.
LEMMA CutFacts ==
    /\ Order \in Nat /\ Order >= 3
    /\ cut(Order - 1) \in Nat /\ cut(Order) \in Nat
    /\ 1 <= cut(Order - 1) /\ cut(Order - 1) <= Order - 1
    /\ Order - cut(Order - 1) >= cut(Order - 1)
    /\ 2 <= cut(Order) /\ cut(Order) <= Order - 1
    /\ Order - cut(Order) >= cut(Order) - 1
    /\ cut(Order) + cut(Order) <= Order + 1
    /\ cut(Order - 1) + cut(Order - 1) <= Order
BY OrderAssumption DEF cut

\* The empty tree satisfies the invariant.
LEMMA InitInv == Init => IndInv
<1> SUFFICES ASSUME Init PROVE IndInv
  OBVIOUS
<1>1. TypeOK
  BY NullAssumption, KeyAssumption
  DEF Init, TypeOK, NodeRec, CallRec, Blank, Idle, Searching
<1>2. InTree = {}
  BY DEF Init, InTree, Live
<1>3. call.pc = "idle" /\ root = NULL /\ doomed = {}
  BY DEF Init, Idle
<1>4. CallOK
  BY <1>3 DEF CallOK, Searching
<1>5. Linked(heap, root, InTree, Dangling, Orphan)
  BY <1>2, <1>3 DEF Linked
<1>6. Shaped(heap, InTree) /\ Full(heap, root, InTree)
  BY <1>2 DEF Shaped, ShapedNode, Full
<1>7. HeightsOK([n \in Node |-> 0])
  BY <1>2, <1>3 DEF HeightsOK, Graded
<1>8. \E ht \in [Node -> Nat] : HeightsOK(ht)
  <2>1. [n \in Node |-> 0] \in [Node -> Nat]
    OBVIOUS
  <2>. QED BY <1>7, <2>1
<1>. QED BY <1>1, <1>4, <1>5, <1>6, <1>8 DEF IndInv

\* A step that leaves the tree alone and is not between two activations of
\* an update keeps the parts of IndInv about the tree.
LEMMA SameTree ==
  ASSUME IndInv, UNCHANGED <<root, heap, free, doomed>>,
         call.pc \notin {"insert_into_parent", "delete_entry"},
         call'.pc \notin {"insert_into_parent", "delete_entry"},
         TypeOK', CallOK'
  PROVE  IndInv'
<1>1. InTree' = InTree
  BY DEF InTree, Live
<1>2. Dangling' = Dangling /\ Orphan' = Orphan
  BY DEF Dangling, Orphan
<1>3. Shaped(heap, InTree)'
  BY <1>1 DEF IndInv, Shaped, ShapedNode
<1>4. Linked(heap, root, InTree, Dangling, Orphan)'
  BY <1>1, <1>2 DEF IndInv, Linked, Kids
<1>5. Full(heap, root, InTree)'
  BY <1>1 DEF IndInv, Full
<1>6. (\E ht \in [Node -> Nat] : HeightsOK(ht))'
  BY <1>1 DEF IndInv, HeightsOK, Graded, Kids
<1>. QED BY <1>3, <1>4, <1>5, <1>6 DEF IndInv

\* A stuttering step keeps the invariant.
LEMMA StutterInv == IndInv /\ UNCHANGED vars => IndInv'
BY DEF IndInv, TypeOK, CallOK, Shaped, ShapedNode, Linked, Kids, Full, HeightsOK, Graded, Dangling,
       Orphan, InTree, Live, vars

\* A call begins: the tree is as it was.
LEMMA ClientInv == IndInv /\ Client => IndInv'
<1> SUFFICES ASSUME IndInv, NEW op \in Searching, NEW k \in Key, NEW v \in Val \cup {NULL},
                    NEW hi \in Key \cup {NULL},
                    op = "insert" => v \in Val, op = "range" => hi \in Key,
                    Begin(op, k, v, hi)
             PROVE  IndInv'
  BY DEF Client, Searching
<1>1. TypeOK'
  BY DEF Begin, Idle, IndInv, TypeOK, CallRec
<1>2. /\ call'.pc = op /\ call'.key = k /\ call'.val = v /\ call'.hi = hi
      /\ call'.node = root /\ call.pc = "idle"
      /\ UNCHANGED <<root, heap, free, doomed>>
  BY DEF Begin, Idle, IndInv, TypeOK, CallRec
<1>3. root \in InTree \cup {NULL} /\ doomed = {}
  BY <1>2 DEF IndInv, Linked, CallOK
<1>4. InTree' = InTree
  BY <1>2 DEF InTree, Live
<1>5. CallOK'
  BY <1>2, <1>3, <1>4 DEF CallOK, Searching
<1>. QED BY <1>1, <1>2, <1>5, SameTree DEF Searching

\* One level down: the child find_leaf goes to is in the tree.
LEMMA FindLeafInv == IndInv /\ find_leaf => IndInv'
<1> SUFFICES ASSUME IndInv, find_leaf PROVE IndInv'
  OBVIOUS
<1>1. PICK i \in 1..Len(heap[call.node].kids) :
         call' = [call EXCEPT !.node = heap[call.node].kids[i]]
  BY DEF find_leaf
<1>2. call.node \in InTree /\ call.node \in Node /\ heap[call.node].kids \in Seq(Node)
  BY DEF IndInv, CallOK, find_leaf, InTree, Live, TypeOK, NodeRec
<1>3. call'.node \in Kids(heap, call.node) /\ call'.node \in Node
  BY <1>1, <1>2 DEF IndInv, TypeOK, CallRec, Kids, Range
<1>4. call.pc \in Searching /\ Dangling = {}
  BY DEF find_leaf, Dangling, Searching
<1>5. call'.node \in InTree
  BY <1>2, <1>3, <1>4 DEF IndInv, Linked
<1>6. TypeOK'
  BY <1>1, <1>3 DEF find_leaf, IndInv, TypeOK, CallRec
<1>7. InTree' = InTree /\ UNCHANGED <<root, heap, free, doomed>>
  BY DEF find_leaf, InTree, Live
<1>8. /\ call'.pc = call.pc /\ call'.key = call.key /\ call'.val = call.val
      /\ call'.hi = call.hi
  BY <1>1 DEF IndInv, TypeOK, CallRec
<1>9. CallOK'
  BY <1>3, <1>4, <1>5, <1>7, <1>8, NullAssumption DEF IndInv, CallOK, Searching
<1>. QED BY <1>4, <1>6, <1>7, <1>8, <1>9, SameTree DEF Searching

\* find reads a leaf and returns.
LEMMA FindInv == IndInv /\ find => IndInv'
<1> SUFFICES ASSUME IndInv, find PROVE IndInv'
  OBVIOUS
<1>1. UNCHANGED <<root, heap, free, doomed, nrec, rng>> /\ call' = Idle /\ call.pc = "find"
  BY DEF find, NoTree, AtLeaf
<1>2. ret' \in Val \cup {NULL}
  <2>1. CASE ret' = NULL
    BY <2>1
  <2>2. CASE AtLeaf("find") /\ \E i \in 1..Len(heap[call.node].keys) :
                                  ret' = heap[call.node].recs[i]
    <3>1. call.node \in InTree /\ heap[call.node] \in NodeRec
      BY <2>2 DEF AtLeaf, IndInv, CallOK, Searching, InTree, Live, TypeOK
    <3>2. heap[call.node].recs \in Seq(Val)
          /\ Len(heap[call.node].recs) = Len(heap[call.node].keys)
      BY <2>2, <3>1 DEF AtLeaf, IndInv, Shaped, ShapedNode, NodeRec
    <3>. QED BY <2>2, <3>2
  <2>. QED BY <2>1, <2>2 DEF find
<1>3. TypeOK'
  BY <1>1, <1>2 DEF IndInv, TypeOK, Idle, CallRec, Searching
<1>4. CallOK'
  BY <1>1 DEF IndInv, CallOK, Idle, Searching
<1>. QED BY <1>1, <1>3, <1>4, SameTree DEF Idle

\* find_range looks for its first entry.
LEMMA FindRangeInv == IndInv /\ find_range => IndInv'
<1> SUFFICES ASSUME IndInv, find_range PROVE IndInv'
  OBVIOUS
<1>1. UNCHANGED <<root, heap, free, doomed, nrec, rng, ret>> /\ call.pc = "range"
  BY DEF find_range, NoTree, AtLeaf
<1>2. /\ call' \in CallRec
      /\ call'.pc \in {"scan", "ranged"}
      /\ call'.hi = call.hi
      /\ call'.pc = "scan" => call'.node \in Node /\ call'.at >= 1
  <2>1. CASE NoTree("range") /\ call' = [call EXCEPT !.pc = "ranged"]
    BY <2>1 DEF IndInv, TypeOK, CallRec
  <2>2. CASE AtLeaf("range") /\ \E i \in 1..(Len(heap[call.node].keys) + 1) :
               call' = [call EXCEPT !.pc = IF i > Len(heap[call.node].keys)
                                           THEN "ranged" ELSE "scan",
                                    !.at = i]
    <3>1. call.node \in Node /\ heap[call.node].keys \in Seq(Key)
      BY <2>2 DEF AtLeaf, IndInv, TypeOK, CallRec, NodeRec
    <3>2. PICK i \in 1..(Len(heap[call.node].keys) + 1) :
               call' = [call EXCEPT !.pc = IF i > Len(heap[call.node].keys)
                                           THEN "ranged" ELSE "scan",
                                    !.at = i]
      BY <2>2
    <3>3. i \in Nat /\ i >= 1 /\ call \in CallRec
      BY <3>1 DEF IndInv, TypeOK
    <3>4. \E p \in {"scan", "ranged"} : call' = [call EXCEPT !.pc = p, !.at = i]
      BY <3>2
    <3>. QED BY <3>1, <3>3, <3>4 DEF CallRec
  <2>. QED BY <2>1, <2>2 DEF find_range
<1>3. TypeOK'
  BY <1>1, <1>2 DEF IndInv, TypeOK
<1>4. CallOK'
  BY <1>1, <1>2 DEF IndInv, CallOK, Searching
<1>. QED BY <1>1, <1>2, <1>3, <1>4, SameTree

\* find_range reads one leaf and follows its link.
LEMMA FindRangeScanInv == IndInv /\ find_range_scan => IndInv'
<1> SUFFICES ASSUME IndInv, find_range_scan PROVE IndInv'
  OBVIOUS
<1> DEFINE n == heap[call.node]
<1>1. /\ UNCHANGED <<root, heap, free, doomed, nrec, ret>> /\ call.pc = "scan"
      /\ call.node \in Node /\ call.at \in Nat /\ call.at >= 1 /\ n \in NodeRec
  BY DEF find_range_scan, IndInv, CallOK, TypeOK, CallRec
<1>2. PICK j \in call.at..(Len(n.keys) + 1) :
         /\ rng' = rng \o SubSeq(n.keys, call.at, j - 1)
         /\ call' = [call EXCEPT !.pc = IF n.link = NULL THEN "ranged" ELSE "scan",
                                 !.node = n.link, !.at = 1]
  BY DEF find_range_scan
<1>3. n.keys \in Seq(Key) /\ n.link \in Node \cup {NULL}
  BY <1>1 DEF NodeRec
<1> HIDE DEF n
<1>4. SubSeq(n.keys, call.at, j - 1) \in Seq(Key)
  BY <1>1, <1>3
<1>5. rng' \in Seq(Key)
  BY <1>2, <1>4 DEF IndInv, TypeOK
<1>6. /\ call' \in CallRec
      /\ call'.pc \in {"scan", "ranged"}
      /\ call'.hi = call.hi
      /\ call'.pc = "scan" => call'.node \in Node /\ call'.at >= 1
  <2>1. call \in CallRec
    BY DEF IndInv, TypeOK
  <2>2. PICK p \in {"scan", "ranged"}, l \in Node \cup {NULL} :
           /\ call' = [call EXCEPT !.pc = p, !.node = l, !.at = 1]
           /\ p = "scan" => l \in Node
    BY <1>2, <1>3
  <2>3. call'.pc = p /\ call'.hi = call.hi /\ call'.node = l /\ call'.at = 1
    BY <2>1, <2>2 DEF CallRec
  <2>4. call' \in CallRec
    BY <2>1, <2>2 DEF CallRec
  <2>. QED BY <2>2, <2>3, <2>4
<1>7. TypeOK'
  BY <1>1, <1>5, <1>6 DEF IndInv, TypeOK
<1>8. CallOK'
  BY <1>1, <1>6 DEF IndInv, CallOK, Searching
<1>. QED BY <1>1, <1>6, <1>7, <1>8, SameTree

\* find_range returns.
LEMMA FindRangeReturnInv == IndInv /\ find_range_return => IndInv'
<1> SUFFICES ASSUME IndInv, find_range_return PROVE IndInv'
  OBVIOUS
<1>1. TypeOK'
  BY DEF find_range_return, IndInv, TypeOK, Idle, CallRec, Searching
<1>2. CallOK'
  BY DEF find_range_return, IndInv, CallOK, Idle, Searching
<1>. QED BY <1>1, <1>2, SameTree DEF find_range_return, Idle

\* A step that changes keys and records only, between no two activations.
LEMMA SameLinks ==
  ASSUME IndInv, UNCHANGED <<root, free, doomed>>,
         \A n \in Node : /\ heap'[n].kids = heap[n].kids
                         /\ heap'[n].parent = heap[n].parent
                         /\ heap'[n].is_leaf = heap[n].is_leaf,
         call.pc \notin {"insert_into_parent", "delete_entry"},
         call'.pc \notin {"insert_into_parent", "delete_entry"},
         TypeOK', CallOK', Shaped(heap, InTree)', Full(heap, root, InTree)'
  PROVE  IndInv'
<1>1. InTree' = InTree /\ InTree \subseteq Node
  BY DEF InTree, Live
<1>2. Dangling' = Dangling /\ Orphan' = Orphan
  BY DEF Dangling, Orphan
<1>3. \A n \in Node : Kids(heap, n)' = Kids(heap, n)
  BY DEF Kids
<1>4. \A p \in InTree : Kids(heap, p) \subseteq Node
  BY <1>1 DEF IndInv, TypeOK, NodeRec, Kids, Range
<1>5. Linked(heap, root, InTree, Dangling, Orphan)'
  <2>1. Linked(heap, root, InTree, Dangling, Orphan) /\ heap \in [Node -> NodeRec]
    BY DEF IndInv, TypeOK
  <2>2. Linked(heap', root, InTree, Dangling, Orphan)
    BY <1>1, <2>1, LinksKept
  <2>. QED BY <1>1, <1>2, <2>2 DEF Linked, Kids
<1>6. (\E ht \in [Node -> Nat] : HeightsOK(ht))'
  <2>1. PICK ht \in [Node -> Nat] : HeightsOK(ht)
    BY DEF IndInv
  <2>2. HeightsOK(ht)'
    BY <1>1, <1>3, <2>1 DEF HeightsOK, Graded, Kids
  <2>. QED BY <2>2
<1>. QED BY <1>5, <1>6 DEF IndInv

\* insert of a key that is there overwrites its record.
LEMMA InsertUpdateInv == IndInv /\ insert_update => IndInv'
<1> SUFFICES ASSUME IndInv, insert_update PROVE IndInv'
  OBVIOUS
<1>0. PICK n \in Node : n = call.node
  BY DEF insert_update, insert_into_leaf, AtLeaf, IndInv, TypeOK, CallRec
<1>1. PICK i \in 1..Len(heap[n].keys) : heap' = [heap EXCEPT ![n].recs[i] = call.val]
  BY <1>0 DEF insert_update
<1>2. /\ n \in InTree /\ n \in Node /\ heap[n].is_leaf /\ call.pc = "insert" /\ call.val \in Val
      /\ UNCHANGED <<root, free, nrec, doomed, ret, rng>> /\ call' = Idle
  BY <1>0 DEF insert_update, AtLeaf, IndInv, CallOK, Searching, InTree, Live
<1>3. /\ heap \in [Node -> NodeRec] /\ heap[n].recs \in Seq(Val)
      /\ Len(heap[n].recs) = Len(heap[n].keys)
  BY <1>2 DEF IndInv, TypeOK, NodeRec, Shaped, ShapedNode
<1> DEFINE rs == [heap[n].recs EXCEPT ![i] = call.val]
<1>4. rs \in Seq(Val) /\ Len(rs) = Len(heap[n].recs)
  BY <1>2, <1>3
<1>5. heap' = [heap EXCEPT ![n] = [heap[n] EXCEPT !.recs = rs]]
  BY <1>1, <1>2, <1>3 DEF NodeRec
<1> HIDE DEF rs
<1>6. heap' \in [Node -> NodeRec]
  BY <1>2, <1>3, <1>4, <1>5 DEF NodeRec
<1>7. \A m \in Node : /\ heap'[m].keys = heap[m].keys /\ heap'[m].kids = heap[m].kids
                      /\ heap'[m].parent = heap[m].parent
                      /\ heap'[m].is_leaf = heap[m].is_leaf
                      /\ Len(heap'[m].recs) = Len(heap[m].recs)
  BY <1>2, <1>3, <1>4, <1>5 DEF NodeRec
<1>8. InTree' = InTree /\ InTree \subseteq Node
  BY <1>2 DEF InTree, Live
<1>9. TypeOK'
  BY <1>2, <1>6 DEF IndInv, TypeOK, Idle, CallRec, Searching
<1>10. CallOK'
  BY <1>2 DEF IndInv, CallOK, Idle, Searching
<1>11. Shaped(heap, InTree)'
  BY <1>7, <1>8 DEF IndInv, Shaped, ShapedNode
<1>12. Full(heap, root, InTree)'
  BY <1>2, <1>7, <1>8 DEF IndInv, Full, min_keys
<1>. QED BY <1>2, <1>7, <1>9, <1>10, <1>11, <1>12, SameLinks DEF Idle

\* insert into a leaf with room.
LEMMA InsertIntoLeafInv == IndInv /\ insert_into_leaf => IndInv'
<1> SUFFICES ASSUME IndInv, insert_into_leaf PROVE IndInv'
  OBVIOUS
<1>0. PICK n \in Node : n = call.node
  BY DEF insert_update, insert_into_leaf, AtLeaf, IndInv, TypeOK, CallRec
<1>1. PICK i \in 1..(Len(heap[n].keys) + 1) :
         heap' = [heap EXCEPT ![n].keys = InsertAt(@, i, call.key),
                              ![n].recs = InsertAt(@, i, call.val)]
  BY <1>0 DEF insert_into_leaf
<1>2. /\ n \in InTree /\ n \in Node /\ heap[n].is_leaf /\ call.pc = "insert"
      /\ call.val \in Val /\ call.key \in Key /\ Len(heap[n].keys) < Order - 1
      /\ UNCHANGED <<root, free, doomed, ret, rng>> /\ call' = Idle
      /\ nrec' = nrec + 1
  BY <1>0 DEF insert_into_leaf, AtLeaf, IndInv, CallOK, Searching, InTree, Live
<1>3. /\ heap \in [Node -> NodeRec] /\ heap[n].recs \in Seq(Val) /\ heap[n].keys \in Seq(Key)
      /\ Len(heap[n].recs) = Len(heap[n].keys)
  BY <1>2 DEF IndInv, TypeOK, NodeRec, Shaped, ShapedNode
<1> DEFINE ks == InsertAt(heap[n].keys, i, call.key)
           rs == InsertAt(heap[n].recs, i, call.val)
<1>4. /\ ks \in Seq(Key) /\ Len(ks) = Len(heap[n].keys) + 1
      /\ rs \in Seq(Val) /\ Len(rs) = Len(heap[n].keys) + 1
  <2>1. ks \in Seq(Key) /\ Len(ks) = Len(heap[n].keys) + 1
    BY <1>2, <1>3, InsertAtProps
  <2>2. rs \in Seq(Val) /\ Len(rs) = Len(heap[n].recs) + 1
    BY <1>2, <1>3, InsertAtProps
  <2>. QED BY <1>3, <2>1, <2>2
<1>5. heap' = [heap EXCEPT ![n] = [heap[n] EXCEPT !.keys = ks, !.recs = rs]]
  BY <1>1, <1>2, <1>3 DEF NodeRec
<1> HIDE DEF ks, rs
<1>6. heap' \in [Node -> NodeRec]
  BY <1>2, <1>3, <1>4, <1>5 DEF NodeRec
<1>7. \A m \in Node : /\ heap'[m].kids = heap[m].kids
                      /\ heap'[m].parent = heap[m].parent
                      /\ heap'[m].is_leaf = heap[m].is_leaf
                      /\ m # n => heap'[m] = heap[m]
  BY <1>2, <1>3, <1>4, <1>5 DEF NodeRec
<1>8. InTree' = InTree /\ InTree \subseteq Node
  BY <1>2 DEF InTree, Live
<1>9. Len(heap'[n].keys) = Len(heap[n].keys) + 1 /\ Len(heap'[n].recs) = Len(heap'[n].keys)
      /\ Len(heap[n].keys) \in Nat
      /\ heap'[n].is_leaf /\ heap'[n].kids = <<>>
  BY <1>2, <1>3, <1>4, <1>5 DEF NodeRec, IndInv, Shaped, ShapedNode
<1>10. TypeOK'
  BY <1>2, <1>6 DEF IndInv, TypeOK, Idle, CallRec, Searching
<1>11. CallOK'
  BY <1>2 DEF IndInv, CallOK, Idle, Searching
<1>12. Shaped(heap, InTree)'
  <2> SUFFICES ASSUME NEW m \in InTree
               PROVE  /\ Len(heap'[m].keys) <= Order - 1
                      /\ heap'[m].is_leaf => heap'[m].kids = <<>>
                                             /\ Len(heap'[m].recs) = Len(heap'[m].keys)
                      /\ ~heap'[m].is_leaf => Len(heap'[m].kids) = Len(heap'[m].keys) + 1
    BY <1>8 DEF Shaped, ShapedNode
  <2>1. Shaped(heap, InTree)
    BY DEF IndInv
  <2>2. CASE m = n
    BY SMTT(30), <1>2, <1>9, <2>2, OrderAssumption
  <2>3. CASE m # n
    BY <1>7, <1>8, <2>1, <2>3 DEF Shaped, ShapedNode
  <2>. QED BY <2>2, <2>3
<1>13. Full(heap, root, InTree)'
  <2> SUFFICES ASSUME NEW m \in InTree
               PROVE  /\ Len(heap'[m].keys) >= 1
                      /\ m # root => Len(heap'[m].keys) >= min_keys(heap'[m])
    BY <1>2, <1>8 DEF Full
  <2>1. Full(heap, root, InTree)
    BY DEF IndInv
  <2>2. CASE m = n
    BY SMTT(30), <1>2, <1>9, <2>1, <2>2, OrderAssumption DEF Full, min_keys, cut
  <2>3. CASE m # n
    BY <1>7, <1>8, <2>1, <2>3 DEF Full
  <2>. QED BY <2>2, <2>3
<1>. QED BY <1>2, <1>7, <1>10, <1>11, <1>12, <1>13, SameLinks DEF Idle

-----------------------------------------------------------------------------
(***************************************************************************)
(* insert: splits, new roots and insertion into an internal node.          *)
(***************************************************************************)

\* IndInv' from its parts, stated of the new heap.
LEMMA Assemble ==
  ASSUME TypeOK', CallOK', NEW T, T = InTree', NEW D, D = Dangling', NEW O, O = Orphan',
         Shaped(heap', T), Linked(heap', root', T, D, O), Full(heap', root', T),
         NEW ht \in [Node -> Nat], Graded(heap', T, ht),
         call'.pc = "insert_into_parent" => ht[call'.node] = ht[call'.right]
  PROVE  IndInv'
<1>1. Shaped(heap, InTree)'
  BY DEF Shaped
<1>2. Linked(heap, root, InTree, Dangling, Orphan)'
  BY DEF Linked, Kids
<1>3. Full(heap, root, InTree)'
  BY DEF Full
<1>4. HeightsOK(ht)'
  BY DEF HeightsOK, Graded, Kids
<1>. QED BY <1>1, <1>2, <1>3, <1>4 DEF IndInv

\* What make_leaf and make_node return.
LEMMA MakeLeaf == /\ make_leaf \in NodeRec /\ make_leaf.is_leaf
                  /\ make_leaf.kids = <<>> /\ make_leaf.parent = NULL
<1>1. make_leaf.is_leaf /\ make_leaf.kids = <<>> /\ make_leaf.parent = NULL
  BY DEF make_leaf, make_node, Blank
<1>2. make_leaf \in NodeRec
  <2>1. Blank \in NodeRec
    BY DEF Blank, NodeRec
  <2>. QED BY <2>1 DEF make_leaf, make_node, NodeRec
<1>. QED BY <1>1, <1>2

\* What make_node returns.
LEMMA MakeNode == make_node \in NodeRec /\ ~make_node.is_leaf /\ make_node.parent = NULL
BY DEF make_node, Blank, NodeRec

\* The first insertion makes a root that is a leaf.
LEMMA StartNewTreeInv == IndInv /\ start_new_tree => IndInv'
<1> SUFFICES ASSUME IndInv, start_new_tree PROVE IndInv'
  OBVIOUS
<1>1. PICK a \in free : a = alloc_node
  BY DEF start_new_tree, alloc_node
<1>2. PICK k \in Key, v \in Val : k = call.key /\ v = call.val
  BY DEF IndInv, CallOK, Searching, start_new_tree, NoTree
<1>3. PICK T \in SUBSET Node : T = InTree
  BY DEF InTree, Live
<1>4. /\ a \in Node /\ a \notin T /\ root = NULL /\ doomed = {}
      /\ heap \in [Node -> NodeRec] /\ free \in SUBSET Node
  BY <1>1, <1>3, NullAssumption
  DEF IndInv, TypeOK, CallOK, Searching, start_new_tree, NoTree, InTree, Live
<1>5. /\ root' = a /\ free' = free \ {a} /\ call' = Idle /\ nrec' = nrec + 1
      /\ UNCHANGED <<doomed, ret, rng>>
      /\ heap' = [heap EXCEPT ![a] = [make_leaf EXCEPT !.keys = <<k>>, !.recs = <<v>>]]
  BY <1>1, <1>2 DEF start_new_tree
<1>6. /\ heap'[a].is_leaf /\ heap'[a].keys = <<k>> /\ heap'[a].recs = <<v>>
      /\ heap'[a].kids = <<>> /\ heap'[a].parent = NULL
      /\ heap'[a] \in NodeRec
  <2>1. heap'[a] = [make_leaf EXCEPT !.keys = <<k>>, !.recs = <<v>>]
    BY <1>4, <1>5
  <2>2. <<k>> \in Seq(Key) /\ <<v>> \in Seq(Val)
    OBVIOUS
  <2>3. heap'[a] \in NodeRec
    BY <2>1, <2>2, MakeLeaf DEF NodeRec
  <2>4. /\ heap'[a].keys = <<k>> /\ heap'[a].recs = <<v>>
        /\ heap'[a].kids = <<>> /\ heap'[a].parent = NULL
    BY <2>1, MakeLeaf DEF NodeRec
  <2>5. heap'[a].is_leaf
    BY <2>1, MakeLeaf DEF NodeRec
  <2>. QED BY <2>3, <2>4, <2>5
<1>7. \A m \in Node \ {a} : heap'[m] = heap[m]
  BY <1>4, <1>5
<1>8. heap' \in [Node -> NodeRec]
  BY <1>4, <1>5, <1>6
<1>9. TypeOK'
  BY <1>4, <1>5, <1>8 DEF IndInv, TypeOK, Idle, CallRec, Searching
<1>10. CallOK'
  BY <1>4, <1>5 DEF CallOK, Idle, Searching
<1>11. T \cup {a} = InTree' /\ {} = Dangling' /\ {} = Orphan'
  BY <1>1, <1>3, <1>4, <1>5 DEF InTree, Live, Dangling, Orphan, Idle
<1>12. call.pc = "insert" /\ Dangling = {} /\ Orphan = {}
  BY DEF start_new_tree, NoTree, Dangling, Orphan
<1>13. Linked(heap', a, T \cup {a}, {}, {})
  <2>1. Linked(heap, NULL, T, {}, {})
    BY <1>3, <1>4, <1>12 DEF IndInv
  <2>. QED BY <1>4, <1>6, <1>7, <2>1, LinkedNewTree
<1>14. Shaped(heap', T \cup {a})
  <2>1. Len(heap'[a].keys) = 1 /\ Len(heap'[a].recs) = 1
    BY <1>6
  <2>2. ShapedNode(heap'[a])
    BY <1>6, <2>1, OrderAssumption DEF ShapedNode
  <2>. QED BY <1>3, <1>4, <1>7, <2>2 DEF IndInv, Shaped
<1>15. Full(heap', a, T \cup {a})
  <2> SUFFICES ASSUME NEW m \in T \cup {a}
               PROVE  /\ Len(heap'[m].keys) >= 1
                      /\ m # a => Len(heap'[m].keys) >= min_keys(heap'[m])
    BY DEF Full
  <2>1. CASE m = a
    <3>1. Len(heap'[a].keys) >= 1
      BY <1>6
    <3>. QED BY <2>1, <3>1
  <2>2. CASE m # a
    <3>1. m \in T /\ m # NULL /\ heap'[m] = heap[m]
      BY <1>4, <1>7, <2>2, NullAssumption
    <3>. QED BY <1>3, <1>4, <3>1 DEF IndInv, Full
  <2>. QED BY <2>1, <2>2
<1>16. PICK ht \in [Node -> Nat] : Graded(heap, T, ht)
  BY <1>3 DEF IndInv, HeightsOK
<1>17. PICK hu \in [Node -> Nat] : hu = [ht EXCEPT ![a] = 0]
  OBVIOUS
<1>18. Graded(heap', T \cup {a}, hu)
  <2>1. Kids(heap', a) = {}
    BY <1>6, NoKids
  <2>2. ASSUME NEW p \in T
        PROVE  /\ heap'[p].is_leaf <=> hu[p] = 0
               /\ \A c \in Kids(heap', p) : hu[p] = hu[c] + 1
    <3>1. p # a /\ heap'[p] = heap[p] /\ Kids(heap', p) = Kids(heap, p)
      BY <1>4, <1>7 DEF Kids
    <3>2. \A c \in Kids(heap, p) : c \in T
      BY <1>3, <1>12 DEF IndInv, Linked
    <3>. QED BY <1>4, <1>16, <1>17, <3>1, <3>2 DEF Graded
  <2>3. heap'[a].is_leaf <=> hu[a] = 0
    BY <1>4, <1>6, <1>17
  <2>. QED BY <2>1, <2>2, <2>3 DEF Graded
<1>19. call'.pc # "insert_into_parent"
  BY <1>5 DEF Idle
<1>20. Linked(heap', root', T \cup {a}, {}, {}) /\ Full(heap', root', T \cup {a})
  BY <1>5, <1>13, <1>15
<1>. QED BY <1>9, <1>10, <1>11, <1>14, <1>18, <1>19, <1>20, Assemble

\* A full leaf splits; the new leaf is not yet in its parent.
LEMMA LeafSplitInv == IndInv /\ insert_into_leaf_after_splitting => IndInv'
<1> SUFFICES ASSUME IndInv, insert_into_leaf_after_splitting PROVE IndInv'
  OBVIOUS
<1>1. PICK a \in free : a = alloc_node
  BY DEF insert_into_leaf_after_splitting, alloc_node
<1>2. PICK k \in Key, v \in Val : k = call.key /\ v = call.val
  BY DEF IndInv, CallOK, Searching, insert_into_leaf_after_splitting, AtLeaf
<1>3. PICK T \in SUBSET Node : T = InTree
  BY DEF InTree, Live
<1>4. PICK n \in T : n = call.node
  BY <1>3 DEF IndInv, CallOK, Searching, insert_into_leaf_after_splitting, AtLeaf
<1>5. PICK s \in Nat : s = cut(Order - 1) /\ 1 <= s /\ s <= Order - 1 /\ Order - s >= s
  BY OrderAssumption DEF cut
<1>6. /\ a \in Node /\ a \notin T /\ n # a /\ n \in Node /\ doomed = {} /\ call.pc = "insert"
      /\ heap \in [Node -> NodeRec] /\ free \in SUBSET Node /\ heap[n].is_leaf
      /\ Len(heap[n].keys) >= Order - 1
  BY <1>1, <1>3, <1>4
  DEF IndInv, TypeOK, CallOK, Searching, insert_into_leaf_after_splitting, AtLeaf, InTree, Live
<1>7. /\ heap[n] \in NodeRec /\ heap[n].keys \in Seq(Key) /\ heap[n].recs \in Seq(Val)
      /\ heap[n].kids = <<>> /\ Len(heap[n].keys) = Order - 1
      /\ Len(heap[n].recs) = Order - 1
      /\ heap[n].parent \in Node \cup {NULL} /\ heap[n].link \in Node \cup {NULL}
  <2>1. heap[n] \in NodeRec
    BY <1>6
  <2>2. /\ heap[n].keys \in Seq(Key) /\ heap[n].recs \in Seq(Val)
        /\ heap[n].parent \in Node \cup {NULL} /\ heap[n].link \in Node \cup {NULL}
    BY <2>1 DEF NodeRec
  <2>3. ShapedNode(heap[n])
    BY <1>3, <1>4 DEF IndInv, Shaped
  <2>. QED BY <1>6, <2>1, <2>2, <2>3, OrderAssumption DEF ShapedNode
<1>8. PICK i \in 1..(Len(heap[n].keys) + 1) :
         /\ heap' = [heap EXCEPT
              ![n] = [@ EXCEPT !.keys = SubSeq(InsertAt(heap[n].keys, i, k), 1, s),
                               !.recs = SubSeq(InsertAt(heap[n].recs, i, v), 1, s),
                               !.link = a],
              ![a] = [make_leaf EXCEPT
                               !.keys = SubSeq(InsertAt(heap[n].keys, i, k), s + 1, Order),
                               !.recs = SubSeq(InsertAt(heap[n].recs, i, v), s + 1, Order),
                               !.parent = heap[n].parent,
                               !.link = heap[n].link]]
         /\ call' = [Idle EXCEPT !.pc = "insert_into_parent",
                                 !.key = InsertAt(heap[n].keys, i, k)[s + 1],
                                 !.node = n, !.right = a]
  BY <1>1, <1>2, <1>4, <1>5 DEF insert_into_leaf_after_splitting
<1> DEFINE ks == InsertAt(heap[n].keys, i, k)
           rs == InsertAt(heap[n].recs, i, v)
           lk == SubSeq(ks, 1, s)
           lr == SubSeq(rs, 1, s)
           rk == SubSeq(ks, s + 1, Order)
           rr == SubSeq(rs, s + 1, Order)
<1>9. /\ free' = free \ {a} /\ nrec' = nrec + 1
      /\ UNCHANGED <<root, doomed, ret, rng>>
  BY <1>1 DEF insert_into_leaf_after_splitting
<1>10. ks \in Seq(Key) /\ Len(ks) = Order
  BY <1>7, InsertAtProps, OrderAssumption
<1>11. rs \in Seq(Val) /\ Len(rs) = Order
  BY <1>7, InsertAtProps, OrderAssumption
<1>8a. call' = [Idle EXCEPT !.pc = "insert_into_parent", !.key = ks[s + 1],
                           !.node = n, !.right = a]
  BY <1>8
<1>8b. heap' = [heap EXCEPT
              ![n] = [@ EXCEPT !.keys = lk, !.recs = lr, !.link = a],
              ![a] = [make_leaf EXCEPT !.keys = rk, !.recs = rr,
                               !.parent = heap[n].parent, !.link = heap[n].link]]
  BY <1>8
<1> HIDE DEF ks, rs
<1>12a. lk \in Seq(Key) /\ Len(lk) = s
  BY <1>5, <1>10, OrderAssumption
<1>12b. rk \in Seq(Key) /\ Len(rk) = Order - s
  BY <1>5, <1>10, OrderAssumption
<1>12. lk \in Seq(Key) /\ rk \in Seq(Key) /\ Len(lk) = s /\ Len(rk) = Order - s
  BY <1>12a, <1>12b
<1>13a. lr \in Seq(Val) /\ Len(lr) = s
  BY <1>5, <1>11, OrderAssumption
<1>13b. rr \in Seq(Val) /\ Len(rr) = Order - s
  BY <1>5, <1>11, OrderAssumption
<1>13. lr \in Seq(Val) /\ rr \in Seq(Val) /\ Len(lr) = s /\ Len(rr) = Order - s
  BY <1>13a, <1>13b
<1> HIDE DEF lk, rk, lr, rr
<1>14. heap'[n] = [heap[n] EXCEPT !.keys = lk, !.recs = lr, !.link = a]
  BY <1>6, <1>8b, <1>12, <1>13
<1>15. heap'[a] = [make_leaf EXCEPT !.keys = rk, !.recs = rr,
                                    !.parent = heap[n].parent, !.link = heap[n].link]
  BY <1>6, <1>8b, <1>12, <1>13
<1>16. \A m \in Node \ {n, a} : heap'[m] = heap[m]
  BY <1>6, <1>8b
<1>17. heap'[n] \in NodeRec
  BY <1>6, <1>7, <1>12, <1>13, <1>14 DEF NodeRec
<1>18. heap'[a] \in NodeRec
  BY <1>7, <1>12, <1>13, <1>15, MakeLeaf DEF NodeRec
<1>19. /\ heap'[n].keys = lk /\ heap'[n].recs = lr
       /\ heap'[n].kids = <<>> /\ heap'[n].parent = heap[n].parent
  BY <1>7, <1>14 DEF NodeRec
<1>20. heap'[n].is_leaf
  BY <1>6, <1>7, <1>14 DEF NodeRec
<1>21. /\ heap'[a].keys = rk /\ heap'[a].recs = rr
       /\ heap'[a].kids = <<>> /\ heap'[a].parent = heap[n].parent
  BY <1>15, MakeLeaf DEF NodeRec
<1>22. heap'[a].is_leaf
  BY <1>15, MakeLeaf DEF NodeRec
<1>23. heap' \in [Node -> NodeRec]
  BY <1>6, <1>8b, <1>16, <1>17, <1>18
<1>24. ks[s + 1] \in Key
  BY <1>5, <1>10, OrderAssumption
<1>25. /\ call' \in CallRec /\ call'.pc = "insert_into_parent" /\ call'.key \in Key
       /\ call'.node = n /\ call'.right = a
  BY <1>6, <1>8a, <1>24 DEF Idle, CallRec, Searching
<1>26. TypeOK'
  BY <1>6, <1>9, <1>23, <1>25 DEF IndInv, TypeOK
<1>27. T \cup {a} = InTree' /\ {} = Dangling' /\ {a} = Orphan'
  BY <1>1, <1>3, <1>6, <1>9, <1>25 DEF InTree, Live, Dangling, Orphan
<1>28. a # root /\ Dangling = {} /\ Orphan = {}
  BY <1>3, <1>6, NullAssumption DEF IndInv, Linked, Dangling, Orphan
<1>29. CallOK'
  <2>1. Len(heap'[n].keys) >= min_keys(heap'[n])
    BY <1>5, <1>12, <1>19, <1>20 DEF min_keys
  <2>2. heap'[a].parent = heap'[n].parent
    BY <1>19, <1>21
  <2>3. n \in InTree' /\ a \in InTree' /\ a # root' /\ n # a /\ doomed' = {}
    BY <1>6, <1>9, <1>27, <1>28
  <2>. QED BY <1>25, <2>1, <2>2, <2>3 DEF CallOK, Searching
<1>30. Linked(heap', root', T \cup {a}, {}, {a})
  <2>1. Linked(heap, root, T, {}, {})
    BY <1>3, <1>28 DEF IndInv
  <2>2. \A m \in Node \ {a} : heap'[m].kids = heap[m].kids /\ heap'[m].parent = heap[m].parent
    BY <1>7, <1>16, <1>19
  <2>. QED BY <1>6, <1>9, <1>21, <2>1, <2>2, LinkedLeafSplit
<1>31. Shaped(heap', T \cup {a})
  <2>1. ShapedNode(heap'[n])
    BY <1>5, <1>12, <1>13, <1>19, <1>20, OrderAssumption DEF ShapedNode
  <2>2. ShapedNode(heap'[a])
    BY <1>5, <1>12, <1>13, <1>21, <1>22, OrderAssumption DEF ShapedNode
  <2>. QED BY <1>3, <1>16, <2>1, <2>2 DEF IndInv, Shaped
<1>32. Full(heap', root', T \cup {a})
  <2> SUFFICES ASSUME NEW m \in T \cup {a}
               PROVE  /\ Len(heap'[m].keys) >= 1
                      /\ m # root => Len(heap'[m].keys) >= min_keys(heap'[m])
    BY <1>9 DEF Full
  <2>1. CASE m = a
    <3>1. Len(heap'[a].keys) >= 1 /\ Len(heap'[a].keys) >= min_keys(heap'[a])
      BY <1>5, <1>12, <1>21, <1>22, OrderAssumption DEF min_keys
    <3>. QED BY <2>1, <3>1
  <2>2. CASE m = n
    <3>1. Len(heap'[n].keys) >= 1 /\ Len(heap'[n].keys) >= min_keys(heap'[n])
      BY <1>5, <1>12, <1>19, <1>20, OrderAssumption DEF min_keys
    <3>. QED BY <2>2, <3>1
  <2>3. CASE m # a /\ m # n
    <3>1. m \in T /\ heap'[m] = heap[m]
      BY <1>16, <2>3
    <3>. QED BY <1>3, <3>1 DEF IndInv, Full
  <2>. QED BY <2>1, <2>2, <2>3
<1>33. PICK ht \in [Node -> Nat] : Graded(heap, T, ht)
  BY <1>3 DEF IndInv, HeightsOK
<1>34. PICK hu \in [Node -> Nat] : hu = [ht EXCEPT ![a] = 0]
  OBVIOUS
<1>35. hu[a] = 0 /\ hu[n] = 0 /\ (\A m \in T : hu[m] = ht[m])
  BY <1>4, <1>6, <1>33, <1>34 DEF Graded
<1>36. Graded(heap', T \cup {a}, hu)
  <2>1. Kids(heap', a) = {} /\ Kids(heap', n) = {}
    BY <1>19, <1>21, NoKids
  <2>2. ASSUME NEW p \in T, p # n
        PROVE  /\ heap'[p].is_leaf <=> hu[p] = 0
               /\ \A c \in Kids(heap', p) : hu[p] = hu[c] + 1
    <3>1. p # a /\ heap'[p] = heap[p] /\ Kids(heap', p) = Kids(heap, p)
      BY <1>6, <1>16, <2>2 DEF Kids
    <3>2. \A c \in Kids(heap, p) : c \in T
      BY <1>3, <1>28 DEF IndInv, Linked
    <3>. QED BY <1>33, <1>35, <3>1, <3>2 DEF Graded
  <2>3. (heap'[a].is_leaf <=> hu[a] = 0) /\ (heap'[n].is_leaf <=> hu[n] = 0)
    BY <1>20, <1>22, <1>35
  <2>. QED BY <2>1, <2>2, <2>3 DEF Graded
<1>37. hu[call'.node] = hu[call'.right]
  BY <1>25, <1>35
<1>. QED BY <1>26, <1>27, <1>29, <1>30, <1>31, <1>32, <1>36, <1>37, Assemble

\* The root has split: a new root above the two halves.
LEMMA NewRootInv == IndInv /\ insert_into_new_root => IndInv'
<1> SUFFICES ASSUME IndInv, insert_into_new_root PROVE IndInv'
  OBVIOUS
<1>1. PICK a \in free : a = alloc_node
  BY DEF insert_into_new_root, alloc_node
<1>2. PICK T \in SUBSET Node : T = InTree
  BY DEF InTree, Live
<1>3. PICK k \in Key, l \in T, r \in T :
         k = call.key /\ l = call.node /\ r = call.right /\ l # r /\ r # root
         /\ Len(heap[l].keys) >= min_keys(heap[l])
  BY <1>2 DEF IndInv, CallOK, insert_into_new_root
<1>4. /\ a \in Node /\ a \notin T /\ l \in Node /\ r \in Node /\ a # l /\ a # r
      /\ call.pc = "insert_into_parent" /\ doomed = {}
      /\ heap \in [Node -> NodeRec] /\ free \in SUBSET Node /\ heap[l].parent = NULL
  BY <1>1, <1>2, <1>3 DEF IndInv, TypeOK, CallOK, insert_into_new_root, InTree, Live
<1>5. /\ root' = a /\ free' = free \ {a} /\ call' = Idle
      /\ UNCHANGED <<nrec, doomed, ret, rng>>
      /\ heap' = [heap EXCEPT
            ![a] = [make_node EXCEPT !.keys = <<k>>, !.kids = <<l, r>>],
            ![l].parent = a,
            ![r].parent = a]
  BY <1>1, <1>3 DEF insert_into_new_root
<1>6. heap[l] \in NodeRec /\ heap[r] \in NodeRec
  BY <1>4
<1>7. /\ heap'[a] = [make_node EXCEPT !.keys = <<k>>, !.kids = <<l, r>>]
      /\ heap'[l] = [heap[l] EXCEPT !.parent = a]
      /\ heap'[r] = [heap[r] EXCEPT !.parent = a]
      /\ \A m \in Node \ {a, l, r} : heap'[m] = heap[m]
  BY <1>3, <1>4, <1>5
<1>8. <<k>> \in Seq(Key) /\ <<l, r>> \in Seq(Node)
  BY <1>4
<1>9. heap'[a] \in NodeRec /\ heap'[l] \in NodeRec /\ heap'[r] \in NodeRec
  <2>1. [make_node EXCEPT !.keys = <<k>>, !.kids = <<l, r>>] \in NodeRec
    BY ONLY <1>8, MakeNode DEF NodeRec
  <2>2. [heap[l] EXCEPT !.parent = a] \in NodeRec
    BY ONLY <1>6, <1>4 DEF NodeRec
  <2>3. [heap[r] EXCEPT !.parent = a] \in NodeRec
    BY ONLY <1>6, <1>4 DEF NodeRec
  <2>. QED BY <1>7, <2>1, <2>2, <2>3, Zenon
<1>10. heap'[a].keys = <<k>> /\ heap'[a].kids = <<l, r>> /\ heap'[a].parent = NULL
  BY <1>7, MakeNode DEF NodeRec
<1>11. ~heap'[a].is_leaf
  BY <1>7, MakeNode DEF NodeRec
<1>12. \A m \in {l, r} : /\ heap'[m].keys = heap[m].keys /\ heap'[m].kids = heap[m].kids
                         /\ heap'[m].recs = heap[m].recs /\ heap'[m].parent = a
  BY <1>6, <1>7 DEF NodeRec
<1>13. \A m \in {l, r} : heap'[m].is_leaf <=> heap[m].is_leaf
  <2>1. heap[l].is_leaf => heap'[l].is_leaf
    BY <1>6, <1>7 DEF NodeRec
  <2>2. ~heap[l].is_leaf => ~heap'[l].is_leaf
    BY <1>6, <1>7 DEF NodeRec
  <2>3. heap[r].is_leaf => heap'[r].is_leaf
    BY <1>6, <1>7 DEF NodeRec
  <2>4. ~heap[r].is_leaf => ~heap'[r].is_leaf
    BY <1>6, <1>7 DEF NodeRec
  <2>. QED BY <2>1, <2>2, <2>3, <2>4
<1>14. heap' \in [Node -> NodeRec]
  BY <1>4, <1>5, <1>7, <1>9
<1>15. TypeOK'
  BY <1>4, <1>5, <1>14 DEF IndInv, TypeOK, Idle, CallRec, Searching
<1>16. CallOK'
  BY <1>4, <1>5 DEF CallOK, Idle, Searching
<1>17. T \cup {a} = InTree' /\ {} = Dangling' /\ {} = Orphan'
  BY <1>1, <1>2, <1>4, <1>5 DEF InTree, Live, Dangling, Orphan, Idle
<1>18. Linked(heap, root, T, {}, {r})
  BY <1>2, <1>3, <1>4 DEF IndInv, Dangling, Orphan
<1>19. l = root
  BY <1>3, <1>4, <1>18, NullAssumption DEF Linked
<1>20. Linked(heap', root', T \cup {a}, {}, {})
  <2>1. \A m \in Node \ {a} : heap'[m].kids = heap[m].kids
    BY <1>7, <1>12
  <2>2. \A m \in Node \ {a, l, r} : heap'[m].parent = heap[m].parent
    BY <1>7
  <2>3. heap'[l].parent = a /\ heap'[r].parent = a
    BY <1>12
  <2>4. Linked(heap', a, T \cup {a}, {}, {})
    BY <1>3, <1>4, <1>10, <1>18, <2>1, <2>2, <2>3, LinkedNewRoot
  <2>. QED BY <1>5, <2>4
<1>21. Shaped(heap', T \cup {a})
  <2>1. ShapedNode(heap'[a])
    <3>1. Len(heap'[a].keys) = 1 /\ Len(heap'[a].kids) = 2
      BY <1>10
    <3>. QED BY <1>11, <3>1, OrderAssumption DEF ShapedNode
  <2>2. ASSUME NEW m \in {l, r} PROVE ShapedNode(heap'[m])
    <3>1. ShapedNode(heap[m])
      BY <1>2, <1>3 DEF IndInv, Shaped
    <3>. QED BY <1>12, <1>13, <3>1 DEF ShapedNode
  <2>. QED BY <1>2, <1>7, <2>1, <2>2 DEF IndInv, Shaped
<1>22. Full(heap', root', T \cup {a})
  <2> SUFFICES ASSUME NEW m \in T \cup {a}
               PROVE  /\ Len(heap'[m].keys) >= 1
                      /\ m # a => Len(heap'[m].keys) >= min_keys(heap'[m])
    BY <1>5 DEF Full
  <2>1. CASE m = a
    <3>1. Len(heap'[a].keys) >= 1
      BY <1>10
    <3>. QED BY <2>1, <3>1
  <2>2. CASE m \in {l, r}
    <3>1. Len(heap[m].keys) >= 1 /\ Len(heap[m].keys) >= min_keys(heap[m])
      BY <1>2, <1>3, <2>2 DEF IndInv, Full
    <3>2. min_keys(heap'[m]) = min_keys(heap[m])
      BY <1>13, <2>2 DEF min_keys
    <3>. QED BY <1>12, <2>2, <3>1, <3>2
  <2>3. CASE m \notin {a, l, r}
    <3>1. m \in T /\ heap'[m] = heap[m] /\ m # root
      BY <1>7, <1>19, <2>3
    <3>. QED BY <1>2, <3>1 DEF IndInv, Full
  <2>. QED BY <2>1, <2>2, <2>3
<1>23. PICK ht \in [Node -> Nat] : Graded(heap, T, ht) /\ ht[l] = ht[r]
  BY <1>2, <1>3, <1>4 DEF IndInv, HeightsOK
<1>24. PICK hu \in [Node -> Nat] : hu = [ht EXCEPT ![a] = ht[l] + 1]
  <2>1. [ht EXCEPT ![a] = ht[l] + 1] \in [Node -> Nat]
    BY <1>4
  <2>. QED BY <2>1
<1>25. hu[a] = ht[l] + 1 /\ (\A m \in T : hu[m] = ht[m] /\ ht[m] \in Nat)
  BY <1>4, <1>23, <1>24
<1>26. Graded(heap', T \cup {a}, hu)
  <2>1. Kids(heap', a) = {l, r}
    BY <1>10 DEF Kids, Range
  <2>2. ASSUME NEW p \in T
        PROVE  /\ heap'[p].is_leaf <=> hu[p] = 0
               /\ \A c \in Kids(heap', p) : hu[p] = hu[c] + 1
    <3>1. (heap'[p].is_leaf <=> heap[p].is_leaf) /\ Kids(heap', p) = Kids(heap, p)
      BY <1>4, <1>7, <1>12, <1>13 DEF Kids
    <3>2. \A c \in Kids(heap, p) : c \in T
      BY <1>18 DEF Linked
    <3>. QED BY <1>23, <1>25, <3>1, <3>2 DEF Graded
  <2>3. heap'[a].is_leaf <=> hu[a] = 0
    BY <1>3, <1>11, <1>25
  <2>4. \A c \in {l, r} : hu[a] = hu[c] + 1
    BY <1>3, <1>23, <1>25
  <2>. QED BY <2>1, <2>2, <2>3, <2>4 DEF Graded
<1>27. call'.pc # "insert_into_parent"
  BY <1>5 DEF Idle
<1>. QED BY <1>15, <1>16, <1>17, <1>20, <1>21, <1>22, <1>26, <1>27, Assemble

\* insert_into_parent below the root: the parent is an internal node of the
\* tree that does not point to the new node yet.
LEMMA ParentFacts ==
  ASSUME IndInv, call.pc = "insert_into_parent", heap[call.node].parent # NULL,
         NEW T, T = InTree
  PROVE  \E p \in T, l \in T, r \in T, k \in Key :
            /\ p = heap[call.node].parent /\ l = call.node /\ r = call.right /\ k = call.key
            /\ Linked(heap, root, T, {}, {r}) /\ r # root /\ heap[r].parent = p
            /\ r \notin Kids(heap, p) /\ l \in Kids(heap, p)
            /\ ~heap[p].is_leaf
            /\ heap[p] \in NodeRec /\ heap[p].keys \in Seq(Key) /\ heap[p].kids \in Seq(Node)
            /\ Len(heap[p].kids) = Len(heap[p].keys) + 1 /\ Len(heap[p].keys) <= Order - 1
            /\ IsInjective(heap[p].kids)
<1>1. T \in SUBSET Node /\ heap \in [Node -> NodeRec]
  BY DEF IndInv, TypeOK, InTree, Live
<1>2. PICK l \in T, r \in T, k \in Key :
         /\ l = call.node /\ r = call.right /\ k = call.key /\ l # r /\ r # root
         /\ heap[r].parent = heap[l].parent
  BY DEF IndInv, CallOK
<1>3. Linked(heap, root, T, {}, {r})
  BY <1>2 DEF IndInv, Dangling, Orphan
<1>4. l # root
  BY <1>2, <1>3, <1>1, NullAssumption DEF Linked
<1>5. PICK p \in T : p = heap[l].parent /\ l \in Kids(heap, p)
  BY <1>2, <1>3, <1>4 DEF Linked
<1>6. r \notin Kids(heap, p) /\ IsInjective(heap[p].kids)
  BY <1>3 DEF Linked
<1>7. heap[p] \in NodeRec
  BY <1>1
<1>8. heap[p].keys \in Seq(Key) /\ heap[p].kids \in Seq(Node)
  BY <1>7 DEF NodeRec
<1>9. ShapedNode(heap[p])
  BY DEF IndInv, Shaped
<1>10. ~heap[p].is_leaf
  BY <1>5, <1>9, NoKids DEF ShapedNode
<1>11. Len(heap[p].kids) = Len(heap[p].keys) + 1 /\ Len(heap[p].keys) <= Order - 1
  BY <1>9, <1>10 DEF ShapedNode
<1>. QED BY <1>2, <1>3, <1>5, <1>6, <1>7, <1>8, <1>10, <1>11

\* A parent with room takes the new node.
LEMMA InsertIntoNodeInv == IndInv /\ insert_into_node => IndInv'
<1> SUFFICES ASSUME IndInv, insert_into_node PROVE IndInv'
  OBVIOUS
<1>1. PICK T \in SUBSET Node : T = InTree
  BY DEF InTree, Live
<1>2. call.pc = "insert_into_parent" /\ heap[call.node].parent # NULL
  BY DEF insert_into_node
<1>3. PICK p \in T, l \in T, r \in T, k \in Key :
            /\ p = heap[call.node].parent /\ l = call.node /\ r = call.right /\ k = call.key
            /\ Linked(heap, root, T, {}, {r}) /\ r # root /\ heap[r].parent = p
            /\ r \notin Kids(heap, p) /\ l \in Kids(heap, p)
            /\ ~heap[p].is_leaf
            /\ heap[p] \in NodeRec /\ heap[p].keys \in Seq(Key) /\ heap[p].kids \in Seq(Node)
            /\ Len(heap[p].kids) = Len(heap[p].keys) + 1 /\ Len(heap[p].keys) <= Order - 1
            /\ IsInjective(heap[p].kids)
  BY <1>1, <1>2, ParentFacts
<1>4. /\ p \in Node /\ r \in Node /\ heap \in [Node -> NodeRec] /\ doomed = {}
      /\ free \in SUBSET Node
  BY <1>1, <1>2 DEF IndInv, TypeOK, CallOK
<1>5. /\ Len(heap[p].keys) < Order - 1
      /\ call' = Idle /\ UNCHANGED <<root, free, nrec, doomed, ret, rng>>
  BY <1>3 DEF insert_into_node
<1>6. PICK i \in 1..Len(heap[p].kids) :
         heap' = [heap EXCEPT ![p].keys = InsertAt(@, i, k),
                              ![p].kids = InsertAt(@, i + 1, r)]
  BY <1>3 DEF insert_into_node
<1> DEFINE ks == InsertAt(heap[p].keys, i, k)
           cs == InsertAt(heap[p].kids, i + 1, r)
<1>7. /\ i \in 1..(Len(heap[p].keys) + 1) /\ i + 1 \in 1..(Len(heap[p].kids) + 1)
      /\ Len(heap[p].keys) \in Nat
  <2>1. heap[p].keys \in Seq(Key) /\ Len(heap[p].kids) = Len(heap[p].keys) + 1
    BY <1>3
  <2>2. Len(heap[p].keys) \in Nat
    BY ONLY <2>1
  <2>. QED BY ONLY <2>1, <2>2, i \in 1..Len(heap[p].kids)
<1>8. ks \in Seq(Key) /\ Len(ks) = Len(heap[p].keys) + 1
  <2>1. heap[p].keys \in Seq(Key)
    BY <1>3
  <2>. QED BY ONLY <1>7, <2>1, k \in Key, InsertAtProps
<1>9. cs \in Seq(Node) /\ Len(cs) = Len(heap[p].kids) + 1
  <2>1. heap[p].kids \in Seq(Node) /\ r \in Node
    BY <1>3, <1>4
  <2>2. PICK j \in 1..(Len(heap[p].kids) + 1) : j = i + 1
    BY <1>7
  <2>3. InsertAt(heap[p].kids, j, r) \in Seq(Node)
        /\ Len(InsertAt(heap[p].kids, j, r)) = Len(heap[p].kids) + 1
    BY SMTT(30), <2>1, InsertAtProps
  <2>. QED BY <2>2, <2>3
<1>10. Range(cs) = Range(heap[p].kids) \cup {r} /\ IsInjective(cs)
  <2>1. heap[p].kids \in Seq(Node) /\ r \in Node /\ i + 1 \in 1..(Len(heap[p].kids) + 1)
    BY <1>3, <1>7
  <2>2. /\ Range(InsertAt(heap[p].kids, i + 1, r)) = Range(heap[p].kids) \cup {r}
        /\ IsInjective(heap[p].kids) /\ r \notin Range(heap[p].kids)
              => IsInjective(InsertAt(heap[p].kids, i + 1, r))
    BY <2>1, InsertAtRange, Zenon
  <2>. QED BY <1>3, <1>4, <2>2 DEF Kids
<1>11. heap' = [heap EXCEPT ![p] = [heap[p] EXCEPT !.keys = ks, !.kids = cs]]
  BY <1>3, <1>4, <1>6 DEF NodeRec
<1> HIDE DEF ks, cs
<1>12. heap'[p] = [heap[p] EXCEPT !.keys = ks, !.kids = cs]
       /\ (\A m \in Node \ {p} : heap'[m] = heap[m])
  BY <1>4, <1>11
<1>13. heap'[p] \in NodeRec
  BY <1>3, <1>8, <1>9, <1>12 DEF NodeRec
<1>14. heap'[p].keys = ks /\ heap'[p].kids = cs /\ heap'[p].parent = heap[p].parent
  BY <1>3, <1>12 DEF NodeRec
<1>15. ~heap'[p].is_leaf
  BY <1>3, <1>12 DEF NodeRec
<1>16. heap' \in [Node -> NodeRec]
  BY <1>4, <1>11, <1>12, <1>13
<1>17. TypeOK'
  BY <1>4, <1>5, <1>16 DEF IndInv, TypeOK, Idle, CallRec, Searching
<1>18. CallOK'
  BY <1>4, <1>5 DEF CallOK, Idle, Searching
<1>19. T = InTree' /\ {} = Dangling' /\ {} = Orphan'
  BY <1>1, <1>5 DEF InTree, Live, Dangling, Orphan, Idle
<1>20. Linked(heap', root', T, {}, {})
  <2>1. \A m \in Node : heap'[m].parent = heap[m].parent
    BY <1>12, <1>14
  <2>2. \A m \in Node \ {p} : heap'[m].kids = heap[m].kids
    BY <1>12
  <2>3. Kids(heap', p) = Kids(heap, p) \cup {r} /\ IsInjective(heap'[p].kids)
    BY <1>10, <1>14 DEF Kids
  <2>4. Linked(heap', root, T, {}, {})
    BY <1>3, <1>4, <2>1, <2>2, <2>3, LinkedInsertNode
  <2>. QED BY <1>5, <2>4
<1>21. Shaped(heap', T)
  <2>1. ShapedNode(heap'[p])
    <3>1. Len(heap'[p].keys) <= Order - 1
      BY <1>5, <1>7, <1>8, <1>14, OrderAssumption
    <3>2. Len(heap'[p].kids) = Len(heap'[p].keys) + 1
      <4>1. Len(heap[p].kids) = Len(heap[p].keys) + 1
        BY <1>3
      <4>. QED BY <1>8, <1>9, <1>14, <4>1
    <3>. QED BY <1>15, <3>1, <3>2 DEF ShapedNode
  <2>. QED BY <1>1, <1>12, <2>1 DEF IndInv, Shaped
<1>22. Full(heap', root', T)
  <2> SUFFICES ASSUME NEW m \in T
               PROVE  /\ Len(heap'[m].keys) >= 1
                      /\ m # root => Len(heap'[m].keys) >= min_keys(heap'[m])
    BY <1>5 DEF Full
  <2>1. CASE m = p
    <3>1. Len(heap'[p].keys) = Len(heap[p].keys) + 1 /\ Len(heap[p].keys) \in Nat
      BY <1>7, <1>8, <1>14
    <3>2. p # root => Len(heap[p].keys) >= min_keys(heap[p])
      BY <1>1 DEF IndInv, Full
    <3>3. p # root => Len(heap'[p].keys) >= min_keys(heap'[p])
      BY SMTT(30), <1>3, <1>15, <3>1, <3>2, OrderAssumption DEF min_keys, cut
    <3>4. Len(heap'[p].keys) >= 1
      BY <3>1
    <3>. QED BY <2>1, <3>3, <3>4
  <2>2. CASE m # p
    <3>1. heap'[m] = heap[m]
      BY <1>12, <2>2
    <3>. QED BY <1>1, <3>1 DEF IndInv, Full
  <2>. QED BY <2>1, <2>2
<1>23. PICK ht \in [Node -> Nat] : Graded(heap, T, ht) /\ ht[l] = ht[r]
  BY <1>1, <1>2, <1>3 DEF IndInv, HeightsOK
<1>24. Graded(heap', T, ht)
  <2> SUFFICES ASSUME NEW q \in T
               PROVE  /\ heap'[q].is_leaf <=> ht[q] = 0
                      /\ \A c \in Kids(heap', q) : ht[q] = ht[c] + 1
    BY DEF Graded
  <2>1. CASE q = p
    <3>1. Kids(heap', p) = Kids(heap, p) \cup {r}
      BY <1>10, <1>14 DEF Kids
    <3>2. \A c \in Kids(heap, p) : ht[p] = ht[c] + 1
      BY <1>23 DEF Graded
    <3>3. ht[p] # 0
      BY <1>3, <1>23 DEF Graded
    <3>. QED BY <1>3, <1>15, <1>23, <2>1, <3>1, <3>2, <3>3
  <2>2. CASE q # p
    <3>1. heap'[q] = heap[q] /\ Kids(heap', q) = Kids(heap, q)
      BY <1>12, <2>2 DEF Kids
    <3>. QED BY <1>23, <3>1 DEF Graded
  <2>. QED BY <2>1, <2>2
<1>25. call'.pc # "insert_into_parent"
  BY <1>5 DEF Idle
<1>. QED BY <1>17, <1>18, <1>19, <1>20, <1>21, <1>22, <1>24, <1>25, Assemble

\* A full parent splits, its upper children move to the new node.
LEMMA NodeSplitInv == IndInv /\ insert_into_node_after_splitting => IndInv'
<1> SUFFICES ASSUME IndInv, insert_into_node_after_splitting PROVE IndInv'
  OBVIOUS
<1>1. PICK T \in SUBSET Node : T = InTree
  BY DEF InTree, Live
<1>2. call.pc = "insert_into_parent" /\ heap[call.node].parent # NULL
  BY DEF insert_into_node_after_splitting
<1>3. PICK p \in T, l \in T, r \in T, k \in Key :
            /\ p = heap[call.node].parent /\ l = call.node /\ r = call.right /\ k = call.key
            /\ Linked(heap, root, T, {}, {r}) /\ r # root /\ heap[r].parent = p
            /\ r \notin Kids(heap, p) /\ l \in Kids(heap, p)
            /\ ~heap[p].is_leaf
            /\ heap[p] \in NodeRec /\ heap[p].keys \in Seq(Key) /\ heap[p].kids \in Seq(Node)
            /\ Len(heap[p].kids) = Len(heap[p].keys) + 1 /\ Len(heap[p].keys) <= Order - 1
            /\ IsInjective(heap[p].kids)
  BY <1>1, <1>2, ParentFacts
<1>4. PICK a \in free : a = alloc_node
  BY DEF insert_into_node_after_splitting, alloc_node
<1>5. PICK s \in Nat : s = cut(Order) /\ 2 <= s /\ s <= Order - 1 /\ Order - s >= s - 1
  BY OrderAssumption DEF cut
<1>6. /\ p \in Node /\ r \in Node /\ heap \in [Node -> NodeRec] /\ doomed = {}
      /\ free \in SUBSET Node /\ a \in Node /\ a \notin T
  BY <1>1, <1>2, <1>4 DEF IndInv, TypeOK, CallOK, InTree, Live
<1>7. PICK ht \in [Node -> Nat] : Graded(heap, T, ht) /\ ht[l] = ht[r]
  BY <1>1, <1>2, <1>3 DEF IndInv, HeightsOK
<1>8. /\ \A c \in Kids(heap, p) : c \in T /\ ht[p] = ht[c] + 1
      /\ ht[p] = ht[r] + 1 /\ ht[p] \in Nat /\ ht[r] \in Nat
      /\ p # r /\ p \notin Kids(heap, p)
  BY <1>3, <1>6, <1>7 DEF Graded, Linked
<1>9. Len(heap[p].keys) = Order - 1 /\ Len(heap[p].kids) = Order
  <2>1. Len(heap[p].keys) >= Order - 1
    BY <1>3 DEF insert_into_node_after_splitting
  <2>. QED BY SMTT(30), <1>3, <2>1, OrderAssumption
<1>10. PICK i \in 1..Len(heap[p].kids) :
         /\ heap' = Adopt([heap EXCEPT
                      ![p] = [@ EXCEPT
                                !.keys = SubSeq(InsertAt(heap[p].keys, i, k), 1, s - 1),
                                !.kids = SubSeq(InsertAt(heap[p].kids, i + 1, r), 1, s)],
                      ![a] = [make_node EXCEPT
                                !.keys = SubSeq(InsertAt(heap[p].keys, i, k), s + 1, Order),
                                !.kids = SubSeq(InsertAt(heap[p].kids, i + 1, r), s + 1, Order + 1),
                                !.parent = heap[p].parent]],
                      Range(SubSeq(InsertAt(heap[p].kids, i + 1, r), s + 1, Order + 1)), a)
         /\ call' = [call EXCEPT !.key = InsertAt(heap[p].keys, i, k)[s],
                                 !.node = p, !.right = a]
  BY <1>3, <1>4, <1>5 DEF insert_into_node_after_splitting
<1> DEFINE ks == InsertAt(heap[p].keys, i, k)
           cs == InsertAt(heap[p].kids, i + 1, r)
           lk == SubSeq(ks, 1, s - 1)
           rk == SubSeq(ks, s + 1, Order)
           lc == SubSeq(cs, 1, s)
           rc == SubSeq(cs, s + 1, Order + 1)
<1>11. free' = free \ {a} /\ UNCHANGED <<root, nrec, doomed, ret, rng>>
  BY <1>4 DEF insert_into_node_after_splitting
<1>12. ks \in Seq(Key) /\ Len(ks) = Order
  <2>1. i \in 1..(Len(heap[p].keys) + 1) /\ heap[p].keys \in Seq(Key)
    BY <1>3, <1>9, OrderAssumption
  <2>. QED BY <1>9, <2>1, InsertAtProps, OrderAssumption
<1>13. cs \in Seq(Node) /\ Len(cs) = Order + 1 /\ IsInjective(cs)
       /\ Range(cs) = Kids(heap, p) \cup {r}
  <2>1. PICK q \in Seq(Node) : q = heap[p].kids
    BY <1>3
  <2>2. PICK j \in 1..(Len(q) + 1) : j = i + 1
    BY <1>9, <2>1, OrderAssumption
  <2>3. InsertAt(q, j, r) \in Seq(Node) /\ Len(InsertAt(q, j, r)) = Len(q) + 1
    <3>1. r \in Node
      BY <1>6
    <3>2. InsertAt(q, j, r) \in Seq(Node)
      BY <3>1, InsertAtProps
    <3>3. Len(InsertAt(q, j, r)) = Len(q) + 1
      BY <3>1, InsertAtProps
    <3>. QED BY <3>2, <3>3
  <2>4. IsInjective(q) /\ r \notin Range(q) /\ Kids(heap, p) = Range(q)
    BY <1>3, <2>1 DEF Kids
  <2>5. Range(InsertAt(q, j, r)) = Kids(heap, p) \cup {r} /\ IsInjective(InsertAt(q, j, r))
    BY <1>6, <2>4, InsertAtRange
  <2>6. cs = InsertAt(q, j, r)
    BY <2>1, <2>2
  <2>7. Len(q) + 1 = Order + 1
    BY <1>9, <2>1
  <2>. QED BY <2>3, <2>5, <2>6, <2>7
<1>13a. cs \in Seq(Node) /\ Len(cs) = Order + 1
  BY <1>13
<1>13b. 2 <= s /\ s <= Order - 1 /\ Order \in Nat
  BY <1>5, OrderAssumption
<1>14. call' = [call EXCEPT !.key = ks[s], !.node = p, !.right = a]
  BY <1>10
<1>15. heap' = Adopt([heap EXCEPT ![p] = [@ EXCEPT !.keys = lk, !.kids = lc],
                                  ![a] = [make_node EXCEPT !.keys = rk, !.kids = rc,
                                                           !.parent = heap[p].parent]],
                     Range(rc), a)
  BY <1>10
<1> HIDE DEF ks, cs
<1>16. lk \in Seq(Key) /\ Len(lk) = s - 1
  BY <1>5, <1>12, OrderAssumption
<1>17. rk \in Seq(Key) /\ Len(rk) = Order - s
  BY SMTT(30), <1>5, <1>12, OrderAssumption
<1>18. lc \in Seq(Node) /\ Len(lc) = s
  BY <1>13a, <1>13b, SubSeqProps
<1>19. rc \in Seq(Node) /\ Len(rc) = Order + 1 - s
  <2>1. PICK u \in Int, v \in Int : u = s + 1 /\ v = Order + 1
    BY <1>13b
  <2>2. SubSeq(cs, u, v) \in Seq(Node) /\ Len(SubSeq(cs, u, v)) = v - u + 1
    <3>1. 1 <= u /\ u <= v + 1 /\ v <= Len(cs)
      BY <1>13a, <1>13b, <2>1
    <3>. QED BY <1>13a, <3>1, SubSeqProps
  <2>3. v - u + 1 = Order + 1 - s
    BY <1>13b, <2>1
  <2>. QED BY <2>1, <2>2, <2>3
<1>20. /\ Range(lc) \cup Range(rc) = Kids(heap, p) \cup {r}
       /\ Range(lc) \cap Range(rc) = {}
       /\ IsInjective(lc) /\ IsInjective(rc)
  <2>1. s \in 0..Len(cs)
    BY <1>5, <1>13, OrderAssumption
  <2>2. rc = SubSeq(cs, s + 1, Len(cs))
    BY <1>13
  <2>. QED BY <1>13, <2>1, <2>2, SplitRange
<1> HIDE DEF lk, rk, lc, rc
<1>21. PICK R \in SUBSET T : R = Range(rc) /\ p \notin R /\ a \notin R
  <2>1. Range(rc) \subseteq T
    BY <1>8, <1>20
  <2>2. p \notin Range(rc) /\ a \notin Range(rc)
    BY <1>6, <1>8, <1>20, <2>1
  <2>. QED BY <2>1, <2>2
<1>22. /\ heap'[p] = [heap[p] EXCEPT !.keys = lk, !.kids = lc]
       /\ heap'[a] = [make_node EXCEPT !.keys = rk, !.kids = rc, !.parent = heap[p].parent]
       /\ \A m \in R : heap'[m] = [heap[m] EXCEPT !.parent = a]
       /\ \A m \in Node \ (R \cup {p, a}) : heap'[m] = heap[m]
  BY <1>6, <1>15, <1>21 DEF Adopt
<1>23. heap[p].parent \in Node \cup {NULL} /\ heap[p] \in NodeRec
  BY <1>3 DEF NodeRec
<1>24. heap'[p] \in NodeRec
  BY <1>16, <1>18, <1>22, <1>23 DEF NodeRec
<1>25. heap'[a] \in NodeRec
  BY <1>17, <1>19, <1>22, <1>23, MakeNode DEF NodeRec
<1>26. heap'[p].keys = lk /\ heap'[p].kids = lc /\ heap'[p].parent = heap[p].parent
  BY <1>22, <1>23 DEF NodeRec
<1>27. heap'[a].keys = rk /\ heap'[a].kids = rc /\ heap'[a].parent = heap[p].parent
  BY <1>22, MakeNode DEF NodeRec
<1>28. ~heap'[p].is_leaf
  BY <1>3, <1>22 DEF NodeRec
<1>29. ~heap'[a].is_leaf
  BY <1>22, MakeNode DEF NodeRec
<1>30. ASSUME NEW m \in R
       PROVE  /\ heap'[m] \in NodeRec /\ heap'[m].keys = heap[m].keys
              /\ heap'[m].kids = heap[m].kids /\ heap'[m].recs = heap[m].recs
              /\ heap'[m].parent = a
              /\ heap'[m].is_leaf <=> heap[m].is_leaf
  <2>1. heap[m] \in NodeRec
    BY <1>6
  <2>2. heap'[m] = [heap[m] EXCEPT !.parent = a]
    BY <1>22
  <2>3. heap'[m] \in NodeRec
    BY <1>6, <2>1, <2>2 DEF NodeRec
  <2>4. /\ heap'[m].keys = heap[m].keys /\ heap'[m].kids = heap[m].kids
        /\ heap'[m].recs = heap[m].recs /\ heap'[m].parent = a
    BY <2>1, <2>2 DEF NodeRec
  <2>5. heap[m].is_leaf => heap'[m].is_leaf
    BY <2>1, <2>2 DEF NodeRec
  <2>6. ~heap[m].is_leaf => ~heap'[m].is_leaf
    BY <2>1, <2>2 DEF NodeRec
  <2>. QED BY <2>3, <2>4, <2>5, <2>6
<1>31. heap' \in [Node -> NodeRec]
  <2>1. \A m \in Node : heap'[m] \in NodeRec
    BY <1>6, <1>22, <1>24, <1>25, <1>30
  <2>2. heap' = [m \in Node |-> heap'[m]]
    BY <1>15 DEF Adopt
  <2>. QED BY <2>1, <2>2
<1>32. ks[s] \in Key
  BY <1>5, <1>12, OrderAssumption
<1>33. /\ call' \in CallRec /\ call'.pc = "insert_into_parent" /\ call'.key \in Key
       /\ call'.node = p /\ call'.right = a
  <2>1. call \in CallRec
    BY DEF IndInv, TypeOK
  <2>. QED BY <1>2, <1>6, <1>14, <1>32, <2>1 DEF CallRec
<1>34. TypeOK'
  BY <1>6, <1>11, <1>31, <1>33 DEF IndInv, TypeOK
<1>35. T \cup {a} = InTree' /\ {} = Dangling' /\ {a} = Orphan'
  BY <1>1, <1>4, <1>6, <1>11, <1>33 DEF InTree, Live, Dangling, Orphan
<1>36. a # root
  BY <1>3, <1>6, NullAssumption DEF Linked
<1>37. CallOK'
  <2>1. Len(heap'[p].keys) >= min_keys(heap'[p])
    BY <1>5, <1>16, <1>26, <1>28 DEF min_keys
  <2>2. heap'[a].parent = heap'[p].parent
    BY <1>26, <1>27
  <2>3. p \in InTree' /\ a \in InTree' /\ a # root' /\ p # a /\ doomed' = {}
    BY <1>6, <1>11, <1>35, <1>36
  <2>. QED BY <1>33, <2>1, <2>2, <2>3 DEF CallOK, Searching
<1>38. Linked(heap', root', T \cup {a}, {}, {a})
  <2>1. \A m \in Node \ {p, a} : heap'[m].kids = heap[m].kids
    BY <1>22, <1>30
  <2>2. Kids(heap', p) = Range(lc) /\ Kids(heap', a) = R
    BY <1>21, <1>26, <1>27 DEF Kids
  <2>3. /\ Kids(heap', p) \cap Kids(heap', a) = {}
        /\ Kids(heap', p) \cup Kids(heap', a) = Kids(heap, p) \cup {r}
        /\ IsInjective(heap'[p].kids) /\ IsInjective(heap'[a].kids)
    BY <1>20, <1>21, <1>26, <1>27, <2>2
  <2>4. \A m \in Kids(heap', a) : heap'[m].parent = a
    BY <1>30, <2>2
  <2>5. \A m \in Node \ (Kids(heap', a) \cup {a}) : heap'[m].parent = heap[m].parent
    BY <1>22, <1>26, <2>2
  <2>6. Linked(heap', root, T \cup {a}, {}, {a})
    BY <1>3, <1>6, <2>1, <2>3, <2>4, <2>5, LinkedNodeSplit
  <2>. QED BY <1>11, <2>6
<1>39. Shaped(heap', T \cup {a})
  <2>1. ShapedNode(heap'[p])
    BY SMTT(30), <1>5, <1>16, <1>18, <1>26, <1>28, OrderAssumption DEF ShapedNode
  <2>2. ShapedNode(heap'[a])
    <3>1. Len(heap'[a].keys) = Order - s /\ Len(heap'[a].kids) = Order + 1 - s
      BY <1>17, <1>19, <1>27
    <3>2. Len(heap'[a].keys) <= Order - 1 /\ Len(heap'[a].kids) = Len(heap'[a].keys) + 1
      BY SMTT(30), <1>5, <3>1, OrderAssumption
    <3>. QED BY <1>29, <3>2 DEF ShapedNode
  <2>3. ASSUME NEW m \in R PROVE ShapedNode(heap'[m])
    <3>1. ShapedNode(heap[m])
      BY <1>1 DEF IndInv, Shaped
    <3>. QED BY <1>30, <3>1 DEF ShapedNode
  <2>. QED BY <1>1, <1>22, <2>1, <2>2, <2>3 DEF IndInv, Shaped
<1>40. Full(heap', root', T \cup {a})
  <2> SUFFICES ASSUME NEW m \in T \cup {a}
               PROVE  /\ Len(heap'[m].keys) >= 1
                      /\ m # root => Len(heap'[m].keys) >= min_keys(heap'[m])
    BY <1>11 DEF Full
  <2>1. CASE m = a
    <3>1. Len(heap'[a].keys) >= 1 /\ Len(heap'[a].keys) >= min_keys(heap'[a])
      BY <1>5, <1>17, <1>27, <1>29, OrderAssumption DEF min_keys
    <3>. QED BY <2>1, <3>1
  <2>2. CASE m = p
    <3>1. Len(heap'[p].keys) >= 1 /\ Len(heap'[p].keys) >= min_keys(heap'[p])
      BY <1>5, <1>16, <1>26, <1>28, OrderAssumption DEF min_keys
    <3>. QED BY <2>2, <3>1
  <2>3. CASE m \in R
    <3>1. /\ Len(heap[m].keys) >= 1
          /\ m # root => Len(heap[m].keys) >= min_keys(heap[m])
      BY <1>1 , <2>3 DEF IndInv, Full
    <3>2. min_keys(heap'[m]) = min_keys(heap[m]) /\ heap'[m].keys = heap[m].keys
      BY <1>30, <2>3 DEF min_keys
    <3>. QED BY <3>1, <3>2
  <2>4. CASE m \notin R \cup {a, p}
    <3>1. m \in T /\ heap'[m] = heap[m]
      BY <1>22, <2>4
    <3>. QED BY <1>1, <3>1 DEF IndInv, Full
  <2>. QED BY <2>1, <2>2, <2>3, <2>4
<1>41. PICK hu \in [Node -> Nat] : hu = [ht EXCEPT ![a] = ht[p]]
  <2>1. [ht EXCEPT ![a] = ht[p]] \in [Node -> Nat]
    BY <1>6
  <2>. QED BY <2>1
<1>42. hu[a] = ht[p] /\ hu[p] = ht[p] /\ (\A m \in T : hu[m] = ht[m])
  BY <1>6, <1>41
<1>43. Graded(heap', T \cup {a}, hu)
  <2>1. \A c \in Kids(heap', p) \cup Kids(heap', a) : c \in T /\ ht[p] = ht[c] + 1
    <3>1. Kids(heap', p) \cup Kids(heap', a) = Kids(heap, p) \cup {r}
      BY <1>20, <1>26, <1>27 DEF Kids
    <3>. QED BY <1>8, <3>1
  <2>2. ht[p] # 0
    BY <1>3, <1>7 DEF Graded
  <2>3. ASSUME NEW q \in T, q # p
        PROVE  /\ heap'[q].is_leaf <=> hu[q] = 0
               /\ \A c \in Kids(heap', q) : hu[q] = hu[c] + 1
    <3>1. (heap'[q].is_leaf <=> heap[q].is_leaf) /\ Kids(heap', q) = Kids(heap, q)
      <4>1. CASE q \in R
        BY <1>30, <4>1 DEF Kids
      <4>2. CASE q \notin R
        BY <1>6, <1>22, <2>3, <4>2 DEF Kids
      <4>. QED BY <4>1, <4>2
    <3>2. \A c \in Kids(heap, q) : c \in T
      BY <1>3 DEF Linked
    <3>. QED BY <1>7, <1>42, <3>1, <3>2 DEF Graded
  <2>4. ASSUME NEW q \in {p, a}
        PROVE  /\ heap'[q].is_leaf <=> hu[q] = 0
               /\ \A c \in Kids(heap', q) : hu[q] = hu[c] + 1
    BY <1>28, <1>29, <1>42, <2>1, <2>2
  <2>. QED BY <2>3, <2>4 DEF Graded
<1>44. hu[call'.node] = hu[call'.right]
  BY <1>33, <1>42
<1>. QED BY <1>34, <1>35, <1>37, <1>38, <1>39, <1>40, <1>43, <1>44, Assemble

-----------------------------------------------------------------------------
(***************************************************************************)
(* delete_entry: the removal of an entry, adjust_root, coalesce_nodes and  *)
(* redistribute_nodes.                                                     *)
(***************************************************************************)
\* remove_entry_from_node, in a leaf or in the parent of a merged node.
LEMMA RemoveTree ==
  ASSUME IndInv, NEW T \in SUBSET Node, T = InTree, NEW n \in T,
         NEW ki \in 1..Len(heap[n].keys), NEW pi, NEW h,
         h = remove_entry_from_node(n, ki, pi),
         NEW ht \in [Node -> Nat], Graded(heap, T, ht), Orphan = {},
         \/ heap[n].is_leaf /\ pi = ki /\ Dangling = {}
         \/ /\ ~heap[n].is_leaf /\ pi \in 1..Len(heap[n].kids)
            /\ heap[n].kids[pi] \notin T
            /\ Dangling = {<<n, heap[n].kids[pi]>>}
  PROVE  Removed(h, root, T, n, ht)
<1>1. heap \in [Node -> NodeRec] /\ heap[n] \in NodeRec /\ n \in Node
  BY DEF IndInv, TypeOK
<1>2. PICK ks \in Seq(Key), cs \in Seq(Node), rs \in Seq(Val) :
         ks = heap[n].keys /\ cs = heap[n].kids /\ rs = heap[n].recs
  BY <1>1 DEF NodeRec
<1>3. ShapedNode(heap[n])
  BY DEF IndInv, Shaped
<1>4. Linked(heap, root, T, Dangling, {})
  BY DEF IndInv
<1>5. PICK ks2 \in Seq(Key) : ks2 = RemoveAt(ks, ki) /\ Len(ks2) = Len(ks) - 1
  BY <1>2, RemoveAtProps
<1>6. /\ h \in [Node -> NodeRec]
      /\ h[n].keys = ks2 /\ h[n].parent = heap[n].parent
      /\ ShapedNode(h[n]) /\ (h[n].is_leaf <=> heap[n].is_leaf)
      /\ \A m \in Node \ {n} : h[m] = heap[m]
      /\ Linked(h, root, T, {}, {})
      /\ Kids(h, n) \subseteq Kids(heap, n)
  <2>1. CASE heap[n].is_leaf
    <3>1. PICK rs2 \in Seq(Val) : rs2 = RemoveAt(rs, ki) /\ Len(rs2) = Len(rs) - 1
      <4>1. Len(rs) = Len(ks)
        BY <1>2, <1>3, <2>1 DEF ShapedNode
      <4>2. ki \in 1..Len(rs)
        BY <1>2, <4>1
      <4>. QED BY <4>2, RemoveAtProps
    <3>2. h = [heap EXCEPT ![n] = [heap[n] EXCEPT !.keys = ks2, !.recs = rs2]]
      BY <1>1, <1>2, <1>5, <2>1, <3>1 DEF remove_entry_from_node, NodeRec
    <3>3. h[n] = [heap[n] EXCEPT !.keys = ks2, !.recs = rs2]
          /\ (\A m \in Node \ {n} : h[m] = heap[m])
      BY <1>1, <3>2
    <3>4. h[n] \in NodeRec
      BY <1>1, <3>3 DEF NodeRec
    <3>5. h[n].is_leaf
      BY <1>1, <2>1, <3>3 DEF NodeRec
    <3>6. h[n].keys = ks2 /\ h[n].recs = rs2 /\ h[n].kids = cs /\ h[n].parent = heap[n].parent
      BY <1>1, <1>2, <3>3 DEF NodeRec
    <3>7. h \in [Node -> NodeRec]
      BY <1>1, <3>2, <3>3, <3>4
    <3>8. Len(ks) <= Order - 1 /\ Len(rs) = Len(ks) /\ cs = <<>>
      BY <1>2, <1>3, <2>1 DEF ShapedNode
    <3>9. ShapedNode(h[n])
      <4>1. Len(h[n].keys) <= Order - 1 /\ Len(h[n].recs) = Len(h[n].keys)
        BY <1>5, <3>1, <3>6, <3>8, OrderAssumption
      <4>. QED BY <3>5, <3>6, <3>8, <4>1 DEF ShapedNode
    <3>10. \A m \in Node : h[m].kids = heap[m].kids /\ h[m].parent = heap[m].parent
      BY <1>2, <3>3, <3>6
    <3>11. Linked(h, root, T, {}, {})
      <4>1. Dangling = {}
        BY <2>1
      <4>. QED BY <1>1, <1>4, <3>10, <4>1, LinksKept
    <3>12. Kids(h, n) \subseteq Kids(heap, n)
      BY <1>1, <3>10 DEF Kids
    <3>. QED BY <2>1, <3>3, <3>5, <3>6, <3>7, <3>9, <3>11, <3>12
  <2>2. CASE ~heap[n].is_leaf
    <3>0. pi \in 1..Len(cs) /\ cs[pi] \notin T /\ Dangling = {<<n, cs[pi]>>} /\ IsInjective(cs)
      BY <1>2, <1>4, <2>2 DEF Linked
    <3>1. PICK cs2 \in Seq(Node) : cs2 = RemoveAt(cs, pi) /\ Len(cs2) = Len(cs) - 1
      BY <3>0, RemoveAtProps
    <3>1a. Range(cs2) = Range(cs) \ {cs[pi]} /\ IsInjective(cs2)
      BY <3>0, <3>1, RemoveAtRange
    <3>2. h = [heap EXCEPT ![n] = [heap[n] EXCEPT !.keys = ks2, !.kids = cs2]]
      BY <1>1, <1>2, <1>5, <2>2, <3>1 DEF remove_entry_from_node, NodeRec
    <3>3. h[n] = [heap[n] EXCEPT !.keys = ks2, !.kids = cs2]
          /\ (\A m \in Node \ {n} : h[m] = heap[m])
      BY <1>1, <3>2
    <3>4. h[n] \in NodeRec
      BY <1>1, <3>3 DEF NodeRec
    <3>5. ~h[n].is_leaf
      BY <1>1, <2>2, <3>3 DEF NodeRec
    <3>6. h[n].keys = ks2 /\ h[n].kids = cs2 /\ h[n].parent = heap[n].parent
      BY <1>1, <3>3 DEF NodeRec
    <3>7. h \in [Node -> NodeRec]
      BY <1>1, <3>2, <3>3, <3>4
    <3>8. Len(ks) <= Order - 1 /\ Len(cs) = Len(ks) + 1
      BY <1>2, <1>3, <2>2 DEF ShapedNode
    <3>9. ShapedNode(h[n])
      <4>1. Len(h[n].keys) <= Order - 1 /\ Len(h[n].kids) = Len(h[n].keys) + 1
        BY <1>5, <3>1, <3>6, <3>8, OrderAssumption
      <4>. QED BY <3>5, <4>1 DEF ShapedNode
    <3>10. /\ \A m \in Node : h[m].parent = heap[m].parent
           /\ \A m \in Node \ {n} : h[m].kids = heap[m].kids
           /\ Kids(h, n) = Kids(heap, n) \ {cs[pi]} /\ IsInjective(h[n].kids)
      BY <1>2, <3>1a, <3>3, <3>6 DEF Kids
    <3>11. Linked(h, root, T, {}, {})
      <4>1. Linked(heap, root, T, {<<n, cs[pi]>>}, {})
        BY <1>4, <3>0
      <4>. QED BY <1>1, <3>0, <3>10, <4>1, LinkedRemove
    <3>. QED BY <2>2, <3>3, <3>5, <3>6, <3>7, <3>9, <3>10, <3>11
  <2>. QED BY <2>1, <2>2
<1>7. Shaped(h, T)
  BY <1>6 DEF IndInv, Shaped
<1>8. Graded(h, T, ht)
  <2> SUFFICES ASSUME NEW q \in T
               PROVE  /\ h[q].is_leaf <=> ht[q] = 0
                      /\ \A c \in Kids(h, q) : ht[q] = ht[c] + 1
    BY DEF Graded
  <2>1. (h[q].is_leaf <=> heap[q].is_leaf) /\ Kids(h, q) \subseteq Kids(heap, q)
    <3>1. CASE q = n
      BY <1>6, <3>1
    <3>2. CASE q # n
      BY <1>6, <3>2 DEF Kids
    <3>. QED BY <3>1, <3>2
  <2>. QED BY <2>1 DEF Graded
<1>9. \A m \in T \ {n} : /\ Len(h[m].keys) >= 1
                         /\ m # root => Len(h[m].keys) >= min_keys(h[m])
  BY <1>6 DEF IndInv, Full
<1>10. n # root => Len(h[n].keys) + 1 >= min_keys(h[n])
  <2>1. n # root => Len(heap[n].keys) >= min_keys(heap[n])
    BY DEF IndInv, Full
  <2>2. Len(h[n].keys) + 1 = Len(heap[n].keys)
    BY <1>2, <1>5, <1>6
  <2>3. min_keys(h[n]) = min_keys(heap[n])
    BY <1>6 DEF min_keys
  <2>. QED BY <2>1, <2>2, <2>3
<1>. QED BY <1>6, <1>7, <1>8, <1>9, <1>10 DEF Removed

\* A node that is not below its minimum: nothing more is done.
LEMMA KeepTree ==
  ASSUME NEW h, NEW rt, NEW T \in SUBSET Node, NEW n \in T, NEW ht,
         Removed(h, rt, T, n, ht),
         Len(h[n].keys) >= 1, n # rt => Len(h[n].keys) >= min_keys(h[n])
  PROVE  Full(h, rt, T)
<1> SUFFICES ASSUME NEW m \in T
             PROVE  Len(h[m].keys) >= 1 /\ (m # rt => Len(h[m].keys) >= min_keys(h[m]))
  BY DEF Full
<1>1. CASE m = n
  BY <1>1
<1>2. CASE m # n
  BY <1>2 DEF Removed
<1>. QED BY <1>1, <1>2

\* The minimum of keys is at least one, for every order.
LEMMA MinKeys ==
  ASSUME NEW r
  PROVE  min_keys(r) \in Nat /\ min_keys(r) >= 1
BY OrderAssumption DEF min_keys, cut

\* adjust_root with an empty root: a leaf goes, an internal root is replaced by
\* its only child.
LEMMA AdjustRootTree ==
  ASSUME NEW h, NEW T \in SUBSET Node, NEW rt \in T, rt = root, NEW ht \in [Node -> Nat],
         Removed(h, rt, T, rt, ht), Len(h[rt].keys) = 0, adjust_root(h)
  PROVE  /\ heap' \in [Node -> NodeRec]
         /\ root' \in Node \cup {NULL}
         /\ free' = free \cup {rt} /\ doomed' = doomed /\ call' = Returning
         /\ Shaped(heap', T \ {rt})
         /\ Linked(heap', root', T \ {rt}, {}, {})
         /\ Full(heap', root', T \ {rt})
         /\ Graded(heap', T \ {rt}, ht)
<1>1. /\ h \in [Node -> NodeRec] /\ h[rt] \in NodeRec /\ ShapedNode(h[rt])
      /\ Linked(h, rt, T, {}, {})
  BY DEF Removed, Shaped
<1>2. /\ root' = IF h[rt].is_leaf THEN NULL ELSE h[rt].kids[1]
      /\ heap' = [Adopt(h, {root'} \ {NULL}, NULL) EXCEPT ![rt] = Blank]
      /\ free' = free \cup {rt} /\ doomed' = doomed /\ call' = Returning
  <2>1. ~(Len(h[root].keys) > 0)
    <3>1. Len(h[root].keys) = 0
      OBVIOUS
    <3>. QED BY <3>1
  <2>2. /\ root' = IF h[root].is_leaf THEN NULL ELSE h[root].kids[1]
        /\ heap' = [Adopt(h, {root'} \ {NULL}, NULL) EXCEPT ![root] = Blank]
        /\ free' = free \cup {root} /\ doomed' = doomed /\ call' = Returning
    BY <2>1, Zenon DEF adjust_root
  <2>. QED BY <2>2
<1>3. Blank \in NodeRec
  BY DEF Blank, NodeRec
<1>4. /\ \A m \in T \ {rt} : Kids(heap', m) = Kids(h, m)
      /\ \A m \in T \ {rt} : heap'[m].is_leaf <=> h[m].is_leaf
      /\ \A m \in T \ {rt} : ShapedNode(heap'[m]) /\ heap'[m].keys = h[m].keys
      /\ Linked(heap', root', T \ {rt}, {}, {})
      /\ heap' \in [Node -> NodeRec]
      /\ root' \in Node \cup {NULL}
  <2>1. CASE h[rt].is_leaf
    <3>1. root' = NULL
      BY <1>2, <2>1
    <3>2. heap' = [h EXCEPT ![rt] = Blank]
      BY <1>1, <1>2, <3>1 DEF Adopt
    <3>3. \A m \in Node \ {rt} : heap'[m] = h[m]
      BY <1>1, <3>2
    <3>4. h[rt].kids = <<>>
      BY <1>1, <2>1 DEF ShapedNode
    <3>5. Linked(heap', NULL, T \ {rt}, {}, {})
      BY <1>1, <3>3, <3>4, LinkedDropLeaf
    <3>6. heap' \in [Node -> NodeRec]
      BY <1>1, <1>3, <3>2
    <3>. QED BY <3>1, <3>3, <3>5, <3>6 DEF Removed, Shaped, Kids
  <2>2. CASE ~h[rt].is_leaf
    <3>1. PICK cs \in Seq(Node) : cs = h[rt].kids /\ Len(cs) = 1
      BY <1>1, <2>2 DEF ShapedNode, NodeRec
    <3>2. PICK c \in Node : c = cs[1] /\ root' = c /\ c # NULL
      BY <1>2, <2>2, <3>1, NullAssumption
    <3>3. Kids(h, rt) = {c}
      BY <3>1, <3>2, InRange DEF Kids
    <3>4. c \in T /\ h[c].parent = rt /\ c # rt
      BY <1>1, <3>3, NullAssumption DEF Linked
    <3>5. /\ heap'[c] = [h[c] EXCEPT !.parent = NULL]
          /\ heap'[rt] = Blank
          /\ \A m \in Node \ {rt, c} : heap'[m] = h[m]
      BY <1>1, <1>2, <3>2, <3>4 DEF Adopt
    <3>6. h[c] \in NodeRec
      BY <1>1
    <3>7. heap'[c] \in NodeRec
      BY <3>5, <3>6 DEF NodeRec
    <3>8. /\ heap'[c].keys = h[c].keys /\ heap'[c].kids = h[c].kids
          /\ heap'[c].recs = h[c].recs /\ heap'[c].parent = NULL
      BY <3>5, <3>6 DEF NodeRec
    <3>9. h[c].is_leaf => heap'[c].is_leaf
      BY <3>5, <3>6 DEF NodeRec
    <3>10. ~h[c].is_leaf => ~heap'[c].is_leaf
      BY <3>5, <3>6 DEF NodeRec
    <3>11. heap' \in [Node -> NodeRec]
      <4>1. \A m \in Node : heap'[m] \in NodeRec
        BY <1>1, <1>3, <3>5, <3>7
      <4>2. heap' = [m \in Node |-> heap'[m]]
        BY <1>2 DEF Adopt
      <4>. QED BY <4>1, <4>2
    <3>12. Linked(heap', c, T \ {rt}, {}, {})
      <4>1. /\ \A m \in Node \ {rt} : heap'[m].kids = h[m].kids
            /\ \A m \in Node \ {rt, c} : heap'[m].parent = h[m].parent
        BY <3>5, <3>8
      <4>. QED BY <1>1, <3>3, <3>8, <4>1, LinkedDropRoot
    <3>13. ShapedNode(heap'[c])
      <4>1. ShapedNode(h[c])
        BY <3>4 DEF Removed, Shaped
      <4>. QED BY <3>8, <3>9, <3>10, <4>1 DEF ShapedNode
    <3>14. \A m \in T \ {rt} : Kids(heap', m) = Kids(h, m)
      BY <3>5, <3>8 DEF Kids
    <3>15. \A m \in T \ {rt} : heap'[m].is_leaf <=> h[m].is_leaf
      BY <3>5, <3>9, <3>10
    <3>16. \A m \in T \ {rt} : ShapedNode(heap'[m]) /\ heap'[m].keys = h[m].keys
      BY <3>5, <3>8, <3>13 DEF Removed, Shaped
    <3>. QED BY <3>2, <3>11, <3>12, <3>14, <3>15, <3>16
  <2>. QED BY <2>1, <2>2
<1>5. Shaped(heap', T \ {rt})
  BY <1>4 DEF Shaped
<1>6. Full(heap', root', T \ {rt})
  <2> SUFFICES ASSUME NEW m \in T \ {rt}
               PROVE  Len(heap'[m].keys) >= 1 /\ Len(heap'[m].keys) >= min_keys(heap'[m])
    BY DEF Full
  <2>1. Len(h[m].keys) >= 1 /\ Len(h[m].keys) >= min_keys(h[m])
    BY DEF Removed
  <2>2. min_keys(heap'[m]) = min_keys(h[m])
    BY <1>4 DEF min_keys
  <2>. QED BY <1>4, <2>1, <2>2
<1>7. Graded(heap', T \ {rt}, ht)
  BY <1>4 DEF Removed, Graded
<1>. QED BY <1>2, <1>4, <1>5, <1>6, <1>7

\* The neighbour of n: another child of its parent p, of the same kind.
LEMMA Siblings ==
  ASSUME NEW h, NEW rt, NEW T \in SUBSET Node, NEW n \in T, n # rt,
         NEW ht \in [Node -> Nat], Removed(h, rt, T, n, ht)
  PROVE  \E p \in T :
            /\ p = h[n].parent /\ p # n /\ ~h[p].is_leaf /\ p # NULL
            /\ h[p].keys \in Seq(Key) /\ h[p].kids \in Seq(Node)
            /\ Len(h[p].keys) >= 1 /\ Len(h[p].kids) = Len(h[p].keys) + 1
            /\ IsInjective(h[p].kids)
            /\ \A j \in 1..Len(h[p].kids) :
                  LET b == h[p].kids[j]
                  IN  /\ b \in T /\ b # p /\ b # rt
                      /\ h[b].parent = p
                      /\ h[b].is_leaf <=> h[n].is_leaf
<1>1. h \in [Node -> NodeRec] /\ Linked(h, rt, T, {}, {})
  BY DEF Removed
<1>2. PICK p \in T : p = h[n].parent /\ n \in Kids(h, p)
  BY <1>1 DEF Linked
<1>3. h[p] \in NodeRec
  BY <1>1
<1>4. PICK cs \in Seq(Node), ks \in Seq(Key) : cs = h[p].kids /\ ks = h[p].keys
  BY <1>3 DEF NodeRec
<1>5. Graded(h, T, ht) /\ ShapedNode(h[p])
  BY DEF Removed, Shaped
<1>6. \A c \in Kids(h, p) : ht[p] = ht[c] + 1 /\ c \in T /\ h[c].parent = p
  BY <1>1, <1>5 DEF Graded, Linked
<1>7. p # n /\ p # NULL
  BY <1>2, <1>6, NullAssumption
<1>8. ~h[p].is_leaf
  BY <1>2, <1>5, NoKids DEF ShapedNode
<1>9. Len(cs) = Len(ks) + 1 /\ Len(ks) >= 1
  BY <1>4, <1>5, <1>7, <1>8 DEF ShapedNode, Removed
<1>10. IsInjective(cs)
  BY <1>1, <1>4 DEF Linked
<1>11. ASSUME NEW j \in 1..Len(cs)
       PROVE  /\ cs[j] \in T /\ cs[j] # p /\ cs[j] # rt
              /\ h[cs[j]].parent = p
              /\ h[cs[j]].is_leaf <=> h[n].is_leaf
  <2>1. PICK c \in Node : c = cs[j]
    OBVIOUS
  <2>2. c \in Kids(h, p)
    BY <1>4, <2>1, InRange DEF Kids
  <2>3. c \in T /\ h[c].parent = p /\ ht[p] = ht[c] + 1 /\ ht[p] = ht[n] + 1
    BY <1>2, <1>6, <2>2
  <2>4. c # p /\ ht[c] = ht[n]
    BY <2>3
  <2>5. c # rt
    BY <1>1, <1>7, <2>3, NullAssumption DEF Linked
  <2>6. h[c].is_leaf <=> h[n].is_leaf
    BY <1>5, <2>3, <2>4 DEF Graded
  <2>. QED BY <2>1, <2>3, <2>4, <2>5, <2>6
<1>. QED BY <1>2, <1>4, <1>7, <1>8, <1>9, <1>10, <1>11

-----------------------------------------------------------------------------
(***************************************************************************)
(* coalesce_nodes.                                                         *)
(***************************************************************************)

\* A node that got another parent keeps the rest of its contents.
LEMMA Adopted ==
  ASSUME NEW h \in [Node -> NodeRec], NEW g, NEW S, NEW q \in Node \cup {NULL}, NEW m \in Node,
         g = Adopt(h, S, q)
  PROVE  /\ g[m] \in NodeRec
         /\ g[m].keys = h[m].keys /\ g[m].kids = h[m].kids /\ g[m].recs = h[m].recs
         /\ g[m].is_leaf <=> h[m].is_leaf
         /\ m \in S => g[m].parent = q
         /\ m \notin S => g[m] = h[m]
<1>1. h[m] \in NodeRec
  OBVIOUS
<1>2. CASE m \notin S
  BY <1>1, <1>2 DEF Adopt
<1>3. CASE m \in S
  <2>1. g[m] = [h[m] EXCEPT !.parent = q]
    BY <1>3 DEF Adopt
  <2>2. g[m] \in NodeRec
    BY <1>1, <2>1 DEF NodeRec
  <2>3. /\ g[m].keys = h[m].keys /\ g[m].kids = h[m].kids
        /\ g[m].recs = h[m].recs /\ g[m].parent = q
    BY <1>1, <2>1 DEF NodeRec
  <2>4. h[m].is_leaf => g[m].is_leaf
    BY <1>1, <2>1 DEF NodeRec
  <2>5. ~h[m].is_leaf => ~g[m].is_leaf
    BY <1>1, <2>1 DEF NodeRec
  <2>. QED BY <1>3, <2>2, <2>3, <2>4, <2>5
<1>. QED BY <1>2, <1>3

\* g is h with other parents for the nodes of S.
Rehung(h, g, S, q) ==
    /\ g \in [Node -> NodeRec]
    /\ \A m \in Node : g[m].keys = h[m].keys /\ g[m].kids = h[m].kids /\ g[m].recs = h[m].recs
    /\ \A m \in Node : g[m].is_leaf <=> h[m].is_leaf
    /\ \A m \in Node : m \in S => g[m].parent = q
    /\ \A m \in Node : m \notin S => g[m] = h[m]

\* Adopt changes parents and nothing else.
LEMMA AdoptRehung ==
  ASSUME NEW h \in [Node -> NodeRec], NEW g, NEW S, NEW q \in Node \cup {NULL},
         g = Adopt(h, S, q)
  PROVE  Rehung(h, g, S, q)
<1>1. g = [m \in Node |-> g[m]]
  BY DEF Adopt
<1>2. \A m \in Node : g[m] \in NodeRec
  BY Adopted
<1>3. g \in [Node -> NodeRec]
  BY <1>1, <1>2
<1>4. \A m \in Node : g[m].keys = h[m].keys /\ g[m].kids = h[m].kids /\ g[m].recs = h[m].recs
  BY Adopted
<1>5. \A m \in Node : g[m].is_leaf <=> h[m].is_leaf
  BY Adopted
<1>6. \A m \in Node : m \in S => g[m].parent = q
  BY Adopted
<1>7. \A m \in Node : m \notin S => g[m] = h[m]
  BY Adopted
<1>. QED BY <1>3, <1>4, <1>5, <1>6, <1>7 DEF Rehung

\* The children of two siblings are other nodes of the tree, one level down,
\* and each is the child of one of them only.
LEMMA SiblingKids ==
  ASSUME NEW h, NEW rt, NEW T, NEW n, NEW ht, NEW l, NEW r, NEW p,
         Pair(h, rt, T, n, ht, l, r, p)
  PROVE  /\ Kids(h, l) \cap Kids(h, r) = {}
         /\ Kids(h, l) \cup Kids(h, r) \subseteq T \ {l, r, p}
         /\ \A c \in Kids(h, l) \cup Kids(h, r) : ht[l] = ht[c] + 1 /\ ht[r] = ht[c] + 1
<1>1. Linked(h, rt, T, {}, {}) /\ Graded(h, T, ht)
  BY DEF Removed, Pair
<1>2. l \in Kids(h, p) /\ r \in Kids(h, p)
  BY <1>1 DEF Linked, Pair
<1>3. ht[p] = ht[l] + 1 /\ ht[p] = ht[r] + 1
  BY <1>1, <1>2 DEF Graded, Pair
<1>4. ht[l] \in Nat /\ ht[r] \in Nat /\ ht[p] \in Nat /\ l \in T /\ r \in T /\ p \in T
  BY DEF Pair
<1>5. Kids(h, l) \cap Kids(h, r) = {} /\ Kids(h, l) \cup Kids(h, r) \subseteq T
  BY <1>1 DEF Linked, Pair
<1>6. \A c \in Kids(h, l) \cup Kids(h, r) : ht[l] = ht[c] + 1 /\ ht[r] = ht[c] + 1
  <2>1. ht[l] = ht[r]
    BY <1>3, <1>4
  <2>. QED BY <1>1, <1>4, <2>1 DEF Graded
<1>7. \A c \in Kids(h, l) \cup Kids(h, r) : c # l /\ c # r /\ c # p
  BY <1>3, <1>4, <1>6
<1>. QED BY <1>5, <1>6, <1>7

\* mg holds what l and r held, and is not below the minimum.
Absorbs(mg, h, l, r) ==
    /\ mg \in NodeRec
    /\ ShapedNode(mg) /\ Len(mg.keys) >= 1 /\ Len(mg.keys) >= min_keys(mg)
    /\ mg.parent = h[l].parent
    /\ mg.is_leaf <=> h[l].is_leaf
    /\ Range(mg.kids) = Kids(h, l) \cup Kids(h, r)
    /\ IsInjective(mg.kids)

\* g is the heap after the merge, compared with h, before it.
Merge(h, g, l, r, p) ==
    /\ \A m \in Node \ {l} : g[m].kids = h[m].kids /\ g[m].keys = h[m].keys /\ g[m].recs = h[m].recs
    /\ \A m \in Node : g[m].is_leaf <=> h[m].is_leaf
    /\ Kids(g, l) = Kids(h, l) \cup Kids(h, r)
    /\ IsInjective(g[l].kids)
    /\ ShapedNode(g[l]) /\ Len(g[l].keys) >= 1 /\ Len(g[l].keys) >= min_keys(g[l])
    /\ \A m \in Kids(g, l) : g[m].parent = l
    /\ \A m \in Node \ Kids(g, l) : g[m].parent = h[m].parent

\* The merged node in the place of l, its children adopted.
LEMMA MergeAdopt ==
  ASSUME NEW h, NEW rt, NEW T, NEW n, NEW ht, NEW l, NEW r, NEW p,
         Pair(h, rt, T, n, ht, l, r, p), NEW mg, Absorbs(mg, h, l, r),
         NEW g, g = Adopt([h EXCEPT ![l] = mg], Range(mg.kids), l)
  PROVE  g \in [Node -> NodeRec] /\ Merge(h, g, l, r, p)
<1>1. l \in Node /\ h \in [Node -> NodeRec]
  BY DEF Pair, Removed
<1>2. PICK hm \in [Node -> NodeRec] : hm = [h EXCEPT ![l] = mg]
  BY <1>1 DEF Absorbs
<1>3. hm[l] = mg /\ \A m \in Node \ {l} : hm[m] = h[m]
  BY <1>1, <1>2
<1>4. PICK S : S = Range(mg.kids) /\ S = Kids(h, l) \cup Kids(h, r)
  BY DEF Absorbs
<1>5. Rehung(hm, g, S, l)
  BY <1>1, <1>2, <1>4, AdoptRehung
<1>6. S \subseteq Node /\ l \notin S
  <2>1. Kids(h, l) \cup Kids(h, r) \subseteq T \ {l, r, p}
    BY SiblingKids
  <2>2. T \subseteq Node
    BY DEF Pair
  <2>. QED BY <1>4, <2>1, <2>2
<1>7. g[l] = mg
  BY <1>1, <1>3, <1>5, <1>6 DEF Rehung
<1>8. Kids(g, l) = S
  BY <1>4, <1>7 DEF Kids
<1>9. \A m \in Node \ {l} : g[m].kids = h[m].kids /\ g[m].keys = h[m].keys /\ g[m].recs = h[m].recs
  <2> SUFFICES ASSUME NEW m \in Node \ {l}
               PROVE  g[m].kids = h[m].kids /\ g[m].keys = h[m].keys /\ g[m].recs = h[m].recs
    OBVIOUS
  <2>1. hm[m] = h[m]
    BY <1>3
  <2>2. g[m].kids = hm[m].kids /\ g[m].keys = hm[m].keys /\ g[m].recs = hm[m].recs
    BY <1>5 DEF Rehung
  <2>. QED BY <2>1, <2>2
<1>10. \A m \in Node : g[m].is_leaf <=> h[m].is_leaf
  <2> SUFFICES ASSUME NEW m \in Node PROVE g[m].is_leaf <=> h[m].is_leaf
    OBVIOUS
  <2>1. g[m].is_leaf <=> hm[m].is_leaf
    BY <1>5 DEF Rehung
  <2>2. CASE m = l
    BY <1>7, <2>2 DEF Absorbs
  <2>3. CASE m # l
    BY <1>3, <2>1, <2>3
  <2>. QED BY <2>2, <2>3
<1>11. \A m \in Kids(g, l) : g[m].parent = l
  BY <1>5, <1>6, <1>8 DEF Rehung
<1>12. \A m \in Node \ Kids(g, l) : g[m].parent = h[m].parent
  <2> SUFFICES ASSUME NEW m \in Node, m \notin S PROVE g[m].parent = h[m].parent
    BY <1>8
  <2>1. CASE m = l
    BY <1>7, <2>1 DEF Absorbs
  <2>2. CASE m # l
    BY ZenonT(30), <1>3, <1>5, <2>2 DEF Rehung
  <2>. QED BY <2>1, <2>2
<1>13. ShapedNode(g[l]) /\ Len(g[l].keys) >= 1 /\ Len(g[l].keys) >= min_keys(g[l])
       /\ IsInjective(g[l].kids)
  BY <1>7 DEF Absorbs
<1>14. Kids(g, l) = Kids(h, l) \cup Kids(h, r)
  BY <1>4, <1>8
<1>15. Merge(h, g, l, r, p)
  BY <1>9, <1>10, <1>11, <1>12, <1>13, <1>14, Zenon DEF Merge
<1>16. g \in [Node -> NodeRec]
  BY <1>5 DEF Rehung
<1>. QED BY <1>15, <1>16

\* What is left of the tree after the merge, without r.
LEMMA MergeTree ==
  ASSUME NEW h, NEW rt, NEW T, NEW n, NEW ht, NEW l, NEW r, NEW p,
         Pair(h, rt, T, n, ht, l, r, p), NEW g \in [Node -> NodeRec], Merge(h, g, l, r, p)
  PROVE  Tree(g, rt, T \ {r}, {<<p, r>>}, ht)
<1>1. /\ h \in [Node -> NodeRec] /\ Linked(h, rt, T, {}, {}) /\ Graded(h, T, ht)
      /\ Shaped(h, T) /\ T \subseteq Node
  BY DEF Removed, Pair
<1>2. Linked(g, rt, T \ {r}, {<<p, r>>}, {})
  <2>1. /\ l \in T /\ r \in T /\ p \in T /\ l # r /\ p # l /\ p # r /\ r # rt
        /\ h[l].parent = p /\ h[r].parent = p
    BY DEF Pair
  <2>2. /\ \A m \in Node \ {l} : g[m].kids = h[m].kids
        /\ Kids(g, l) = Kids(h, l) \cup Kids(h, r) /\ IsInjective(g[l].kids)
        /\ \A m \in Kids(g, l) : g[m].parent = l
        /\ \A m \in Node \ Kids(g, l) : g[m].parent = h[m].parent
    BY DEF Merge
  <2>3. T \in SUBSET Node
    BY <1>1
  <2>. QED BY ONLY <1>1, <2>1, <2>2, <2>3, LinkedMerge
<1>3. Shaped(g, T \ {r})
  <2> SUFFICES ASSUME NEW m \in T \ {r} PROVE ShapedNode(g[m])
    BY DEF Shaped
  <2>1. CASE m = l
    BY <2>1 DEF Merge
  <2>2. CASE m # l
    <3>1. ShapedNode(h[m])
      BY <1>1 DEF Shaped
    <3>2. g[m].kids = h[m].kids /\ g[m].keys = h[m].keys /\ g[m].recs = h[m].recs
      BY <1>1, <2>2 DEF Merge
    <3>3. g[m].is_leaf <=> h[m].is_leaf
      BY <1>1 DEF Merge
    <3>. QED BY <3>1, <3>2, <3>3 DEF ShapedNode
  <2>. QED BY <2>1, <2>2
<1>4. Full(g, rt, T \ {r})
  <2> SUFFICES ASSUME NEW m \in T \ {r}
               PROVE  Len(g[m].keys) >= 1 /\ (m # rt => Len(g[m].keys) >= min_keys(g[m]))
    BY DEF Full
  <2>1. CASE m = l
    BY <2>1 DEF Merge
  <2>2. CASE m # l
    <3>0. m # n
      BY <2>2 DEF Pair
    <3>1. Len(h[m].keys) >= 1 /\ (m # rt => Len(h[m].keys) >= min_keys(h[m]))
      BY <3>0 DEF Pair, Removed
    <3>2. g[m].keys = h[m].keys
      BY <1>1, <2>2 DEF Merge
    <3>3. g[m].is_leaf <=> h[m].is_leaf
      BY <1>1 DEF Merge
    <3>4. min_keys(g[m]) = min_keys(h[m])
      BY <3>3 DEF min_keys
    <3>. QED BY <3>1, <3>2, <3>4
  <2>. QED BY <2>1, <2>2
<1>5. Graded(g, T \ {r}, ht)
  <2> SUFFICES ASSUME NEW q \in T \ {r}
               PROVE  /\ g[q].is_leaf <=> ht[q] = 0
                      /\ \A c \in Kids(g, q) : ht[q] = ht[c] + 1
    BY DEF Graded
  <2>1. g[q].is_leaf <=> ht[q] = 0
    <3>1. g[q].is_leaf <=> h[q].is_leaf
      BY <1>1 DEF Merge
    <3>. QED BY <1>1, <3>1 DEF Graded
  <2>2. CASE q = l
    <3>1. \A c \in Kids(h, l) \cup Kids(h, r) : ht[l] = ht[c] + 1
      BY SiblingKids
    <3>2. Kids(g, l) = Kids(h, l) \cup Kids(h, r)
      BY DEF Merge
    <3>. QED BY <2>1, <2>2, <3>1, <3>2
  <2>3. CASE q # l
    <3>1. Kids(g, q) = Kids(h, q)
      BY <1>1, <2>3 DEF Merge, Kids
    <3>. QED BY <1>1, <2>1, <3>1 DEF Graded
  <2>. QED BY <2>2, <2>3
<1>. QED BY <1>2, <1>3, <1>4, <1>5 DEF Tree

\* The contents coalesce_nodes gives to l.
Joined(h, l, r, k) ==
    IF h[l].is_leaf
    THEN [h[l] EXCEPT !.keys = h[l].keys \o h[r].keys, !.recs = h[l].recs \o h[r].recs,
                      !.link = h[r].link]
    ELSE [h[l] EXCEPT !.keys = h[l].keys \o <<k>> \o h[r].keys,
                      !.kids = h[l].kids \o h[r].kids]

\* The entries of both fit into one node, and l or r had its minimum of keys.
LEMMA JoinedAbsorbs ==
  ASSUME NEW h, NEW rt, NEW T, NEW n, NEW ht, NEW l, NEW r, NEW p,
         Pair(h, rt, T, n, ht, l, r, p), NEW k \in Key,
         Len(h[l].keys) + Len(h[r].keys) < IF h[l].is_leaf THEN Order ELSE Order - 1
  PROVE  Absorbs(Joined(h, l, r, k), h, l, r)
<1>1. /\ h[l] \in NodeRec /\ h[r] \in NodeRec /\ ShapedNode(h[l]) /\ ShapedNode(h[r])
      /\ IsInjective(h[l].kids) /\ IsInjective(h[r].kids)
  <2>1. /\ h \in [Node -> NodeRec] /\ T \subseteq Node /\ l \in T /\ r \in T
        /\ Shaped(h, T) /\ Linked(h, rt, T, {}, {})
    BY DEF Pair, Removed
  <2>. QED BY <2>1 DEF Shaped, Linked
<1>2. PICK kl \in Seq(Key), kr \in Seq(Key) : kl = h[l].keys /\ kr = h[r].keys
  BY <1>1 DEF NodeRec
<1>3. PICK cl \in Seq(Node), cr \in Seq(Node) : cl = h[l].kids /\ cr = h[r].kids
  BY <1>1 DEF NodeRec
<1>4. PICK rl \in Seq(Val), rr \in Seq(Val) : rl = h[l].recs /\ rr = h[r].recs
  BY <1>1 DEF NodeRec
<1>5. /\ Kids(h, l) = Range(cl) /\ Kids(h, r) = Range(cr)
      /\ Range(cl) \cap Range(cr) = {}
  <2>1. Kids(h, l) \cap Kids(h, r) = {}
    BY SiblingKids
  <2>. QED BY <1>3, <2>1 DEF Kids
<1>6. PICK x \in {l, r} : Len(h[x].keys) >= 1 /\ Len(h[x].keys) >= min_keys(h[x])
  <2>1. PICK x \in {l, r} : x # n /\ x \in T /\ x # rt
    BY DEF Pair
  <2>. QED BY <2>1 DEF Pair, Removed
<1>7. Len(kl) \in Nat /\ Len(kr) \in Nat
  OBVIOUS
<1>8. ASSUME NEW c \in Nat, Len(h[x].keys) >= c
      PROVE  Len(kl) + Len(kr) >= c
  <2>1. CASE x = l
    <3>1. Len(kl) >= c
      BY <1>2, <1>8, <2>1
    <3>. QED BY <1>7, <3>1
  <2>2. CASE x = r
    <3>1. Len(kr) >= c
      BY <1>2, <1>8, <2>2
    <3>. QED BY <1>7, <3>1
  <2>. QED BY <2>1, <2>2
<1>9. Len(kl) + Len(kr) >= 1
  BY <1>6, <1>8
<1>10. PICK mg : mg = Joined(h, l, r, k)
  OBVIOUS
<1>11. CASE h[l].is_leaf
  <2>1. mg = [h[l] EXCEPT !.keys = kl \o kr, !.recs = rl \o rr, !.link = h[r].link]
    BY <1>2, <1>4, <1>10, <1>11 DEF Joined
  <2>2. kl \o kr \in Seq(Key) /\ Len(kl \o kr) = Len(kl) + Len(kr)
    BY ConcatProps
  <2>3. rl \o rr \in Seq(Val) /\ Len(rl \o rr) = Len(rl) + Len(rr)
    BY ConcatProps
  <2>4. h[r].link \in Node \cup {NULL}
    BY <1>1 DEF NodeRec
  <2>5. mg \in NodeRec
    BY <1>1, <2>1, <2>2, <2>3, <2>4 DEF NodeRec
  <2>6. mg.keys = kl \o kr /\ mg.recs = rl \o rr /\ mg.kids = cl /\ mg.parent = h[l].parent
    BY <1>1, <1>3, <2>1 DEF NodeRec
  <2>7. mg.is_leaf
    BY <1>1, <1>11, <2>1 DEF NodeRec
  <2>8. h[r].is_leaf
    BY <1>11 DEF Pair
  <2>9. cl = <<>> /\ cr = <<>> /\ Len(rl) = Len(kl) /\ Len(rr) = Len(kr)
    BY <1>1, <1>2, <1>3, <1>4, <1>11, <2>8 DEF ShapedNode
  <2>10. Len(kl) + Len(kr) < Order
    BY <1>2, <1>11
  <2>11. ShapedNode(mg)
    <3>1. Len(mg.keys) <= Order - 1 /\ Len(mg.recs) = Len(mg.keys) /\ mg.kids = <<>>
      BY <1>7, <2>2, <2>3, <2>6, <2>9, <2>10, OrderAssumption
    <3>. QED BY <2>7, <3>1 DEF ShapedNode
  <2>12. Len(mg.keys) >= 1
    BY <1>9, <2>2, <2>6
  <2>13. Len(mg.keys) >= min_keys(mg)
    <3>1. PICK c \in Nat : c = cut(Order - 1)
      BY OrderAssumption DEF cut
    <3>2. h[x].is_leaf
      BY <1>11, <2>8
    <3>3. min_keys(mg) = c /\ min_keys(h[x]) = c
      BY <2>7, <3>1, <3>2 DEF min_keys
    <3>4. Len(h[x].keys) >= c
      BY <1>6, <3>3
    <3>5. Len(kl) + Len(kr) >= c
      BY <1>8, <3>4
    <3>. QED BY <2>2, <2>6, <3>3, <3>5
  <2>14. Range(mg.kids) = Kids(h, l) \cup Kids(h, r)
    <3>1. Kids(h, r) = {}
      BY <1>3, <2>9, NoKids
    <3>. QED BY <1>5, <2>6, <3>1
  <2>15. IsInjective(mg.kids)
    BY <1>1, <1>3, <2>6
  <2>. QED BY <1>10, <1>11, <2>5, <2>6, <2>7, <2>11, <2>12, <2>13, <2>14, <2>15 DEF Absorbs
<1>12. CASE ~h[l].is_leaf
  <2>1. mg = [h[l] EXCEPT !.keys = kl \o <<k>> \o kr, !.kids = cl \o cr]
    BY <1>2, <1>3, <1>10, <1>12 DEF Joined
  <2>2. kl \o <<k>> \o kr \in Seq(Key) /\ Len(kl \o <<k>> \o kr) = Len(kl) + 1 + Len(kr)
    <3>1. kl \o <<k>> \in Seq(Key) /\ Len(kl \o <<k>>) = Len(kl) + 1
      OBVIOUS
    <3>. QED BY <3>1, ConcatProps
  <2>3. cl \o cr \in Seq(Node) /\ Len(cl \o cr) = Len(cl) + Len(cr)
    BY ConcatProps
  <2>5. mg \in NodeRec
    BY <1>1, <2>1, <2>2, <2>3 DEF NodeRec
  <2>6. mg.keys = kl \o <<k>> \o kr /\ mg.kids = cl \o cr /\ mg.parent = h[l].parent
    BY <1>1, <2>1 DEF NodeRec
  <2>7. ~mg.is_leaf
    BY <1>1, <1>12, <2>1 DEF NodeRec
  <2>8. ~h[r].is_leaf
    BY <1>12 DEF Pair
  <2>9. Len(cl) = Len(kl) + 1 /\ Len(cr) = Len(kr) + 1
    BY <1>1, <1>2, <1>3, <1>12, <2>8 DEF ShapedNode
  <2>10. Len(kl) + Len(kr) < Order - 1
    BY <1>2, <1>12
  <2>11. ShapedNode(mg)
    <3>1. Len(mg.keys) <= Order - 1 /\ Len(mg.kids) = Len(mg.keys) + 1
      BY <1>7, <2>2, <2>3, <2>6, <2>9, <2>10, OrderAssumption
    <3>. QED BY <2>7, <3>1 DEF ShapedNode
  <2>12. Len(mg.keys) >= 1
    BY <1>7, <2>2, <2>6
  <2>13. Len(mg.keys) >= min_keys(mg)
    <3>1. PICK c \in Nat : c = cut(Order) - 1
      BY OrderAssumption DEF cut
    <3>2. ~h[x].is_leaf
      BY <1>12, <2>8
    <3>3. min_keys(mg) = c /\ min_keys(h[x]) = c
      BY <2>7, <3>1, <3>2 DEF min_keys
    <3>4. Len(h[x].keys) >= c
      BY <1>6, <3>3
    <3>5. Len(kl) + Len(kr) >= c
      BY <1>8, <3>4
    <3>6. Len(kl) + 1 + Len(kr) >= c
      BY <1>7, <3>5
    <3>. QED BY <2>2, <2>6, <3>3, <3>6
  <2>14. Range(mg.kids) = Kids(h, l) \cup Kids(h, r) /\ IsInjective(mg.kids)
    BY <1>1, <1>3, <1>5, <2>6, ConcatRange
  <2>. QED BY <1>10, <1>12, <2>5, <2>6, <2>7, <2>11, <2>12, <2>13, <2>14 DEF Absorbs
<1>. QED BY <1>11, <1>12

\* The node r has gone from the tree T; its entry in p is to be deleted.
Coalesced(T, ht, p, k, r) ==
    /\ r # root /\ r # p
    /\ Tree(heap', root, T \ {r}, {<<p, r>>}, ht)
    /\ UNCHANGED <<root, free>> /\ doomed' = doomed \cup {r}
    /\ call' = [Idle EXCEPT !.pc = "delete_entry", !.key = k, !.node = p, !.right = r]

\* coalesce_nodes: the tree without the right one of the two nodes.
LEMMA CoalesceTree ==
  ASSUME NEW h, NEW T, NEW n, NEW ht, NEW nb, NEW p, Pair(h, root, T, n, ht, n, nb, p),
         NEW leftmost \in BOOLEAN, NEW k \in Key,
         Fits(h, n, nb), coalesce_nodes(h, n, nb, leftmost, k)
  PROVE  \E r \in T : Coalesced(T, ht, p, k, r)
<1>1. PICK l, r :
         /\ l = IF leftmost THEN n ELSE nb
         /\ r = IF leftmost THEN nb ELSE n
  OBVIOUS
<1>2. (l = n /\ r = nb) \/ (l = nb /\ r = n)
  BY <1>1
<1>3. Pair(h, root, T, n, ht, l, r, p)
  BY <1>2, Zenon DEF Pair
<1>4. r \in T /\ r # root /\ r # p /\ h[r].parent = p
  BY <1>3 DEF Pair
<1>5. h[l].is_leaf <=> h[n].is_leaf
  BY <1>2 DEF Pair
<1>6. Len(h[l].keys) + Len(h[r].keys) < IF h[l].is_leaf THEN Order ELSE Order - 1
  <2>1. Len(h[nb].keys) + Len(h[n].keys) < IF h[n].is_leaf THEN Order ELSE Order - 1
    BY DEF Fits
  <2>2. h[n].keys \in Seq(Key) /\ h[nb].keys \in Seq(Key)
    BY DEF Pair, Removed, NodeRec
  <2>3. PICK a \in Nat, b \in Nat : a = Len(h[n].keys) /\ b = Len(h[nb].keys)
    BY <2>2
  <2>4. a + b = b + a
    OBVIOUS
  <2>5. Len(h[n].keys) + Len(h[nb].keys) < IF h[n].is_leaf THEN Order ELSE Order - 1
    BY <2>1, <2>3, <2>4
  <2>. QED BY <1>2, <1>5, <2>1, <2>5
<1>7. PICK mg : mg = Joined(h, l, r, k)
  OBVIOUS
<1>8. Absorbs(mg, h, l, r)
  BY <1>3, <1>6, <1>7, JoinedAbsorbs
<1>9. heap' = Adopt([h EXCEPT ![l] = mg], Range(mg.kids), l)
  BY <1>1, <1>5, <1>7 DEF coalesce_nodes, Joined
<1>10. heap' \in [Node -> NodeRec] /\ Merge(h, heap', l, r, p)
  BY <1>3, <1>8, <1>9, MergeAdopt
<1>11. Tree(heap', root, T \ {r}, {<<p, r>>}, ht)
  BY <1>3, <1>10, MergeTree
<1>12. UNCHANGED <<root, free>> /\ doomed' = doomed \cup {r}
       /\ call' = [Idle EXCEPT !.pc = "delete_entry", !.key = k, !.node = p, !.right = r]
  BY <1>1, <1>4 DEF coalesce_nodes
<1>. QED BY <1>4, <1>11, <1>12 DEF Coalesced

-----------------------------------------------------------------------------
(***************************************************************************)
(* redistribute_nodes.                                                     *)
(***************************************************************************)

\* The node a with contents c after a redistribution.
Balance(c, h, a, S) ==
    /\ c \in NodeRec
    /\ ShapedNode(c) /\ Len(c.keys) >= 1 /\ Len(c.keys) >= min_keys(c)
    /\ c.parent = h[a].parent
    /\ c.is_leaf <=> h[a].is_leaf
    /\ Range(c.kids) = S
    /\ IsInjective(c.kids)

\* g is the heap after the children X have moved from b to n, compared with h,
\* before it.
Move(h, g, n, b, X) ==
    /\ \A m \in Node \ {n, b} : /\ g[m].kids = h[m].kids /\ g[m].recs = h[m].recs
                                /\ Len(g[m].keys) = Len(h[m].keys)
    /\ \A m \in Node : g[m].is_leaf <=> h[m].is_leaf
    /\ X \subseteq Kids(h, b)
    /\ Kids(g, n) = Kids(h, n) \cup X
    /\ Kids(g, b) = Kids(h, b) \ X
    /\ \A m \in {n, b} : IsInjective(g[m].kids)
    /\ \A m \in {n, b} : ShapedNode(g[m]) /\ Len(g[m].keys) >= 1 /\ Len(g[m].keys) >= min_keys(g[m])
    /\ \A m \in Kids(g, n) : g[m].parent = n
    /\ \A m \in Node \ Kids(g, n) : g[m].parent = h[m].parent

\* The heap redistribute_nodes writes, before the children's parent pointers.
Rewritten(h, n, n2, b, b2, p, j, up) ==
    [h EXCEPT ![n] = n2, ![b] = b2, ![p].keys[j] = up]

\* The new contents in the places of n, b and their parent, the children of n
\* adopted.
LEMMA MoveAdopt ==
  ASSUME NEW h, NEW rt, NEW T, NEW n, NEW ht, NEW b, NEW p,
         Pair(h, rt, T, n, ht, n, b, p), NEW X, X \subseteq Kids(h, b),
         NEW n2, Balance(n2, h, n, Kids(h, n) \cup X),
         NEW b2, Balance(b2, h, b, Kids(h, b) \ X),
         NEW j \in 1..Len(h[p].keys), NEW up \in Key,
         NEW g, g = Adopt(Rewritten(h, n, n2, b, b2, p, j, up), Range(n2.kids), n)
  PROVE  g \in [Node -> NodeRec] /\ Move(h, g, n, b, X)
<1>1. /\ n \in Node /\ b \in Node /\ p \in Node /\ h \in [Node -> NodeRec]
      /\ n # b /\ p # n /\ p # b
  BY DEF Pair, Removed
<1>2. h[p] \in NodeRec
  BY <1>1
<1>3. PICK ks \in Seq(Key) : ks = h[p].keys
  BY <1>2 DEF NodeRec
<1>4. PICK ks2 \in Seq(Key) : ks2 = [ks EXCEPT ![j] = up] /\ Len(ks2) = Len(ks)
  <2>1. j \in 1..Len(ks)
    BY <1>3
  <2>2. PICK q : q = [ks EXCEPT ![j] = up]
    OBVIOUS
  <2>3. q \in Seq(Key) /\ Len(q) = Len(ks)
    BY ONLY ks \in Seq(Key), up \in Key, <2>1, <2>2, ExceptProps
  <2>. QED BY <2>2, <2>3
<1>5. PICK p2 : p2 = [h[p] EXCEPT !.keys = ks2]
  OBVIOUS
<1>6. p2 \in NodeRec
  BY <1>2, <1>5 DEF NodeRec
<1>7. /\ p2.kids = h[p].kids /\ p2.recs = h[p].recs /\ p2.parent = h[p].parent
      /\ p2.keys = ks2
  BY <1>2, <1>5 DEF NodeRec
<1>8. p2.is_leaf <=> h[p].is_leaf
  <2>1. h[p].is_leaf => p2.is_leaf
    BY <1>2, <1>5 DEF NodeRec
  <2>2. ~h[p].is_leaf => ~p2.is_leaf
    BY <1>2, <1>5 DEF NodeRec
  <2>. QED BY <2>1, <2>2
<1>9. PICK hm : /\ hm = [h EXCEPT ![n] = n2, ![b] = b2, ![p].keys[j] = up]
                /\ hm = Rewritten(h, n, n2, b, b2, p, j, up)
  BY DEF Rewritten
<1>10. /\ hm[n] = n2 /\ hm[b] = b2 /\ hm[p] = p2
       /\ \A m \in Node \ {n, b, p} : hm[m] = h[m]
  <2>1. hm = [h EXCEPT ![n] = n2, ![b] = b2, ![p] = [h[p] EXCEPT !.keys = [h[p].keys EXCEPT ![j] = up]]]
    BY <1>1, <1>9
  <2>2. [h[p] EXCEPT !.keys = [h[p].keys EXCEPT ![j] = up]] = p2
    BY <1>3, <1>4, <1>5
  <2>3. hm = [h EXCEPT ![n] = n2, ![b] = b2, ![p] = p2]
    BY <2>1, <2>2
  <2>. QED BY <1>1, <2>3
<1>11. n2 \in NodeRec /\ b2 \in NodeRec
  BY DEF Balance
<1>12. hm \in [Node -> NodeRec]
  <2>1. \A m \in Node : hm[m] \in NodeRec
    BY <1>1, <1>6, <1>10, <1>11
  <2>2. hm = [m \in Node |-> hm[m]]
    BY <1>1, <1>9
  <2>. QED BY <2>1, <2>2
<1>13. PICK S : S = Range(n2.kids) /\ S = Kids(h, n) \cup X
  BY DEF Balance
<1>14. Rehung(hm, g, S, n)
  <2>1. g = Adopt(hm, S, n)
    BY <1>9, <1>13
  <2>2. n \in Node \cup {NULL}
    BY <1>1
  <2>. QED BY ONLY <1>12, <2>1, <2>2, AdoptRehung
<1>15. S \subseteq Node /\ n \notin S /\ b \notin S /\ p \notin S
  <2>1. Kids(h, n) \cup Kids(h, b) \subseteq T \ {n, b, p}
    BY SiblingKids
  <2>2. T \subseteq Node
    BY DEF Pair
  <2>. QED BY <1>13, <2>1, <2>2
<1>16. g[n] = n2 /\ g[b] = b2 /\ g[p] = p2
  BY <1>1, <1>10, <1>14, <1>15 DEF Rehung
<1>17. ASSUME NEW m \in Node \ {n, b}
       PROVE  /\ g[m].kids = h[m].kids /\ g[m].recs = h[m].recs
              /\ Len(g[m].keys) = Len(h[m].keys)
  <2>1. CASE m = p
    BY <1>3, <1>4, <1>7, <1>16, <2>1
  <2>2. CASE m # p
    <3>1. hm[m] = h[m]
      BY <1>10, <2>2
    <3>2. g[m].kids = hm[m].kids /\ g[m].keys = hm[m].keys /\ g[m].recs = hm[m].recs
      BY <1>14 DEF Rehung
    <3>. QED BY <3>1, <3>2
  <2>. QED BY <2>1, <2>2
<1>18. ASSUME NEW m \in Node PROVE g[m].is_leaf <=> h[m].is_leaf
  <2>1. CASE m = n
    BY <1>16, <2>1 DEF Balance
  <2>2. CASE m = b
    BY <1>16, <2>2 DEF Balance
  <2>3. CASE m = p
    BY <1>8, <1>16, <2>3
  <2>4. CASE m \notin {n, b, p}
    <3>1. hm[m] = h[m]
      BY <1>10, <2>4
    <3>2. g[m].is_leaf <=> hm[m].is_leaf
      BY <1>14 DEF Rehung
    <3>. QED BY <3>1, <3>2
  <2>. QED BY <2>1, <2>2, <2>3, <2>4
<1>19. Kids(g, n) = Kids(h, n) \cup X /\ Kids(g, b) = Kids(h, b) \ X /\ Kids(g, n) = S
  BY <1>13, <1>16 DEF Balance, Kids
<1>20. \A m \in {n, b} : IsInjective(g[m].kids)
  BY <1>16 DEF Balance
<1>21. \A m \in {n, b} : /\ ShapedNode(g[m]) /\ Len(g[m].keys) >= 1
                         /\ Len(g[m].keys) >= min_keys(g[m])
  BY <1>16 DEF Balance
<1>22. \A m \in Kids(g, n) : g[m].parent = n
  BY <1>14, <1>15, <1>19 DEF Rehung
<1>23. ASSUME NEW m \in Node \ Kids(g, n) PROVE g[m].parent = h[m].parent
  <2>1. CASE m = n
    BY <1>16, <2>1 DEF Balance
  <2>2. CASE m = b
    BY <1>16, <2>2 DEF Balance
  <2>3. CASE m = p
    BY <1>7, <1>16, <2>3
  <2>4. CASE m \notin {n, b, p}
    <3>1. hm[m] = h[m]
      BY <1>10, <2>4
    <3>2. g[m] = hm[m]
      BY <1>14, <1>19 DEF Rehung
    <3>. QED BY <3>1, <3>2
  <2>. QED BY <2>1, <2>2, <2>3, <2>4
<1>24. Move(h, g, n, b, X)
  BY <1>17, <1>18, <1>19, <1>20, <1>21, <1>22, <1>23, Zenon DEF Move
<1>25. g \in [Node -> NodeRec]
  BY <1>14 DEF Rehung
<1>. QED BY <1>24, <1>25

\* The tree after a redistribution: the same nodes.
LEMMA MoveTree ==
  ASSUME NEW h, NEW rt, NEW T, NEW n, NEW ht, NEW b, NEW p, NEW X,
         Pair(h, rt, T, n, ht, n, b, p), NEW g \in [Node -> NodeRec], Move(h, g, n, b, X)
  PROVE  Tree(g, rt, T, {}, ht)
<1>1. /\ h \in [Node -> NodeRec] /\ Linked(h, rt, T, {}, {}) /\ Graded(h, T, ht)
      /\ Shaped(h, T) /\ T \in SUBSET Node /\ n \in T /\ b \in T /\ n # b
  BY DEF Removed, Pair
<1>2. Linked(g, rt, T, {}, {})
  <2>1. /\ \A m \in Node \ {n, b} : g[m].kids = h[m].kids
        /\ X \subseteq Kids(h, b)
        /\ Kids(g, n) = Kids(h, n) \cup X /\ IsInjective(g[n].kids)
        /\ Kids(g, b) = Kids(h, b) \ X /\ IsInjective(g[b].kids)
        /\ \A m \in Kids(g, n) : g[m].parent = n
        /\ \A m \in Node \ Kids(g, n) : g[m].parent = h[m].parent
    BY DEF Move
  <2>. QED BY ONLY <1>1, <2>1, LinkedMove
<1>3. Shaped(g, T)
  <2> SUFFICES ASSUME NEW m \in T PROVE ShapedNode(g[m])
    BY DEF Shaped
  <2>1. CASE m \in {n, b}
    BY <2>1 DEF Move
  <2>2. CASE m \notin {n, b}
    <3>1. ShapedNode(h[m])
      BY <1>1 DEF Shaped
    <3>2. g[m].kids = h[m].kids /\ Len(g[m].keys) = Len(h[m].keys) /\ g[m].recs = h[m].recs
      BY <1>1, <2>2 DEF Move
    <3>3. g[m].is_leaf <=> h[m].is_leaf
      BY <1>1 DEF Move
    <3>. QED BY <3>1, <3>2, <3>3 DEF ShapedNode
  <2>. QED BY <2>1, <2>2
<1>4. Full(g, rt, T)
  <2> SUFFICES ASSUME NEW m \in T
               PROVE  Len(g[m].keys) >= 1 /\ (m # rt => Len(g[m].keys) >= min_keys(g[m]))
    BY DEF Full
  <2>1. CASE m \in {n, b}
    BY <2>1 DEF Move
  <2>2. CASE m \notin {n, b}
    <3>1. Len(h[m].keys) >= 1 /\ (m # rt => Len(h[m].keys) >= min_keys(h[m]))
      BY <2>2 DEF Pair, Removed
    <3>2. Len(g[m].keys) = Len(h[m].keys)
      BY <1>1, <2>2 DEF Move
    <3>3. g[m].is_leaf <=> h[m].is_leaf
      BY <1>1 DEF Move
    <3>4. min_keys(g[m]) = min_keys(h[m])
      BY <3>3 DEF min_keys
    <3>. QED BY <3>1, <3>2, <3>4
  <2>. QED BY <2>1, <2>2
<1>5. Graded(g, T, ht)
  <2> SUFFICES ASSUME NEW q \in T
               PROVE  /\ g[q].is_leaf <=> ht[q] = 0
                      /\ \A c \in Kids(g, q) : ht[q] = ht[c] + 1
    BY DEF Graded
  <2>1. g[q].is_leaf <=> ht[q] = 0
    <3>1. g[q].is_leaf <=> h[q].is_leaf
      BY <1>1 DEF Move
    <3>. QED BY <1>1, <3>1 DEF Graded
  <2>2. CASE q \in {n, b}
    <3>1. \A c \in Kids(h, n) \cup Kids(h, b) : ht[n] = ht[c] + 1 /\ ht[b] = ht[c] + 1
      BY SiblingKids
    <3>2. Kids(g, n) \cup Kids(g, b) \subseteq Kids(h, n) \cup Kids(h, b)
      BY DEF Move
    <3>. QED BY <2>1, <2>2, <3>1, <3>2
  <2>3. CASE q \notin {n, b}
    <3>1. Kids(g, q) = Kids(h, q)
      BY <1>1, <2>3 DEF Move, Kids
    <3>. QED BY <1>1, <2>1, <3>1 DEF Graded
  <2>. QED BY <2>2, <2>3
<1>. QED BY <1>2, <1>3, <1>4, <1>5 DEF Tree

\* A leaf with other entries.
LEMMA RefillLeaf ==
  ASSUME NEW h, NEW a, h[a] \in NodeRec, h[a].is_leaf, ShapedNode(h[a]),
         NEW ks \in Seq(Key), NEW rs \in Seq(Val), Len(rs) = Len(ks),
         Len(ks) <= Order - 1, Len(ks) >= 1, Len(ks) >= cut(Order - 1),
         IsInjective(h[a].kids), NEW c, c = [h[a] EXCEPT !.keys = ks, !.recs = rs]
  PROVE  Balance(c, h, a, Kids(h, a))
<1>1. c \in NodeRec
  BY DEF NodeRec
<1>2. c.keys = ks /\ c.recs = rs /\ c.kids = h[a].kids /\ c.parent = h[a].parent
  BY DEF NodeRec
<1>3. c.is_leaf
  BY DEF NodeRec
<1>4. ShapedNode(c)
  BY <1>2, <1>3 DEF ShapedNode
<1>5. min_keys(c) = cut(Order - 1)
  BY <1>3 DEF min_keys
<1>6. Range(c.kids) = Kids(h, a)
  BY <1>2 DEF Kids
<1>. QED BY <1>1, <1>2, <1>3, <1>4, <1>5, <1>6 DEF Balance

\* An internal node with other entries.
LEMMA RefillNode ==
  ASSUME NEW h, NEW a, h[a] \in NodeRec, ~h[a].is_leaf,
         NEW ks \in Seq(Key), NEW cs \in Seq(Node), Len(cs) = Len(ks) + 1,
         Len(ks) <= Order - 1, Len(ks) >= 1, Len(ks) >= cut(Order) - 1,
         IsInjective(cs), NEW c, c = [h[a] EXCEPT !.keys = ks, !.kids = cs]
  PROVE  Balance(c, h, a, Range(cs))
<1>1. c \in NodeRec
  BY DEF NodeRec
<1>2. c.keys = ks /\ c.kids = cs /\ c.parent = h[a].parent
  BY DEF NodeRec
<1>3. ~c.is_leaf
  BY DEF NodeRec
<1>4. ShapedNode(c)
  BY <1>2, <1>3 DEF ShapedNode
<1>5. min_keys(c) = cut(Order) - 1
  BY <1>3 DEF min_keys
<1>. QED BY <1>1, <1>2, <1>3, <1>4, <1>5 DEF Balance

\* Where no coalescence is possible the neighbour has an entry to give.
LEMMA Spare ==
  ASSUME NEW a \in Nat, NEW b \in Nat, NEW leaf \in BOOLEAN, NEW c,
         c = IF leaf THEN cut(Order - 1) ELSE cut(Order) - 1,
         a < c, a + 1 >= c, ~(b + a < IF leaf THEN Order ELSE Order - 1)
  PROVE  a + 1 >= 1 /\ a + 1 >= c /\ a + 1 <= Order - 1 /\ b - 1 >= 1 /\ b - 1 >= c
<1>1. CASE leaf
  BY <1>1, OrderAssumption DEF cut
<1>2. CASE ~leaf
  BY <1>2, OrderAssumption DEF cut
<1>. QED BY <1>1, <1>2

\* What redistribute_nodes gives to n, and leaves to its neighbour b.
Taken(h, n, b, leftmost, k) ==
    CASE ~leftmost /\ h[b].is_leaf ->
           [h[n] EXCEPT !.keys = <<h[b].keys[Len(h[b].keys)]>> \o h[n].keys,
                        !.recs = <<h[b].recs[Len(h[b].keys)]>> \o h[n].recs]
      [] ~leftmost /\ ~h[b].is_leaf ->
           [h[n] EXCEPT !.keys = <<k>> \o h[n].keys,
                        !.kids = <<h[b].kids[Len(h[b].kids)]>> \o h[n].kids]
      [] leftmost /\ h[b].is_leaf ->
           [h[n] EXCEPT !.keys = Append(h[n].keys, h[b].keys[1]),
                        !.recs = Append(h[n].recs, h[b].recs[1])]
      [] OTHER ->
           [h[n] EXCEPT !.keys = Append(h[n].keys, k),
                        !.kids = Append(h[n].kids, h[b].kids[1])]

Given(h, b, leftmost) ==
    LET gone == IF leftmost THEN 1 ELSE Len(h[b].keys)
    IN  IF h[b].is_leaf
        THEN [h[b] EXCEPT !.keys = RemoveAt(h[b].keys, gone), !.recs = RemoveAt(h[b].recs, gone)]
        ELSE [h[b] EXCEPT !.keys = RemoveAt(h[b].keys, gone),
                          !.kids = RemoveAt(h[b].kids, IF leftmost THEN 1 ELSE Len(h[b].kids))]

\* Both nodes are within their bounds once an entry has moved.
LEMMA ShiftBalance ==
  ASSUME NEW h, NEW rt, NEW T, NEW n, NEW ht, NEW b, NEW p,
         Pair(h, rt, T, n, ht, n, b, p), NEW leftmost \in BOOLEAN, NEW k \in Key,
         Len(h[n].keys) < min_keys(h[n]), ~Fits(h, n, b)
  PROVE  \E X : /\ X \subseteq Kids(h, b) /\ Len(h[b].keys) >= 2
                /\ Balance(Taken(h, n, b, leftmost, k), h, n, Kids(h, n) \cup X)
                /\ Balance(Given(h, b, leftmost), h, b, Kids(h, b) \ X)
<1>1. /\ h[n] \in NodeRec /\ h[b] \in NodeRec /\ ShapedNode(h[n]) /\ ShapedNode(h[b])
      /\ IsInjective(h[n].kids) /\ IsInjective(h[b].kids)
  <2>1. /\ h \in [Node -> NodeRec] /\ T \subseteq Node /\ n \in T /\ b \in T
        /\ Shaped(h, T) /\ Linked(h, rt, T, {}, {})
    BY DEF Pair, Removed
  <2>. QED BY <2>1 DEF Shaped, Linked
<1>2. PICK kn \in Seq(Key), kb \in Seq(Key) : kn = h[n].keys /\ kb = h[b].keys
  BY <1>1 DEF NodeRec
<1>3. PICK cn \in Seq(Node), cb \in Seq(Node) : cn = h[n].kids /\ cb = h[b].kids
  BY <1>1 DEF NodeRec
<1>4. PICK rn \in Seq(Val), rb \in Seq(Val) : rn = h[n].recs /\ rb = h[b].recs
  BY <1>1 DEF NodeRec
<1>5. /\ Kids(h, n) = Range(cn) /\ Kids(h, b) = Range(cb)
      /\ Range(cn) \cap Range(cb) = {}
  <2>1. Kids(h, n) \cap Kids(h, b) = {}
    BY SiblingKids
  <2>. QED BY <1>3, <2>1 DEF Kids
<1>6. IsInjective(cn) /\ IsInjective(cb)
  BY <1>1, <1>3
<1>7. PICK lf \in BOOLEAN : (lf <=> h[n].is_leaf) /\ (lf <=> h[b].is_leaf)
  BY <1>1 DEF Pair, NodeRec
<1>8. PICK c \in Int : c = IF lf THEN cut(Order - 1) ELSE cut(Order) - 1
  BY OrderAssumption DEF cut
<1>9. PICK u \in Nat, v \in Nat : u = Len(kn) /\ v = Len(kb)
  OBVIOUS
<1>10. u + 1 >= 1 /\ u + 1 >= c /\ u + 1 <= Order - 1 /\ v - 1 >= 1 /\ v - 1 >= c
  <2>1. c = min_keys(h[n])
    BY <1>7, <1>8 DEF min_keys
  <2>2. u < c
    BY <1>2, <1>9, <2>1
  <2>3. u + 1 >= c
    <3>1. n # rt /\ Removed(h, rt, T, n, ht)
      BY DEF Pair
    <3>2. Len(h[n].keys) + 1 >= min_keys(h[n])
      BY <3>1 DEF Removed
    <3>. QED BY <1>2, <1>9, <2>1, <3>2
  <2>4. ~(v + u < IF lf THEN Order ELSE Order - 1)
    BY <1>2, <1>7, <1>9 DEF Fits
  <2>. QED BY ONLY <1>8, <2>2, <2>3, <2>4, Spare, u \in Nat, v \in Nat, lf \in BOOLEAN
<1>10a. Len(h[b].keys) >= 2
  <2>1. v >= 2
    BY <1>10
  <2>. QED BY <1>2, <1>9, <2>1
<1>11. v <= Order - 1
  BY <1>1, <1>2, <1>9 DEF ShapedNode
<1>12. PICK t : t = Taken(h, n, b, leftmost, k)
  OBVIOUS
<1>13. PICK w : w = Given(h, b, leftmost)
  OBVIOUS
<1>14. PICK i \in 1..v : i = IF leftmost THEN 1 ELSE Len(kb)
  <2>1. v >= 1
    BY <1>10
  <2>2. 1 \in 1..v /\ v \in 1..v
    BY <2>1
  <2>. QED BY <1>9, <2>2
<1>15. PICK kb2 \in Seq(Key) : kb2 = RemoveAt(kb, i) /\ Len(kb2) = v - 1
  BY <1>9, <1>14, RemoveAtProps
<1>16. v - 1 <= Order - 1
  BY <1>11, OrderAssumption
<1>17. CASE lf
  <2>1. h[n].is_leaf /\ h[b].is_leaf
    BY <1>7, <1>17
  <2>2. Len(rn) = u /\ Len(rb) = v
    BY <1>1, <1>2, <1>4, <1>9, <2>1 DEF ShapedNode
  <2>3. c = cut(Order - 1)
    BY <1>8, <1>17
  <2>4. PICK rb2 \in Seq(Val) : rb2 = RemoveAt(rb, i) /\ Len(rb2) = v - 1
    BY <1>14, <2>2, RemoveAtProps
  <2>5. w = [h[b] EXCEPT !.keys = kb2, !.recs = rb2]
    BY <1>2, <1>4, <1>13, <1>14, <1>15, <2>1, <2>4 DEF Given
  <2>6. Balance(w, h, b, Kids(h, b))
    BY <1>1, <1>10, <1>15, <1>16, <2>1, <2>3, <2>4, <2>5, RefillLeaf
  <2>7. PICK x \in Key, y \in Val : x = kb[i] /\ y = rb[i]
    BY <1>9, <1>14, <2>2
  <2>8. PICK kn2 \in Seq(Key), rn2 \in Seq(Val) :
           /\ kn2 = IF leftmost THEN Append(kn, x) ELSE <<x>> \o kn
           /\ rn2 = IF leftmost THEN Append(rn, y) ELSE <<y>> \o rn
           /\ Len(kn2) = u + 1 /\ Len(rn2) = u + 1
    <3>1. CASE leftmost
      <4>1. Append(kn, x) \in Seq(Key) /\ Len(Append(kn, x)) = u + 1
        BY <1>9, AppendProps
      <4>2. Append(rn, y) \in Seq(Val) /\ Len(Append(rn, y)) = u + 1
        BY <2>2, AppendProps
      <4>. QED BY <3>1, <4>1, <4>2
    <3>2. CASE ~leftmost
      <4>1. <<x>> \o kn \in Seq(Key) /\ Len(<<x>> \o kn) = u + 1
        BY <1>9, ConsProps
      <4>2. <<y>> \o rn \in Seq(Val) /\ Len(<<y>> \o rn) = u + 1
        BY <2>2, ConsProps
      <4>. QED BY <3>2, <4>1, <4>2
    <3>. QED BY <3>1, <3>2
  <2>9. t = [h[n] EXCEPT !.keys = kn2, !.recs = rn2]
    <3>1. CASE leftmost
      BY <1>2, <1>4, <1>12, <1>14, <2>1, <2>7, <2>8, <3>1 DEF Taken
    <3>2. CASE ~leftmost
      BY <1>2, <1>4, <1>12, <1>14, <2>1, <2>7, <2>8, <3>2 DEF Taken
    <3>. QED BY <3>1, <3>2
  <2>10. Balance(t, h, n, Kids(h, n))
    BY <1>1, <1>10, <2>1, <2>3, <2>8, <2>9, RefillLeaf
  <2>11. Kids(h, n) \cup {} = Kids(h, n) /\ Kids(h, b) \ {} = Kids(h, b)
    OBVIOUS
  <2>. QED BY <1>10a, <1>12, <1>13, <2>6, <2>10, <2>11
<1>18. CASE ~lf
  <2>1. ~h[n].is_leaf /\ ~h[b].is_leaf
    BY <1>7, <1>18
  <2>2. Len(cn) = u + 1 /\ Len(cb) = v + 1
    BY <1>1, <1>2, <1>3, <1>9, <2>1 DEF ShapedNode
  <2>3. c = cut(Order) - 1
    BY <1>8, <1>18
  <2>4. PICK j \in 1..Len(cb) : j = IF leftmost THEN 1 ELSE Len(cb)
    BY <2>2
  <2>5. PICK cb2 \in Seq(Node) : cb2 = RemoveAt(cb, j) /\ Len(cb2) = Len(cb) - 1
    BY RemoveAtProps
  <2>6. PICK y \in Node : y = cb[j]
    OBVIOUS
  <2>7. Range(cb2) = Range(cb) \ {y} /\ IsInjective(cb2)
    BY <1>6, <2>5, <2>6, RemoveAtRange
  <2>8. y \in Range(cb) /\ y \notin Range(cn)
    BY <1>5, <2>6, InRange
  <2>9. w = [h[b] EXCEPT !.keys = kb2, !.kids = cb2]
    BY <1>2, <1>3, <1>13, <1>14, <1>15, <2>1, <2>4, <2>5 DEF Given
  <2>10. Len(cb2) = Len(kb2) + 1
    BY <1>15, <2>2, <2>5
  <2>11. Balance(w, h, b, Range(cb2))
    BY <1>1, <1>10, <1>15, <1>16, <2>1, <2>3, <2>7, <2>9, <2>10, RefillNode
  <2>12. PICK kn2 \in Seq(Key) :
            /\ kn2 = IF leftmost THEN Append(kn, k) ELSE <<k>> \o kn
            /\ Len(kn2) = u + 1
    <3>1. CASE leftmost
      BY <1>9, <3>1, AppendProps
    <3>2. CASE ~leftmost
      BY <1>9, <3>2, ConsProps
    <3>. QED BY <3>1, <3>2
  <2>13. PICK cn2 \in Seq(Node) :
            /\ cn2 = IF leftmost THEN Append(cn, y) ELSE <<y>> \o cn
            /\ Len(cn2) = Len(cn) + 1
    <3>1. CASE leftmost
      BY <3>1, AppendProps
    <3>2. CASE ~leftmost
      BY <3>2, ConsProps
    <3>. QED BY <3>1, <3>2
  <2>14. Range(cn2) = Range(cn) \cup {y} /\ IsInjective(cn2)
    <3>1. CASE leftmost
      BY <1>6, <2>8, <2>13, <3>1, AppendRange
    <3>2. CASE ~leftmost
      BY <1>6, <2>8, <2>13, <3>2, ConsRange
    <3>. QED BY <3>1, <3>2
  <2>15. t = [h[n] EXCEPT !.keys = kn2, !.kids = cn2]
    <3>1. CASE leftmost
      BY <1>2, <1>3, <1>12, <2>1, <2>4, <2>6, <2>12, <2>13, <3>1 DEF Taken
    <3>2. CASE ~leftmost
      BY <1>2, <1>3, <1>12, <2>1, <2>4, <2>6, <2>12, <2>13, <3>2 DEF Taken
    <3>. QED BY <3>1, <3>2
  <2>16. Len(cn2) = Len(kn2) + 1
    BY <2>2, <2>12, <2>13
  <2>17. Balance(t, h, n, Range(cn2))
    BY <1>1, <1>10, <2>1, <2>3, <2>12, <2>14, <2>15, <2>16, RefillNode
  <2>18. /\ {y} \subseteq Kids(h, b) /\ Range(cn2) = Kids(h, n) \cup {y}
         /\ Range(cb2) = Kids(h, b) \ {y}
    BY <1>5, <2>7, <2>8, <2>14
  <2>. QED BY <1>10a, <1>12, <1>13, <2>11, <2>17, <2>18
<1>. QED BY <1>17, <1>18

\* redistribute_nodes: the same nodes, none below its minimum.
LEMMA RedistributeTree ==
  ASSUME NEW h, NEW T, NEW n, NEW ht, NEW nb, NEW p, Pair(h, root, T, n, ht, n, nb, p),
         NEW leftmost \in BOOLEAN, NEW k \in Key, NEW j \in 1..Len(h[p].keys),
         Len(h[n].keys) < min_keys(h[n]), ~Fits(h, n, nb),
         redistribute_nodes(h, n, nb, leftmost, j, k)
  PROVE  /\ Tree(heap', root, T, {}, ht)
         /\ UNCHANGED <<root, free, doomed>> /\ call' = Returning
<1>1. p = h[n].parent
  BY DEF Pair
<1>2. PICK X : /\ X \subseteq Kids(h, nb) /\ Len(h[nb].keys) >= 2
               /\ Balance(Taken(h, n, nb, leftmost, k), h, n, Kids(h, n) \cup X)
               /\ Balance(Given(h, nb, leftmost), h, nb, Kids(h, nb) \ X)
  BY ShiftBalance
<1>3. PICK n2, b2 : n2 = Taken(h, n, nb, leftmost, k) /\ b2 = Given(h, nb, leftmost)
  OBVIOUS
<1>4. /\ \E up : heap' = Adopt([h EXCEPT ![n] = n2, ![nb] = b2, ![p].keys[j] = up],
                               Range(n2.kids), n)
                  /\ up = IF leftmost /\ h[nb].is_leaf THEN h[nb].keys[2]
                          ELSE h[nb].keys[IF leftmost THEN 1 ELSE Len(h[nb].keys)]
      /\ UNCHANGED <<root, free, doomed>> /\ call' = Returning
  BY <1>1, <1>3, Zenon DEF redistribute_nodes, Taken, Given
<1>5. PICK up \in Key : heap' = Adopt([h EXCEPT ![n] = n2, ![nb] = b2, ![p].keys[j] = up],
                                     Range(n2.kids), n)
  <2>1. PICK kb \in Seq(Key) : kb = h[nb].keys
    <3>1. h[nb] \in NodeRec
      BY DEF Pair, Removed
    <3>. QED BY <3>1 DEF NodeRec
  <2>2. PICK u \in Nat : u = Len(kb) /\ u >= 2
    BY <1>2, <2>1
  <2>3. kb[1] \in Key /\ kb[2] \in Key /\ kb[u] \in Key
    BY <2>2
  <2>. QED BY <1>4, <2>1, <2>2, <2>3
<1>6. heap' \in [Node -> NodeRec] /\ Move(h, heap', n, nb, X)
  <2>1. Balance(n2, h, n, Kids(h, n) \cup X) /\ Balance(b2, h, nb, Kids(h, nb) \ X)
    BY <1>2, <1>3
  <2>2. PICK g : g = heap'
    OBVIOUS
  <2>3. g = Adopt(Rewritten(h, n, n2, nb, b2, p, j, up), Range(n2.kids), n)
    BY <1>5, <2>2 DEF Rewritten
  <2>4. X \subseteq Kids(h, nb)
    BY <1>2
  <2>5. g \in [Node -> NodeRec] /\ Move(h, g, n, nb, X)
    BY ONLY Pair(h, root, T, n, ht, n, nb, p), <2>1, <2>3, <2>4,
            j \in 1..Len(h[p].keys), up \in Key, MoveAdopt
  <2>. QED BY <2>2, <2>5
<1>7. Tree(heap', root, T, {}, ht)
  BY <1>6, MoveTree
<1>. QED BY <1>4, <1>7

-----------------------------------------------------------------------------
(***************************************************************************)
(* delete_entry, delete and every other step.                              *)
(***************************************************************************)

\* nb is the neighbour of n, child i of p, and key j of p is between them.
Beside(h, T, n, ht, i, p, nb, j) ==
    /\ p \in T /\ p = h[n].parent
    /\ nb = h[p].kids[IF i = 1 THEN 2 ELSE i - 1]
    /\ j = IF i = 1 THEN 1 ELSE i - 1
    /\ j \in 1..Len(h[p].keys)
    /\ h[p].keys[j] \in Key
    /\ Pair(h, root, T, n, ht, n, nb, p)

\* The neighbour Rebalance picks is another child of n's parent, and the
\* separator between the two is one of the parent's keys.
LEMMA Neighbour ==
  ASSUME NEW h, NEW T \in SUBSET Node, NEW n \in T, n # root, NEW ht \in [Node -> Nat],
         Removed(h, root, T, n, ht), NEW i \in 1..Len(h[h[n].parent].kids),
         FirstIndex(h[h[n].parent].kids, n, i)
  PROVE  \E p, nb, j : Beside(h, T, n, ht, i, p, nb, j)
<1>1. PICK p \in T :
         /\ p = h[n].parent /\ p # n /\ ~h[p].is_leaf /\ p # NULL
         /\ h[p].keys \in Seq(Key) /\ h[p].kids \in Seq(Node)
         /\ Len(h[p].keys) >= 1 /\ Len(h[p].kids) = Len(h[p].keys) + 1
         /\ IsInjective(h[p].kids)
         /\ \A j \in 1..Len(h[p].kids) :
               LET b == h[p].kids[j]
               IN  /\ b \in T /\ b # p /\ b # root
                   /\ h[b].parent = p
                   /\ h[b].is_leaf <=> h[n].is_leaf
  BY Siblings
<1>2. PICK ks \in Seq(Key), cs \in Seq(Node) : ks = h[p].keys /\ cs = h[p].kids
  BY <1>1
<1>3. PICK u \in Nat : u = Len(ks) /\ u >= 1 /\ Len(cs) = u + 1 /\ i \in 1..(u + 1)
  <2>1. Len(ks) >= 1 /\ Len(cs) = Len(ks) + 1
    BY <1>1, <1>2
  <2>2. i \in 1..Len(cs)
    BY <1>1, <1>2
  <2>3. Len(ks) \in Nat
    OBVIOUS
  <2>. QED BY ONLY <2>1, <2>2, <2>3
<1>4. PICK j \in 1..u : j = IF i = 1 THEN 1 ELSE i - 1
  BY <1>3
<1>5. PICK x \in 1..(u + 1) : x = (IF i = 1 THEN 2 ELSE i - 1) /\ x # i
  BY <1>3
<1>6. PICK nb : nb = cs[x]
  OBVIOUS
<1>7. nb \in T /\ nb # p /\ nb # root /\ h[nb].parent = p
  BY <1>1, <1>2, <1>3, <1>5, <1>6
<1>8. h[nb].is_leaf <=> h[n].is_leaf
  BY <1>1, <1>2, <1>3, <1>5, <1>6
<1>9. nb # n
  <2>1. cs[i] = n
    BY <1>1, <1>2 DEF FirstIndex
  <2>2. IsInjective(cs)
    BY <1>1, <1>2
  <2>3. \A a, b \in 1..Len(cs) : cs[a] = cs[b] => a = b
    BY ONLY <2>2, Injective, cs \in Seq(Node)
  <2>. QED BY <1>3, <1>5, <1>6, <2>1, <2>3
<1>10. Pair(h, root, T, n, ht, n, nb, p)
  <2>1. T \subseteq Node /\ n \in {n, nb} /\ h[n].parent = p
    BY <1>1
  <2>. QED BY <1>1, <1>7, <1>8, <1>9, <2>1, Zenon DEF Pair
<1>11. ks[j] \in Key
  BY <1>3, <1>4
<1>12. nb = h[p].kids[IF i = 1 THEN 2 ELSE i - 1]
  BY <1>2, <1>5, <1>6
<1>13. j \in 1..Len(h[p].keys)
  BY <1>2, <1>3
<1>14. h[p].keys[j] \in Key
  BY <1>2, <1>11
<1>15. Beside(h, T, n, ht, i, p, nb, j)
  BY <1>1, <1>4, <1>10, <1>12, <1>13, <1>14, Zenon DEF Beside
<1>. QED BY <1>15

\* What delete_entry leaves behind: T2 is the tree, d the dangling pointer.
Outcome(T2, d, ht) ==
    /\ T2 \subseteq Node
    /\ T2 = InTree'
    /\ Tree(heap', root', T2, d, ht)
    /\ root' \in Node \cup {NULL} /\ free' \in SUBSET Node /\ doomed' \in SUBSET Node
    /\ \/ call' = Returning /\ d = {}
       \/ \E p \in T2, r \in doomed', k \in Key :
             /\ d = {<<p, r>>}
             /\ call' = [Idle EXCEPT !.pc = "delete_entry", !.key = k, !.node = p, !.right = r]

\* Rebalance, by coalescence or redistribution.
LEMMA RebalanceTree ==
  ASSUME NEW h, NEW T \in SUBSET Node, T = InTree, NEW n \in T, n # root,
         NEW ht \in [Node -> Nat], TypeOK,
         Removed(h, root, T, n, ht), NEW i \in 1..Len(h[h[n].parent].kids),
         FirstIndex(h[h[n].parent].kids, n, i), Len(h[n].keys) < min_keys(h[n]),
         Rebalance(h, n, i)
  PROVE  \E T2, d : Outcome(T2, d, ht)
<1>0. PICK p, nb, j : Beside(h, T, n, ht, i, p, nb, j)
  BY Neighbour
<1>1. /\ p \in T /\ p = h[n].parent
      /\ nb = h[p].kids[IF i = 1 THEN 2 ELSE i - 1]
      /\ j = IF i = 1 THEN 1 ELSE i - 1
      /\ j \in 1..Len(h[p].keys)
      /\ h[p].keys[j] \in Key
      /\ Pair(h, root, T, n, ht, n, nb, p)
  BY <1>0, Zenon DEF Beside
<1>2. PICK leftmost \in BOOLEAN : leftmost = (i = 1)
  OBVIOUS
<1>3. PICK k \in Key : k = h[p].keys[j]
  BY <1>1
<1>4. j \in 1..Len(h[p].keys)
  BY <1>1
<1>5. IF Fits(h, n, nb) THEN coalesce_nodes(h, n, nb, leftmost, k)
                        ELSE redistribute_nodes(h, n, nb, leftmost, j, k)
  BY <1>1, <1>2, <1>3, Zenon DEF Rebalance
<1>6. root \in Node \cup {NULL} /\ free \in SUBSET Node /\ doomed \in SUBSET Node
  BY DEF TypeOK
<1>7. CASE Fits(h, n, nb)
  <2>1. coalesce_nodes(h, n, nb, leftmost, k)
    BY <1>5, <1>7
  <2>a. PICK r \in T : Coalesced(T, ht, p, k, r)
    BY <1>1, <1>7, <2>1, CoalesceTree
  <2>2. /\ r # root /\ r # p
        /\ Tree(heap', root, T \ {r}, {<<p, r>>}, ht)
        /\ UNCHANGED <<root, free>> /\ doomed' = doomed \cup {r}
        /\ call' = [Idle EXCEPT !.pc = "delete_entry", !.key = k, !.node = p, !.right = r]
    BY <2>a DEF Coalesced
  <2>3. T \ {r} = InTree'
    BY <2>2 DEF InTree, Live
  <2>4. Outcome(T \ {r}, {<<p, r>>}, ht)
    <3>1. p \in T \ {r} /\ r \in doomed' /\ T \ {r} \subseteq Node
      BY <1>1, <2>2
    <3>2. root' \in Node \cup {NULL} /\ free' \in SUBSET Node /\ doomed' \in SUBSET Node
      BY <1>6, <2>2
    <3>3. Tree(heap', root', T \ {r}, {<<p, r>>}, ht)
      BY <2>2
    <3>. QED BY <2>2, <2>3, <3>1, <3>2, <3>3 DEF Outcome
  <2>. QED BY <2>4
<1>8. CASE ~Fits(h, n, nb)
  <2>1. redistribute_nodes(h, n, nb, leftmost, j, k)
    BY <1>5, <1>8
  <2>2. Tree(heap', root, T, {}, ht) /\ UNCHANGED <<root, free, doomed>> /\ call' = Returning
    BY <1>1, <1>4, <1>8, <2>1, RedistributeTree
  <2>3. T = InTree'
    BY <2>2 DEF InTree, Live
  <2>4. Outcome(T, {}, ht)
    <3>1. root' \in Node \cup {NULL} /\ free' \in SUBSET Node /\ doomed' \in SUBSET Node
      BY <1>6, <2>2
    <3>2. Tree(heap', root', T, {}, ht)
      BY <2>2
    <3>. QED BY <2>2, <2>3, <3>1, <3>2 DEF Outcome
  <2>. QED BY <2>4
<1>. QED BY <1>7, <1>8

\* delete_entry, once the entry has been removed.
LEMMA DeleteEntryTree ==
  ASSUME NEW h, NEW T \in SUBSET Node, T = InTree, NEW n \in T, NEW ht \in [Node -> Nat],
         TypeOK, Removed(h, root, T, n, ht), NEW ki, NEW pi,
         h = remove_entry_from_node(n, ki, pi), delete_entry(n, ki, pi)
  PROVE  \E T2, d : Outcome(T2, d, ht)
<1>1. \/ n = root /\ adjust_root(h)
      \/ /\ n # root
         /\ Len(h[n].keys) >= min_keys(h[n])
         /\ heap' = h
         /\ call' = Returning
         /\ UNCHANGED <<root, free, doomed>>
      \/ /\ n # root
         /\ Len(h[n].keys) < min_keys(h[n])
         /\ \E i \in 1..Len(h[h[n].parent].kids) :
               /\ FirstIndex(h[h[n].parent].kids, n, i)
               /\ Rebalance(h, n, i)
  BY Zenon DEF delete_entry
<1>2. root \in Node \cup {NULL} /\ free \in SUBSET Node /\ doomed \in SUBSET Node
  BY DEF TypeOK
<1>3. /\ h \in [Node -> NodeRec] /\ Shaped(h, T) /\ Linked(h, root, T, {}, {})
      /\ Graded(h, T, ht)
  BY DEF Removed
<1>4. PICK kn \in Seq(Key) : kn = h[n].keys
  BY <1>3 DEF NodeRec
<1>5. ASSUME heap' = h, call' = Returning, UNCHANGED <<root, free, doomed>>,
             Len(h[n].keys) >= 1, n # root => Len(h[n].keys) >= min_keys(h[n])
      PROVE  Outcome(T, {}, ht)
  <2>1. Full(h, root, T)
    BY <1>5, KeepTree
  <2>2. Tree(h, root, T, {}, ht)
    BY <1>3, <2>1 DEF Tree
  <2>3. T = InTree'
    BY <1>5 DEF InTree, Live
  <2>4. Tree(heap', root', T, {}, ht)
    BY <1>5, <2>2
  <2>. QED BY <1>2, <1>5, <2>3, <2>4 DEF Outcome
<1>6. CASE n = root /\ adjust_root(h)
  <2>1. CASE Len(h[n].keys) = 0
    <3>1. PICK rt \in T : rt = root /\ rt = n
      BY <1>6
    <3>2. Removed(h, rt, T, rt, ht) /\ Len(h[rt].keys) = 0 /\ adjust_root(h)
      BY <1>6, <2>1, <3>1
    <3>3. heap' \in [Node -> NodeRec] /\ root' \in Node \cup {NULL}
      BY <3>1, <3>2, AdjustRootTree
    <3>4. free' = free \cup {rt} /\ doomed' = doomed /\ call' = Returning
      BY <3>1, <3>2, AdjustRootTree
    <3>5. Shaped(heap', T \ {rt}) /\ Linked(heap', root', T \ {rt}, {}, {})
      BY <3>1, <3>2, AdjustRootTree
    <3>6. Full(heap', root', T \ {rt}) /\ Graded(heap', T \ {rt}, ht)
      BY <3>1, <3>2, AdjustRootTree
    <3>7. T \ {rt} = InTree'
      BY <3>4 DEF InTree, Live
    <3>8. Tree(heap', root', T \ {rt}, {}, ht)
      BY <3>3, <3>5, <3>6 DEF Tree
    <3>9. Outcome(T \ {rt}, {}, ht)
      <4>1. free' \in SUBSET Node /\ doomed' \in SUBSET Node /\ T \ {rt} \subseteq Node
        BY <1>2, <3>4
      <4>. QED BY <3>3, <3>4, <3>7, <3>8, <4>1 DEF Outcome
    <3>. QED BY <3>9
  <2>2. CASE Len(h[n].keys) # 0
    <3>1. Len(h[root].keys) # 0 /\ Len(h[n].keys) >= 1
      BY <1>4, <1>6, <2>2
    <3>2. heap' = h /\ call' = Returning /\ UNCHANGED <<root, free, doomed>>
      BY <1>6, <3>1, Zenon DEF adjust_root
    <3>. QED BY <1>5, <1>6, <3>1, <3>2
  <2>. QED BY <2>1, <2>2
<1>7. CASE /\ n # root
           /\ Len(h[n].keys) >= min_keys(h[n])
           /\ heap' = h
           /\ call' = Returning
           /\ UNCHANGED <<root, free, doomed>>
  <2>1. PICK c \in Nat : c = min_keys(h[n]) /\ c >= 1
    BY MinKeys
  <2>2. Len(kn) >= c
    BY <1>4, <1>7, <2>1
  <2>3. Len(kn) >= 1
    BY <2>1, <2>2
  <2>4. Len(h[n].keys) >= 1
    BY <1>4, <2>3
  <2>. QED BY <1>5, <1>7, <2>4
<1>8. CASE /\ n # root
           /\ Len(h[n].keys) < min_keys(h[n])
           /\ \E i \in 1..Len(h[h[n].parent].kids) :
                 /\ FirstIndex(h[h[n].parent].kids, n, i)
                 /\ Rebalance(h, n, i)
  BY <1>8, RebalanceTree
<1>. QED BY <1>1, <1>6, <1>7, <1>8

\* delete_entry keeps the invariant, in a leaf and in the parent of a merged
\* node.
LEMMA DeleteEntryInv ==
  ASSUME IndInv, UNCHANGED <<nrec, ret, rng>>, NEW T \in SUBSET Node, T = InTree, NEW n \in T,
         NEW ki \in 1..Len(heap[n].keys), NEW pi, delete_entry(n, ki, pi), Orphan = {},
         \/ heap[n].is_leaf /\ pi = ki /\ Dangling = {}
         \/ /\ ~heap[n].is_leaf /\ pi \in 1..Len(heap[n].kids)
            /\ heap[n].kids[pi] \notin T
            /\ Dangling = {<<n, heap[n].kids[pi]>>}
  PROVE  IndInv'
<1>1. PICK ht \in [Node -> Nat] : Graded(heap, T, ht)
  BY DEF IndInv, HeightsOK
<1>2. PICK h : h = remove_entry_from_node(n, ki, pi)
  OBVIOUS
<1>3. Removed(h, root, T, n, ht)
  BY <1>1, <1>2, RemoveTree
<1>4. TypeOK
  BY DEF IndInv
<1>5. PICK T2, d : Outcome(T2, d, ht)
  BY <1>2, <1>3, <1>4, DeleteEntryTree
<1>6. TypeOK'
  <2>1. call' \in CallRec
    <3>1. CASE call' = Returning
      BY <3>1 DEF Returning, Idle, CallRec, Searching
    <3>2. CASE \E p \in T2, r \in doomed', k \in Key :
                 call' = [Idle EXCEPT !.pc = "delete_entry", !.key = k, !.node = p, !.right = r]
      <4>1. PICK p \in Node, r \in Node, k \in Key :
               call' = [Idle EXCEPT !.pc = "delete_entry", !.key = k, !.node = p, !.right = r]
        BY <1>5, <3>2 DEF Outcome
      <4>. QED BY <4>1 DEF Idle, CallRec, Searching
    <3>. QED BY <1>5, <3>1, <3>2 DEF Outcome
  <2>2. heap' \in [Node -> NodeRec]
    BY <1>5 DEF Outcome, Tree
  <2>3. root' \in Node \cup {NULL} /\ free' \in SUBSET Node /\ doomed' \in SUBSET Node
    BY <1>5 DEF Outcome
  <2>4. nrec' \in Int /\ ret' \in Val \cup {NULL, Void} /\ rng' \in Seq(Key)
    BY <1>4 DEF TypeOK
  <2>. QED BY <2>1, <2>2, <2>3, <2>4 DEF TypeOK
<1>7. /\ call'.pc \in {"return", "delete_entry"}
      /\ d = Dangling' /\ Orphan' = {}
      /\ call'.pc = "delete_entry" => /\ call'.key \in Key /\ call'.node \in T2
                                      /\ call'.right \in doomed'
  <2>1. CASE call' = Returning /\ d = {}
    BY <2>1 DEF Returning, Idle, Dangling, Orphan
  <2>2. CASE \E p \in T2, r \in doomed', k \in Key :
                /\ d = {<<p, r>>}
                /\ call' = [Idle EXCEPT !.pc = "delete_entry", !.key = k, !.node = p, !.right = r]
    BY <2>2 DEF Idle, Dangling, Orphan
  <2>. QED BY <1>5, <2>1, <2>2 DEF Outcome
<1>8. CallOK'
  <2>1. T2 = InTree'
    BY <1>5 DEF Outcome
  <2>. QED BY <1>7, <2>1 DEF CallOK, Searching
<1>9. T2 = InTree' /\ Tree(heap', root', T2, d, ht)
  BY <1>5 DEF Outcome
<1>10. /\ Shaped(heap', T2) /\ Linked(heap', root', T2, d, {}) /\ Full(heap', root', T2)
       /\ Graded(heap', T2, ht)
  BY <1>9 DEF Tree
<1>11. call'.pc # "insert_into_parent"
  BY <1>7
<1>12. T2 = InTree' /\ d = Dangling' /\ Orphan' = {}
  BY <1>7, <1>9
<1>. QED BY ONLY <1>6, <1>8, <1>10, <1>11, <1>12, Assemble, ht \in [Node -> Nat]

\* delete: nothing to delete, or the entry of a leaf.
LEMMA DeleteInv == IndInv /\ delete => IndInv'
<1> SUFFICES ASSUME IndInv, delete PROVE IndInv'
  OBVIOUS
<1>1. UNCHANGED <<nrec, ret, rng>> /\ call.pc = "delete"
  BY DEF delete, NoTree, AtLeaf
<1>2. CASE call' = Idle /\ UNCHANGED <<root, heap, free, doomed>>
  <2>1. TypeOK'
    BY <1>1, <1>2 DEF IndInv, TypeOK, Idle, CallRec, Searching
  <2>2. doomed = {}
    BY <1>1 DEF IndInv, CallOK
  <2>3. CallOK'
    BY <1>2, <2>2 DEF CallOK, Idle, Searching
  <2>4. call'.pc = "idle"
    BY <1>2 DEF Idle
  <2>. QED BY <1>1, <1>2, <2>1, <2>3, <2>4, SameTree
<1>3. CASE /\ AtLeaf("delete")
           /\ \E i \in 1..Len(heap[call.node].keys) :
                 /\ FirstIndex(heap[call.node].keys, call.key, i)
                 /\ delete_entry(call.node, i, i)
  <2>1. PICK T \in SUBSET Node : T = InTree
    BY DEF InTree, Live
  <2>2. PICK n \in T : n = call.node /\ heap[n].is_leaf
    BY <1>1, <1>3, <2>1, NullAssumption DEF AtLeaf, IndInv, CallOK, Searching
  <2>3. PICK i \in 1..Len(heap[n].keys) : delete_entry(n, i, i)
    BY <1>3, <2>2
  <2>4. Orphan = {} /\ Dangling = {}
    BY <1>1 DEF Orphan, Dangling
  <2>5. PICK pi : pi = i /\ delete_entry(n, i, pi)
    BY <2>3
  <2>. QED BY ONLY IndInv, <1>1, <2>1, <2>2, <2>4, <2>5, DeleteEntryInv,
                   T \in SUBSET Node, n \in T, i \in 1..Len(heap[n].keys)
<1>. QED BY <1>2, <1>3, Zenon DEF delete

\* The recursive delete_entry, in the parent of the merged node.
LEMMA DeleteEntryInParentInv == IndInv /\ delete_entry_in_parent => IndInv'
<1> SUFFICES ASSUME IndInv, delete_entry_in_parent PROVE IndInv'
  OBVIOUS
<1>1. UNCHANGED <<nrec, ret, rng>> /\ call.pc = "delete_entry"
  BY DEF delete_entry_in_parent
<1>2. PICK T \in SUBSET Node : T = InTree
  BY DEF InTree, Live
<1>3. PICK n \in T : n = call.node
  BY <1>1, <1>2 DEF IndInv, CallOK
<1>4. PICK ki \in 1..Len(heap[n].keys), pi \in 1..Len(heap[n].kids) :
         FirstIndex(heap[n].kids, call.right, pi) /\ delete_entry(n, ki, pi)
  BY <1>3 DEF delete_entry_in_parent
<1>5. heap[n].kids[pi] = call.right
  BY <1>4 DEF FirstIndex
<1>6. call.right \notin T
  BY <1>1, <1>2 DEF IndInv, CallOK, InTree
<1>7. Orphan = {} /\ Dangling = {<<n, heap[n].kids[pi]>>}
  BY <1>1, <1>3, <1>5 DEF Orphan, Dangling
<1>8. ~heap[n].is_leaf
  <2>1. ShapedNode(heap[n])
    BY <1>2 DEF IndInv, Shaped
  <2>2. heap[n].kids # <<>>
    BY <1>4
  <2>. QED BY <2>1, <2>2 DEF ShapedNode
<1>9. heap[n].kids[pi] \notin T
  BY <1>5, <1>6
<1>10. delete_entry(n, ki, pi)
  BY <1>4
<1>. QED BY ONLY IndInv, <1>1, <1>2, <1>7, <1>8, <1>9, <1>10, DeleteEntryInv, T \in SUBSET Node,
                 n \in T, ki \in 1..Len(heap[n].keys), pi \in 1..Len(heap[n].kids)

\* The merged nodes are freed: none of them is in the tree.
LEMMA DeleteReturnInv == IndInv /\ delete_return => IndInv'
<1> SUFFICES ASSUME IndInv, delete_return PROVE IndInv'
  OBVIOUS
<1>1. /\ call.pc = "return" /\ call' = Idle /\ doomed' = {} /\ free' = free \cup doomed
      /\ nrec' = nrec - 1 /\ UNCHANGED <<root, ret, rng>>
      /\ heap' = [n \in Node |-> IF n \in doomed THEN Blank ELSE heap[n]]
  BY DEF delete_return
<1>2. PICK T \in SUBSET Node : T = InTree
  BY DEF InTree, Live
<1>3. T = InTree'
  BY <1>1, <1>2 DEF InTree, Live
<1>4. \A m \in T : heap'[m] = heap[m]
  BY <1>1, <1>2 DEF InTree
<1>5. heap' \in [Node -> NodeRec]
  <2>1. Blank \in NodeRec
    BY DEF Blank, NodeRec
  <2>. QED BY <1>1, <2>1 DEF IndInv, TypeOK
<1>6. TypeOK'
  BY <1>1, <1>5 DEF IndInv, TypeOK, Idle, CallRec, Searching
<1>7. CallOK'
  BY <1>1 DEF CallOK, Idle, Searching
<1>8. Dangling = {} /\ Orphan = {} /\ Dangling' = {} /\ Orphan' = {}
  BY <1>1 DEF Dangling, Orphan, Idle
<1>9. Linked(heap, root, T, {}, {})
  BY <1>2, <1>8 DEF IndInv
<1>10. \A m \in T : Kids(heap', m) = Kids(heap, m)
  BY <1>4 DEF Kids
<1>11. Linked(heap', root', T, {}, {})
  <2>1. \A p \in T : \A c \in Kids(heap, p) : c \in T
    BY <1>9 DEF Linked
  <2>. QED BY <1>1, <1>4, <1>9, <1>10, <2>1 DEF Linked
<1>12. Shaped(heap', T)
  BY <1>2, <1>4 DEF IndInv, Shaped
<1>13. Full(heap', root', T)
  BY <1>1, <1>2, <1>4 DEF IndInv, Full
<1>14. PICK ht \in [Node -> Nat] : Graded(heap, T, ht)
  BY <1>2 DEF IndInv, HeightsOK
<1>15. Graded(heap', T, ht)
  BY <1>4, <1>10, <1>14 DEF Graded
<1>16. call'.pc # "insert_into_parent"
  BY <1>1 DEF Idle
<1>. QED BY ONLY <1>3, <1>6, <1>7, <1>8, <1>11, <1>12, <1>13, <1>15, <1>16, Assemble,
                 ht \in [Node -> Nat]

\* Every step of the program keeps the invariant.
LEMMA NextInv == IndInv /\ [Next]_vars => IndInv'
<1> SUFFICES ASSUME IndInv, [Next]_vars PROVE IndInv'
  OBVIOUS
<1>1. CASE Client
  BY <1>1, ClientInv
<1>2. CASE find_leaf
  BY <1>2, FindLeafInv
<1>3. CASE find
  BY <1>3, FindInv
<1>4. CASE find_range
  BY <1>4, FindRangeInv
<1>5. CASE find_range_scan
  BY <1>5, FindRangeScanInv
<1>6. CASE find_range_return
  BY <1>6, FindRangeReturnInv
<1>7. CASE insert_update
  BY <1>7, InsertUpdateInv
<1>8. CASE start_new_tree
  BY <1>8, StartNewTreeInv
<1>9. CASE insert_into_leaf
  BY <1>9, InsertIntoLeafInv
<1>10. CASE insert_into_leaf_after_splitting
  BY <1>10, LeafSplitInv
<1>11. CASE insert_into_new_root
  BY <1>11, NewRootInv
<1>12. CASE insert_into_node
  BY <1>12, InsertIntoNodeInv
<1>13. CASE insert_into_node_after_splitting
  BY <1>13, NodeSplitInv
<1>14. CASE delete
  BY <1>14, DeleteInv
<1>15. CASE delete_entry_in_parent
  BY <1>15, DeleteEntryInParentInv
<1>16. CASE delete_return
  BY <1>16, DeleteReturnInv
<1>17. CASE UNCHANGED vars
  BY <1>17, StutterInv
<1>. QED BY <1>1, <1>2, <1>3, <1>4, <1>5, <1>6, <1>7, <1>8, <1>9, <1>10, <1>11, <1>12,
            <1>13, <1>14, <1>15, <1>16, <1>17, Zenon DEF Next, Step

\* The inductive invariant holds of the tree for every order, every set of
\* keys and any number of nodes, between any two C functions.
THEOREM Inductive == Spec => []IndInv
<1>1. Init => IndInv
  BY InitInv
<1>2. IndInv /\ [Next]_vars => IndInv'
  BY NextInv
<1>. QED BY <1>1, <1>2, PTL DEF Spec

\* No function follows a pointer to a freed node: between any two C functions
\* the node that a search, an insertion or a deletion is at is a node of the tree,
\* or NULL when the tree is empty; root and every parent pointer of the tree lead
\* to nodes of the tree, and so does every child pointer but the one to a merged
\* node that the next delete_entry takes out.
THEOREM PointersLive ==
  Spec => [](CallOK /\ Linked(heap, root, InTree, Dangling, Orphan))
<1>1. IndInv => CallOK /\ Linked(heap, root, InTree, Dangling, Orphan)
  BY Zenon DEF IndInv
<1>. QED BY <1>1, Inductive, PTL

\* The fixed-size arrays make_node allocates are never overrun, at any moment
\* of an insertion or a deletion.
THEOREM ArraysNeverOverrun == Spec => []ArraysFit
<1>1. IndInv => ArraysFit
  BY DEF IndInv, Shaped, ShapedNode, ArraysFit
<1>. QED BY <1>1, Inductive, PTL

\* Between two calls parent pointers and child pointers agree.
THEOREM ParentPointers == Spec => []ParentsAgree
<1>1. ASSUME IndInv PROVE ParentsAgree
  <2> SUFFICES ASSUME Quiet
               PROVE  /\ \A n \in Live : \A i \in 1..Len(heap[n].kids) :
                            /\ heap[heap[n].kids[i]].parent = n
                            /\ \A j \in 1..(i - 1) : heap[n].kids[j] # heap[n].kids[i]
                      /\ root # NULL => heap[root].parent = NULL
    BY DEF ParentsAgree
  <2>1. doomed = {} /\ Dangling = {} /\ Orphan = {}
    BY <1>1 DEF IndInv, CallOK, Quiet, Dangling, Orphan
  <2>2. Live = InTree
    BY <2>1 DEF InTree, Live
  <2>3. Linked(heap, root, InTree, {}, {})
    BY <1>1, <2>1 DEF IndInv
  <2>4. ASSUME NEW n \in InTree, NEW i \in 1..Len(heap[n].kids)
        PROVE  /\ heap[heap[n].kids[i]].parent = n
               /\ \A j \in 1..(i - 1) : heap[n].kids[j] # heap[n].kids[i]
    <3>1. heap[n] \in NodeRec
      BY <1>1 DEF IndInv, TypeOK, InTree, Live
    <3>2. PICK cs \in Seq(Node) : cs = heap[n].kids
      BY <3>1 DEF NodeRec
    <3>3. IsInjective(cs) /\ \A c \in Range(cs) : heap[c].parent = n
      BY <2>3, <3>2 DEF Linked, Kids
    <3>4. i \in 1..Len(cs)
      BY <3>2
    <3>5. cs[i] \in Range(cs)
      BY <3>4, InRange
    <3>6. \A a, b \in 1..Len(cs) : cs[a] = cs[b] => a = b
      BY ONLY <3>3, Injective, cs \in Seq(Node)
    <3>7. \A j \in 1..(i - 1) : j \in 1..Len(cs) /\ j # i
      BY <3>4
    <3>8. \A j \in 1..(i - 1) : cs[j] # cs[i]
      BY <3>4, <3>6, <3>7
    <3>. QED BY <3>2, <3>3, <3>5, <3>8
  <2>. QED BY <2>2, <2>3, <2>4 DEF Linked
<1>. QED BY <1>1, Inductive, PTL

\* Between two calls no node but the root is below its minimum, and the root is
\* not empty.
THEOREM Occupancy == Spec => []MinOccupancy
<1>1. ASSUME IndInv PROVE MinOccupancy
  <2> SUFFICES ASSUME Quiet, NEW n \in Live
               PROVE  Len(heap[n].keys) >= IF n = root THEN 1 ELSE min_keys(heap[n])
    BY DEF MinOccupancy
  <2>1. n \in InTree
    BY <1>1 DEF IndInv, CallOK, Quiet, InTree
  <2>. QED BY <1>1, <2>1 DEF IndInv, Full
<1>. QED BY <1>1, Inductive, PTL

-----------------------------------------------------------------------------
(***************************************************************************)
(* The keys of one node.                                                   *)
(***************************************************************************)

\* An entry of a sequence of keys is a number.
LEMMA KeyNat ==
  ASSUME NEW ks \in Seq(Key)
  PROVE  /\ Len(ks) \in Nat
         /\ \A i \in 1..Len(ks) : ks[i] \in Nat /\ ks[i] \in Key
<1>1. Len(ks) \in Nat /\ \A i \in 1..Len(ks) : ks[i] \in Key
  OBVIOUS
<1>. QED BY <1>1, KeyAssumption

\* Index i is the place of the key k among the keys ks.
Place(ks, i, k) == \A j \in 1..Len(ks) : (j < i => ks[j] < k) /\ (i <= j => k < ks[j])

\* A key that goes between its neighbours.
LEMMA InsertSpan ==
  ASSUME NEW leaf \in BOOLEAN, NEW ks \in Seq(Key), NEW a \in Nat, NEW b \in Bound,
         InSpan(leaf, ks, a, b), NEW k \in Key, NEW i \in 1..(Len(ks) + 1),
         Place(ks, i, k), a <= k, leaf \/ a < k, Below(k, b)
  PROVE  InSpan(leaf, InsertAt(ks, i, k), a, b)
<1> USE DEF Place
<1>0. Len(ks) \in Nat /\ k \in Nat /\ \A j \in 1..Len(ks) : ks[j] \in Nat
  BY KeyNat, KeyAssumption
<1>1. PICK t \in Seq(Key) :
         /\ t = InsertAt(ks, i, k)
         /\ Len(t) = Len(ks) + 1
         /\ \A j \in 1..(i - 1) : t[j] = ks[j]
         /\ t[i] = k
         /\ \A j \in (i + 1)..(Len(ks) + 1) : t[j] = ks[j - 1]
  BY InsertAtProps
<1>2. ASSUME NEW j \in 1..Len(t)
      PROVE  \/ j < i /\ j \in 1..Len(ks) /\ t[j] = ks[j]
             \/ j = i /\ t[j] = k
             \/ j > i /\ j - 1 \in 1..Len(ks) /\ t[j] = ks[j - 1]
  BY <1>0, <1>1
<1>3. Below(a, b) /\ Ascending(ks) /\ (leaf \/ \A j \in 1..Len(ks) : a < ks[j])
      /\ \A j \in 1..Len(ks) : a <= ks[j] /\ Below(ks[j], b)
  BY DEF InSpan
<1>4. Ascending(t)
  <2> SUFFICES ASSUME NEW x \in 1..Len(t), NEW y \in 1..Len(t), x < y PROVE t[x] < t[y]
    BY DEF Ascending
  <2>1. \A u, v \in 1..Len(ks) : u < v => ks[u] < ks[v]
    BY <1>3 DEF Ascending
  <2>2. CASE x < i /\ y < i
    BY <1>0, <1>2, <2>1, <2>2
  <2>3. CASE x < i /\ y = i
    BY <1>0, <1>2, <2>3
  <2>4. CASE x < i /\ y > i
    <3>1. x \in 1..Len(ks) /\ t[x] = ks[x] /\ y - 1 \in 1..Len(ks) /\ t[y] = ks[y - 1]
      BY <1>2, <2>4
    <3>2. x < y - 1
      BY <1>0, <1>1, <2>4
    <3>. QED BY <2>1, <3>1, <3>2
  <2>5. CASE x = i /\ y > i
    <3>1. t[x] = k /\ y - 1 \in 1..Len(ks) /\ t[y] = ks[y - 1]
      BY <1>2, <2>5
    <3>2. i <= y - 1
      BY <1>1, <2>5
    <3>. QED BY <3>1, <3>2
  <2>6. CASE x > i /\ y > i
    <3>1. x - 1 \in 1..Len(ks) /\ t[x] = ks[x - 1] /\ y - 1 \in 1..Len(ks) /\ t[y] = ks[y - 1]
      BY <1>2, <2>6
    <3>2. x - 1 < y - 1
      BY <1>1
    <3>. QED BY <2>1, <3>1, <3>2
  <2>. QED BY <1>1, <2>2, <2>3, <2>4, <2>5, <2>6
<1>5. \A j \in 1..Len(t) : a <= t[j] /\ Below(t[j], b)
  BY <1>2, <1>3
<1>6. leaf \/ \A j \in 1..Len(t) : a < t[j]
  BY <1>2, <1>3
<1>. QED BY <1>1, <1>3, <1>4, <1>5, <1>6 DEF InSpan

\* An entry is removed.
LEMMA RemoveSpan ==
  ASSUME NEW leaf \in BOOLEAN, NEW ks \in Seq(Key), NEW a, NEW b, InSpan(leaf, ks, a, b),
         NEW i \in 1..Len(ks)
  PROVE  InSpan(leaf, RemoveAt(ks, i), a, b)
<1>0. Len(ks) \in Nat
  BY KeyNat
<1>1. PICK t \in Seq(Key) :
         /\ t = RemoveAt(ks, i)
         /\ Len(t) = Len(ks) - 1
         /\ \A j \in 1..(i - 1) : t[j] = ks[j]
         /\ \A j \in i..(Len(ks) - 1) : t[j] = ks[j + 1]
  BY RemoveAtProps
<1>2. ASSUME NEW j \in 1..Len(t)
      PROVE  \/ j < i /\ j \in 1..Len(ks) /\ t[j] = ks[j]
             \/ i <= j /\ j + 1 \in 1..Len(ks) /\ t[j] = ks[j + 1]
  <2>1. CASE j < i
    BY <1>0, <1>1, <2>1
  <2>2. CASE i <= j
    <3>1. j \in i..(Len(ks) - 1) /\ j + 1 \in 1..Len(ks)
      BY <1>0, <1>1, <2>2
    <3>. QED BY <1>1, <2>2, <3>1
  <2>. QED BY <2>1, <2>2
<1>3. Below(a, b) /\ Ascending(ks) /\ (leaf \/ \A j \in 1..Len(ks) : a < ks[j])
      /\ \A j \in 1..Len(ks) : a <= ks[j] /\ Below(ks[j], b)
  BY DEF InSpan
<1>4. Ascending(t)
  <2> SUFFICES ASSUME NEW x \in 1..Len(t), NEW y \in 1..Len(t), x < y PROVE t[x] < t[y]
    BY DEF Ascending
  <2>1. \A u, v \in 1..Len(ks) : u < v => ks[u] < ks[v]
    BY <1>3 DEF Ascending
  <2>2. x < y + 1 /\ x + 1 < y + 1
    OBVIOUS
  <2>. QED BY <1>2, <2>1, <2>2
<1>5. \A j \in 1..Len(t) : a <= t[j] /\ Below(t[j], b)
  BY <1>2, <1>3
<1>6. leaf \/ \A j \in 1..Len(t) : a < t[j]
  BY <1>2, <1>3
<1>. QED BY <1>1, <1>3, <1>4, <1>5, <1>6 DEF InSpan

\* A leaf's keys in two parts, l and r.
LEMMA SplitLeafSpan ==
  ASSUME NEW ks \in Seq(Key), NEW a \in Nat, NEW b \in Bound, InSpan(TRUE, ks, a, b),
         NEW m \in Nat, 1 <= m, m < Len(ks),
         NEW l \in Seq(Key), Len(l) = m, \A i \in 1..m : l[i] = ks[i],
         NEW r \in Seq(Key), Len(r) = Len(ks) - m, \A i \in 1..Len(r) : r[i] = ks[m + i]
  PROVE  InSpan(TRUE, l, a, ks[m + 1]) /\ InSpan(TRUE, r, ks[m + 1], b)
<1>1. /\ Len(ks) \in Nat /\ m + 1 \in 1..Len(ks) /\ 1 \in 1..Len(ks)
      /\ \A i \in 1..Len(ks) : ks[i] \in Nat
  BY KeyNat
<1>2. /\ \A x, y \in 1..Len(ks) : x < y => ks[x] < ks[y]
      /\ \A x \in 1..Len(ks) : a <= ks[x] /\ Below(ks[x], b)
  BY DEF InSpan, Ascending
<1>3. a < ks[m + 1]
  <2>1. a <= ks[1] /\ ks[1] < ks[m + 1]
    BY <1>1, <1>2
  <2>. QED BY <1>1, <2>1
<1>4. InSpan(TRUE, l, a, ks[m + 1])
  <2>1. \A i \in 1..Len(l) : i \in 1..Len(ks) /\ l[i] = ks[i] /\ i < m + 1
    BY <1>1
  <2>2. Ascending(l)
    BY <1>2, <2>1 DEF Ascending
  <2>. QED BY <1>1, <1>2, <1>3, <2>1, <2>2 DEF InSpan, Below
<1>5. InSpan(TRUE, r, ks[m + 1], b)
  <2>1. ASSUME NEW i \in 1..Len(r)
        PROVE  m + i \in 1..Len(ks) /\ r[i] = ks[m + i] /\ (i = 1 \/ m + 1 < m + i)
    BY <1>1
  <2>2. Ascending(r)
    <3> SUFFICES ASSUME NEW x \in 1..Len(r), NEW y \in 1..Len(r), x < y PROVE r[x] < r[y]
      BY DEF Ascending
    <3>1. m + x < m + y
      OBVIOUS
    <3>. QED BY <1>2, <2>1, <3>1
  <2>3. ASSUME NEW i \in 1..Len(r) PROVE ks[m + 1] <= r[i] /\ Below(r[i], b)
    <3>1. CASE i = 1
      BY <1>1, <1>2, <2>1, <3>1
    <3>2. CASE i # 1
      <4>1. ks[m + 1] < ks[m + i]
        BY <1>1, <1>2, <2>1, <3>2
      <4>. QED BY <1>1, <1>2, <2>1, <4>1
    <3>. QED BY <3>1, <3>2
  <2>. QED BY <1>1, <1>2, <2>2, <2>3 DEF InSpan
<1>. QED BY <1>4, <1>5

\* An internal node's keys in two parts; the key between them goes up.
LEMMA SplitNodeSpan ==
  ASSUME NEW ks \in Seq(Key), NEW a \in Nat, NEW b \in Bound, InSpan(FALSE, ks, a, b),
         NEW m \in 1..Len(ks),
         NEW l \in Seq(Key), Len(l) = m - 1, \A i \in 1..(m - 1) : l[i] = ks[i],
         NEW r \in Seq(Key), Len(r) = Len(ks) - m, \A i \in 1..Len(r) : r[i] = ks[m + i]
  PROVE  InSpan(FALSE, l, a, ks[m]) /\ InSpan(FALSE, r, ks[m], b)
<1>1. /\ Len(ks) \in Nat
      /\ \A i \in 1..Len(ks) : ks[i] \in Nat
  BY KeyNat
<1>2. /\ \A x, y \in 1..Len(ks) : x < y => ks[x] < ks[y]
      /\ \A x \in 1..Len(ks) : a < ks[x] /\ a <= ks[x] /\ Below(ks[x], b)
  BY DEF InSpan, Ascending
<1>3. InSpan(FALSE, l, a, ks[m])
  <2>1. \A i \in 1..Len(l) : i \in 1..Len(ks) /\ l[i] = ks[i] /\ i < m
    BY <1>1
  <2>2. Ascending(l)
    BY <1>2, <2>1 DEF Ascending
  <2>. QED BY <1>1, <1>2, <2>1, <2>2 DEF InSpan, Below
<1>4. InSpan(FALSE, r, ks[m], b)
  <2>1. ASSUME NEW i \in 1..Len(r)
        PROVE  m + i \in 1..Len(ks) /\ r[i] = ks[m + i] /\ m < m + i
    BY <1>1
  <2>2. Ascending(r)
    <3> SUFFICES ASSUME NEW x \in 1..Len(r), NEW y \in 1..Len(r), x < y PROVE r[x] < r[y]
      BY DEF Ascending
    <3>1. m + x < m + y
      BY <1>1
    <3>. QED BY <1>2, <2>1, <3>1
  <2>3. \A i \in 1..Len(r) : ks[m] < r[i] /\ Below(r[i], b)
    BY <1>1, <1>2, <2>1
  <2>4. ASSUME NEW i \in 1..Len(r) PROVE ks[m] <= r[i]
    <3>1. ks[m] \in Nat /\ ks[m + i] \in Nat /\ r[i] = ks[m + i] /\ ks[m] < r[i]
      BY <1>1, <2>1, <2>3
    <3>. QED BY ONLY <3>1
  <2>. QED BY <1>1, <1>2, <2>2, <2>3, <2>4 DEF InSpan
<1>. QED BY <1>3, <1>4

\* The keys of two leaves that are neighbours, joined.
LEMMA JoinLeafSpan ==
  ASSUME NEW s \in Seq(Key), NEW t \in Seq(Key), NEW a \in Nat, NEW k \in Nat, NEW b \in Bound,
         InSpan(TRUE, s, a, k), InSpan(TRUE, t, k, b),
         NEW u \in Seq(Key), Len(u) = Len(s) + Len(t),
         \A i \in 1..Len(s) : u[i] = s[i],
         \A i \in 1..Len(t) : u[Len(s) + i] = t[i]
  PROVE  InSpan(TRUE, u, a, b)
<1>1. /\ Len(s) \in Nat /\ Len(t) \in Nat
      /\ \A i \in 1..Len(s) : s[i] \in Nat /\ a <= s[i] /\ s[i] < k
      /\ \A i \in 1..Len(t) : t[i] \in Nat /\ k <= t[i] /\ Below(t[i], b)
  BY KeyNat DEF InSpan, Below, Inf
<1>2. /\ \A x, y \in 1..Len(s) : x < y => s[x] < s[y]
      /\ \A x, y \in 1..Len(t) : x < y => t[x] < t[y]
      /\ a < k /\ Below(k, b)
  BY DEF InSpan, Ascending, Below, Inf
<1>3. ASSUME NEW x \in 1..Len(u)
      PROVE  \/ x <= Len(s) /\ x \in 1..Len(s) /\ u[x] = s[x]
             \/ x > Len(s) /\ x - Len(s) \in 1..Len(t) /\ u[x] = t[x - Len(s)]
  BY <1>1
<1>4. Ascending(u)
  <2> SUFFICES ASSUME NEW x \in 1..Len(u), NEW y \in 1..Len(u), x < y PROVE u[x] < u[y]
    BY DEF Ascending
  <2>1. CASE y <= Len(s)
    BY <1>1, <1>2, <1>3, <2>1
  <2>2. CASE x <= Len(s) /\ y > Len(s)
    <3>1. x \in 1..Len(s) /\ u[x] = s[x] /\ y - Len(s) \in 1..Len(t) /\ u[y] = t[y - Len(s)]
      BY <1>1, <1>3, <2>2
    <3>2. s[x] \in Nat /\ s[x] < k /\ t[y - Len(s)] \in Nat /\ k <= t[y - Len(s)]
      BY <1>1, <3>1
    <3>. QED BY <3>1, <3>2
  <2>3. CASE x > Len(s)
    <3>1. /\ x - Len(s) \in 1..Len(t) /\ u[x] = t[x - Len(s)]
          /\ y - Len(s) \in 1..Len(t) /\ u[y] = t[y - Len(s)]
          /\ x - Len(s) < y - Len(s)
      BY <1>1, <1>3, <2>3
    <3>. QED BY <1>2, <3>1
  <2>. QED BY <1>1, <2>1, <2>2, <2>3
<1>5. Below(a, b) /\ \A x \in 1..Len(s) : Below(s[x], b)
  BY <1>1, <1>2 DEF Below, Bound
<1>6. \A x \in 1..Len(t) : a <= t[x]
  BY <1>1, <1>2
<1>7. \A x \in 1..Len(u) : a <= u[x] /\ Below(u[x], b)
  BY <1>1, <1>3, <1>5, <1>6
<1>. QED BY <1>4, <1>5, <1>7 DEF InSpan

\* The keys of two internal nodes and the separator k between them, joined.
LEMMA JoinNodeSpan ==
  ASSUME NEW s \in Seq(Key), NEW t \in Seq(Key), NEW a \in Nat, NEW k \in Nat, NEW b \in Bound,
         InSpan(FALSE, s, a, k), InSpan(FALSE, t, k, b),
         NEW u \in Seq(Key), Len(u) = Len(s) + 1 + Len(t),
         \A i \in 1..Len(s) : u[i] = s[i], u[Len(s) + 1] = k,
         \A i \in 1..Len(t) : u[Len(s) + 1 + i] = t[i]
  PROVE  InSpan(FALSE, u, a, b)
<1>1. /\ Len(s) \in Nat /\ Len(t) \in Nat
      /\ \A i \in 1..Len(s) : s[i] \in Nat /\ a < s[i] /\ s[i] < k
      /\ \A i \in 1..Len(t) : t[i] \in Nat /\ k < t[i] /\ Below(t[i], b)
  BY KeyNat DEF InSpan, Below, Inf
<1>2. /\ \A x, y \in 1..Len(s) : x < y => s[x] < s[y]
      /\ \A x, y \in 1..Len(t) : x < y => t[x] < t[y]
      /\ a < k /\ Below(k, b)
  BY DEF InSpan, Ascending, Below, Inf
<1>3. ASSUME NEW x \in 1..Len(u)
      PROVE  \/ x <= Len(s) /\ x \in 1..Len(s) /\ u[x] = s[x]
             \/ x = Len(s) + 1 /\ u[x] = k
             \/ /\ x > Len(s) + 1 /\ x - (Len(s) + 1) \in 1..Len(t)
                /\ u[x] = t[x - (Len(s) + 1)]
  <2>1. CASE x > Len(s) + 1
    <3>1. x - (Len(s) + 1) \in 1..Len(t) /\ Len(s) + 1 + (x - (Len(s) + 1)) = x
      BY <1>1, <2>1
    <3>. QED BY <2>1, <3>1
  <2>2. CASE x <= Len(s) + 1
    BY <1>1, <2>2
  <2>. QED BY <1>1, <2>1, <2>2
<1>4. Ascending(u)
  <2> SUFFICES ASSUME NEW x \in 1..Len(u), NEW y \in 1..Len(u), x < y PROVE u[x] < u[y]
    BY DEF Ascending
  <2>1. CASE y <= Len(s)
    <3>1. x \in 1..Len(s) /\ u[x] = s[x] /\ y \in 1..Len(s) /\ u[y] = s[y]
      BY <1>1, <2>1
    <3>. QED BY <1>2, <3>1
  <2>2. CASE x <= Len(s) /\ y > Len(s)
    <3>1. x \in 1..Len(s) /\ u[x] = s[x] /\ u[x] \in Nat /\ u[x] < k
      BY <1>1, <1>3, <2>2
    <3>2. CASE y = Len(s) + 1
      BY <3>1, <3>2
    <3>3. CASE y > Len(s) + 1
      <4>1. y - (Len(s) + 1) \in 1..Len(t) /\ u[y] = t[y - (Len(s) + 1)]
        BY <1>1, <1>3, <3>3
      <4>2. u[y] \in Nat /\ k < u[y]
        BY <1>1, <4>1
      <4>. QED BY <3>1, <4>2
    <3>4. y = Len(s) + 1 \/ y > Len(s) + 1
      BY <1>1, <2>2
    <3>. QED BY <3>2, <3>3, <3>4
  <2>3. CASE x = Len(s) + 1
    <3>1. y - (Len(s) + 1) \in 1..Len(t) /\ u[y] = t[y - (Len(s) + 1)] /\ u[x] = k
      BY <1>1, <1>3, <2>3
    <3>. QED BY <1>1, <3>1
  <2>4. CASE x > Len(s) + 1
    <3>1. /\ x - (Len(s) + 1) \in 1..Len(t) /\ u[x] = t[x - (Len(s) + 1)]
          /\ y - (Len(s) + 1) \in 1..Len(t) /\ u[y] = t[y - (Len(s) + 1)]
          /\ x - (Len(s) + 1) < y - (Len(s) + 1)
      BY <1>1, <1>3, <2>4
    <3>. QED BY <1>2, <3>1
  <2>5. y <= Len(s) \/ (x <= Len(s) /\ y > Len(s)) \/ x = Len(s) + 1 \/ x > Len(s) + 1
    BY <1>1
  <2>. QED BY <2>1, <2>2, <2>3, <2>4, <2>5
<1>5. Below(a, b) /\ (\A x \in 1..Len(s) : Below(s[x], b))
  BY <1>1, <1>2 DEF Below, Bound
<1>6. \A x \in 1..Len(t) : a < t[x]
  BY <1>1, <1>2
<1>7. \A x \in 1..Len(u) : a < u[x] /\ Below(u[x], b) /\ u[x] \in Nat
  BY <1>1, <1>2, <1>3, <1>5, <1>6
<1>. QED BY <1>4, <1>5, <1>7 DEF InSpan

\* u is s followed by t, or s, k and t.
Cat(u, s, t) ==
    /\ Len(u) = Len(s) + Len(t)
    /\ \A i \in 1..Len(s) : u[i] = s[i]
    /\ \A i \in 1..Len(t) : u[Len(s) + i] = t[i]

Cat3(u, s, k, t) ==
    /\ Len(u) = Len(s) + 1 + Len(t)
    /\ \A i \in 1..Len(s) : u[i] = s[i]
    /\ u[Len(s) + 1] = k
    /\ \A i \in 1..Len(t) : u[Len(s) + 1 + i] = t[i]

\* Two neighbouring leaves with their entries divided at another place.
LEMMA ShiftLeafSpan ==
  ASSUME NEW s \in Seq(Key), NEW t \in Seq(Key), NEW a \in Nat, NEW k \in Nat, NEW b \in Bound,
         InSpan(TRUE, s, a, k), InSpan(TRUE, t, k, b), NEW u \in Seq(Key), Cat(u, s, t),
         NEW s2 \in Seq(Key), NEW t2 \in Seq(Key), Cat(u, s2, t2), Len(s2) >= 1, Len(t2) >= 1
  PROVE  InSpan(TRUE, s2, a, t2[1]) /\ InSpan(TRUE, t2, t2[1], b)
<1>0. /\ Len(u) = Len(s) + Len(t)
      /\ \A i \in 1..Len(s) : u[i] = s[i]
      /\ \A i \in 1..Len(t) : u[Len(s) + i] = t[i]
  BY DEF Cat
<1>1. InSpan(TRUE, u, a, b)
  BY <1>0, JoinLeafSpan
<1>2. PICK m \in Nat : m = Len(s2) /\ 1 <= m /\ m < Len(u) /\ Len(t2) = Len(u) - m
  <2>1. Len(s2) \in Nat /\ Len(t2) \in Nat
    OBVIOUS
  <2>0. Len(u) = Len(s2) + Len(t2)
    BY DEF Cat
  <2>2. Len(s2) < Len(u) /\ Len(t2) = Len(u) - Len(s2)
    BY ONLY <2>0, <2>1, Len(t2) >= 1
  <2>. QED BY <2>1, <2>2
<1>3. (\A i \in 1..m : s2[i] = u[i]) /\ (\A i \in 1..Len(t2) : t2[i] = u[m + i])
  BY <1>2 DEF Cat
<1>4. InSpan(TRUE, s2, a, u[m + 1]) /\ InSpan(TRUE, t2, u[m + 1], b)
  BY <1>1, <1>2, <1>3, SplitLeafSpan
<1>5. u[m + 1] = t2[1]
  BY <1>2, <1>3
<1>. QED BY <1>4, <1>5

\* Two neighbouring internal nodes with their keys divided at another place.
LEMMA ShiftNodeSpan ==
  ASSUME NEW s \in Seq(Key), NEW t \in Seq(Key), NEW a \in Nat, NEW k \in Nat, NEW b \in Bound,
         InSpan(FALSE, s, a, k), InSpan(FALSE, t, k, b), NEW u \in Seq(Key), Cat3(u, s, k, t),
         NEW s2 \in Seq(Key), NEW t2 \in Seq(Key), NEW x, Cat3(u, s2, x, t2)
  PROVE  InSpan(FALSE, s2, a, x) /\ InSpan(FALSE, t2, x, b)
<1>0. /\ Len(u) = Len(s) + 1 + Len(t)
      /\ \A i \in 1..Len(s) : u[i] = s[i]
      /\ u[Len(s) + 1] = k
      /\ \A i \in 1..Len(t) : u[Len(s) + 1 + i] = t[i]
  BY DEF Cat3
<1>1. InSpan(FALSE, u, a, b)
  BY <1>0, JoinNodeSpan, Zenon
<1>2. PICK m \in 1..Len(u) : m = Len(s2) + 1 /\ Len(t2) = Len(u) - m /\ Len(s2) = m - 1
  <2>0. Len(u) = Len(s2) + 1 + Len(t2)
    BY DEF Cat3
  <2>1. Len(s2) \in Nat /\ Len(t2) \in Nat /\ Len(u) = Len(s2) + 1 + Len(t2)
    BY <2>0
  <2>. QED BY <2>1
<1>3. /\ \A i \in 1..(m - 1) : s2[i] = u[i]
      /\ \A i \in 1..Len(t2) : t2[i] = u[m + i]
      /\ u[m] = x
  BY <1>2 DEF Cat3
<1>4. InSpan(FALSE, s2, a, u[m]) /\ InSpan(FALSE, t2, u[m], b)
  BY <1>1, <1>2, <1>3, SplitNodeSpan
<1>. QED BY <1>3, <1>4

\* The children of two neighbours, joined.
LEMMA RoutesJoin ==
  ASSUME NEW s \in Seq(Key), NEW t \in Seq(Key), NEW u \in Seq(Key), NEW k, Cat3(u, s, k, t),
         NEW cs \in Seq(Node), NEW ct \in Seq(Node), NEW cu \in Seq(Node), Cat(cu, cs, ct),
         Len(cs) = Len(s) + 1, Len(ct) = Len(t) + 1, NEW a, NEW b, NEW lo, NEW seen,
         Routes(s, cs, a, k, lo, seen), Routes(t, ct, k, b, lo, seen)
  PROVE  Routes(u, cu, a, b, lo, seen)
<1>1. PICK m \in Nat, n \in Nat : /\ m = Len(s) /\ n = Len(t) /\ Len(cs) = m + 1 /\ Len(ct) = n + 1
                                  /\ Len(u) = m + 1 + n /\ Len(cu) = m + 1 + n + 1
  <2>1. Len(s) \in Nat /\ Len(t) \in Nat
    OBVIOUS
  <2>2. Len(u) = Len(s) + 1 + Len(t) /\ Len(cu) = Len(cs) + Len(ct)
    BY DEF Cat, Cat3
  <2>3. Len(cu) = Len(s) + 1 + Len(t) + 1
    BY <2>1, <2>2
  <2>. QED BY <2>1, <2>2, <2>3
<1>2. /\ \A i \in 1..(m + 1) : cu[i] = cs[i]
      /\ \A i \in 1..(n + 1) : cu[m + 1 + i] = ct[i]
      /\ \A i \in 1..m : u[i] = s[i]
      /\ u[m + 1] = k
      /\ \A i \in 1..n : u[m + 1 + i] = t[i]
  BY <1>1 DEF Cat, Cat3
<1>3. /\ lo[cs[1]] = a /\ seen[cs[m + 1]] = k
      /\ \A i \in 1..m : seen[cs[i]] = s[i] /\ lo[cs[i + 1]] = s[i]
      /\ lo[ct[1]] = k /\ seen[ct[n + 1]] = b
      /\ \A i \in 1..n : seen[ct[i]] = t[i] /\ lo[ct[i + 1]] = t[i]
  BY <1>1 DEF Routes
<1>4. lo[cu[1]] = a /\ seen[cu[m + 1 + n + 1]] = b
  <2>1. 1 \in 1..(m + 1) /\ n + 1 \in 1..(n + 1) /\ m + 1 + (n + 1) = m + 1 + n + 1
    OBVIOUS
  <2>. QED BY <1>2, <1>3, <2>1
<1>5. ASSUME NEW i \in 1..(m + 1 + n)
      PROVE  seen[cu[i]] = u[i] /\ lo[cu[i + 1]] = u[i]
  <2>1. CASE i <= m
    <3>1. i \in 1..m /\ i \in 1..(m + 1) /\ i + 1 \in 1..(m + 1)
      BY <2>1
    <3>. QED BY <1>2, <1>3, <3>1
  <2>2. CASE i = m + 1
    <3>1. m + 1 \in 1..(m + 1) /\ 1 \in 1..(n + 1)
      OBVIOUS
    <3>. QED BY <1>2, <1>3, <2>2, <3>1
  <2>3. CASE i > m + 1
    <3>1. PICK j \in 1..n : i = m + 1 + j
      <4>1. i - (m + 1) \in 1..n /\ i = m + 1 + (i - (m + 1))
        BY <2>3
      <4>. QED BY <4>1
    <3>2. j \in 1..(n + 1) /\ j + 1 \in 1..(n + 1) /\ i + 1 = m + 1 + (j + 1)
      BY <3>1
    <3>3. cu[i] = ct[j] /\ cu[i + 1] = ct[j + 1] /\ u[i] = t[j]
      BY <1>2, <3>1, <3>2
    <3>. QED BY <1>3, <3>3
  <2>. QED BY <2>1, <2>2, <2>3
<1>. QED BY <1>1, <1>4, <1>5 DEF Routes

\* The children of a node divided between two.
LEMMA RoutesSplit ==
  ASSUME NEW s \in Seq(Key), NEW t \in Seq(Key), NEW u \in Seq(Key), NEW k, Cat3(u, s, k, t),
         NEW cs \in Seq(Node), NEW ct \in Seq(Node), NEW cu \in Seq(Node), Cat(cu, cs, ct),
         Len(cs) = Len(s) + 1, Len(ct) = Len(t) + 1, NEW a, NEW b, NEW lo, NEW seen,
         Routes(u, cu, a, b, lo, seen)
  PROVE  Routes(s, cs, a, k, lo, seen) /\ Routes(t, ct, k, b, lo, seen)
<1>1. PICK m \in Nat, n \in Nat : /\ m = Len(s) /\ n = Len(t) /\ Len(cs) = m + 1 /\ Len(ct) = n + 1
                                  /\ Len(u) = m + 1 + n /\ Len(cu) = m + 1 + n + 1
  <2>1. Len(s) \in Nat /\ Len(t) \in Nat
    OBVIOUS
  <2>2. Len(u) = Len(s) + 1 + Len(t) /\ Len(cu) = Len(cs) + Len(ct)
    BY DEF Cat, Cat3
  <2>3. Len(cu) = Len(s) + 1 + Len(t) + 1
    BY <2>1, <2>2
  <2>. QED BY <2>1, <2>2, <2>3
<1>2. /\ \A i \in 1..(m + 1) : cu[i] = cs[i]
      /\ \A i \in 1..(n + 1) : cu[m + 1 + i] = ct[i]
      /\ \A i \in 1..m : u[i] = s[i]
      /\ u[m + 1] = k
      /\ \A i \in 1..n : u[m + 1 + i] = t[i]
  BY <1>1 DEF Cat, Cat3
<1>3. /\ lo[cu[1]] = a /\ seen[cu[m + 1 + n + 1]] = b
      /\ \A i \in 1..(m + 1 + n) : seen[cu[i]] = u[i] /\ lo[cu[i + 1]] = u[i]
  BY <1>1 DEF Routes
<1>4. lo[cs[1]] = a /\ seen[cs[m + 1]] = k /\ lo[ct[1]] = k /\ seen[ct[n + 1]] = b
  <2>1. /\ 1 \in 1..(m + 1) /\ n + 1 \in 1..(n + 1) /\ m + 1 + (n + 1) = m + 1 + n + 1
        /\ m + 1 \in 1..(m + 1) /\ m + 1 \in 1..(m + 1 + n) /\ 1 \in 1..(n + 1)
    OBVIOUS
  <2>. QED BY <1>2, <1>3, <2>1
<1>5. ASSUME NEW i \in 1..m PROVE seen[cs[i]] = s[i] /\ lo[cs[i + 1]] = s[i]
  <2>1. i \in 1..(m + 1) /\ i + 1 \in 1..(m + 1) /\ i \in 1..(m + 1 + n)
    OBVIOUS
  <2>. QED BY <1>2, <1>3, <2>1
<1>6. ASSUME NEW i \in 1..n PROVE seen[ct[i]] = t[i] /\ lo[ct[i + 1]] = t[i]
  <2>1. /\ i \in 1..(n + 1) /\ i + 1 \in 1..(n + 1) /\ m + 1 + i \in 1..(m + 1 + n)
        /\ m + 1 + (i + 1) = m + 1 + i + 1
    OBVIOUS
  <2>2. cu[m + 1 + i] = ct[i] /\ cu[m + 1 + (i + 1)] = ct[i + 1] /\ u[m + 1 + i] = t[i]
    BY <1>2, <2>1, Zenon
  <2>. QED BY <1>3, <2>1, <2>2
<1>. QED BY <1>1, <1>4, <1>5, <1>6 DEF Routes

\* The same, child by child.
Each(ks, cs, a, b, lo, seen) ==
    \A i \in 1..(Len(ks) + 1) : /\ lo[cs[i]] = IF i = 1 THEN a ELSE ks[i - 1]
                                /\ seen[cs[i]] = IF i = Len(ks) + 1 THEN b ELSE ks[i]

\* Routes, child by child.
LEMMA RoutesEach ==
  ASSUME NEW ks \in Seq(Key), NEW cs \in Seq(Node), Len(cs) = Len(ks) + 1,
         NEW a, NEW b, NEW lo, NEW seen, Routes(ks, cs, a, b, lo, seen)
  PROVE  Each(ks, cs, a, b, lo, seen)
<1>0. PICK m \in Nat : m = Len(ks) /\ Len(cs) = m + 1
  OBVIOUS
<1>1. ASSUME NEW i \in 1..(m + 1)
      PROVE  /\ lo[cs[i]] = IF i = 1 THEN a ELSE ks[i - 1]
             /\ seen[cs[i]] = IF i = m + 1 THEN b ELSE ks[i]
  <2>1. /\ lo[cs[1]] = a
        /\ seen[cs[m + 1]] = b
        /\ \A j \in 1..m : seen[cs[j]] = ks[j] /\ lo[cs[j + 1]] = ks[j]
    BY <1>0 DEF Routes
  <2>2. CASE i = 1
    BY <2>1, <2>2
  <2>3. CASE i # 1
    <3>1. i - 1 \in 1..m /\ (i - 1) + 1 = i
      BY <2>3
    <3>2. lo[cs[i]] = ks[i - 1]
      BY <2>1, <3>1
    <3>. QED BY <2>1, <2>3, <3>2
  <2>. QED BY <2>2, <2>3
<1>. QED BY <1>0, <1>1 DEF Each

\* And back.
LEMMA RoutesFrom ==
  ASSUME NEW ks \in Seq(Key), NEW cs \in Seq(Node), Len(cs) = Len(ks) + 1,
         NEW a, NEW b, NEW lo, NEW seen,
         \A i \in 1..(Len(ks) + 1) :
            /\ lo[cs[i]] = IF i = 1 THEN a ELSE ks[i - 1]
            /\ seen[cs[i]] = IF i = Len(ks) + 1 THEN b ELSE ks[i]
  PROVE  Routes(ks, cs, a, b, lo, seen)
<1>0. PICK m \in Nat : m = Len(ks) /\ Len(cs) = m + 1
  OBVIOUS
<1>1. lo[cs[1]] = a /\ seen[cs[m + 1]] = b
  BY <1>0
<1>2. ASSUME NEW j \in 1..m PROVE seen[cs[j]] = ks[j] /\ lo[cs[j + 1]] = ks[j]
  <2>1. j \in 1..(m + 1) /\ j # m + 1 /\ j + 1 \in 1..(m + 1) /\ j + 1 # 1 /\ (j + 1) - 1 = j
    BY ONLY j \in 1..m, m \in Nat
  <2>. QED BY <1>0, <2>1
<1>. QED BY <1>0, <1>1, <1>2 DEF Routes

\* The keys before child i are at or below the start of its span, the others at
\* or above its end.
LEMMA RouteBounds ==
  ASSUME NEW ks \in Seq(Key), NEW cs \in Seq(Node), Len(cs) = Len(ks) + 1,
         NEW a \in Nat, NEW b \in Bound, NEW lo, NEW seen,
         InSpan(FALSE, ks, a, b), Routes(ks, cs, a, b, lo, seen), NEW i \in 1..Len(cs)
  PROVE  /\ lo[cs[i]] \in Nat /\ a <= lo[cs[i]]
         /\ \A j \in 1..Len(ks) : j < i => ks[j] <= lo[cs[i]]
         /\ \A j \in 1..Len(ks) : i <= j => Before(seen[cs[i]], ks[j])
         /\ \A x \in Nat : Below(x, seen[cs[i]]) => Below(x, b)
<1>0. PICK m \in Nat : m = Len(ks) /\ i \in 1..(m + 1)
  OBVIOUS
<1>1. /\ lo[cs[i]] = IF i = 1 THEN a ELSE ks[i - 1]
      /\ seen[cs[i]] = IF i = m + 1 THEN b ELSE ks[i]
  <2>1. Each(ks, cs, a, b, lo, seen)
    BY RoutesEach
  <2>. QED BY <1>0, <2>1 DEF Each
<1>2. \A j \in 1..m : ks[j] \in Nat
  BY <1>0, KeyNat
<1>3. /\ \A x, y \in 1..m : x < y => ks[x] < ks[y]
      /\ \A x \in 1..m : a < ks[x] /\ Below(ks[x], b)
  BY <1>0 DEF InSpan, Ascending
<1>4. lo[cs[i]] \in Nat /\ a <= lo[cs[i]]
  BY <1>0, <1>1, <1>2, <1>3
<1>5. ASSUME NEW j \in 1..m, j < i PROVE ks[j] <= lo[cs[i]]
  <2>1. i # 1 /\ i - 1 \in 1..m /\ (j = i - 1 \/ j < i - 1)
    BY <1>0, <1>5
  <2>2. lo[cs[i]] = ks[i - 1]
    BY <1>1, <2>1
  <2>3. CASE j = i - 1
    BY <1>2, <2>2, <2>3
  <2>4. CASE j < i - 1
    <3>1. ks[j] < ks[i - 1] /\ ks[j] \in Nat /\ ks[i - 1] \in Nat
      BY <1>2, <1>3, <2>1, <2>4
    <3>. QED BY <2>2, <3>1
  <2>. QED BY <2>1, <2>3, <2>4
<1>6. ASSUME NEW j \in 1..m, i <= j PROVE Before(seen[cs[i]], ks[j])
  <2>1. i # m + 1 /\ i \in 1..m /\ (j = i \/ i < j)
    BY <1>0, <1>6
  <2>2. seen[cs[i]] = ks[i]
    BY <1>1, <2>1
  <2>3. ks[i] \in Nat /\ ks[j] \in Nat /\ (i < j => ks[i] < ks[j])
    BY <1>2, <1>3, <2>1
  <2>4. ks[i] <= ks[j] /\ ks[i] # Inf
    BY <2>1, <2>3 DEF Inf
  <2>. QED BY <2>2, <2>4 DEF Before
<1>7. ASSUME NEW x \in Nat, Below(x, seen[cs[i]]) PROVE Below(x, b)
  <2>1. CASE i = m + 1
    BY <1>1, <1>7, <2>1
  <2>2. CASE i # m + 1
    <3>1. i \in 1..m /\ seen[cs[i]] = ks[i]
      BY <1>0, <1>1, <2>2
    <3>2. ks[i] \in Nat /\ Below(ks[i], b)
      BY <1>2, <1>3, <3>1
    <3>3. x < ks[i]
      BY <1>7, <3>1, <3>2 DEF Below, Inf
    <3>. QED BY <3>2, <3>3 DEF Below, Bound, Inf
  <2>. QED BY <2>1, <2>2
<1>. QED BY <1>0, <1>4, <1>5, <1>6, <1>7

\* t is s with e inserted at i, or with entry i removed.
Inserted(t, s, i, e) ==
    /\ Len(t) = Len(s) + 1
    /\ \A j \in 1..(i - 1) : t[j] = s[j]
    /\ t[i] = e
    /\ \A j \in (i + 1)..(Len(s) + 1) : t[j] = s[j - 1]

Shrunk(t, s, i) ==
    /\ Len(t) = Len(s) - 1
    /\ \A j \in 1..(i - 1) : t[j] = s[j]
    /\ \A j \in i..(Len(s) - 1) : t[j] = s[j + 1]

\* What InsertAt returns.
LEMMA InsertAtIs ==
  ASSUME NEW S, NEW s \in Seq(S), NEW e \in S, NEW i \in 1..(Len(s) + 1)
  PROVE  InsertAt(s, i, e) \in Seq(S) /\ Inserted(InsertAt(s, i, e), s, i, e)
BY InsertAtProps DEF Inserted

\* What RemoveAt returns.
LEMMA RemoveAtIs ==
  ASSUME NEW S, NEW s \in Seq(S), NEW i \in 1..Len(s)
  PROVE  RemoveAt(s, i) \in Seq(S) /\ Shrunk(RemoveAt(s, i), s, i)
BY RemoveAtProps DEF Shrunk

\* seen is what the separators say.  Child i of cs has been split at k, and r
\* has its upper part.
SplitOf(cs, i, r, k, lo, hi, seen) ==
    /\ seen[cs[i]] = hi[r] /\ hi[cs[i]] = k /\ lo[r] = k
    /\ \A j \in 1..Len(cs) : j # i => seen[cs[j]] = hi[cs[j]]

\* Child i of cs has taken over the span of child i + 1.
MergeOf(cs, i, hi, seen) ==
    /\ hi[cs[i]] = seen[cs[i + 1]]
    /\ \A j \in 1..Len(cs) : j # i /\ j # i + 1 => seen[cs[j]] = hi[cs[j]]

\* A split child has its new sibling r inserted after it, with the key k
\* between the two.
LEMMA RoutesInsert ==
  ASSUME NEW ks \in Seq(Key), NEW cs \in Seq(Node), Len(cs) = Len(ks) + 1,
         NEW a, NEW b, NEW lo, NEW seen, NEW hi, Routes(ks, cs, a, b, lo, seen),
         NEW i \in 1..Len(cs), NEW k \in Key, NEW r \in Node,
         SplitOf(cs, i, r, k, lo, hi, seen),
         NEW t \in Seq(Key), Inserted(t, ks, i, k), NEW ct \in Seq(Node), Inserted(ct, cs, i + 1, r)
  PROVE  Routes(t, ct, a, b, lo, hi)
<1> USE DEF SplitOf
<1>0. PICK m \in Nat : m = Len(ks) /\ Len(cs) = m + 1 /\ i \in 1..(m + 1)
  OBVIOUS
<1>1. /\ Len(t) = m + 1
      /\ \A j \in 1..(i - 1) : t[j] = ks[j]
      /\ t[i] = k
      /\ \A j \in (i + 1)..(m + 1) : t[j] = ks[j - 1]
  BY <1>0 DEF Inserted
<1>2. /\ Len(ct) = m + 2
      /\ \A j \in 1..i : ct[j] = cs[j]
      /\ ct[i + 1] = r
      /\ \A j \in (i + 2)..(m + 2) : ct[j] = cs[j - 1]
  <2>1. /\ Len(ct) = (m + 1) + 1
        /\ \A j \in 1..((i + 1) - 1) : ct[j] = cs[j]
        /\ ct[i + 1] = r
        /\ \A j \in ((i + 1) + 1)..((m + 1) + 1) : ct[j] = cs[j - 1]
    BY <1>0 DEF Inserted
  <2>2. (i + 1) - 1 = i /\ (i + 1) + 1 = i + 2 /\ (m + 1) + 1 = m + 2
    BY ONLY <1>0, m \in Nat
  <2>. QED BY ONLY <2>1, <2>2
<1>3. \A j \in 1..(m + 1) : /\ lo[cs[j]] = IF j = 1 THEN a ELSE ks[j - 1]
                            /\ seen[cs[j]] = IF j = m + 1 THEN b ELSE ks[j]
  <2>1. \A j \in 1..(Len(ks) + 1) : /\ lo[cs[j]] = IF j = 1 THEN a ELSE ks[j - 1]
                                    /\ seen[cs[j]] = IF j = Len(ks) + 1 THEN b ELSE ks[j]
    <3>1. Each(ks, cs, a, b, lo, seen)
      BY RoutesEach
    <3>. QED BY ONLY <3>1 DEF Each
  <2>. QED BY ONLY <1>0, <2>1
<1>4. ASSUME NEW j \in 1..(m + 2)
      PROVE  /\ lo[ct[j]] = IF j = 1 THEN a ELSE t[j - 1]
             /\ hi[ct[j]] = IF j = m + 2 THEN b ELSE t[j]
  <2>1. CASE j < i
    <3>1. j \in 1..i /\ j \in 1..(m + 1) /\ j # m + 1 /\ j # m + 2 /\ j \in 1..(i - 1)
      BY <1>0, <2>1
    <3>2. ct[j] = cs[j] /\ t[j] = ks[j] /\ seen[cs[j]] = hi[cs[j]]
      BY <1>0, <1>1, <1>2, <2>1, <3>1
    <3>3. j # 1 => j - 1 \in 1..(i - 1)
      BY <3>1
    <3>4. j # 1 => t[j - 1] = ks[j - 1]
      BY <1>1, <3>3
    <3>. QED BY <1>3, <3>1, <3>2, <3>4
  <2>2. CASE j = i
    <3>1. j \in 1..i /\ j \in 1..(m + 1) /\ j # m + 2
      BY <1>0, <2>2
    <3>2. ct[j] = cs[i] /\ t[j] = k /\ hi[cs[i]] = k
      BY <1>1, <1>2, <2>2, <3>1
    <3>3. j # 1 => j - 1 \in 1..(i - 1)
      BY <2>2, <3>1
    <3>4. j # 1 => t[j - 1] = ks[j - 1]
      BY <1>1, <3>3
    <3>. QED BY <1>3, <2>2, <3>1, <3>2, <3>4
  <2>3. CASE j = i + 1
    <3>1. ct[j] = r /\ j - 1 = i /\ j # 1 /\ t[i] = k /\ lo[r] = k /\ hi[r] = seen[cs[i]]
      BY <1>1, <1>2, <2>3
    <3>2. CASE i = m + 1
      BY <1>3, <2>3, <3>1, <3>2
    <3>3. CASE i # m + 1
      <4>1. j \in (i + 1)..(m + 1) /\ j # m + 2
        BY <1>0, <2>3, <3>3
      <4>2. t[j] = ks[i]
        BY <1>1, <3>1, <4>1
      <4>. QED BY <1>0, <1>3, <3>1, <3>3, <4>1, <4>2
    <3>. QED BY <3>2, <3>3
  <2>4. CASE j > i + 1
    <3>1. /\ j \in (i + 2)..(m + 2) /\ j - 1 \in 1..(m + 1) /\ j - 1 # i /\ j - 1 # 1 /\ j # 1
          /\ j - 1 \in (i + 1)..(m + 1)
          /\ (j = m + 2 => j - 1 = m + 1) /\ (j - 1 = m + 1 => j = m + 2)
          /\ (j # m + 2 => j \in (i + 1)..(m + 1))
      <4>1. i \in Int /\ 1 <= i /\ i <= m + 1 /\ m \in Int /\ j \in Int /\ j <= m + 2 /\ i + 1 < j
        BY <1>0, <2>4
      <4>. QED BY ONLY <4>1
    <3>2. ct[j] = cs[j - 1] /\ t[j - 1] = ks[(j - 1) - 1] /\ seen[cs[j - 1]] = hi[cs[j - 1]]
      BY <1>0, <1>1, <1>2, <3>1
    <3>3. j # m + 2 => t[j] = ks[j - 1]
      BY <1>1, <3>1
    <3>4. /\ lo[cs[j - 1]] = ks[(j - 1) - 1]
          /\ seen[cs[j - 1]] = IF j = m + 2 THEN b ELSE ks[j - 1]
      BY <1>3, <3>1
    <3>. QED BY <3>1, <3>2, <3>3, <3>4
  <2>. QED BY <1>0, <2>1, <2>2, <2>3, <2>4
<1>5. Len(ct) = Len(t) + 1 /\ Len(t) + 1 = m + 2
  BY <1>1, <1>2
<1>6. Routes(t, ct, a, b, lo, hi)
  <2>1. \A j \in 1..(Len(t) + 1) : /\ lo[ct[j]] = IF j = 1 THEN a ELSE t[j - 1]
                                   /\ hi[ct[j]] = IF j = Len(t) + 1 THEN b ELSE t[j]
    BY ONLY <1>4, <1>5
  <2>. QED BY ONLY <1>5, <2>1, RoutesFrom, t \in Seq(Key), ct \in Seq(Node)
<1>. QED BY <1>6

\* The entry of a merged child is removed: its left neighbour has its span.
LEMMA RoutesRemove ==
  ASSUME NEW ks \in Seq(Key), NEW cs \in Seq(Node), Len(cs) = Len(ks) + 1,
         NEW a, NEW b, NEW lo, NEW seen, NEW hi, Routes(ks, cs, a, b, lo, seen),
         NEW i \in 1..Len(ks), MergeOf(cs, i, hi, seen),
         NEW t \in Seq(Key), Shrunk(t, ks, i), NEW ct \in Seq(Node), Shrunk(ct, cs, i + 1)
  PROVE  Routes(t, ct, a, b, lo, hi)
<1> USE DEF MergeOf
<1>0. PICK m \in Nat : m = Len(ks) /\ Len(cs) = m + 1 /\ i \in 1..m
  OBVIOUS
<1>1. /\ Len(t) = m - 1
      /\ \A j \in 1..(i - 1) : t[j] = ks[j]
      /\ \A j \in i..(m - 1) : t[j] = ks[j + 1]
  BY <1>0 DEF Shrunk
<1>2. /\ Len(ct) = m
      /\ \A j \in 1..i : ct[j] = cs[j]
      /\ \A j \in (i + 1)..m : ct[j] = cs[j + 1]
  <2>1. /\ Len(ct) = (m + 1) - 1
        /\ \A j \in 1..((i + 1) - 1) : ct[j] = cs[j]
        /\ \A j \in (i + 1)..((m + 1) - 1) : ct[j] = cs[j + 1]
    BY <1>0 DEF Shrunk
  <2>2. (i + 1) - 1 = i /\ (m + 1) - 1 = m
    BY ONLY <1>0, m \in Nat
  <2>. QED BY ONLY <2>1, <2>2
<1>3. \A j \in 1..(m + 1) : /\ lo[cs[j]] = IF j = 1 THEN a ELSE ks[j - 1]
                            /\ seen[cs[j]] = IF j = m + 1 THEN b ELSE ks[j]
  <2>1. \A j \in 1..(Len(ks) + 1) : /\ lo[cs[j]] = IF j = 1 THEN a ELSE ks[j - 1]
                                    /\ seen[cs[j]] = IF j = Len(ks) + 1 THEN b ELSE ks[j]
    <3>1. Each(ks, cs, a, b, lo, seen)
      BY RoutesEach
    <3>. QED BY ONLY <3>1 DEF Each
  <2>. QED BY ONLY <1>0, <2>1
<1>4. ASSUME NEW j \in 1..m
      PROVE  /\ lo[ct[j]] = IF j = 1 THEN a ELSE t[j - 1]
             /\ hi[ct[j]] = IF j = m THEN b ELSE t[j]
  <2>0. i \in Int /\ 1 <= i /\ i <= m /\ m \in Int /\ j \in Int /\ 1 <= j /\ j <= m
    BY <1>0
  <2>1. CASE j <= i
    <3>1. j \in 1..i /\ j \in 1..(m + 1) /\ j # m + 1 /\ (j # 1 => j - 1 \in 1..(i - 1))
      BY ONLY <2>0, <2>1
    <3>2. ct[j] = cs[j] /\ (j # 1 => t[j - 1] = ks[j - 1])
      BY <1>1, <1>2, <3>1
    <3>3. lo[ct[j]] = IF j = 1 THEN a ELSE t[j - 1]
      BY <1>3, <3>1, <3>2
    <3>4. CASE j = i
      <4>1. i + 1 \in 1..(m + 1) /\ (i + 1 = m + 1 => j = m) /\ (i + 1 # m + 1 => j # m /\ i \in i..(m - 1))
        BY ONLY <2>0, <3>4
      <4>2. seen[cs[i + 1]] = IF i + 1 = m + 1 THEN b ELSE ks[i + 1]
        BY <1>3, <4>1
      <4>3. i + 1 # m + 1 => t[i] = ks[i + 1]
        BY <1>1, <4>1
      <4>4. hi[ct[j]] = IF i + 1 = m + 1 THEN b ELSE ks[i + 1]
        BY <3>2, <3>4, <4>2
      <4>. QED BY ONLY <3>3, <3>4, <4>1, <4>3, <4>4
    <3>5. CASE j # i
      <4>1. j \in 1..(i - 1) /\ j # i + 1 /\ j # m /\ j \in 1..(m + 1)
        BY ONLY <2>0, <2>1, <3>5
      <4>2. t[j] = ks[j] /\ seen[cs[j]] = hi[cs[j]]
        BY <1>0, <1>1, <3>5, <4>1
      <4>. QED BY <1>3, <3>1, <3>2, <3>3, <4>1, <4>2
    <3>. QED BY <3>4, <3>5
  <2>2. CASE j > i
    <3>1. /\ j \in (i + 1)..m /\ j + 1 \in 1..(m + 1) /\ j + 1 # 1 /\ (j + 1) - 1 = j /\ j # 1
          /\ j + 1 # i /\ j + 1 # i + 1 /\ j - 1 \in i..(m - 1) /\ (j - 1) + 1 = j
          /\ (j + 1 = m + 1 => j = m) /\ (j # m => j \in i..(m - 1) /\ j + 1 # m + 1)
      BY ONLY <2>0, <2>2
    <3>2. ct[j] = cs[j + 1] /\ t[j - 1] = ks[j] /\ (j # m => t[j] = ks[j + 1])
      BY <1>1, <1>2, <3>1
    <3>3. lo[cs[j + 1]] = ks[j] /\ seen[cs[j + 1]] = (IF j + 1 = m + 1 THEN b ELSE ks[j + 1])
          /\ seen[cs[j + 1]] = hi[cs[j + 1]]
      BY <1>0, <1>3, <3>1
    <3>. QED BY ONLY <3>1, <3>2, <3>3
  <2>. QED BY ONLY <2>0, <2>1, <2>2
<1>5. Len(ct) = Len(t) + 1 /\ Len(t) + 1 = m
  BY <1>1, <1>2
<1>6. \A j \in 1..(Len(t) + 1) : /\ lo[ct[j]] = IF j = 1 THEN a ELSE t[j - 1]
                                 /\ hi[ct[j]] = IF j = Len(t) + 1 THEN b ELSE t[j]
  BY ONLY <1>4, <1>5
<1>. QED BY ONLY <1>5, <1>6, RoutesFrom, t \in Seq(Key), ct \in Seq(Node)

\* t is s with entry j replaced by x.
Replaced(t, s, j, x) ==
    /\ Len(t) = Len(s)
    /\ t[j] = x
    /\ \A i \in 1..Len(s) : i # j => t[i] = s[i]

\* The spans of the children j and j + 1 of cs now meet at x.
MeetAt(cs, j, x, lo, hi, lo2, hi2) ==
    /\ hi2[cs[j]] = x /\ lo2[cs[j + 1]] = x
    /\ \A i \in 1..Len(cs) : i # j => hi2[cs[i]] = hi[cs[i]]
    /\ \A i \in 1..Len(cs) : i # j + 1 => lo2[cs[i]] = lo[cs[i]]

\* Separator j becomes x, and the spans of the children beside it meet there.
LEMMA RoutesReplace ==
  ASSUME NEW ks \in Seq(Key), NEW cs \in Seq(Node), Len(cs) = Len(ks) + 1,
         NEW a, NEW b, NEW lo, NEW hi, NEW lo2, NEW hi2, Routes(ks, cs, a, b, lo, hi),
         NEW j \in 1..Len(ks), NEW x \in Key, MeetAt(cs, j, x, lo, hi, lo2, hi2),
         NEW t \in Seq(Key), Replaced(t, ks, j, x)
  PROVE  Routes(t, cs, a, b, lo2, hi2)
<1> USE DEF MeetAt, Replaced
<1>0. PICK m \in Nat : m = Len(ks) /\ Len(cs) = m + 1 /\ j \in 1..m
  OBVIOUS
<1>1. /\ lo[cs[1]] = a
      /\ hi[cs[m + 1]] = b
      /\ \A i \in 1..m : hi[cs[i]] = ks[i] /\ lo[cs[i + 1]] = ks[i]
  BY <1>0 DEF Routes
<1>2. lo2[cs[1]] = a /\ hi2[cs[m + 1]] = b
  <2>1. 1 \in 1..(m + 1) /\ m + 1 \in 1..(m + 1) /\ 1 # j + 1 /\ m + 1 # j
    BY ONLY <1>0, m \in Nat
  <2>. QED BY <1>0, <1>1, <2>1
<1>3. ASSUME NEW i \in 1..m PROVE hi2[cs[i]] = t[i] /\ lo2[cs[i + 1]] = t[i]
  <2>1. i \in 1..(m + 1) /\ i + 1 \in 1..(m + 1) /\ (i # j => i + 1 # j + 1)
    BY ONLY <1>0, m \in Nat, i \in 1..m
  <2>2. CASE i = j
    BY <2>2
  <2>3. CASE i # j
    BY <1>0, <1>1, <2>1, <2>3
  <2>. QED BY <2>2, <2>3
<1>. QED BY <1>0, <1>2, <1>3 DEF Routes

\* x is between the keys before and those after entry j.
Fitting(ks, j, x) == \A i \in 1..Len(ks) : (i < j => ks[i] < x) /\ (j < i => x < ks[i])

\* A separator overwritten by a key between its neighbours.
LEMMA ReplaceSpan ==
  ASSUME NEW ks \in Seq(Key), NEW a \in Nat, NEW b \in Bound, InSpan(FALSE, ks, a, b),
         NEW j \in 1..Len(ks), NEW x \in Key, a < x, Below(x, b),
         Fitting(ks, j, x),
         NEW t \in Seq(Key), Replaced(t, ks, j, x)
  PROVE  InSpan(FALSE, t, a, b)
<1> USE DEF Replaced, Fitting
<1>0. x \in Nat /\ \A i \in 1..Len(ks) : ks[i] \in Nat
  BY KeyNat, KeyAssumption
<1>1. /\ Below(a, b) /\ \A u, v \in 1..Len(ks) : u < v => ks[u] < ks[v]
      /\ \A i \in 1..Len(ks) : a <= ks[i] /\ a < ks[i] /\ Below(ks[i], b)
  BY DEF InSpan, Ascending
<1>2. Ascending(t)
  <2> SUFFICES ASSUME NEW u \in 1..Len(ks), NEW v \in 1..Len(ks), u < v PROVE t[u] < t[v]
    BY DEF Ascending
  <2>1. CASE u = j
    BY <2>1
  <2>2. CASE v = j
    BY <2>2
  <2>3. CASE u # j /\ v # j
    BY <1>1, <2>3
  <2>. QED BY <2>1, <2>2, <2>3
<1>3. \A i \in 1..Len(t) : a <= t[i] /\ a < t[i] /\ Below(t[i], b)
  BY <1>0, <1>1
<1>. QED BY <1>1, <1>2, <1>3 DEF InSpan

\* The spans of a node's children are all that its keys depend on.
LEMMA RoutesSame ==
  ASSUME NEW ks \in Seq(Key), NEW cs \in Seq(Node), Len(cs) = Len(ks) + 1,
         NEW a, NEW b, NEW lo, NEW seen, NEW lo2, NEW seen2, Routes(ks, cs, a, b, lo, seen),
         \A c \in Range(cs) : lo2[c] = lo[c] /\ seen2[c] = seen[c]
  PROVE  Routes(ks, cs, a, b, lo2, seen2)
<1>0. PICK m \in Nat : m = Len(ks) /\ Len(cs) = m + 1
  OBVIOUS
<1>1. \A i \in 1..(m + 1) : lo2[cs[i]] = lo[cs[i]] /\ seen2[cs[i]] = seen[cs[i]]
  BY <1>0, InRange
<1>2. /\ lo[cs[1]] = a
      /\ seen[cs[m + 1]] = b
      /\ \A i \in 1..m : seen[cs[i]] = ks[i] /\ lo[cs[i + 1]] = ks[i]
  BY <1>0 DEF Routes
<1>3. \A i \in 1..m : i \in 1..(m + 1) /\ i + 1 \in 1..(m + 1)
  OBVIOUS
<1>4. 1 \in 1..(m + 1) /\ m + 1 \in 1..(m + 1)
  OBVIOUS
<1>. QED BY <1>0, <1>1, <1>2, <1>3, <1>4 DEF Routes

-----------------------------------------------------------------------------
(***************************************************************************)
(* Entries moved between two arrays, and the records that move with their  *)
(* keys.                                                                   *)
(***************************************************************************)

\* The two arrays together: s followed by t.
LEMMA ConcatIs ==
  ASSUME NEW S, NEW s \in Seq(S), NEW t \in Seq(S)
  PROVE  s \o t \in Seq(S) /\ Cat(s \o t, s, t)
BY ConcatProps DEF Cat

\* With a separator between them.
LEMMA Concat3Is ==
  ASSUME NEW S, NEW s \in Seq(S), NEW k \in S, NEW t \in Seq(S)
  PROVE  s \o <<k>> \o t \in Seq(S) /\ Cat3(s \o <<k>> \o t, s, k, t)
<1>1. PICK q : q = s \o <<k>>
  OBVIOUS
<1>2. q \in Seq(S) /\ Len(q) = Len(s) + 1 /\ q[Len(s) + 1] = k /\ \A i \in 1..Len(s) : q[i] = s[i]
  BY <1>1
<1>3. PICK u : u = q \o t
  OBVIOUS
<1>4. u \in Seq(S) /\ Cat(u, q, t)
  BY <1>2, <1>3, ConcatIs
<1>5. Len(s) \in Nat /\ Len(t) \in Nat
  OBVIOUS
<1>6. /\ Len(u) = Len(q) + Len(t)
      /\ \A i \in 1..Len(q) : u[i] = q[i]
      /\ \A i \in 1..Len(t) : u[Len(q) + i] = t[i]
  BY <1>4 DEF Cat
<1>7. \A i \in 1..Len(s) : u[i] = s[i]
  <2>1. \A i \in 1..Len(s) : i \in 1..Len(q)
    BY <1>2, <1>5
  <2>. QED BY <1>2, <1>6, <2>1
<1>8. u[Len(s) + 1] = k
  <2>1. Len(s) + 1 \in 1..Len(q)
    BY <1>2, <1>5
  <2>. QED BY <1>2, <1>6, <2>1
<1>9. Cat3(u, s, k, t)
  BY <1>2, <1>6, <1>7, <1>8 DEF Cat3
<1>. QED BY <1>1, <1>3, <1>4, <1>9

\* The last entry of s goes to the front of t: the same entries in a row.
LEMMA ShiftRight ==
  ASSUME NEW S, NEW s \in Seq(S), NEW t \in Seq(S), NEW u \in Seq(S), Cat(u, s, t), Len(s) >= 1
  PROVE  /\ RemoveAt(s, Len(s)) \in Seq(S) /\ Len(RemoveAt(s, Len(s))) = Len(s) - 1
         /\ <<s[Len(s)]>> \o t \in Seq(S) /\ Len(<<s[Len(s)]>> \o t) = Len(t) + 1
         /\ (<<s[Len(s)]>> \o t)[1] = s[Len(s)]
         /\ Cat(u, RemoveAt(s, Len(s)), <<s[Len(s)]>> \o t)
<1>0. PICK m \in Nat, n \in Nat : m = Len(s) /\ n = Len(t) /\ m >= 1
  OBVIOUS
<1>1. Len(u) = m + n /\ (\A i \in 1..m : u[i] = s[i]) /\ (\A i \in 1..n : u[m + i] = t[i])
  BY <1>0 DEF Cat
<1>2. PICK x \in S : x = s[m]
  BY <1>0
<1>3. PICK s2, t2 : s2 = RemoveAt(s, m) /\ t2 = <<x>> \o t
  OBVIOUS
<1>4. s2 \in Seq(S) /\ Len(s2) = m - 1 /\ \A i \in 1..(m - 1) : s2[i] = s[i]
  <2>1. m \in 1..Len(s)
    BY ONLY <1>0, m \in Nat
  <2>2. RemoveAt(s, m) \in Seq(S) /\ Shrunk(RemoveAt(s, m), s, m)
    BY <2>1, RemoveAtIs
  <2>. QED BY <1>0, <1>3, <2>2 DEF Shrunk
<1>5. <<x>> \in Seq(S) /\ Len(<<x>>) = 1 /\ <<x>>[1] = x
  BY <1>2
<1>6. t2 \in Seq(S) /\ Len(t2) = n + 1 /\ t2[1] = x /\ \A i \in 1..n : t2[1 + i] = t[i]
  <2>1. <<x>> \o t \in Seq(S) /\ Cat(<<x>> \o t, <<x>>, t)
    BY <1>5, ConcatIs
  <2>2. Len(t2) = 1 + n /\ (\A i \in 1..1 : t2[i] = <<x>>[i]) /\ (\A i \in 1..n : t2[1 + i] = t[i])
    BY <1>0, <1>3, <1>5, <2>1 DEF Cat
  <2>. QED BY <1>3, <1>5, <2>1, <2>2
<1>7. ASSUME NEW i \in 1..(n + 1) PROVE u[(m - 1) + i] = t2[i]
  <2>1. CASE i = 1
    <3>1. (m - 1) + i = m /\ m \in 1..m
      BY <1>0, <2>1
    <3>. QED BY <1>1, <1>2, <1>6, <2>1, <3>1
  <2>2. CASE i # 1
    <3>1. PICK j \in 1..n : i = 1 + j
      <4>1. i - 1 \in 1..n /\ i = 1 + (i - 1)
        BY <2>2
      <4>. QED BY <4>1
    <3>2. (m - 1) + i = m + j
      BY <1>0, <3>1
    <3>. QED BY <1>1, <1>6, <3>1, <3>2
  <2>. QED BY <2>1, <2>2
<1>8. Cat(u, s2, t2)
  <2>1. m + n = (m - 1) + (n + 1)
    OBVIOUS
  <2>2. \A i \in 1..(m - 1) : u[i] = s2[i]
    BY <1>1, <1>4
  <2>. QED BY <1>1, <1>4, <1>6, <1>7, <2>1, <2>2 DEF Cat
<1>. QED BY <1>0, <1>2, <1>3, <1>4, <1>6, <1>8

\* The first entry of t goes to the end of s.
LEMMA ShiftLeft ==
  ASSUME NEW S, NEW s \in Seq(S), NEW t \in Seq(S), NEW u \in Seq(S), Cat(u, s, t), Len(t) >= 1
  PROVE  /\ Append(s, t[1]) \in Seq(S) /\ Len(Append(s, t[1])) = Len(s) + 1
         /\ RemoveAt(t, 1) \in Seq(S) /\ Len(RemoveAt(t, 1)) = Len(t) - 1
         /\ Len(t) >= 2 => RemoveAt(t, 1)[1] = t[2]
         /\ Cat(u, Append(s, t[1]), RemoveAt(t, 1))
<1>0. PICK m \in Nat, n \in Nat : m = Len(s) /\ n = Len(t) /\ n >= 1
  OBVIOUS
<1>1. Len(u) = m + n /\ (\A i \in 1..m : u[i] = s[i]) /\ (\A i \in 1..n : u[m + i] = t[i])
  BY <1>0 DEF Cat
<1>2. PICK x \in S : x = t[1]
  BY <1>0
<1>3. PICK s2, t2 : s2 = Append(s, x) /\ t2 = RemoveAt(t, 1)
  OBVIOUS
<1>4. t2 \in Seq(S) /\ Len(t2) = n - 1 /\ \A i \in 1..(n - 1) : t2[i] = t[i + 1]
  <2>1. 1 \in 1..Len(t)
    BY ONLY <1>0, n \in Nat
  <2>2. RemoveAt(t, 1) \in Seq(S) /\ Shrunk(RemoveAt(t, 1), t, 1)
    BY <2>1, RemoveAtIs
  <2>. QED BY <1>0, <1>3, <2>2 DEF Shrunk
<1>5. s2 \in Seq(S) /\ Len(s2) = m + 1 /\ s2[m + 1] = x /\ \A i \in 1..m : s2[i] = s[i]
  BY <1>0, <1>2, <1>3
<1>6. ASSUME NEW i \in 1..(m + 1) PROVE u[i] = s2[i]
  <2>1. CASE i = m + 1
    BY <1>0, <1>1, <1>2, <1>5, <2>1
  <2>2. CASE i # m + 1
    <3>1. i \in 1..m
      BY <2>2
    <3>. QED BY <1>1, <1>5, <3>1
  <2>. QED BY <2>1, <2>2
<1>7. ASSUME NEW i \in 1..(n - 1) PROVE u[(m + 1) + i] = t2[i]
  <2>1. i + 1 \in 1..n /\ (m + 1) + i = m + (i + 1)
    OBVIOUS
  <2>. QED BY <1>1, <1>4, <2>1
<1>8. Cat(u, s2, t2)
  <2>1. m + n = (m + 1) + (n - 1)
    OBVIOUS
  <2>. QED BY <1>1, <1>4, <1>5, <1>6, <1>7, <2>1 DEF Cat
<1>9. n >= 2 => t2[1] = t[2]
  BY <1>4
<1>. QED BY <1>0, <1>2, <1>3, <1>4, <1>5, <1>8, <1>9

\* A sequence cut in two.
LEMMA CutIs ==
  ASSUME NEW S, NEW s \in Seq(S), NEW m \in 0..Len(s)
  PROVE  /\ SubSeq(s, 1, m) \in Seq(S) /\ Len(SubSeq(s, 1, m)) = m
         /\ SubSeq(s, m + 1, Len(s)) \in Seq(S)
         /\ Cat(s, SubSeq(s, 1, m), SubSeq(s, m + 1, Len(s)))
<1>0. PICK n \in Nat : n = Len(s) /\ m \in 0..n
  OBVIOUS
<1>1. PICK l, r : l = SubSeq(s, 1, m) /\ r = SubSeq(s, m + 1, n)
  OBVIOUS
<1>2. l \in Seq(S) /\ Len(l) = m /\ \A k \in 1..m : l[k] = s[k]
  BY <1>0, <1>1
<1>3. r \in Seq(S) /\ Len(r) = n - m /\ \A k \in 1..(n - m) : r[k] = s[m + k]
  BY <1>0, <1>1
<1>4. Cat(s, l, r)
  <2>1. n = m + (n - m)
    BY <1>0
  <2>. QED BY <1>0, <1>2, <1>3, <2>1 DEF Cat
<1>. QED BY <1>0, <1>1, <1>2, <1>3, <1>4

\* The entries of two leaves in a row.
LEMMA HoldsCat ==
  ASSUME NEW s \in Seq(Key), NEW t \in Seq(Key), NEW u \in Seq(Key), Cat(u, s, t),
         NEW sr \in Seq(Val), NEW tr \in Seq(Val), NEW ur \in Seq(Val), Cat(ur, sr, tr),
         Len(sr) = Len(s), Len(tr) = Len(t), NEW k, NEW v
  PROVE  Holds(u, ur, k, v) <=> Holds(s, sr, k, v) \/ Holds(t, tr, k, v)
<1>0. PICK m \in Nat, n \in Nat : m = Len(s) /\ n = Len(t) /\ Len(sr) = m /\ Len(tr) = n
  OBVIOUS
<1>1. Len(u) = m + n /\ (\A i \in 1..m : u[i] = s[i]) /\ (\A i \in 1..n : u[m + i] = t[i])
  BY <1>0 DEF Cat
<1>2. (\A i \in 1..m : ur[i] = sr[i]) /\ (\A i \in 1..n : ur[m + i] = tr[i])
  BY <1>0 DEF Cat
<1>3. ASSUME Holds(u, ur, k, v) PROVE Holds(s, sr, k, v) \/ Holds(t, tr, k, v)
  <2>1. PICK i \in 1..(m + n) : u[i] = k /\ ur[i] = v
    BY <1>1, <1>3 DEF Holds
  <2>2. CASE i <= m
    <3>1. i \in 1..m
      BY <2>2
    <3>. QED BY <1>0, <1>1, <1>2, <2>1, <3>1 DEF Holds
  <2>3. CASE i > m
    <3>1. PICK j \in 1..n : i = m + j
      <4>1. i - m \in 1..n /\ i = m + (i - m)
        BY <2>3
      <4>. QED BY <4>1
    <3>. QED BY <1>0, <1>1, <1>2, <2>1, <3>1 DEF Holds
  <2>. QED BY <2>2, <2>3
<1>4. ASSUME Holds(s, sr, k, v) PROVE Holds(u, ur, k, v)
  <2>1. PICK i \in 1..m : s[i] = k /\ sr[i] = v
    BY <1>0, <1>4 DEF Holds
  <2>2. i \in 1..(m + n)
    OBVIOUS
  <2>. QED BY <1>1, <1>2, <2>1, <2>2 DEF Holds
<1>5. ASSUME Holds(t, tr, k, v) PROVE Holds(u, ur, k, v)
  <2>1. PICK i \in 1..n : t[i] = k /\ tr[i] = v
    BY <1>0, <1>5 DEF Holds
  <2>2. m + i \in 1..(m + n)
    OBVIOUS
  <2>. QED BY <1>1, <1>2, <2>1, <2>2 DEF Holds
<1>. QED BY <1>3, <1>4, <1>5

\* An entry inserted into a leaf.
LEMMA HoldsInsert ==
  ASSUME NEW ks \in Seq(Key), NEW rs \in Seq(Val), Len(rs) = Len(ks), NEW i \in 1..(Len(ks) + 1),
         NEW x, NEW w, NEW t \in Seq(Key), Inserted(t, ks, i, x), NEW q \in Seq(Val),
         Inserted(q, rs, i, w), NEW k, NEW v
  PROVE  Holds(t, q, k, v) <=> (k = x /\ v = w) \/ Holds(ks, rs, k, v)
<1>0. PICK m \in Nat : m = Len(ks) /\ Len(rs) = m /\ i \in 1..(m + 1)
  OBVIOUS
<1>1. /\ Len(t) = m + 1 /\ t[i] = x
      /\ \A j \in 1..(i - 1) : t[j] = ks[j]
      /\ \A j \in (i + 1)..(m + 1) : t[j] = ks[j - 1]
  BY <1>0 DEF Inserted
<1>2. /\ q[i] = w
      /\ \A j \in 1..(i - 1) : q[j] = rs[j]
      /\ \A j \in (i + 1)..(m + 1) : q[j] = rs[j - 1]
  BY <1>0 DEF Inserted
<1>3. ASSUME Holds(t, q, k, v) PROVE (k = x /\ v = w) \/ Holds(ks, rs, k, v)
  <2>1. PICK j \in 1..(m + 1) : t[j] = k /\ q[j] = v
    BY <1>1, <1>3 DEF Holds
  <2>2. CASE j = i
    BY <1>1, <1>2, <2>1, <2>2
  <2>3. CASE j < i
    <3>1. j \in 1..(i - 1) /\ j \in 1..m
      BY ONLY <1>0, <2>3, j \in 1..(m + 1), m \in Nat
    <3>. QED BY <1>0, <1>1, <1>2, <2>1, <3>1 DEF Holds
  <2>4. CASE j > i
    <3>1. j \in (i + 1)..(m + 1) /\ j - 1 \in 1..m
      BY ONLY <1>0, <2>4, j \in 1..(m + 1), m \in Nat
    <3>. QED BY <1>0, <1>1, <1>2, <2>1, <3>1 DEF Holds
  <2>. QED BY <2>2, <2>3, <2>4
<1>4. ASSUME k = x, v = w PROVE Holds(t, q, k, v)
  BY <1>0, <1>1, <1>2, <1>4 DEF Holds
<1>5. ASSUME Holds(ks, rs, k, v) PROVE Holds(t, q, k, v)
  <2>1. PICK j \in 1..m : ks[j] = k /\ rs[j] = v
    BY <1>0, <1>5 DEF Holds
  <2>2. CASE j < i
    <3>1. j \in 1..(i - 1) /\ j \in 1..(m + 1)
      BY ONLY <1>0, <2>2, j \in 1..m, m \in Nat
    <3>. QED BY <1>1, <1>2, <2>1, <3>1 DEF Holds
  <2>3. CASE j >= i
    <3>1. j + 1 \in (i + 1)..(m + 1) /\ j + 1 \in 1..(m + 1) /\ (j + 1) - 1 = j
      BY ONLY <1>0, <2>3, j \in 1..m, m \in Nat
    <3>2. t[j + 1] = k /\ q[j + 1] = v
      BY <1>1, <1>2, <2>1, <3>1
    <3>. QED BY <1>1, <3>1, <3>2 DEF Holds
  <2>. QED BY <2>2, <2>3
<1>. QED BY <1>3, <1>4, <1>5

\* An entry removed from a leaf: it was the only one with its key.
LEMMA HoldsRemove ==
  ASSUME NEW ks \in Seq(Key), NEW rs \in Seq(Val), Len(rs) = Len(ks), Ascending(ks),
         NEW i \in 1..Len(ks), NEW t \in Seq(Key), Shrunk(t, ks, i), NEW q \in Seq(Val),
         Shrunk(q, rs, i), NEW k, NEW v
  PROVE  Holds(t, q, k, v) <=> k # ks[i] /\ Holds(ks, rs, k, v)
<1>0. PICK m \in Nat : m = Len(ks) /\ Len(rs) = m /\ i \in 1..m
  OBVIOUS
<1>1. /\ Len(t) = m - 1
      /\ \A j \in 1..(i - 1) : t[j] = ks[j]
      /\ \A j \in i..(m - 1) : t[j] = ks[j + 1]
  BY <1>0 DEF Shrunk
<1>2. /\ \A j \in 1..(i - 1) : q[j] = rs[j]
      /\ \A j \in i..(m - 1) : q[j] = rs[j + 1]
  BY <1>0 DEF Shrunk
<1>3. \A a, b \in 1..m : a # b => ks[a] # ks[b]
  <2>1. \A a \in 1..m : ks[a] \in Nat
    BY <1>0, KeyNat
  <2>2. \A a, b \in 1..m : a < b => ks[a] < ks[b]
    BY <1>0 DEF Ascending
  <2>3. \A a, b \in 1..m : a < b => ks[a] # ks[b]
    BY <2>1, <2>2
  <2>4. \A a, b \in 1..m : a # b => a < b \/ b < a
    OBVIOUS
  <2>. QED BY ONLY <2>3, <2>4
<1>4. ASSUME Holds(t, q, k, v) PROVE k # ks[i] /\ Holds(ks, rs, k, v)
  <2>1. PICK j \in 1..(m - 1) : t[j] = k /\ q[j] = v
    BY <1>1, <1>4 DEF Holds
  <2>2. CASE j < i
    <3>1. j \in 1..(i - 1) /\ j \in 1..m /\ j # i
      BY ONLY <1>0, <2>2, j \in 1..(m - 1), m \in Nat
    <3>2. ks[j] = k /\ rs[j] = v
      BY <1>1, <1>2, <2>1, <3>1
    <3>. QED BY <1>0, <1>3, <3>1, <3>2 DEF Holds
  <2>3. CASE j >= i
    <3>1. j \in i..(m - 1) /\ j + 1 \in 1..m /\ j + 1 # i
      BY ONLY <1>0, <2>3, j \in 1..(m - 1), m \in Nat
    <3>2. ks[j + 1] = k /\ rs[j + 1] = v
      BY <1>1, <1>2, <2>1, <3>1
    <3>. QED BY <1>0, <1>3, <3>1, <3>2 DEF Holds
  <2>. QED BY <2>2, <2>3
<1>5. ASSUME k # ks[i], Holds(ks, rs, k, v) PROVE Holds(t, q, k, v)
  <2>1. PICK j \in 1..m : ks[j] = k /\ rs[j] = v
    BY <1>0, <1>5 DEF Holds
  <2>2. j # i
    BY <1>5, <2>1
  <2>3. CASE j < i
    <3>1. j \in 1..(i - 1) /\ j \in 1..(m - 1)
      BY ONLY <1>0, <2>3, j \in 1..m, m \in Nat
    <3>. QED BY <1>1, <1>2, <2>1, <3>1 DEF Holds
  <2>4. CASE j > i
    <3>1. j - 1 \in i..(m - 1) /\ j - 1 \in 1..(m - 1) /\ (j - 1) + 1 = j
      BY ONLY <1>0, <2>4, j \in 1..m, m \in Nat
    <3>2. t[j - 1] = k /\ q[j - 1] = v
      BY <1>1, <1>2, <2>1, <3>1
    <3>. QED BY <1>1, <3>1, <3>2 DEF Holds
  <2>. QED BY <2>2, <2>3, <2>4
<1>. QED BY <1>4, <1>5

\* The record of a key overwritten.
LEMMA HoldsUpdate ==
  ASSUME NEW ks \in Seq(Key), NEW rs \in Seq(Val), Len(rs) = Len(ks), Ascending(ks),
         NEW i \in 1..Len(ks), NEW w, NEW q \in Seq(Val), Len(q) = Len(ks), q[i] = w,
         \A j \in 1..Len(ks) : j # i => q[j] = rs[j], NEW k, NEW v
  PROVE  Holds(ks, q, k, v) <=> (k = ks[i] /\ v = w) \/ (k # ks[i] /\ Holds(ks, rs, k, v))
<1>1. \A a, b \in 1..Len(ks) : a # b => ks[a] # ks[b]
  <2>1. \A a \in 1..Len(ks) : ks[a] \in Nat
    BY KeyNat
  <2>2. \A a, b \in 1..Len(ks) : a < b => ks[a] < ks[b]
    BY DEF Ascending
  <2>3. \A a, b \in 1..Len(ks) : a < b => ks[a] # ks[b]
    BY <2>1, <2>2
  <2>4. \A a, b \in 1..Len(ks) : a # b => a < b \/ b < a
    OBVIOUS
  <2>. QED BY ONLY <2>3, <2>4
<1>. QED BY <1>1 DEF Holds

-----------------------------------------------------------------------------
(***************************************************************************)
(* The order of the tree before and after an update of some of its nodes.  *)
(***************************************************************************)

\* Node m has the same contents in h and g, up to its parent pointer.
Alike(h, g, m) ==
    /\ g[m].keys = h[m].keys /\ g[m].kids = h[m].kids
    /\ g[m].recs = h[m].recs /\ g[m].link = h[m].link
    /\ g[m].is_leaf <=> h[m].is_leaf

\* The contents of a node, up to its parent pointer, are those of the record c.
Carries(g, m, c) ==
    /\ g[m].keys = c.keys /\ g[m].kids = c.kids
    /\ g[m].recs = c.recs /\ g[m].link = c.link
    /\ g[m].is_leaf <=> c.is_leaf

\* Adopt changes parent pointers only.
LEMMA AdoptAlike ==
  ASSUME NEW h \in [Node -> NodeRec], NEW g, NEW S, NEW q \in Node \cup {NULL}, g = Adopt(h, S, q)
  PROVE  g \in [Node -> NodeRec] /\ \A m \in Node : Alike(h, g, m)
<1>1. g \in [Node -> NodeRec]
  BY AdoptRehung DEF Rehung
<1>2. ASSUME NEW m \in Node PROVE Alike(h, g, m)
  <2>0. h[m] \in NodeRec
    OBVIOUS
  <2>1. CASE m \notin S
    BY <2>1 DEF Adopt, Alike
  <2>2. CASE m \in S
    <3>1. g[m] = [h[m] EXCEPT !.parent = q]
      BY <2>2 DEF Adopt
    <3>2. g[m].keys = h[m].keys /\ g[m].kids = h[m].kids /\ g[m].recs = h[m].recs
          /\ g[m].link = h[m].link
      BY <2>0, <3>1 DEF NodeRec
    <3>3. g[m].is_leaf <=> h[m].is_leaf
      BY Adopted
    <3>. QED BY <3>2, <3>3 DEF Alike
  <2>. QED BY <2>1, <2>2
<1>. QED BY <1>1, <1>2

\* What a step has to show of spans and separators: S are the nodes it has
\* rewritten or whose spans it has moved.
LEMMA SpansKept ==
  ASSUME NEW h \in [Node -> NodeRec], NEW g \in [Node -> NodeRec],
         NEW T \in SUBSET Node, NEW T2 \in SUBSET Node, NEW S,
         NEW lo, NEW hi, NEW seen, NEW lo2, NEW hi2, NEW seen2,
         Shaped(h, T), Spans(h, T, lo, hi), Routed(h, T, lo, hi, seen),
         \A n \in T2 \ S : n \in T /\ Alike(h, g, n) /\ lo2[n] = lo[n] /\ hi2[n] = hi[n],
         \A n \in T2 \ S : \A c \in Kids(h, n) : lo2[c] = lo[c] /\ seen2[c] = seen[c],
         \A n \in T2 \cap S : InSpan(g[n].is_leaf, g[n].keys, lo2[n], hi2[n]),
         \A n \in T2 \cap S :
            g[n].is_leaf \/ Routes(g[n].keys, g[n].kids, lo2[n], hi2[n], lo2, seen2)
  PROVE  Spans(g, T2, lo2, hi2) /\ Routed(g, T2, lo2, hi2, seen2)
<1>1. ASSUME NEW n \in T2 PROVE InSpan(g[n].is_leaf, g[n].keys, lo2[n], hi2[n])
  <2>1. CASE n \in S
    BY <2>1
  <2>2. CASE n \notin S
    <3>1. n \in T /\ Alike(h, g, n) /\ lo2[n] = lo[n] /\ hi2[n] = hi[n]
      BY <2>2
    <3>2. InSpan(h[n].is_leaf, h[n].keys, lo[n], hi[n])
      BY <3>1 DEF Spans
    <3>. QED BY <3>1, <3>2 DEF InSpan, Alike
  <2>. QED BY <2>1, <2>2
<1>2. ASSUME NEW n \in T2, ~g[n].is_leaf
      PROVE  Routes(g[n].keys, g[n].kids, lo2[n], hi2[n], lo2, seen2)
  <2>1. CASE n \in S
    BY <1>2, <2>1
  <2>2. CASE n \notin S
    <3>1. n \in T /\ Alike(h, g, n) /\ lo2[n] = lo[n] /\ hi2[n] = hi[n]
      BY <2>2
    <3>2. /\ ~h[n].is_leaf /\ g[n].keys = h[n].keys /\ g[n].kids = h[n].kids
      BY <1>2, <3>1 DEF Alike
    <3>3. Routes(h[n].keys, h[n].kids, lo[n], hi[n], lo, seen)
      BY <3>1, <3>2 DEF Routed
    <3>4. h[n].keys \in Seq(Key) /\ h[n].kids \in Seq(Node) /\ Len(h[n].kids) = Len(h[n].keys) + 1
      BY <3>1, <3>2 DEF NodeRec, Shaped, ShapedNode
    <3>5. \A c \in Range(h[n].kids) : lo2[c] = lo[c] /\ seen2[c] = seen[c]
      BY <2>2 DEF Kids
    <3>6. Routes(h[n].keys, h[n].kids, lo[n], hi[n], lo2, seen2)
      BY <3>3, <3>4, <3>5, RoutesSame
    <3>. QED BY <3>1, <3>2, <3>6
  <2>. QED BY <2>1, <2>2
<1>3. Spans(g, T2, lo2, hi2)
  BY <1>1 DEF Spans
<1>4. Routed(g, T2, lo2, hi2, seen2)
  BY <1>2 DEF Routed
<1>. QED BY <1>3, <1>4

\* The leaves of g, T2 are those of h, T.
SameLeaves(h, T, g, T2) ==
    /\ \A n \in T : h[n].is_leaf => n \in T2 /\ Alike(h, g, n)
    /\ \A n \in T2 : g[n].is_leaf => n \in T /\ Alike(h, g, n)

\* g, T2 has the entries of h, T.
SameEntries(h, T, g, T2) == \A k, v : Has(g, T2, k, v) <=> Has(h, T, k, v)

\* The leaves have the spans they had.
SameSpans(h, T, lo, hi, lo2, hi2) ==
    \A n \in T : h[n].is_leaf => lo2[n] = lo[n] /\ hi2[n] = hi[n]

\* An update of internal nodes does not concern the chain and the entries.
LEMMA LeavesKept ==
  ASSUME NEW h, NEW T, NEW g, NEW T2, SameLeaves(h, T, g, T2),
         NEW lo, NEW hi, NEW lo2, NEW hi2, Apart(h, T, lo, hi), Chained(h, T, lo, hi),
         SameSpans(h, T, lo, hi, lo2, hi2)
  PROVE  Apart(g, T2, lo2, hi2) /\ Chained(g, T2, lo2, hi2) /\ SameEntries(h, T, g, T2)
<1>1. \A n \in T2 : g[n].is_leaf => n \in T /\ h[n].is_leaf /\ lo2[n] = lo[n] /\ hi2[n] = hi[n]
                                   /\ g[n].link = h[n].link
                                   /\ g[n].keys = h[n].keys /\ g[n].recs = h[n].recs
  BY DEF SameLeaves, Alike, SameSpans
<1>2. \A n \in T : h[n].is_leaf => n \in T2 /\ g[n].is_leaf /\ lo2[n] = lo[n]
  BY DEF SameLeaves, Alike, SameSpans
<1>3. Apart(g, T2, lo2, hi2)
  BY <1>1 DEF Apart
<1>4. Chained(g, T2, lo2, hi2)
  BY <1>1, <1>2 DEF Chained
<1>5. SameEntries(h, T, g, T2)
  BY <1>1, <1>2 DEF SameEntries, Has
<1>. QED BY <1>3, <1>4, <1>5

\* A span is not empty.
LEMMA SpanBelow ==
  ASSUME NEW h, NEW T, NEW lo, NEW hi, Spans(h, T, lo, hi)
  PROVE  \A n \in T : Below(lo[n], hi[n])
BY DEF Spans, InSpan

\* A leaf whose span begins where that of l ends is the one l leads to, and no
\* other leaf leads there.
LEMMA Adjacent ==
  ASSUME NEW h, NEW T \in SUBSET Node, NEW lo \in [Node -> Nat], NEW hi \in [Node -> Bound],
         \A n \in T : Below(lo[n], hi[n]), Apart(h, T, lo, hi), Chained(h, T, lo, hi),
         NEW l \in T, NEW r \in T, h[l].is_leaf, h[r].is_leaf, hi[l] = lo[r]
  PROVE  /\ h[l].link = r
         /\ \A n \in T : h[n].is_leaf /\ h[n].link = r => n = l
         /\ h[r].link # r
<1>1. lo[l] \in Nat /\ lo[r] \in Nat /\ hi[r] \in Bound /\ hi[l] # Inf
  BY DEF Inf
<1>2. h[l].link \in T /\ h[h[l].link].is_leaf /\ lo[h[l].link] = lo[r]
  BY <1>1 DEF Chained
<1>3. ASSUME NEW m \in T, NEW n \in T, h[m].is_leaf, h[n].is_leaf, m # n
      PROVE  lo[m] # lo[n] /\ (hi[m] # Inf => hi[m] # hi[n])
  <2>1. Before(hi[m], lo[n]) \/ Before(hi[n], lo[m])
    BY <1>3 DEF Apart
  <2>2. Below(lo[m], hi[m]) /\ Below(lo[n], hi[n])
    OBVIOUS
  <2>3. lo[m] \in Nat /\ lo[n] \in Nat /\ hi[m] \in Bound /\ hi[n] \in Bound
    OBVIOUS
  <2>. QED BY ONLY <2>1, <2>2, <2>3 DEF Before, Below, Bound, Inf
<1>4. h[l].link = r
  BY <1>2, <1>3
<1>5. ASSUME NEW n \in T, h[n].is_leaf, h[n].link = r PROVE n = l
  <2>1. hi[n] = lo[r] \/ (r = NULL /\ hi[n] = Inf)
    BY <1>5 DEF Chained
  <2>2. r # NULL
    BY NullAssumption
  <2>. QED BY <1>1, <1>3, <1>5, <2>1, <2>2
<1>6. h[r].link # r
  <2>1. SUFFICES ASSUME h[r].link = r PROVE FALSE
    OBVIOUS
  <2>2. r # NULL
    BY NullAssumption
  <2>3. hi[r] = lo[r]
    BY <2>1, <2>2 DEF Chained
  <2>4. Below(lo[r], hi[r])
    OBVIOUS
  <2>. QED BY ONLY <1>1, <2>3, <2>4 DEF Below, Inf
<1>. QED BY <1>4, <1>5, <1>6

\* The new leaf r follows leaf l in the chain.
LinkedIn(h, g, T, l, r) ==
    /\ \A n \in T : g[n].is_leaf <=> h[n].is_leaf
    /\ \A n \in T \ {l} : g[n].link = h[n].link
    /\ g[r].is_leaf /\ g[l].link = r /\ g[r].link = h[l].link

\* The span of l is divided at x between l and the new node r.
Halves(lo, hi, l, r, x, lo2, hi2) ==
    /\ lo2 = [lo EXCEPT ![r] = x]
    /\ hi2 = [hi EXCEPT ![l] = x, ![r] = hi[l]]

\* A leaf l is split at x: r has the upper part of its span.
LEMMA SplitChain ==
  ASSUME NEW h, NEW g, NEW T \in SUBSET Node, NEW l \in T, NEW r \in Node \ T,
         NEW lo \in [Node -> Nat], NEW hi \in [Node -> Bound], NEW x \in Nat,
         Spans(h, T, lo, hi), Apart(h, T, lo, hi), Chained(h, T, lo, hi),
         h[l].is_leaf, lo[l] < x, Below(x, hi[l]), LinkedIn(h, g, T, l, r),
         NEW lo2, NEW hi2, Halves(lo, hi, l, r, x, lo2, hi2)
  PROVE  Apart(g, T \cup {r}, lo2, hi2) /\ Chained(g, T \cup {r}, lo2, hi2)
<1> USE DEF LinkedIn, Halves
<1>0. \A n \in T : Below(lo[n], hi[n])
  BY SpanBelow
<1>1. /\ lo2[r] = x /\ hi2[l] = x /\ hi2[r] = hi[l] /\ r # l
      /\ \A n \in T : lo2[n] = lo[n]
      /\ \A n \in T \ {l} : hi2[n] = hi[n]
  OBVIOUS
<1>2. /\ \A n \in T : lo[n] \in Nat /\ hi[n] \in Bound /\ Below(lo[n], hi[n])
  BY <1>0
<1>3. ASSUME NEW m \in T, NEW n \in T, g[m].is_leaf, g[n].is_leaf, m # n
      PROVE  Before(hi2[m], lo2[n]) \/ Before(hi2[n], lo2[m])
  <2>1. Before(hi[m], lo[n]) \/ Before(hi[n], lo[m])
    BY <1>3 DEF Apart
  <2>2. ASSUME NEW a \in T, Before(hi[a], lo[m]) \/ Before(hi[a], lo[n])
        PROVE  (Before(hi[a], lo[m]) => Before(hi2[a], lo[m])) /\ (Before(hi[a], lo[n]) => Before(hi2[a], lo[n]))
    <3>1. CASE a = l
      BY <1>1, <1>2, <3>1 DEF Before, Below, Bound, Inf
    <3>2. CASE a # l
      BY <1>1, <3>2
    <3>. QED BY <3>1, <3>2
  <2>. QED BY <1>1, <2>1, <2>2
<1>4. ASSUME NEW n \in T, g[n].is_leaf
      PROVE  Before(hi2[n], lo2[r]) \/ Before(hi2[r], lo2[n])
  <2>1. CASE n = l
    BY <1>1, <2>1 DEF Before, Inf
  <2>2. CASE n # l
    <3>1. Before(hi[n], lo[l]) \/ Before(hi[l], lo[n])
      BY <1>4, <2>2 DEF Apart
    <3>2. lo[l] \in Nat /\ hi[n] \in Bound /\ lo[n] \in Nat
      OBVIOUS
    <3>3. Before(hi[n], x) \/ Before(hi[l], lo[n])
      BY ONLY <3>1, <3>2, lo[l] < x, x \in Nat DEF Before, Bound, Inf
    <3>. QED BY <1>1, <2>2, <3>3
  <2>. QED BY <2>1, <2>2
<1>5. Apart(g, T \cup {r}, lo2, hi2)
  BY <1>3, <1>4 DEF Apart
<1>6. ASSUME NEW n \in T \cup {r}, g[n].is_leaf
      PROVE  IF g[n].link = NULL THEN hi2[n] = Inf
             ELSE g[n].link \in T \cup {r} /\ g[g[n].link].is_leaf /\ hi2[n] = lo2[g[n].link]
  <2>0. r # NULL
    BY NullAssumption
  <2>1. CASE n = l
    BY <1>1, <2>0, <2>1
  <2>2. CASE n = r
    <3>1. IF h[l].link = NULL THEN hi[l] = Inf
          ELSE h[l].link \in T /\ h[h[l].link].is_leaf /\ hi[l] = lo[h[l].link]
      BY DEF Chained
    <3>. QED BY <1>1, <2>2, <3>1
  <2>3. CASE n # l /\ n # r
    <3>1. IF h[n].link = NULL THEN hi[n] = Inf
          ELSE h[n].link \in T /\ h[h[n].link].is_leaf /\ hi[n] = lo[h[n].link]
      BY <1>6, <2>3 DEF Chained
    <3>. QED BY <1>1, <2>3, <3>1
  <2>. QED BY <2>1, <2>2, <2>3
<1>7. Chained(g, T \cup {r}, lo2, hi2)
  BY <1>6 DEF Chained
<1>. QED BY <1>5, <1>7

\* l takes the span of r, which leaves the tree.
LEMMA MergeChain ==
  ASSUME NEW h, NEW g, NEW T \in SUBSET Node, NEW l \in T, NEW r \in T, l # r,
         NEW lo \in [Node -> Nat], NEW hi \in [Node -> Bound],
         \A n \in T : Below(lo[n], hi[n]), Apart(h, T, lo, hi), Chained(h, T, lo, hi),
         h[l].is_leaf, h[r].is_leaf, hi[l] = lo[r],
         \A n \in T : g[n].is_leaf <=> h[n].is_leaf,
         \A n \in T \ {l} : g[n].link = h[n].link, g[l].link = h[r].link,
         NEW hi2, hi2 = [hi EXCEPT ![l] = hi[r]]
  PROVE  Apart(g, T \ {r}, lo, hi2) /\ Chained(g, T \ {r}, lo, hi2)
<1>1. hi2[l] = hi[r] /\ \A n \in T \ {l} : hi2[n] = hi[n]
  OBVIOUS
<1>2. /\ h[l].link = r
      /\ \A n \in T : h[n].is_leaf /\ h[n].link = r => n = l
      /\ h[r].link # r
  BY Adjacent
<1>3. ASSUME NEW n \in T \ {r}, g[n].is_leaf, n # l
      PROVE  Before(hi2[n], lo[l]) \/ Before(hi2[l], lo[n])
  <2>1. Before(hi[n], lo[l]) \/ Before(hi[l], lo[n])
    BY <1>3 DEF Apart
  <2>2. Before(hi[n], lo[r]) \/ Before(hi[r], lo[n])
    BY <1>3 DEF Apart
  <2>3. Below(lo[n], hi[n]) /\ lo[l] \in Nat /\ lo[r] \in Nat /\ lo[n] \in Nat /\ hi[n] \in Bound
    OBVIOUS
  <2>4. Before(hi[n], lo[l]) \/ Before(hi[r], lo[n])
    BY ONLY <2>1, <2>2, <2>3, hi[l] = lo[r] DEF Before, Below, Bound, Inf
  <2>. QED BY <1>1, <1>3, <2>4
<1>4. Apart(g, T \ {r}, lo, hi2)
  <2> SUFFICES ASSUME NEW m \in T \ {r}, NEW n \in T \ {r}, g[m].is_leaf, g[n].is_leaf, m # n
               PROVE  Before(hi2[m], lo[n]) \/ Before(hi2[n], lo[m])
    BY DEF Apart
  <2>1. CASE m = l \/ n = l
    BY <1>3, <2>1
  <2>2. CASE m # l /\ n # l
    BY <1>1, <2>2 DEF Apart
  <2>. QED BY <2>1, <2>2
<1>5. ASSUME NEW n \in T \ {r}, g[n].is_leaf
      PROVE  IF g[n].link = NULL THEN hi2[n] = Inf
             ELSE g[n].link \in T \ {r} /\ g[g[n].link].is_leaf /\ hi2[n] = lo[g[n].link]
  <2>1. CASE n = l
    <3>1. IF h[r].link = NULL THEN hi[r] = Inf
          ELSE h[r].link \in T /\ h[h[r].link].is_leaf /\ hi[r] = lo[h[r].link]
      BY DEF Chained
    <3>. QED BY <1>1, <1>2, <2>1, <3>1
  <2>2. CASE n # l
    <3>1. IF h[n].link = NULL THEN hi[n] = Inf
          ELSE h[n].link \in T /\ h[h[n].link].is_leaf /\ hi[n] = lo[h[n].link]
      BY <1>5 DEF Chained
    <3>. QED BY <1>1, <1>2, <1>5, <2>2, <3>1
  <2>. QED BY <2>1, <2>2
<1>6. Chained(g, T \ {r}, lo, hi2)
  BY <1>5 DEF Chained
<1>. QED BY <1>4, <1>6

\* The border between the leaves l and r moves to x.
LEMMA ShiftChain ==
  ASSUME NEW h, NEW g, NEW T \in SUBSET Node, NEW l \in T, NEW r \in T, l # r,
         NEW lo \in [Node -> Nat], NEW hi \in [Node -> Bound], NEW x \in Nat,
         \A n \in T : Below(lo[n], hi[n]), Apart(h, T, lo, hi), Chained(h, T, lo, hi),
         h[l].is_leaf, h[r].is_leaf, hi[l] = lo[r], lo[l] < x, Below(x, hi[r]),
         \A n \in T : g[n].is_leaf <=> h[n].is_leaf,
         \A n \in T : g[n].link = h[n].link,
         NEW lo2, lo2 = [lo EXCEPT ![r] = x], NEW hi2, hi2 = [hi EXCEPT ![l] = x]
  PROVE  Apart(g, T, lo2, hi2) /\ Chained(g, T, lo2, hi2)
<1>1. /\ hi2[l] = x /\ lo2[r] = x /\ lo2[l] = lo[l] /\ hi2[r] = hi[r]
      /\ \A n \in T \ {l} : hi2[n] = hi[n]
      /\ \A n \in T \ {r} : lo2[n] = lo[n]
  OBVIOUS
<1>2. /\ h[l].link = r
      /\ \A n \in T : h[n].is_leaf /\ h[n].link = r => n = l
      /\ h[r].link # r
  BY Adjacent
<1>3. ASSUME NEW n \in T, g[n].is_leaf, n # l, n # r
      PROVE  /\ Before(hi[n], lo[l]) \/ Before(x, lo[n])
             /\ Before(hi[n], x) \/ Before(hi[r], lo[n])
  <2>1. Before(hi[n], lo[l]) \/ Before(hi[l], lo[n])
    BY <1>3 DEF Apart
  <2>2. Before(hi[n], lo[r]) \/ Before(hi[r], lo[n])
    BY <1>3 DEF Apart
  <2>3. /\ Below(lo[n], hi[n]) /\ lo[l] \in Nat /\ lo[r] \in Nat /\ lo[n] \in Nat
        /\ hi[n] \in Bound /\ hi[r] \in Bound
    OBVIOUS
  <2>. QED BY ONLY <2>1, <2>2, <2>3, hi[l] = lo[r], lo[l] < x, Below(x, hi[r]), x \in Nat
           DEF Before, Below, Bound, Inf
<1>4. ASSUME NEW m \in T, NEW n \in T, g[m].is_leaf, g[n].is_leaf, m # n,
             m = l \/ m = r \/ (n # l /\ n # r)
      PROVE  Before(hi2[m], lo2[n]) \/ Before(hi2[n], lo2[m])
  <2>1. CASE {m, n} = {l, r}
    <3>1. Before(x, x)
      BY DEF Before, Inf
    <3>. QED BY <1>1, <1>4, <2>1, <3>1
  <2>2. CASE m = l /\ n # r
    BY <1>1, <1>3, <1>4, <2>2
  <2>3. CASE m = r /\ n # l
    BY <1>1, <1>3, <1>4, <2>3
  <2>4. CASE m # l /\ m # r /\ n # l /\ n # r
    BY <1>1, <1>4, <2>4 DEF Apart
  <2>. QED BY <1>4, <2>1, <2>2, <2>3, <2>4
<1>5. Apart(g, T, lo2, hi2)
  <2> SUFFICES ASSUME NEW m \in T, NEW n \in T, g[m].is_leaf, g[n].is_leaf, m # n
               PROVE  Before(hi2[m], lo2[n]) \/ Before(hi2[n], lo2[m])
    BY DEF Apart
  <2>1. CASE m = l \/ m = r \/ (n # l /\ n # r)
    BY <1>4, <2>1
  <2>2. CASE n = l \/ n = r
    BY <1>4, <2>2
  <2>. QED BY <2>1, <2>2
<1>6. ASSUME NEW n \in T, g[n].is_leaf
      PROVE  IF g[n].link = NULL THEN hi2[n] = Inf
             ELSE g[n].link \in T /\ g[g[n].link].is_leaf /\ hi2[n] = lo2[g[n].link]
  <2>0. r # NULL
    BY NullAssumption
  <2>1. CASE n = l
    BY <1>1, <1>2, <2>0, <2>1
  <2>2. CASE n # l
    <3>1. IF h[n].link = NULL THEN hi[n] = Inf
          ELSE h[n].link \in T /\ h[h[n].link].is_leaf /\ hi[n] = lo[h[n].link]
      BY <1>6 DEF Chained
    <3>. QED BY <1>1, <1>2, <1>6, <2>2, <3>1
  <2>. QED BY <2>1, <2>2
<1>7. Chained(g, T, lo2, hi2)
  BY <1>6 DEF Chained
<1>. QED BY <1>5, <1>7
=============================================================================

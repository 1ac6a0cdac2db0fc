--------------------------- MODULE ResultsProofs ----------------------------
(***************************************************************************)
(* The figures for files of any length: what parse_throughput.py and       *)
(* parse_oom_experiment.py have printed after every line (figures 4 and 8),*)
(* and what parse_local_remote.py adds up (figures 3b and 6b).             *)
(***************************************************************************)
EXTENDS Results, FiniteSetTheorems, TLAPS

Line == [t : Nat, v : Nat]

\* The lines of a file are numbered from 1 without gaps.
Numbered(f) == f \in Seq(Line) /\ \A k \in 1..Len(f) : f[k].t = k

\* The files of the benchmark and of the collector are.
LEMMA GridNumbered ==
  ASSUME NEW p \in {"throughput", "oom"}, NEW f \in Files(p)
  PROVE  Numbered(f)
<1>0. MaxLines \in Nat /\ Values \subseteq Nat
  BY ResultsAssumption
<1>1. PICK n \in 0..MaxLines : \E s \in Samples(n) : f = Grid(s)
  BY DEF Files
<1>a. PICK s \in Samples(n) : f = Grid(s)
  BY <1>1
<1>2. n \in Nat /\ s \in [1..n -> Nat]
  <2>1. n \in Nat
    BY <1>0
  <2>2. s \in [1..n -> Values]
    BY DEF Samples
  <2>. QED BY <1>0, <2>1, <2>2
<1>3. f = [k \in 1..n |-> [t |-> k, v |-> s[k]]]
  BY <1>a, <1>2 DEF Grid
<1>4. \A k \in 1..n : f[k] = [t |-> k, v |-> s[k]] /\ f[k] \in Line
  BY <1>2, <1>3 DEF Line
<1>5. f \in Seq(Line) /\ Len(f) = n
  BY <1>2, <1>3, <1>4
<1>. QED BY <1>4, <1>5 DEF Numbered

-----------------------------------------------------------------------------
(***************************************************************************)
(* parse_throughput.py: the rows printed are those of the lines read, each *)
(* beside the sample of the same number.                                   *)
(***************************************************************************)
\* d is VM2's samples by time.
TimesOf(d, f) ==
    /\ DOMAIN d = {45 * k : k \in 1..Len(f)}
    /\ \A k \in 1..Len(f) : d[45 * k] = f[k].v

Row(k) == <<45 * k, a[k].v, b[k].v>>

JoinInv ==
    prog = "throughput" =>
        /\ Numbered(a) /\ Numbered(b)
        /\ pc \in {"load", "loop", "done", "error"}
        /\ pc = "load" => out = <<>> /\ i = 0
        /\ pc \in {"loop", "done"} =>
              /\ TimesOf(dict, b)
              /\ i \in 0..Len(a) /\ i <= Len(b)
              /\ out = [k \in 1..i |-> Row(k)]
        /\ pc = "done" => i = Len(a)
        /\ pc = "error" => out = <<>> /\ Len(a) > Len(b)

\* The dictionary is what it should be.
LEMMA TimesLoaded ==
  ASSUME NEW f, Numbered(f), NEW d,
         d = [t \in {f[k].t * 45 : k \in DOMAIN f} |->
                (CHOOSE l \in {f[k] : k \in DOMAIN f} : l.t * 45 = t).v]
  PROVE  TimesOf(d, f)
<1>1. /\ f \in Seq(Line) /\ DOMAIN f = 1..Len(f) /\ Len(f) \in Nat
      /\ \A k \in 1..Len(f) : f[k].t = k /\ f[k] \in Line
  BY DEF Numbered
<1>2. DOMAIN d = {45 * k : k \in 1..Len(f)}
  BY <1>1
<1>3. ASSUME NEW k \in 1..Len(f) PROVE d[45 * k] = f[k].v
  <2>1. 45 * k \in DOMAIN d
    BY <1>2
  <2>2. d[45 * k] = (CHOOSE l \in {f[j] : j \in DOMAIN f} : l.t * 45 = 45 * k).v
    BY <1>2, <2>1
  <2>3. \E l \in {f[j] : j \in DOMAIN f} : l.t * 45 = 45 * k
    <3>1. f[k] \in {f[j] : j \in DOMAIN f}
      BY <1>1
    <3>2. f[k].t * 45 = 45 * k
      BY <1>1
    <3>. QED BY <3>1, <3>2
  <2>4. \A l \in {f[j] : j \in DOMAIN f} : l.t * 45 = 45 * k => l = f[k]
    <3>1. ASSUME NEW j \in 1..Len(f), f[j].t * 45 = 45 * k PROVE j = k
      BY <1>1, <3>1
    <3>. QED BY <1>1, <3>1
  <2>. QED BY <2>2, <2>3, <2>4
<1>. QED BY <1>2, <1>3 DEF TimesOf

\* A row more.
LEMMA RowAppended ==
  ASSUME NEW r, NEW n \in Nat, r = [k \in 1..n |-> Row(k)]
  PROVE  Append(r, Row(n + 1)) = [k \in 1..(n + 1) |-> Row(k)]
<1>1. r \in Seq({Row(k) : k \in 1..n}) /\ Len(r) = n
  OBVIOUS
<1>. QED BY <1>1

\* Nothing is read or printed before the first line.
LEMMA JoinInit ==
  ASSUME Init
  PROVE  JoinInv
<1> SUFFICES ASSUME prog = "throughput"
             PROVE  Numbered(a) /\ Numbered(b) /\ pc = "load" /\ out = <<>> /\ i = 0
  BY DEF JoinInv
<1>1. a \in Files("throughput") /\ b \in Files("throughput")
  BY DEF Init
<1>. QED BY <1>1, GridNumbered DEF Init

\* A line of VM1 prints its row when VM2 has the sample, and breaks off when it has
\* not, which is the line after VM2's last.
LEMMA JoinNext ==
  ASSUME JoinInv, [Next]_vars
  PROVE  JoinInv'
<1> SUFFICES ASSUME prog' = "throughput" PROVE JoinInv'
  BY DEF JoinInv
<1>1. prog' = prog /\ a' = a /\ b' = b
  BY Zenon DEF Next, vars, inputs, load_throughput, join, load_oom, line, load_counts, write_csv, percentages,
         print, rest
<1>2. /\ prog = "throughput" /\ Numbered(a) /\ Numbered(b) /\ Len(a) \in Nat /\ Len(b) \in Nat
      /\ pc \in {"load", "loop", "done", "error"}
  BY <1>1 DEF JoinInv, Numbered
<1>3. CASE load_throughput
  <2>1. /\ pc = "load" /\ pc' = "loop" /\ out' = <<>> /\ i' = 0
    BY <1>2, <1>3 DEF load_throughput, JoinInv
  <2>2. TimesOf(dict', b)
    BY <1>2, <1>3, TimesLoaded DEF load_throughput
  <2>3. out' = [k \in 1..0 |-> Row(k)]
    BY <2>1
  <2>. QED BY <1>1, <1>2, <2>1, <2>2, <2>3 DEF JoinInv, Row
<1>4. CASE join
  <2>1. /\ pc = "loop" /\ i < Len(a) /\ dict' = dict /\ TimesOf(dict, b) /\ i \in 0..Len(a) /\ i <= Len(b)
        /\ out = [k \in 1..i |-> Row(k)]
    BY <1>2, <1>4 DEF join, JoinInv
  <2>2. i + 1 \in 1..Len(a) /\ a[i + 1].t = i + 1
    BY <1>2, <2>1 DEF Numbered
  <2>3. a[i + 1].t * 45 = 45 * (i + 1)
    BY <2>1, <2>2
  <2>4. CASE i + 1 <= Len(b)
    <3>1. 45 * (i + 1) \in DOMAIN dict /\ dict[45 * (i + 1)] = b[i + 1].v
      BY <1>2, <2>1, <2>4 DEF TimesOf
    <3>2. out' = Append(out, Row(i + 1)) /\ i' = i + 1 /\ pc' = "loop"
      BY <1>4, <2>1, <2>3, <3>1 DEF join, Row
    <3>3. out' = [k \in 1..(i + 1) |-> Row(k)]
      BY <2>1, <3>2, RowAppended
    <3>4. i' \in 0..Len(a) /\ i' <= Len(b)
      BY <2>2, <2>4, <3>2
    <3>. QED BY <1>1, <1>2, <2>1, <3>2, <3>3, <3>4 DEF JoinInv, Row
  <2>5. CASE i + 1 > Len(b)
    <3>1. 45 * (i + 1) \notin DOMAIN dict
      BY <1>2, <2>1, <2>5 DEF TimesOf
    <3>2. out' = <<>> /\ pc' = "error"
      BY <1>4, <2>3, <3>1 DEF join
    <3>. QED BY <1>1, <1>2, <2>1, <2>5, <3>2 DEF JoinInv
  <2>. QED BY <1>2, <2>1, <2>4, <2>5
<1>5. CASE print
  <2>1. /\ pc = "loop" /\ pc' = "done" /\ i = Len(a) /\ dict' = dict /\ i' = i /\ out' = out
    BY <1>2, <1>5 DEF print
  <2>. QED BY <1>1, <1>2, <2>1 DEF JoinInv, Row
<1>6. CASE UNCHANGED vars
  BY <1>1, <1>2, <1>6 DEF JoinInv, Row, vars
<1>7. ~load_oom /\ ~line /\ ~load_counts /\ ~write_csv /\ ~percentages
  BY <1>2 DEF load_oom, line, load_counts, write_csv, percentages
<1>. QED BY <1>3, <1>4, <1>5, <1>6, <1>7 DEF Next, rest

\* Figure 4 has a row for every sample of VM1, beside VM2's sample of the same
\* number, or nothing at all: it fails exactly when VM2 has fewer samples.
THEOREM FigureFour == Spec => []ThroughputJoined
<1>1. JoinInv => ThroughputJoined
  <2> SUFFICES ASSUME JoinInv, prog = "throughput"
               PROVE  /\ pc = "error" => out = <<>> /\ Len(a) > Len(b)
                      /\ pc = "done" =>
                            /\ Len(a) <= Len(b)
                            /\ out = [k \in DOMAIN a |-> <<45 * k, a[k].v, b[k].v>>]
    BY DEF ThroughputJoined
  <2>1. DOMAIN a = 1..Len(a)
    BY DEF JoinInv, Numbered
  <2>. QED BY <2>1 DEF JoinInv, Row
<1>2. Init => JoinInv
  BY JoinInit
<1>3. JoinInv /\ [Next]_vars => JoinInv'
  BY JoinNext
<1>. QED BY <1>1, <1>2, <1>3, PTL DEF Spec

-----------------------------------------------------------------------------
(***************************************************************************)
(* parse_oom_experiment.py: after i lines the flag tells whether there was *)
(* a jump among them, and the rows printed stay what they are.             *)
(***************************************************************************)
\* d is KSM's readings by time.
ReadingsOf(d, f) ==
    /\ DOMAIN d = 1..Len(f)
    /\ \A k \in 1..Len(f) : d[k] = f[k].v

\* KSM's free memory at line k, as the program sees it.
Free(k) == IF k <= Len(a) THEN a[k].v ELSE Missing

Printed(k) == <<k, IF Killed(k) THEN Oom ELSE Free(k), b[k].v>>

OomInv ==
    prog = "oom" =>
        /\ Numbered(a) /\ Numbered(b)
        /\ pc \in {"load", "loop", "done", "error"}
        /\ i \in 0..Len(b) /\ oom \in BOOLEAN
        /\ out = [k \in 1..i |-> Printed(k)]
        /\ oom <=> Killed(i)
        /\ pc = "load" => i = 0
        /\ pc = "loop" => ReadingsOf(dict, a) /\ (~oom /\ i > 0 => prev = Free(i))
        /\ pc = "done" => i = Len(b)
        /\ pc = "error" => i >= Len(a) /\ i < Len(b) /\ ~oom

\* The dictionary is what it should be.
LEMMA ReadingsLoaded ==
  ASSUME NEW f, Numbered(f), NEW d,
         d = [t \in {f[k].t : k \in DOMAIN f} |->
                (CHOOSE l \in {f[k] : k \in DOMAIN f} : l.t = t).v]
  PROVE  ReadingsOf(d, f)
<1>1. /\ f \in Seq(Line) /\ DOMAIN f = 1..Len(f) /\ Len(f) \in Nat
      /\ \A k \in 1..Len(f) : f[k].t = k /\ f[k] \in Line
  BY DEF Numbered
<1>2. DOMAIN d = 1..Len(f)
  BY <1>1
<1>3. ASSUME NEW k \in 1..Len(f) PROVE d[k] = f[k].v
  <2>1. d[k] = (CHOOSE l \in {f[j] : j \in DOMAIN f} : l.t = k).v
    BY <1>2
  <2>2. \E l \in {f[j] : j \in DOMAIN f} : l.t = k
    BY <1>1
  <2>3. \A l \in {f[j] : j \in DOMAIN f} : l.t = k => l = f[k]
    BY <1>1
  <2>. QED BY <2>1, <2>2, <2>3
<1>. QED BY <1>2, <1>3 DEF ReadingsOf

\* A row more.
LEMMA PrintedAppended ==
  ASSUME NEW r, NEW n \in Nat, r = [k \in 1..n |-> Printed(k)]
  PROVE  Append(r, Printed(n + 1)) = [k \in 1..(n + 1) |-> Printed(k)]
<1>1. r \in Seq({Printed(k) : k \in 1..n}) /\ Len(r) = n
  OBVIOUS
<1>. QED BY <1>1

\* A line more has a jump when it is one or when there was one.
LEMMA KilledNext ==
  ASSUME Numbered(a), NEW n \in Nat
  PROVE  Killed(n + 1) <=> \/ Killed(n)
                           \/ n >= 1 /\ n + 1 <= Len(a) /\ Jump < a[n + 1].v - a[n].v
<1>1. ASSUME NEW j \in 2..(n + 1) PROVE j \in 2..n \/ (j = n + 1 /\ n >= 1 /\ j - 1 = n)
  OBVIOUS
<1>2. n >= 1 => n + 1 \in 2..(n + 1) /\ (n + 1) - 1 = n
  OBVIOUS
<1>3. ASSUME NEW j \in 2..n PROVE j \in 2..(n + 1)
  OBVIOUS
<1>. QED BY <1>1, <1>2, <1>3 DEF Killed

\* Once there was a jump there was one.
LEMMA KilledStays ==
  ASSUME NEW m \in Nat, NEW n \in Nat, m <= n, Killed(m)
  PROVE  Killed(n)
<1>1. PICK j \in 2..m : j <= Len(a) /\ Jump < a[j].v - a[j - 1].v
  BY DEF Killed
<1>2. j \in 2..n
  OBVIOUS
<1>. QED BY <1>1, <1>2 DEF Killed

\* No line is read, and no kill seen, at the start.
LEMMA OomInit ==
  ASSUME Init
  PROVE  OomInv
<1> SUFFICES ASSUME prog = "oom" PROVE OomInv
  BY DEF OomInv
<1>1. a \in Files("oom") /\ b \in Files("oom")
  BY DEF Init
<1>2. Numbered(a) /\ Numbered(b)
  BY <1>1, GridNumbered
<1>3. ~Killed(0)
  BY DEF Killed
<1>4. pc = "load" /\ i = 0 /\ oom = FALSE /\ out = <<>> /\ Len(b) \in Nat
  BY <1>2 DEF Init, Numbered
<1>5. out = [k \in 1..i |-> Printed(k)]
  BY <1>4
<1>6. i \in 0..Len(b)
  BY <1>4
<1>8. ~Killed(i)
  BY <1>3, <1>4, Zenon
<1>9. oom \in BOOLEAN /\ (oom <=> Killed(i))
  BY <1>4, <1>8, Zenon
<1>7. pc = "load" /\ pc \in {"load", "loop", "done", "error"} /\ pc \notin {"loop", "done", "error"}
  BY <1>4
<1>. QED BY <1>2, <1>4, <1>5, <1>6, <1>7, <1>9, Zenon DEF OomInv

\* What a line of nuKSM does: it breaks off when KSM has no reading and was not
\* killed, and prints otherwise the kill or the reading.
LEMMA OomLine ==
  ASSUME prog = "oom", OomInv, line, a' = a, b' = b, prog' = prog
  PROVE  OomInv'
<1>1. /\ Numbered(a) /\ Numbered(b) /\ pc = "loop" /\ i \in 0..Len(b) /\ i < Len(b)
      /\ out = [k \in 1..i |-> Printed(k)] /\ ReadingsOf(dict, a)
      /\ dict' = dict
  BY DEF OomInv, line
<1>2. oom \in BOOLEAN /\ (oom <=> Killed(i)) /\ (~oom /\ i > 0 => prev = Free(i))
  BY <1>1, Zenon DEF OomInv
<1>0. /\ a \in Seq(Line) /\ Len(a) \in Nat /\ Len(b) \in Nat
      /\ \A k \in 1..Len(a) : a[k] \in Line
      /\ \A k \in 1..Len(b) : b[k].t = k
  BY <1>1 DEF Numbered
<1>3. /\ Len(a) \in Nat /\ Len(b) \in Nat /\ i \in Nat /\ i + 1 \in 1..Len(b) /\ b[i + 1].t = i + 1
      /\ \A k \in 1..Len(a) : a[k].v \in Nat
  <2>1. \A k \in 1..Len(a) : a[k].v \in Nat
    BY <1>0 DEF Line
  <2>2. i \in Nat /\ i + 1 \in 1..Len(b)
    BY <1>0, <1>1
  <2>. QED BY <1>0, <2>1, <2>2
<1>. DEFINE free == IF b[i + 1].t \in DOMAIN dict THEN dict[b[i + 1].t] ELSE Missing
<1>4. free = Free(i + 1)
  BY <1>1, <1>3 DEF ReadingsOf, Free
<1>5. \A k \in 1..Len(b) : Free(k) = Missing <=> k > Len(a)
  BY <1>3 DEF Free, Missing
<1>6. CASE i > 0 /\ ~oom /\ (free = Missing \/ prev = Missing)
  <2>1. prev = Free(i) /\ ~Killed(i)
    BY <1>2, <1>6, Zenon
  <2>2. pc' = "error" /\ i' = i /\ prev' = prev /\ oom' = oom /\ out' = out
    BY <1>6 DEF line
  <2>3. i >= Len(a)
    <3>1. i \in 1..Len(b) /\ i + 1 \in 1..Len(b)
      BY <1>3, <1>6
    <3>2. CASE free = Missing
      BY <1>3, <1>4, <1>5, <3>1, <3>2
    <3>3. CASE prev = Missing
      <4>1. Free(i) = Missing
        BY <2>1, <3>3, Zenon
      <4>2. i > Len(a)
        BY <1>5, <3>1, <4>1, Zenon
      <4>. QED BY <1>3, <4>2
    <3>. QED BY <1>6, <3>2, <3>3
  <2>4. out' = [k \in 1..i' |-> Printed(k)']
    BY <1>1, <2>2 DEF Printed, Killed, Free
  <2>5. Killed(i)' <=> Killed(i)
    BY <2>2 DEF Killed
  <2>6. i' \in 0..Len(b') /\ i' >= Len(a') /\ i' < Len(b') /\ Numbered(a') /\ Numbered(b')
    BY <1>1, <2>2, <2>3
  <2>7. oom' \in BOOLEAN /\ (oom' <=> Killed(i)') /\ ~oom'
    BY <1>2, <1>6, <2>2, <2>5, Zenon
  <2>8. pc' = "error" /\ pc' \in {"load", "loop", "done", "error"} /\ pc' \notin {"load", "loop", "done"}
    BY <2>2
  <2>. QED BY <2>4, <2>6, <2>7, <2>8, Zenon DEF OomInv
<1>7. CASE ~(i > 0 /\ ~oom /\ (free = Missing \/ prev = Missing))
  <2>1. /\ oom' = (oom \/ (i > 0 /\ Jump < free - prev))
        /\ prev' = IF oom THEN prev ELSE free
        /\ out' = Append(out, <<b[i + 1].t, IF oom' THEN Oom ELSE free, b[i + 1].v>>)
        /\ i' = i + 1 /\ pc' = pc
    BY <1>7, Zenon DEF line
  <2>2. oom' \in BOOLEAN
    BY <1>2, <2>1, Zenon
  <2>3. oom' <=> Killed(i + 1)
    <3>1. CASE oom
      <4>1. oom'
        BY <2>1, <3>1, Zenon
      <4>2. Killed(i)
        BY <1>2, <3>1, Zenon
      <4>3. Killed(i + 1)
        BY <1>3, <4>2, KilledStays
      <4>. QED BY <4>1, <4>3, Zenon
    <3>2. CASE ~oom /\ i > 0
      <4>1. prev = Free(i) /\ ~Killed(i) /\ free # Missing
        BY <1>2, <1>7, <3>2, Zenon
      <4>2. i + 1 <= Len(a) /\ i \in 1..Len(a) /\ i + 1 \in 1..Len(a)
        BY <1>3, <1>4, <1>5, <3>2, <4>1
      <4>3. free = a[i + 1].v /\ prev = a[i].v
        BY <1>3, <1>4, <4>1, <4>2 DEF Free
      <4>4. Killed(i + 1) <=> Jump < a[i + 1].v - a[i].v
        <5>1. /\ Numbered(a) /\ i \in Nat /\ i >= 1 /\ ~Killed(i) /\ i + 1 <= Len(a)
          BY <1>1, <1>3, <3>2, <4>1, <4>2
        <5>. QED BY <5>1, KilledNext, Zenon
      <4>5. oom' <=> Jump < free - prev
        BY <2>1, <3>2, Zenon
      <4>. QED BY <4>3, <4>4, <4>5, Zenon
    <3>3. CASE ~oom /\ ~(i > 0)
      <4>1. ~oom'
        BY <2>1, <3>3, Zenon
      <4>2. ~Killed(i + 1)
        BY <1>3, <3>3 DEF Killed
      <4>. QED BY <4>1, <4>2, Zenon
    <3>. QED BY <1>2, <3>1, <3>2, <3>3, Zenon
  <2>4. <<b[i + 1].t, IF oom' THEN Oom ELSE free, b[i + 1].v>> = Printed(i + 1)
    BY <1>3, <1>4, <2>3, Zenon DEF Printed
  <2>5. out' = [k \in 1..(i + 1) |-> Printed(k)]
    BY <1>1, <1>3, <2>1, <2>4, PrintedAppended
  <2>6. out' = [k \in 1..i' |-> Printed(k)']
    BY <2>1, <2>5 DEF Printed, Killed, Free
  <2>7. Killed(i)' <=> Killed(i + 1)
    BY <2>1 DEF Killed
  <2>8. oom' <=> Killed(i)'
    BY <2>3, <2>7, Zenon
  <2>9. i' \in 0..Len(b') /\ Numbered(a') /\ Numbered(b') /\ ReadingsOf(dict', a')
    BY <1>1, <1>3, <2>1
  <2>10. ~oom' /\ i' > 0 => prev' = Free(i)'
    <3>1. SUFFICES ASSUME ~oom' PROVE prev' = Free(i)'
      BY Zenon
    <3>2. ~oom
      BY <1>2, <2>1, <3>1, Zenon
    <3>3. prev' = Free(i + 1)
      BY <1>4, <2>1, <3>2, Zenon
    <3>. QED BY <2>1, <3>3 DEF Free
  <2>11. pc' = "loop" /\ pc' \in {"load", "loop", "done", "error"} /\ pc' \notin {"load", "error", "done"}
    BY <1>1, <2>1
  <2>. QED BY <2>2, <2>6, <2>8, <2>9, <2>10, <2>11, Zenon DEF OomInv
<1>. QED BY <1>6, <1>7

\* Loading the readings, printing the table and stopping read no line.
LEMMA OomNext ==
  ASSUME OomInv, [Next]_vars
  PROVE  OomInv'
<1> SUFFICES ASSUME prog' = "oom" PROVE OomInv'
  BY DEF OomInv
<1>1. prog' = prog /\ a' = a /\ b' = b
  BY Zenon DEF Next, vars, inputs, load_throughput, join, load_oom, line, load_counts, write_csv, percentages,
         print, rest
<1>2. prog = "oom"
  BY <1>1
<1>3. CASE line
  BY <1>1, <1>2, <1>3, OomLine
<1>4. ASSUME i' = i, oom' = oom, out' = out
      PROVE  /\ Numbered(a') /\ Numbered(b') /\ i' \in 0..Len(b')
             /\ out' = [k \in 1..i' |-> Printed(k)']
             /\ oom' \in BOOLEAN /\ (oom' <=> Killed(i)')
  <2>1. /\ Numbered(a') /\ Numbered(b') /\ i' \in 0..Len(b')
        /\ out' = [k \in 1..i |-> Printed(k)]
    BY <1>1, <1>2, <1>4 DEF OomInv
  <2>2. out' = [k \in 1..i' |-> Printed(k)']
    BY <1>1, <1>4, <2>1 DEF Printed, Killed, Free
  <2>3. Killed(i)' <=> Killed(i)
    BY <1>1, <1>4 DEF Killed
  <2>4. oom \in BOOLEAN /\ (oom <=> Killed(i))
    BY <1>2, Zenon DEF OomInv
  <2>5. oom' \in BOOLEAN /\ (oom' <=> Killed(i)')
    BY <1>4, <2>3, <2>4, Zenon
  <2>. QED BY <2>1, <2>2, <2>5, Zenon
<1>5. CASE load_oom
  <2>1. /\ pc = "load" /\ pc' = "loop" /\ out' = out /\ i' = i /\ oom' = oom /\ i = 0 /\ Numbered(a)
    BY <1>2, <1>5 DEF load_oom, OomInv
  <2>2. ReadingsOf(dict', a')
    BY <1>1, <1>5, <2>1, ReadingsLoaded DEF load_oom
  <2>3. ~(i' > 0) /\ pc' \in {"load", "loop", "done", "error"} /\ pc' \notin {"load", "error", "done"}
    BY <2>1
  <2>. QED BY <1>4, <2>1, <2>2, <2>3, Zenon DEF OomInv
<1>6. CASE print
  <2>1. /\ pc = "loop" /\ pc' = "done" /\ i = Len(b) /\ i' = i /\ out' = out /\ oom' = oom
    BY <1>2, <1>6 DEF print
  <2>2. i' = Len(b') /\ pc' \in {"load", "loop", "done", "error"} /\ pc' \notin {"load", "loop", "error"}
    BY <1>1, <2>1
  <2>. QED BY <1>4, <2>1, <2>2, Zenon DEF OomInv
<1>7. CASE UNCHANGED vars
  <2>1. i' = i /\ oom' = oom /\ out' = out /\ pc' = pc /\ prev' = prev /\ dict' = dict
    BY <1>7 DEF vars
  <2>2. Free(i)' = Free(i)
    BY <1>1, <2>1 DEF Free
  <2>3. /\ pc' \in {"load", "loop", "done", "error"}
        /\ pc' = "load" => i' = 0
        /\ pc' = "done" => i' = Len(b')
        /\ pc' = "error" => i' >= Len(a') /\ i' < Len(b') 
    BY <1>1, <1>2, <2>1 DEF OomInv
  <2>4. pc' = "error" => ~oom'
    BY <1>2, <2>1, Zenon DEF OomInv
  <2>5. pc' = "loop" => ReadingsOf(dict', a') /\ (~oom' /\ i' > 0 => prev' = Free(i)')
    BY <1>1, <1>2, <2>1, <2>2, Zenon DEF OomInv
  <2>. QED BY <1>4, <2>1, <2>3, <2>4, <2>5, Zenon DEF OomInv
<1>8. ~load_throughput /\ ~join /\ ~load_counts /\ ~write_csv /\ ~percentages
  BY <1>2 DEF load_throughput, join, load_counts, write_csv, percentages
<1>. QED BY <1>3, <1>5, <1>6, <1>7, <1>8, Zenon DEF Next, rest

\* Figure 8 says OOM from the first jump of KSM's free memory on, and only then;
\* when KSM's readings end before a jump the table breaks off at that line.
THEOREM FigureEight == Spec => []OomFromJump
<1>1. OomInv => OomFromJump
  <2> SUFFICES ASSUME OomInv, prog = "oom"
               PROVE  /\ \A k \in DOMAIN out :
                           out[k] = <<k, IF Killed(k) THEN Oom ELSE IF k <= Len(a) THEN a[k].v ELSE Missing, b[k].v>>
                      /\ pc = "error" => Len(out) >= Len(a) /\ Len(out) < Len(b) /\ ~Killed(Len(a))
                      /\ pc = "done" => Len(out) = Len(b)
    BY DEF OomFromJump
  <2>1. /\ i \in 0..Len(b) /\ Len(a) \in Nat /\ Len(b) \in Nat
        /\ out = [k \in 1..i |-> Printed(k)]
        /\ pc = "done" => i = Len(b)
        /\ pc = "error" => i >= Len(a) /\ i < Len(b)
    BY DEF OomInv, Numbered
  <2>2. DOMAIN out = 1..i /\ Len(out) = i
    BY <2>1
  <2>3. \A k \in DOMAIN out : out[k] = Printed(k)
    BY <2>1, <2>2
  <2>4. pc = "error" => ~Killed(i)
    BY Zenon DEF OomInv
  <2>5. pc = "error" => ~Killed(Len(a))
    BY <2>1, <2>4, KilledStays
  <2>. QED BY <2>1, <2>2, <2>3, <2>5 DEF Printed, Free
<1>2. Init => OomInv
  BY OomInit
<1>3. OomInv /\ [Next]_vars => OomInv'
  BY OomNext
<1>. QED BY <1>1, <1>2, <1>3, PTL DEF Spec

-----------------------------------------------------------------------------
\* A set of numbers that is not empty has a least one.
LEMMA LeastOf ==
  ASSUME NEW S \in SUBSET Nat, S # {}
  PROVE  \E m \in S : \A k \in S : m <= k
<1>1. PICK m \in S : \A k \in S : <<k, m>> \notin OpToRel(<, Nat)
  BY WFMin, NatLessThanWellFounded
<1>2. \A k \in S : ~(k < m)
  BY <1>1 DEF OpToRel
<1>. QED BY <1>2

-----------------------------------------------------------------------------
(***************************************************************************)
(* Sums.  Sum goes through the rows in some order; the order does not      *)
(* matter, nor what the rows are called.                                   *)
(***************************************************************************)
Pick(D) == CHOOSE x \in D : TRUE

\* Column k of the rows of f has numbers only.
Column(f, k, T) == IsFiniteSet(T) /\ \A x \in T : f[x][k] \in Nat

\* What S has to be at D.
Adds(S, f, k, D) == S[D] = IF D = {} THEN 0 ELSE f[Pick(D)][k] + S[D \ {Pick(D)}]

Small(T, n) == {D \in SUBSET T : Cardinality(D) <= n}

\* A set without one of its elements is smaller by one.
LEMMA FewerLeft ==
  ASSUME NEW T, IsFiniteSet(T), NEW D \in SUBSET T, NEW x \in D
  PROVE  /\ IsFiniteSet(D) /\ Cardinality(D) \in Nat \ {0}
         /\ D \ {x} \in SUBSET T /\ Cardinality(D \ {x}) = Cardinality(D) - 1
<1>1. IsFiniteSet(D)
  BY FS_Subset
<1>2. Cardinality(D) \in Nat /\ D # {}
  BY <1>1, FS_CardinalityType
<1>3. Cardinality(D) # 0
  BY <1>1, <1>2, FS_EmptySet
<1>4. Cardinality(D \ {x}) = Cardinality(D) - 1
  BY <1>1, FS_RemoveElement
<1>. QED BY <1>1, <1>2, <1>3, <1>4

\* A set that is not empty has the element that Sum takes first.
LEMMA Picked ==
  ASSUME NEW D, D # {}
  PROVE  Pick(D) \in D
BY DEF Pick

\* The sums of the small sets exist.
SumsUpTo(f, k, T, n) == \E S \in [Small(T, n) -> Nat] : \A D \in Small(T, n) : Adds(S, f, k, D)

\* The empty set has a sum.
LEMMA SumsOfNone ==
  ASSUME NEW f, NEW k, NEW T, Column(f, k, T)
  PROVE  SumsUpTo(f, k, T, 0)
<1> DEFINE S == [D \in Small(T, 0) |-> 0]
<1>1. ASSUME NEW D \in Small(T, 0) PROVE D = {}
  <2>1. D \in SUBSET T /\ IsFiniteSet(D) /\ Cardinality(D) <= 0
    BY FS_Subset DEF Small, Column
  <2>2. Cardinality(D) \in Nat
    BY <2>1, FS_CardinalityType
  <2>3. Cardinality(D) = 0
    BY <2>1, <2>2
  <2>. QED BY <2>1, <2>3, FS_EmptySet
<1>2. S \in [Small(T, 0) -> Nat]
  OBVIOUS
<1>3. \A D \in Small(T, 0) : Adds(S, f, k, D)
  BY <1>1 DEF Adds
<1>. QED BY <1>2, <1>3, Zenon DEF SumsUpTo

\* If the sets of up to n rows have sums, so do those of n + 1.
LEMMA SumsOfMore ==
  ASSUME NEW f, NEW k, NEW T, Column(f, k, T), NEW n \in Nat, SumsUpTo(f, k, T, n)
  PROVE  SumsUpTo(f, k, T, n + 1)
<1>1. PICK S \in [Small(T, n) -> Nat] : \A D \in Small(T, n) : Adds(S, f, k, D)
  BY DEF SumsUpTo
<1> DEFINE R == [D \in Small(T, n + 1) |->
                   IF D = {} THEN 0 ELSE f[Pick(D)][k] + S[D \ {Pick(D)}]]
<1>2. ASSUME NEW D \in Small(T, n + 1), D # {}
      PROVE  Pick(D) \in T /\ D \ {Pick(D)} \in Small(T, n)
  <2>1. D \in SUBSET T /\ Cardinality(D) <= n + 1 /\ Pick(D) \in D
    BY <1>2, Picked DEF Small
  <2>2. /\ Cardinality(D) \in Nat /\ D \ {Pick(D)} \in SUBSET T
        /\ Cardinality(D \ {Pick(D)}) = Cardinality(D) - 1
    BY <2>1, FewerLeft DEF Column
  <2>3. Cardinality(D \ {Pick(D)}) <= n
    BY <2>1, <2>2
  <2>. QED BY <2>1, <2>2, <2>3 DEF Small
<1>3. \A D \in Small(T, n + 1) : R[D] \in Nat
  <2> SUFFICES ASSUME NEW D \in Small(T, n + 1), D # {} PROVE f[Pick(D)][k] + S[D \ {Pick(D)}] \in Nat
    OBVIOUS
  <2>1. f[Pick(D)][k] \in Nat /\ S[D \ {Pick(D)}] \in Nat
    BY <1>1, <1>2 DEF Column
  <2>. QED BY <2>1
<1>4. R \in [Small(T, n + 1) -> Nat]
  BY <1>3
<1>5. ASSUME NEW D \in Small(T, n) PROVE R[D] = S[D]
  <2>1. D \in Small(T, n + 1)
    <3>1. D \in SUBSET T /\ Cardinality(D) <= n /\ IsFiniteSet(D)
      BY FS_Subset DEF Small, Column
    <3>2. Cardinality(D) \in Nat
      BY <3>1, FS_CardinalityType
    <3>3. Cardinality(D) <= n + 1
      BY <3>1, <3>2
    <3>. QED BY <3>1, <3>3 DEF Small
  <2>. QED BY <1>1, <2>1 DEF Adds
<1>6. ASSUME NEW D \in Small(T, n + 1) PROVE Adds(R, f, k, D)
  BY <1>2, <1>5 DEF Adds
<1>. QED BY <1>4, <1>6, Zenon DEF SumsUpTo

\* S has the sums of all sets of rows.
IsSum(S, f, k, T) ==
    Column(f, k, T) /\ S \in [SUBSET T -> Nat] /\ \A D \in SUBSET T : Adds(S, f, k, D)

\* Sum is what its definition says.
LEMMA SumIs ==
  ASSUME NEW f, NEW k, Column(f, k, DOMAIN f)
  PROVE  \E S : IsSum(S, f, k, DOMAIN f) /\ Sum(f, k) = S[DOMAIN f]
<1> DEFINE T == DOMAIN f
           N == Cardinality(T)
           U == {n \in Nat : ~SumsUpTo(f, k, T, n)}
<1>1. IsFiniteSet(T) /\ N \in Nat
  BY FS_CardinalityType DEF Column
<1>2. ASSUME U # {} PROVE FALSE
  <2>1. PICK n \in U : \A m \in U : n <= m
    BY <1>2, LeastOf
  <2>2. n # 0
    BY <2>1, SumsOfNone
  <2>3. n - 1 \in Nat /\ n - 1 \notin U /\ (n - 1) + 1 = n
    BY <2>1, <2>2
  <2>4. SumsUpTo(f, k, T, (n - 1) + 1)
    BY <2>3, SumsOfMore
  <2>. QED BY <2>1, <2>3, <2>4
<1>3. SumsUpTo(f, k, T, N)
  BY <1>1, <1>2
<1>4. Small(T, N) = SUBSET T
  <2>1. ASSUME NEW D \in SUBSET T PROVE Cardinality(D) <= N
    BY <1>1, FS_Subset
  <2>. QED BY <2>1 DEF Small
<1>5. PICK S \in [SUBSET T -> Nat] : \A D \in SUBSET T : Adds(S, f, k, D)
  BY <1>3, <1>4 DEF SumsUpTo
<1> DEFINE Eq(g) == g = [D \in SUBSET (DOMAIN f) |->
                           IF D = {} THEN 0
                           ELSE f[CHOOSE x \in D : TRUE][k] + g[D \ {CHOOSE x \in D : TRUE}]]
<1>6. Eq(S)
  BY <1>5 DEF Adds, Pick
<1> DEFINE R == CHOOSE g : Eq(g)
<1>7. Eq(R)
  BY <1>6
<1>8. Sum(f, k) = R[DOMAIN f]
  BY DEF Sum
<1>9. \A D \in SUBSET T : Adds(R, f, k, D)
  BY <1>7 DEF Adds, Pick
<1> HIDE DEF R
<1>10. R \in [SUBSET T -> Nat]
  <2> DEFINE V == {n \in Nat : \E D \in SUBSET T : Cardinality(D) = n /\ R[D] \notin Nat}
  <2>1. ASSUME V # {} PROVE FALSE
    <3>1. PICK n \in V : \A m \in V : n <= m
      BY <2>1, LeastOf
    <3>2. PICK D \in SUBSET T : Cardinality(D) = n /\ R[D] \notin Nat
      BY <3>1
    <3>3. D # {} /\ R[D] = f[Pick(D)][k] + R[D \ {Pick(D)}]
      BY <1>9, <3>2 DEF Adds
    <3>4. Pick(D) \in D
      BY <3>3, Picked
    <3>5. Cardinality(D \ {Pick(D)}) = n - 1 /\ n \in Nat \ {0} /\ D \ {Pick(D)} \in SUBSET T
      BY <1>1, <3>2, <3>4, FewerLeft
    <3>6. n - 1 \notin V
      BY <3>1, <3>5
    <3>7. R[D \ {Pick(D)}] \in Nat
      BY <3>5, <3>6
    <3>8. f[Pick(D)][k] \in Nat
      BY <3>4 DEF Column
    <3>. QED BY <3>2, <3>3, <3>7, <3>8
  <2>2. \A D \in SUBSET T : Cardinality(D) \in Nat
    BY <1>1, FS_Subset, FS_CardinalityType
  <2>3. \A D \in SUBSET T : R[D] \in Nat
    BY <2>1, <2>2
  <2>. QED BY <1>7, <2>3
<1>11. IsSum(R, f, k, DOMAIN f)
  BY <1>9, <1>10 DEF IsSum
<1>. QED BY <1>8, <1>11

\* Any element may be the first.
AnyOrder(S, f, k, T) == \A E \in SUBSET T : \A e \in E : S[E] = f[e][k] + S[E \ {e}]

\* The sums are the same whichever element is taken first.
LEMMA SumAnyOrder ==
  ASSUME NEW f, NEW k, NEW T, NEW S, IsSum(S, f, k, T)
  PROVE  AnyOrder(S, f, k, T)
<1> SUFFICES ASSUME NEW E \in SUBSET T, NEW e \in E PROVE S[E] = f[e][k] + S[E \ {e}]
  BY DEF AnyOrder
<1> DEFINE V == {n \in Nat : \E D \in SUBSET T : Cardinality(D) = n /\ \E x \in D :
                     S[D] # f[x][k] + S[D \ {x}]}
<1>0. /\ IsFiniteSet(T) /\ \A x \in T : f[x][k] \in Nat
      /\ \A D \in SUBSET T : Adds(S, f, k, D) /\ S[D] \in Nat
  BY DEF Column, IsSum
<1>1. ASSUME V # {} PROVE FALSE
  <2>1. PICK n \in V : \A m \in V : n <= m
    BY <1>1, LeastOf
  <2>2. PICK D \in SUBSET T : Cardinality(D) = n /\ \E x \in D : S[D] # f[x][k] + S[D \ {x}]
    BY <2>1
  <2>3. PICK x \in D : S[D] # f[x][k] + S[D \ {x}]
    BY <2>2
  <2> DEFINE t == Pick(D)
  <2>4. t \in D /\ S[D] = f[t][k] + S[D \ {t}]
    BY <1>0, <2>3, Picked DEF Adds
  <2> HIDE DEF t
  <2>5. x # t
    BY <2>3, <2>4
  <2>6. ASSUME NEW y \in D PROVE D \ {y} \in SUBSET T /\ Cardinality(D \ {y}) = n - 1 /\ n - 1 \in Nat
    <3>1. Cardinality(D) \in Nat \ {0} /\ D \ {y} \in SUBSET T
          /\ Cardinality(D \ {y}) = Cardinality(D) - 1
      BY <1>0, FewerLeft
    <3>. QED BY <2>2, <3>1
  <2>7. n - 1 \notin V
    <3>1. n - 1 < n
      BY <2>1
    <3>. QED BY <2>1, <2>4, <2>6, <3>1
  <2>8. S[D \ {t}] = f[x][k] + S[(D \ {t}) \ {x}]
    BY <2>4, <2>5, <2>6, <2>7
  <2>9. S[D \ {x}] = f[t][k] + S[(D \ {x}) \ {t}]
    BY <2>4, <2>5, <2>6, <2>7
  <2>10. (D \ {t}) \ {x} = (D \ {x}) \ {t} /\ (D \ {t}) \ {x} \in SUBSET T
    OBVIOUS
  <2>11. f[x][k] \in Nat /\ f[t][k] \in Nat /\ S[(D \ {t}) \ {x}] \in Nat
    BY <1>0, <2>4, <2>10
  <2>12. f[t][k] + (f[x][k] + S[(D \ {t}) \ {x}]) = f[x][k] + (f[t][k] + S[(D \ {t}) \ {x}])
    BY ONLY <2>11
  <2>. QED BY ONLY <2>3, <2>4, <2>8, <2>9, <2>10, <2>12
<1>2. Cardinality(E) \in Nat
  BY <1>0, FS_Subset, FS_CardinalityType
<1>3. ASSUME S[E] # f[e][k] + S[E \ {e}] PROVE Cardinality(E) \in V
  BY <1>2, <1>3
<1> HIDE DEF V
<1>. QED BY <1>1, <1>3

\* The rows that correspond to those of D.
Image(r, D) == {r[x] : x \in D}

\* Rows that correspond one by one still do when one is left out.
LEMMA ImageWithout ==
  ASSUME NEW T, NEW r, \A x, y \in T : r[x] = r[y] => x = y,
         NEW D \in SUBSET T, NEW x \in D
  PROVE  /\ Image(r, D \ {x}) = Image(r, D) \ {r[x]}
         /\ r[x] \in Image(r, D) /\ Image(r, D) \in SUBSET Image(r, T)
<1>1. ASSUME NEW z \in Image(r, D \ {x}) PROVE z \in Image(r, D) \ {r[x]}
  <2>1. PICK y \in D \ {x} : z = r[y]
    BY DEF Image
  <2>2. z \in Image(r, D)
    BY <2>1 DEF Image
  <2>. QED BY <2>1, <2>2
<1>2. ASSUME NEW z \in Image(r, D) \ {r[x]} PROVE z \in Image(r, D \ {x})
  BY DEF Image
<1>3. r[x] \in Image(r, D) /\ Image(r, D) \in SUBSET Image(r, T)
  BY DEF Image
<1>. QED BY <1>1, <1>2, <1>3, Zenon

\* There are finitely many of them.
LEMMA ImageFinite ==
  ASSUME NEW T, IsFiniteSet(T), NEW r
  PROVE  IsFiniteSet(Image(r, T))
<1> DEFINE g == [x \in T |-> r[x]]
<1>1. g \in Surjection(T, Image(r, T))
  <2>1. g \in [T -> Image(r, T)]
    BY DEF Image
  <2>2. \A z \in Image(r, T) : \E x \in T : g[x] = z
    BY DEF Image
  <2>. QED BY <2>1, <2>2 DEF Surjection
<1>. QED BY <1>1, FS_Surjection

\* Rows that correspond have the same sums.
LEMMA SumsCorrespond ==
  ASSUME NEW f, NEW g, NEW k, NEW T, NEW r, NEW S, NEW R,
         IsSum(S, f, k, T), IsSum(R, g, k, Image(r, T)),
         \A x, y \in T : r[x] = r[y] => x = y,
         \A x \in T : g[r[x]] = f[x]
  PROVE  S[T] = R[Image(r, T)]
<1>1. IsFiniteSet(T) /\ Adds(S, f, k, {}) /\ Adds(R, g, k, {})
  BY DEF IsSum, Column
<1> DEFINE V == {n \in Nat : \E D \in SUBSET T : Cardinality(D) = n /\ S[D] # R[Image(r, D)]}
<1>2. ASSUME NEW D \in SUBSET T, NEW x \in D, S[D \ {x}] = R[Image(r, D \ {x})]
      PROVE  S[D] = R[Image(r, D)]
  <2>0. \A y, z \in T : r[y] = r[z] => y = z
    OBVIOUS
  <2>1. /\ Image(r, D \ {x}) = Image(r, D) \ {r[x]}
        /\ r[x] \in Image(r, D) /\ Image(r, D) \in SUBSET Image(r, T)
    BY ONLY <1>2, <2>0, ImageWithout, Zenon
  <2>2. S[D] = f[x][k] + S[D \ {x}]
    <3>1. AnyOrder(S, f, k, T)
      BY SumAnyOrder, Zenon
    <3>. QED BY <3>1 DEF AnyOrder
  <2>3. R[Image(r, D)] = g[r[x]][k] + R[Image(r, D) \ {r[x]}]
    <3>1. AnyOrder(R, g, k, Image(r, T))
      BY SumAnyOrder, Zenon
    <3>. QED BY <2>1, <3>1 DEF AnyOrder
  <2>4. g[r[x]] = f[x]
    OBVIOUS
  <2>. QED BY ONLY <1>2, <2>1, <2>2, <2>3, <2>4
<1>3. S[{}] = R[Image(r, {})]
  <2>1. Image(r, {}) = {}
    BY DEF Image
  <2>. QED BY <1>1, <2>1 DEF Adds
<1>4. ASSUME V # {} PROVE FALSE
  <2>1. PICK n \in V : \A m \in V : n <= m
    BY <1>4, LeastOf
  <2>2. PICK D \in SUBSET T : Cardinality(D) = n /\ S[D] # R[Image(r, D)]
    BY <2>1
  <2>3. D # {}
    BY <1>3, <2>2
  <2>4. PICK x \in D : TRUE
    BY <2>3
  <2>5. Cardinality(D \ {x}) = n - 1 /\ n - 1 \in Nat /\ n - 1 < n /\ D \ {x} \in SUBSET T
    <3>1. Cardinality(D) \in Nat \ {0} /\ D \ {x} \in SUBSET T
          /\ Cardinality(D \ {x}) = Cardinality(D) - 1
      BY <1>1, FewerLeft
    <3>. QED BY <2>2, <3>1
  <2>6. n - 1 \in V
    <3>1. S[D \ {x}] # R[Image(r, D \ {x})]
      BY <1>2, <2>2
    <3>. QED BY <2>5, <3>1, Zenon
  <2> HIDE DEF V
  <2>7. n <= n - 1
    BY <2>1, <2>6, Zenon
  <2>8. n \in Nat
    BY <2>1 DEF V
  <2>. QED BY <2>7, <2>8
<1>5. Cardinality(T) \in Nat
  BY <1>1, FS_CardinalityType
<1>6. ASSUME S[T] # R[Image(r, T)] PROVE Cardinality(T) \in V
  BY <1>5, <1>6
<1> HIDE DEF V
<1>. QED BY <1>4, <1>6

\* Two columns whose rows correspond have the same sum.
LEMMA SumsAgree ==
  ASSUME NEW f, NEW g, NEW k, Column(f, k, DOMAIN f), Column(g, k, DOMAIN g),
         NEW r, DOMAIN g = Image(r, DOMAIN f),
         \A x, y \in DOMAIN f : r[x] = r[y] => x = y,
         \A x \in DOMAIN f : g[r[x]] = f[x]
  PROVE  Sum(f, k) = Sum(g, k)
<1>1. PICK S : IsSum(S, f, k, DOMAIN f) /\ Sum(f, k) = S[DOMAIN f]
  BY SumIs, Zenon
<1>2. PICK R : IsSum(R, g, k, DOMAIN g) /\ Sum(g, k) = R[DOMAIN g]
  BY SumIs, Zenon
<1>3. S[DOMAIN f] = R[Image(r, DOMAIN f)]
  <2>1. IsSum(R, g, k, Image(r, DOMAIN f))
    BY <1>2
  <2>. QED BY <1>1, <2>1, SumsCorrespond
<1>. QED BY <1>1, <1>2, <1>3

-----------------------------------------------------------------------------
(***************************************************************************)
(* The lines of perf.                                                      *)
(***************************************************************************)
Clock(t) == t \in Nat /\ \E k \in Nat : t = Period * k + 3

\* The lines that are left in a file have times of the clock, each another one.
Timed(f) ==
    /\ f \in Seq(Line)
    /\ \A m \in 1..Len(f) : Clock(f[m].t)
    /\ \A m, n \in 1..Len(f) : f[m].t = f[n].t => m = n

\* What the lines of such a file hold.
LEMMA TimedLines ==
  ASSUME NEW f, Timed(f)
  PROVE  /\ DOMAIN f = 1..Len(f) /\ Len(f) \in Nat
         /\ \A k \in 1..Len(f) : f[k].v \in Nat /\ Clock(f[k].t)
<1>1. f \in Seq(Line) /\ \A k \in 1..Len(f) : Clock(f[k].t)
  BY DEF Timed
<1>2. DOMAIN f = 1..Len(f) /\ Len(f) \in Nat /\ \A k \in 1..Len(f) : f[k] \in Line
  BY <1>1
<1>. QED BY <1>1, <1>2 DEF Line

\* Two lines are more than a second apart.
LEMMA SecondsApart ==
  ASSUME NEW t, NEW u, Clock(t), Clock(u), Sec(t) = Sec(u)
  PROVE  t = u
<1>1. PICK k \in Nat : t = Period * k + 3
  BY DEF Clock
<1>2. PICK n \in Nat : u = Period * n + 3
  BY DEF Clock
<1>3. t \in Nat /\ u \in Nat /\ t - u < 10 /\ u - t < 10
  BY DEF Clock, Sec
<1>4. Period \in Nat /\ Period > 10
  BY ResultsAssumption
<1>5. ASSUME NEW x \in Nat, NEW y \in Nat, x < y PROVE Period * y - Period * x > 10
  <2>1. PICK e \in Nat : y = x + 1 + e
    <3>1. y - x - 1 \in Nat /\ y = x + 1 + (y - x - 1)
      BY <1>5
    <3>. QED BY <3>1
  <2>2. Period * y = Period * x + Period + Period * e
    BY <1>4, <2>1
  <2>3. Period * e \in Nat /\ Period * x \in Nat /\ Period * y \in Nat
    BY <1>4, <2>1
  <2>. QED BY <1>4, <2>2, <2>3
<1>6. Period * k \in Nat /\ Period * n \in Nat
  BY <1>4
<1>7. ~(k < n) /\ ~(n < k)
  BY <1>1, <1>2, <1>3, <1>5, <1>6
<1>8. k = n
  BY <1>7
<1>. QED BY <1>1, <1>2, <1>8

\* Periods that are over at the same time are the same.
LEMMA SameMultiple ==
  ASSUME NEW x \in Nat, NEW y \in Nat, Period * x = Period * y
  PROVE  x = y
<1>1. Period \in Nat /\ Period > 10
  BY ResultsAssumption
<1>2. ASSUME NEW u \in Nat, NEW w \in Nat, u < w PROVE Period * u < Period * w
  <2>1. PICK e \in Nat : w = u + 1 + e
    <3>1. w - u - 1 \in Nat /\ w = u + 1 + (w - u - 1)
      BY <1>2
    <3>. QED BY <3>1
  <2>2. Period * w = Period * u + Period + Period * e
    BY <1>1, <2>1
  <2>3. Period * e \in Nat /\ Period * u \in Nat /\ Period * w \in Nat
    BY <1>1, <2>1
  <2>. QED BY <1>1, <2>2, <2>3
<1>3. Period * x \in Nat /\ Period * y \in Nat
  BY <1>1
<1>4. ~(x < y) /\ ~(y < x)
  BY <1>2, <1>3
<1>. QED BY <1>4

\* There is a kept line for every rank.
LEMMA RankTaken ==
  ASSUME NEW K \in SUBSET Nat, IsFiniteSet(K), NEW m \in 1..Cardinality(K)
  PROVE  \E j \in K : Cardinality({l \in K : l < j}) = m - 1
<1> DEFINE Below(x) == {l \in K : l < x}
           V == {n \in Nat : n \in 1..Cardinality(K) /\ \A x \in K : Cardinality(Below(x)) # n - 1}
<1>0. Cardinality(K) \in Nat
  BY FS_CardinalityType
<1>1. ASSUME V # {} PROVE FALSE
  <2>1. PICK n \in V : \A k \in V : n <= k
    BY <1>1, LeastOf
  <2>2. n \in Nat /\ n \in 1..Cardinality(K) /\ \A x \in K : Cardinality(Below(x)) # n - 1
    BY <2>1
  <2>3. CASE n = 1
    <3>1. K # {}
      <4>1. Cardinality({}) = 0
        BY FS_EmptySet
      <4>. QED BY <1>0, <2>2, <2>3, <4>1
    <3>2. PICK x \in K : \A y \in K : x <= y
      BY <3>1, LeastOf
    <3>3. Below(x) = {}
      <4>1. \A l \in K : ~(l < x)
        BY <3>2
      <4>. QED BY <4>1, Zenon
    <3>4. Cardinality(Below(x)) = 0
      BY <3>3, FS_EmptySet
    <3>. QED BY <2>2, <2>3, <3>4
  <2>4. CASE n # 1
    <3>1. n - 1 \in Nat /\ n - 1 \in 1..Cardinality(K) /\ ~(n <= n - 1)
      BY <1>0, <2>2, <2>4
    <3>2. n - 1 \notin V
      BY <2>1, <3>1
    <3>3. PICK x \in K : Cardinality(Below(x)) = (n - 1) - 1
      BY <3>1, <3>2
    <3> DEFINE U == Below(x) \cup {x}
    <3>4. IsFiniteSet(Below(x)) /\ x \notin Below(x)
      <4>1. IsFiniteSet(Below(x))
        BY FS_Subset
      <4>. QED BY <4>1
    <3>5. Cardinality(U) = n - 1
      <4>1. Cardinality(U) = Cardinality(Below(x)) + 1
        BY <3>4, FS_AddElement
      <4>. QED BY <2>2, <3>3, <4>1
    <3>6. {y \in K : x < y} # {}
      <4> SUFFICES ASSUME {y \in K : x < y} = {} PROVE FALSE
        OBVIOUS
      <4>1. \A y \in K : ~(x < y)
        OBVIOUS
      <4>2. \A y \in K : y < x \/ y = x
        BY <4>1
      <4>3. U = K
        BY <4>2, Zenon
      <4>. QED BY <1>0, <2>2, <3>5, <4>3
    <3>7. PICK y \in {z \in K : x < z} : \A z \in {z \in K : x < z} : y <= z
      <4>1. {z \in K : x < z} \in SUBSET Nat
        OBVIOUS
      <4>. QED BY <3>6, <4>1, LeastOf
    <3>8. Below(y) = U
      <4>1. y \in K /\ x < y
        BY <3>7
      <4>2. \A z \in K : z < y <=> (z < x \/ z = x)
        BY <3>7
      <4>. QED BY <4>1, <4>2, Zenon
    <3>. QED BY <2>2, <3>5, <3>7, <3>8
  <2>. QED BY <2>3, <2>4
<1>2. ASSUME \A x \in K : Cardinality(Below(x)) # m - 1 PROVE m \in V
  BY <1>0, <1>2
<1> HIDE DEF V
<1>. QED BY <1>1, <1>2

\* grep takes lines out of a file of perf.
LEMMA CountedTimed ==
  ASSUME NEW f \in Files("counts")
  PROVE  Timed(f)
<1>0. MaxLines \in Nat /\ Values \subseteq Nat /\ Period \in Nat
  BY ResultsAssumption
<1>1. PICK s \in Samples(MaxLines), K \in SUBSET (1..MaxLines) : f = Counted(s, K)
  <2>1. Files("counts") = {Counted(s, K) : s \in Samples(MaxLines), K \in SUBSET (1..MaxLines)}
    BY DEF Files
  <2>. QED BY <2>1
<1>2. IsFiniteSet(K) /\ Cardinality(K) \in Nat /\ K \in SUBSET Nat
  <2>1. IsFiniteSet(1..MaxLines)
    BY <1>0, FS_Interval
  <2>2. IsFiniteSet(K)
    BY <1>1, <2>1, FS_Subset
  <2>3. Cardinality(K) \in Nat
    BY <2>2, FS_CardinalityType
  <2>4. K \in SUBSET Nat
    BY <1>0, <1>1
  <2>. QED BY <2>2, <2>3, <2>4
<1> DEFINE Rank(j) == Cardinality({l \in K : l < j})
           kept == [m \in 1..Cardinality(K) |-> CHOOSE j \in K : Rank(j) = m - 1]
           n == Cardinality(K)
<1>3. ASSUME NEW m \in 1..n PROVE kept[m] \in K /\ Rank(kept[m]) = m - 1
  <2>1. \E j \in K : Rank(j) = m - 1
    BY <1>2, RankTaken
  <2>. QED BY <2>1
<1>4. f = [m \in 1..n |-> [t |-> Period * kept[m] + 3, v |-> s[kept[m]]]]
  BY <1>1 DEF Counted
<1> HIDE DEF kept, n
<1>5. n \in Nat /\ \A m \in 1..n : kept[m] \in Nat /\ s[kept[m]] \in Nat
  <2>1. s \in [1..MaxLines -> Values]
    BY <1>1 DEF Samples
  <2>2. n \in Nat
    BY <1>2 DEF n
  <2>3. ASSUME NEW m \in 1..n PROVE kept[m] \in Nat /\ s[kept[m]] \in Nat
    <3>1. kept[m] \in 1..MaxLines
      BY <1>1, <1>3
    <3>2. s[kept[m]] \in Values
      BY <2>1, <3>1
    <3>3. s[kept[m]] \in Nat
      BY <1>0, <3>2, Zenon
    <3>4. kept[m] \in Nat
      BY <1>0, <3>1
    <3>. QED BY <3>3, <3>4
  <2>. QED BY <2>2, <2>3
<1>6. ASSUME NEW m \in 1..n
      PROVE  /\ f[m] = [t |-> Period * kept[m] + 3, v |-> s[kept[m]]]
             /\ f[m] \in Line /\ Clock(f[m].t)
  <2>1. f[m] = [t |-> Period * kept[m] + 3, v |-> s[kept[m]]]
    BY <1>4
  <2>2. kept[m] \in Nat /\ s[kept[m]] \in Nat /\ Period * kept[m] + 3 \in Nat
    BY <1>0, <1>5
  <2>3. f[m].t = Period * kept[m] + 3 /\ f[m] \in Line
    BY <2>1, <2>2 DEF Line
  <2>. QED BY <2>1, <2>2, <2>3 DEF Clock
<1>7. f \in Seq(Line) /\ Len(f) = n
  BY <1>4, <1>5, <1>6
<1>8. ASSUME NEW m \in 1..n, NEW l \in 1..n, f[m].t = f[l].t PROVE m = l
  <2>1. Period * kept[m] + 3 = Period * kept[l] + 3
    <3>1. \A x \in 1..n : f[x].t = Period * kept[x] + 3
      <4> SUFFICES ASSUME NEW x \in 1..n PROVE f[x].t = Period * kept[x] + 3
        OBVIOUS
      <4>1. f[x] = [t |-> Period * kept[x] + 3, v |-> s[kept[x]]]
        BY <1>6
      <4>. QED BY ONLY <4>1
    <3>. QED BY <1>8, <3>1
  <2>2. kept[m] = kept[l]
    <3>1. kept[m] \in Nat /\ kept[l] \in Nat /\ Period * kept[m] \in Nat /\ Period * kept[l] \in Nat
      BY <1>0, <1>5
    <3>2. Period * kept[m] = Period * kept[l]
      BY <2>1, <3>1
    <3>. QED BY <3>1, <3>2, SameMultiple
  <2>3. m - 1 = l - 1
    BY <1>3, <2>2
  <2>. QED BY <1>5, <2>3
<1>. QED BY <1>6, <1>7, <1>8 DEF Timed

-----------------------------------------------------------------------------
(***************************************************************************)
(* parse_local_remote.py and parse_csv_local_remote_file.py: the rows are  *)
(* those of the periods that both files have, under the names of their     *)
(* seconds.                                                                *)
(***************************************************************************)
\* d is the file f by second.
BySecond(d, f) ==
    /\ DOMAIN d = {Sec(f[k].t) : k \in 1..Len(f)}
    /\ \A k \in 1..Len(f) : d[Sec(f[k].t)] = f[k].v

Written == [t \in DOMAIN dict \cap DOMAIN other |-> <<dict[t], other[t]>>]

CountsInv ==
    prog = "counts" =>
        /\ Timed(a) /\ Timed(b)
        /\ pc \in {"load", "write", "percentages", "done", "error"}
        /\ pc \in {"write", "percentages"} => BySecond(dict, a) /\ BySecond(other, b)
        /\ pc = "percentages" => out = Written
        /\ pc = "done" => out = <<Sum(Loads, 1), Sum(Loads, 2)>>
        /\ pc = "error" => Sum(Loads, 1) + Sum(Loads, 2) = 0

\* A second has one line.
LEMMA OneLine ==
  ASSUME NEW f, Timed(f), NEW k \in 1..Len(f), NEW j \in 1..Len(f), Sec(f[k].t) = Sec(f[j].t)
  PROVE  k = j
<1>1. Clock(f[k].t) /\ Clock(f[j].t)
  BY DEF Timed
<1>2. f[k].t = f[j].t
  BY <1>1, SecondsApart
<1>. QED BY <1>2 DEF Timed

\* The dictionary is what it should be.
LEMMA SecondsLoaded ==
  ASSUME NEW f, Timed(f), NEW d,
         d = [t \in {Sec(f[k].t) : k \in DOMAIN f} |->
                f[CHOOSE k \in DOMAIN f :
                    Sec(f[k].t) = t /\ \A j \in DOMAIN f : Sec(f[j].t) = t => j <= k].v]
  PROVE  BySecond(d, f)
<1>1. DOMAIN f = 1..Len(f) /\ Len(f) \in Nat
  BY DEF Timed
<1>2. DOMAIN d = {Sec(f[k].t) : k \in 1..Len(f)}
  BY <1>1
<1>3. ASSUME NEW k \in 1..Len(f) PROVE d[Sec(f[k].t)] = f[k].v
  <2> DEFINE t == Sec(f[k].t)
             Last(n) == Sec(f[n].t) = t /\ \A j \in DOMAIN f : Sec(f[j].t) = t => j <= n
  <2>1. t \in {Sec(f[n].t) : n \in DOMAIN f}
    BY <1>1
  <2>2. d[t] = f[CHOOSE n \in DOMAIN f : Last(n)].v
    BY <2>1
  <2>3. Last(k)
    <3>1. ASSUME NEW j \in DOMAIN f, Sec(f[j].t) = t PROVE j <= k
      <4>1. j = k
        BY <1>1, <3>1, OneLine
      <4>. QED BY <1>1, <4>1
    <3>. QED BY <3>1
  <2>4. \A n \in DOMAIN f : Last(n) => n = k
    BY <1>1, OneLine
  <2> HIDE DEF Last
  <2>5. (CHOOSE n \in DOMAIN f : Last(n)) = k
    BY <1>1, <2>3, <2>4
  <2>. QED BY <2>2, <2>5
<1>. QED BY <1>2, <1>3 DEF BySecond

\* The row of a period that both files have.
LEMMA LoadsOf ==
  ASSUME Timed(a), Timed(b), NEW k \in 1..Len(a), NEW j \in 1..Len(b), b[j].t = a[k].t
  PROVE  k \in Both /\ Loads[k] = <<a[k].v, b[j].v>>
<1>1. DOMAIN a = 1..Len(a) /\ DOMAIN b = 1..Len(b)
  BY DEF Timed
<1>2. k \in Both
  BY <1>1 DEF Both
<1> DEFINE B == {b[n] : n \in DOMAIN b}
<1>3. (CHOOSE l \in B : l.t = a[k].t) = b[j]
  <2>1. b[j] \in B
    BY <1>1
  <2>2. ASSUME NEW l \in B, l.t = a[k].t PROVE l = b[j]
    <3>1. PICK n \in 1..Len(b) : l = b[n]
      BY <1>1
    <3>2. b[n].t = b[j].t
      BY <2>2, <3>1
    <3>3. n = j
      BY <3>2 DEF Timed
    <3>. QED BY <3>1, <3>3
  <2> HIDE DEF B
  <2>. QED BY <2>1, <2>2
<1>. QED BY <1>2, <1>3 DEF Loads

\* The rows that were written are those of these periods.
LEMMA WrittenRows ==
  ASSUME Timed(a), Timed(b), BySecond(dict, a), BySecond(other, b)
  PROVE  LET r == [k \in Both |-> Sec(a[k].t)] IN
         /\ IsFiniteSet(Both) /\ DOMAIN Loads = Both /\ DOMAIN Written = Image(r, Both)
         /\ \A x, y \in Both : r[x] = r[y] => x = y
         /\ \A x \in Both : /\ Written[r[x]] = Loads[x]
                            /\ Loads[x][1] \in Nat /\ Loads[x][2] \in Nat
<1> DEFINE r == [k \in Both |-> Sec(a[k].t)]
<1>1. /\ DOMAIN a = 1..Len(a) /\ Len(a) \in Nat /\ DOMAIN b = 1..Len(b) /\ Len(b) \in Nat
      /\ \A k \in 1..Len(a) : a[k].v \in Nat /\ Clock(a[k].t)
      /\ \A k \in 1..Len(b) : b[k].v \in Nat /\ Clock(b[k].t)
  BY TimedLines
<1>2. Both \in SUBSET (1..Len(a))
  BY <1>1 DEF Both
<1>3. IsFiniteSet(Both)
  <2>1. IsFiniteSet(1..Len(a))
    BY <1>1, FS_Interval
  <2>. QED BY <1>2, <2>1, FS_Subset
<1>4. DOMAIN Loads = Both
  BY DEF Loads
<1>5. ASSUME NEW x \in Both, NEW y \in Both, r[x] = r[y] PROVE x = y
  <2>1. x \in 1..Len(a) /\ y \in 1..Len(a) /\ Sec(a[x].t) = Sec(a[y].t)
    BY <1>2, <1>5
  <2>. QED BY <2>1, OneLine
<1>6. ASSUME NEW x \in Both
      PROVE  /\ r[x] \in DOMAIN dict \cap DOMAIN other
             /\ <<dict[r[x]], other[r[x]]>> = Loads[x]
             /\ Loads[x][1] \in Nat /\ Loads[x][2] \in Nat
  <2>1. PICK j \in 1..Len(b) : b[j].t = a[x].t
    BY <1>1 DEF Both
  <2>2. x \in 1..Len(a) /\ Loads[x] = <<a[x].v, b[j].v>>
    BY <1>2, <2>1, LoadsOf
  <2>3. r[x] = Sec(a[x].t) /\ r[x] = Sec(b[j].t)
    BY <2>1
  <2>4. r[x] \in DOMAIN dict /\ dict[r[x]] = a[x].v
    BY <2>2, <2>3 DEF BySecond
  <2>5. r[x] \in DOMAIN other /\ other[r[x]] = b[j].v
    BY <2>1, <2>3 DEF BySecond
  <2>6. Loads[x][1] = a[x].v /\ Loads[x][2] = b[j].v
    BY <2>2
  <2>. QED BY <1>1, <2>2, <2>4, <2>5, <2>6
<1>7. ASSUME NEW t \in DOMAIN dict \cap DOMAIN other PROVE \E k \in Both : t = r[k]
  <2>1. PICK k \in 1..Len(a) : t = Sec(a[k].t)
    BY DEF BySecond
  <2>2. PICK j \in 1..Len(b) : t = Sec(b[j].t)
    BY DEF BySecond
  <2>3. b[j].t = a[k].t
    BY <1>1, <2>1, <2>2, SecondsApart
  <2>4. k \in Both
    BY <2>3, LoadsOf
  <2>. QED BY <2>1, <2>4
<1>8. DOMAIN Written = DOMAIN dict \cap DOMAIN other
  BY DEF Written
<1>9. DOMAIN Written = Image(r, Both)
  BY <1>6, <1>7, <1>8, Zenon DEF Image
<1>10. ASSUME NEW x \in Both PROVE Written[r[x]] = Loads[x]
  BY <1>6 DEF Written
<1>. QED BY <1>3, <1>4, <1>5, <1>6, <1>9, <1>10

\* Their sums are those of the periods.
LEMMA WrittenSums ==
  ASSUME Timed(a), Timed(b), BySecond(dict, a), BySecond(other, b)
  PROVE  Sum(Written, 1) = Sum(Loads, 1) /\ Sum(Written, 2) = Sum(Loads, 2)
<1> DEFINE r == [k \in Both |-> Sec(a[k].t)]
<1>1. /\ IsFiniteSet(Both) /\ DOMAIN Loads = Both /\ DOMAIN Written = Image(r, Both)
      /\ \A x, y \in Both : r[x] = r[y] => x = y
      /\ \A x \in Both : /\ Written[r[x]] = Loads[x]
                         /\ Loads[x][1] \in Nat /\ Loads[x][2] \in Nat
  BY WrittenRows
<1> HIDE DEF r
<1>2. IsFiniteSet(DOMAIN Written)
  BY <1>1, ImageFinite
<1>3. ASSUME NEW k \in {1, 2} PROVE Sum(Written, k) = Sum(Loads, k)
  <2>1. Column(Loads, k, DOMAIN Loads)
    BY <1>1 DEF Column
  <2>2. Column(Written, k, DOMAIN Written)
    <3>1. ASSUME NEW t \in DOMAIN Written PROVE Written[t][k] \in Nat
      <4>1. PICK x \in Both : t = r[x]
        BY <1>1 DEF Image
      <4>. QED BY <1>1, <4>1
    <3>. QED BY <1>2, <3>1 DEF Column
  <2>3. Sum(Loads, k) = Sum(Written, k)
    <3> DEFINE f == Loads
               g == Written
    <3>1. /\ Column(f, k, DOMAIN f) /\ Column(g, k, DOMAIN g) /\ DOMAIN g = Image(r, DOMAIN f)
          /\ \A x, y \in DOMAIN f : r[x] = r[y] => x = y
          /\ \A x \in DOMAIN f : g[r[x]] = f[x]
      BY <1>1, <2>1, <2>2
    <3> HIDE DEF f, g
    <3>2. Sum(f, k) = Sum(g, k)
      BY <3>1, SumsAgree
    <3>. QED BY <3>2 DEF f, g
  <2>. QED BY <2>3
<1>. QED BY <1>3

\* Nothing is loaded at first.
LEMMA CountsInit ==
  ASSUME Init
  PROVE  CountsInv
<1> SUFFICES ASSUME prog = "counts" PROVE Timed(a) /\ Timed(b) /\ pc = "load"
  BY DEF CountsInv
<1>. QED BY CountedTimed DEF Init

\* Every step of the two programs keeps what they have computed so far.
LEMMA CountsNext ==
  ASSUME CountsInv, [Next]_vars
  PROVE  CountsInv'
<1> SUFFICES ASSUME prog' = "counts" PROVE CountsInv'
  BY DEF CountsInv
<1>1. prog = "counts" /\ prog' = prog /\ a' = a /\ b' = b
  BY DEF Next, load_throughput, join, load_oom, line, load_counts, write_csv, percentages, print,
         rest, inputs, vars
<1>2. /\ Timed(a) /\ Timed(b) /\ Timed(a)' /\ Timed(b)'
      /\ Sum(Loads, 1)' = Sum(Loads, 1) /\ Sum(Loads, 2)' = Sum(Loads, 2)
  <2>1. Timed(a) /\ Timed(b) /\ Timed(a)' /\ Timed(b)'
    BY <1>1 DEF CountsInv, Timed, Clock
  <2>2. Loads' = Loads
    BY <1>1 DEF Loads, Both
  <2>. QED BY <2>1, <2>2 DEF Sum
<1>3. CASE load_counts
  <2>1. BySecond(dict', a) /\ BySecond(other', b)
    BY <1>2, <1>3, SecondsLoaded DEF load_counts
  <2>2. BySecond(dict, a)' /\ BySecond(other, b)'
    BY <1>1, <2>1 DEF BySecond, Sec
  <2>. QED BY <1>2, <1>3, <2>2 DEF CountsInv, load_counts
<1>4. CASE write_csv
  <2>1. BySecond(dict, a) /\ BySecond(other, b)
    BY <1>1, <1>4 DEF CountsInv, write_csv
  <2>2. BySecond(dict, a)' /\ BySecond(other, b)' /\ out' = Written'
    BY <1>1, <1>4, <2>1 DEF BySecond, Sec, write_csv, Written
  <2>. QED BY <1>2, <1>4, <2>2 DEF CountsInv, write_csv
<1>5. CASE percentages
  <2>1. BySecond(dict, a) /\ BySecond(other, b) /\ out = Written
    BY <1>1, <1>5 DEF CountsInv, percentages
  <2>2. Sum(out, 1) = Sum(Loads, 1) /\ Sum(out, 2) = Sum(Loads, 2)
    BY <1>2, <2>1, WrittenSums
  <2>3. \/ pc' = "error" /\ Sum(Loads, 1) + Sum(Loads, 2) = 0
        \/ pc' = "done" /\ out' = <<Sum(Loads, 1), Sum(Loads, 2)>>
    BY <1>5, <2>2 DEF percentages
  <2>. QED BY <1>2, <2>3 DEF CountsInv
<1>6. CASE rest \/ UNCHANGED vars
  <2>1. UNCHANGED vars
    BY <1>6 DEF rest
  <2>. QED BY <1>1, <1>2, <2>1 DEF CountsInv, vars, BySecond, Sec, Written
<1>7. ~print
  BY <1>1 DEF CountsInv, print
<1>. QED BY <1>1, <1>3, <1>4, <1>5, <1>6, <1>7 DEF Next, load_throughput, join, load_oom, line

\* Figures 3b and 6b add up the periods in which both kinds of loads were counted,
\* each of them once, and fail only when these hold nothing, for files of any length
\* and whatever lines are missing from them.
THEOREM FiguresThreeAndSix == Spec => []CountsAddUp
<1>1. CountsInv => CountsAddUp
  BY DEF CountsInv, CountsAddUp
<1>2. Init => CountsInv
  BY CountsInit
<1>3. CountsInv /\ [Next]_vars => CountsInv'
  BY CountsNext
<1>. QED BY <1>1, <1>2, <1>3, PTL DEF Spec
=============================================================================

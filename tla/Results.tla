------------------------------- MODULE Results -------------------------------
(***************************************************************************)
(* The programs that turn the collected files into the numbers of a figure:*)
(*   throughput   scripts/parse_throughput.py      (figure 4)              *)
(*   oom          scripts/parse_oom_experiment.py  (figures 8a, 8b, 8c)    *)
(*   counts       evaluation_script/parse_local_remote.py and              *)
(*                scripts/parse_csv_local_remote_file.py (figures 3b, 6b)  *)
(*                                                                         *)
(* Each reads one file into a dictionary and goes through another line by  *)
(* line.  A line is a time and a value; a Python exception ends a program. *)
(***************************************************************************)
EXTENDS Integers, Sequences, FiniteSets

CONSTANTS Program,      \* the programs tried
          MaxLines,     \* bound on the lines of a file
          Values,       \* the numbers in the files
          Jump,         \* growth of the free memory that means a kill (10000)
          Period        \* tenths of a second between two lines of perf

ASSUME ResultsAssumption ==
    /\ Program \subseteq {"throughput", "oom", "counts"}
    /\ MaxLines \in Nat /\ Values \subseteq Nat /\ Jump \in Nat
    /\ Period \in Nat /\ Period > 10

VARIABLES prog,
          a, b,        \* the two input files: of VM1 and VM2, of KSM and nuKSM,
                       \* of the local and the remote loads
          dict, other, \* the dictionaries
          i,           \* lines read of the file that is gone through
          prev, oom,   \* the last free memory, and whether a kill was seen
          out,         \* the rows of the result
          pc

vars == <<prog, a, b, dict, other, i, prev, oom, out, pc>>
inputs == <<prog, a, b>>

Empty == [k \in {} |-> 0]
Missing == -1
Oom == -2

-----------------------------------------------------------------------------
\* The benchmark numbers its samples from 1; the collector prints a line for every
\* period from 0 on; perf does too, but lines that were "<not counted>" are taken
\* out of either file by grep.
Samples(n) == [1..n -> Values]
Grid(s) == [k \in DOMAIN s |-> [t |-> k, v |-> s[k]]]
Counted(s, kept) ==
    LET Before(k) == Cardinality({j \in kept : j < k})
    IN  [m \in 1..Cardinality(kept) |->
            LET k == CHOOSE j \in kept : Before(j) = m - 1
            IN  [t |-> Period * k + 3, v |-> s[k]]]

Files(p) ==
    LET some == UNION {Samples(n) : n \in 0..MaxLines} IN
    CASE p \in {"throughput", "oom"} -> {Grid(s) : s \in some}
      [] p = "counts" -> {Counted(s, kept) : s \in Samples(MaxLines), kept \in SUBSET (1..MaxLines)}

Init ==
    /\ prog \in Program
    /\ a \in Files(prog) /\ b \in Files(prog)
    /\ dict = Empty /\ other = Empty
    /\ i = 0 /\ prev = Missing /\ oom = FALSE /\ out = <<>>
    /\ pc = "load"

-----------------------------------------------------------------------------
\* parse_throughput.py: VM2's samples by time, 45 seconds apart.
load_throughput ==
    /\ prog = "throughput" /\ pc = "load"
    /\ dict' = [t \in {b[k].t * 45 : k \in DOMAIN b} |->
                  (CHOOSE l \in {b[k] : k \in DOMAIN b} : l.t * 45 = t).v]
    /\ pc' = "loop"
    /\ UNCHANGED <<inputs, other, i, prev, oom, out>>

\* Mutant: a sample that VM2 does not have is 0.
join_default ==
    /\ prog = "throughput" /\ pc = "loop" /\ i < Len(a)
    /\ LET key == a[i + 1].t * 45 IN
       out' = Append(out, <<key, a[i + 1].v, IF key \in DOMAIN dict THEN dict[key] ELSE 0>>)
    /\ i' = i + 1
    /\ UNCHANGED <<inputs, dict, other, prev, oom, pc>>

\* A line of VM1; a sample that VM2 does not have is a KeyError.
join ==
    /\ prog = "throughput" /\ pc = "loop" /\ i < Len(a)
    /\ LET key == a[i + 1].t * 45 IN
       IF key \in DOMAIN dict
       THEN out' = Append(out, <<key, a[i + 1].v, dict[key]>>) /\ i' = i + 1 /\ pc' = pc
       ELSE out' = <<>> /\ i' = i /\ pc' = "error"
    /\ UNCHANGED <<inputs, dict, other, prev, oom>>

\* parse_oom_experiment.py: KSM's readings by time.
load_oom ==
    /\ prog = "oom" /\ pc = "load"
    /\ dict' = [t \in {a[k].t : k \in DOMAIN a} |->
                  (CHOOSE l \in {a[k] : k \in DOMAIN a} : l.t = t).v]
    /\ pc' = "loop"
    /\ UNCHANGED <<inputs, other, i, prev, oom, out>>

\* Mutant: every line looks for a jump, and the last one decides.
line_unlatched ==
    /\ prog = "oom" /\ pc = "loop" /\ i < Len(b)
    /\ LET l == b[i + 1]
           free == IF l.t \in DOMAIN dict THEN dict[l.t] ELSE Missing
       IN  IF i > 0 /\ (free = Missing \/ prev = Missing)
           THEN pc' = "error" /\ UNCHANGED <<i, prev, oom, out>>
           ELSE /\ oom' = (i > 0 /\ Jump < free - prev)
                /\ prev' = free
                /\ out' = Append(out, <<l.t, IF oom' THEN Oom ELSE free, l.v>>)
                /\ i' = i + 1 /\ pc' = pc
    /\ UNCHANGED <<inputs, dict, other>>

\* A line of nuKSM.  A time that KSM's file does not have stands for "", which
\* cannot be subtracted; after a kill nothing is subtracted any more.  The row is
\* printed at once.
line ==
    /\ prog = "oom" /\ pc = "loop" /\ i < Len(b)
    /\ LET l == b[i + 1]
           free == IF l.t \in DOMAIN dict THEN dict[l.t] ELSE Missing
       IN  IF i > 0 /\ ~oom /\ (free = Missing \/ prev = Missing)
           THEN pc' = "error" /\ UNCHANGED <<i, prev, oom, out>>
           ELSE /\ oom' = (oom \/ (i > 0 /\ Jump < free - prev))
                /\ prev' = IF oom THEN prev ELSE free
                /\ out' = Append(out, <<l.t, IF oom' THEN Oom ELSE free, l.v>>)
                /\ i' = i + 1 /\ pc' = pc
    /\ UNCHANGED <<inputs, dict, other>>

\* Mutant: the time is rounded down to whole minutes.
SecMinutes(t) == t \div 600

\* math.floor(float(x_arr[0]))
Sec(t) == t \div 10

\* parse_local_remote.py: both files by second; the last line of a second counts.
load_counts ==
    /\ prog = "counts" /\ pc = "load"
    /\ LET ByTime(s) == [t \in {Sec(s[k].t) : k \in DOMAIN s} |->
                          s[CHOOSE k \in DOMAIN s :
                              Sec(s[k].t) = t /\ \A j \in DOMAIN s : Sec(s[j].t) = t => j <= k].v]
       IN  dict' = ByTime(a) /\ other' = ByTime(b)
    /\ pc' = "write"
    /\ UNCHANGED <<inputs, i, prev, oom, out>>

\* The seconds that both have are written.
write_csv ==
    /\ prog = "counts" /\ pc = "write"
    /\ out' = [t \in DOMAIN dict \cap DOMAIN other |-> <<dict[t], other[t]>>]
    /\ pc' = "percentages"
    /\ UNCHANGED <<inputs, dict, other, i, prev, oom>>

\* get_local_remote: the sums; a ZeroDivisionError if there is nothing.
Sum(f, k) == LET S[D \in SUBSET DOMAIN f] ==
                   IF D = {} THEN 0
                   ELSE LET t == CHOOSE x \in D : TRUE IN f[t][k] + S[D \ {t}]
             IN  S[DOMAIN f]

percentages ==
    /\ prog = "counts" /\ pc = "percentages"
    /\ LET local == Sum(out, 1)
           remote == Sum(out, 2)
       IN  IF local + remote = 0
           THEN pc' = "error" /\ out' = <<>>
           ELSE pc' = "done" /\ out' = <<local, remote>>
    /\ UNCHANGED <<inputs, dict, other, i, prev, oom>>

\* All lines are read.
print ==
    /\ pc = "loop"
    /\ i = IF prog = "throughput" THEN Len(a) ELSE Len(b)
    /\ pc' = "done"
    /\ UNCHANGED <<inputs, dict, other, i, prev, oom, out>>

rest == pc \in {"done", "error"} /\ UNCHANGED vars

Next ==
    \/ load_throughput \/ join \/ load_oom \/ line
    \/ load_counts \/ write_csv \/ percentages
    \/ print \/ rest

Spec == Init /\ [][Next]_vars

-----------------------------------------------------------------------------
\* Figure 4 has a row for every sample of VM1, beside VM2's sample of the same
\* number, or nothing at all: it fails exactly when VM2 has fewer samples (line
\* 19 of parse_throughput.py).
ThroughputJoined ==
    prog = "throughput" =>
        /\ pc = "error" => out = <<>> /\ Len(a) > Len(b)
        /\ pc = "done" =>
              /\ Len(a) <= Len(b)
              /\ out = [k \in DOMAIN a |-> <<45 * k, a[k].v, b[k].v>>]

\* Figure 8 says OOM from the first jump of KSM's free memory on, and only then;
\* when KSM's readings end before a jump the table breaks off at that line
\* (lines 31 to 41 of parse_oom_experiment.py).
Killed(k) == \E j \in 2..k : j <= Len(a) /\ Jump < a[j].v - a[j - 1].v

OomFromJump ==
    prog = "oom" =>
        /\ \A k \in DOMAIN out :
              out[k] = <<k, IF Killed(k) THEN Oom ELSE IF k <= Len(a) THEN a[k].v ELSE Missing, b[k].v>>
        /\ pc = "error" => Len(out) >= Len(a) /\ Len(out) < Len(b) /\ ~Killed(Len(a))
        /\ pc = "done" => Len(out) = Len(b)

\* Figures 3b and 6b add up the periods in which both kinds of loads were counted,
\* each of them once, and fail only when these hold nothing (lines 22 to 70 of
\* parse_local_remote.py, 20 to 22 of parse_csv_local_remote_file.py).
Both == {k \in DOMAIN a : \E j \in DOMAIN b : b[j].t = a[k].t}
Loads == [k \in Both |-> <<a[k].v, (CHOOSE l \in {b[j] : j \in DOMAIN b} : l.t = a[k].t).v>>]

CountsAddUp ==
    prog = "counts" =>
        /\ pc = "done" => out = <<Sum(Loads, 1), Sum(Loads, 2)>>
        /\ pc = "error" => Sum(Loads, 1) + Sum(Loads, 2) = 0
=============================================================================

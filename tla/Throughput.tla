----------------------------- MODULE Throughput -----------------------------
(***************************************************************************)
(* main of benchmarks/btree_throughput/btree.c: the insertions, the lookup *)
(* loop run by OpenMP threads over shared, unprotected variables, and the  *)
(* SIGALRM handler that writes a sample every period.                      *)
(*                                                                         *)
(* The Makefile compiles with -O3 -fopenmp, and the build is what decides  *)
(* the outcomes of the races: every limb of x is loaded once and stored    *)
(* once per draw, and processed++ is one addq without a lock prefix, a     *)
(* load and a store that the thread's own signal handler cannot come       *)
(* between, but another thread can.  The tree is read-only in the loop and *)
(* is the dictionary BTree implements.                                     *)
(***************************************************************************)
EXTENDS Rand48, FiniteSets, Sequences

CONSTANTS Thread, Main,
          NElements, NLookup,
          A, C, X, Seed,
          MaxSamples,   \* bound on the samples of a run
          NULL

ASSUME ThreadAssumption == IsFiniteSet(Thread) /\ Main \in Thread
ASSUME ElementsAssumption == NElements \in Nat \ {0} /\ NElements % 2 = 0
ASSUME LookupAssumption == NLookup \in Nat /\ MaxSamples \in Nat
ASSUME RandAssumption == A \in Word /\ C \in Limb /\ X \in Word /\ Seed \in Int

VARIABLES phase,        \* start, insert, lookup, done
          i,            \* the loop variable of the insertions
          tree,         \* the record of every key
          x,            \* the limbs all threads draw from
          left,         \* iterations a thread still has to do
          th,           \* where a thread is, and its registers
          hd,           \* where the handler it runs is, and its registers
          processed, time_total,
          armed,        \* an alarm is pending
          log,          \* the samples written
          iters,        \* history: iterations counted by processed++
          reported      \* history: sum of the samples

vars == <<phase, i, tree, x, left, th, hd, processed, time_total, armed, log,
          iters, reported>>

Key == 0..(NElements - 1)

\* The element whose address is inserted with a key.
Element(k) == IF k % 2 = 0 THEN <<"elms", k \div 2>>
                           ELSE <<"elms2", (NElements - 1 - k) \div 2>>

\* A static schedule: NLookup iterations split over the threads, the first
\* NLookup % Cardinality(Thread) of them with one more.
Schedules ==
    LET n == Cardinality(Thread)
    IN  {s \in [Thread -> {NLookup \div n, NLookup \div n + 1}] :
            Cardinality({t \in Thread : s[t] > NLookup \div n}) = NLookup % n}

Load == [pc |-> "load", todo |-> 0..2, reg |-> [l \in 0..2 |-> 0], cnt |-> 0]
NoHandler == [pc |-> "none", time |-> 0, entries |-> 0]

Init ==
    /\ phase = "start"
    /\ i = 0
    /\ tree = [k \in Key |-> NULL]
    /\ x = X
    /\ left \in Schedules
    /\ th = [t \in Thread |-> Load]
    /\ hd = [t \in Thread |-> NoHandler]
    /\ processed = 0
    /\ time_total = 0
    /\ armed = FALSE
    /\ log = <<>>
    /\ iters = 0
    /\ reported = 0

seed ==
    /\ phase = "start"
    /\ phase' = "insert"
    /\ x' = Seeded(X[0], Seed)
    /\ UNCHANGED <<i, tree, left, th, hd, processed, time_total, armed, log,
                   iters, reported>>

\* Mutant: the second key is not the mirror of the first.
insert_pair_same ==
    /\ phase = "insert" /\ i < NElements
    /\ tree' = [tree EXCEPT ![i] = <<"elms", i \div 2>>,
                            ![NElements - i - 2] = <<"elms2", i \div 2>>]
    /\ i' = i + 2
    /\ UNCHANGED <<phase, x, left, th, hd, processed, time_total, armed, log,
                   iters, reported>>

\* One iteration of the insertion loop.
insert_pair ==
    /\ phase = "insert" /\ i < NElements
    /\ tree' = [tree EXCEPT ![i] = <<"elms", i \div 2>>,
                            ![NElements - i - 1] = <<"elms2", i \div 2>>]
    /\ i' = i + 2
    /\ UNCHANGED <<phase, x, left, th, hd, processed, time_total, armed, log,
                   iters, reported>>

\* The sleep, the ready file, the first alarm, and the parallel region.
start_lookups ==
    /\ phase = "insert" /\ i >= NElements
    /\ phase' = "lookup"
    /\ armed' = TRUE
    /\ UNCHANGED <<i, tree, x, left, th, hd, processed, time_total, log,
                   iters, reported>>

(***************************************************************************)
(* A thread's iteration.  Nothing moves while the thread runs the handler. *)
(***************************************************************************)
At(t, pc) == phase = "lookup" /\ hd[t].pc = "none" /\ th[t].pc = pc /\ left[t] > 0

\* next: a limb is loaded; with the last one the new limbs are computed.
Loaded(r, l) ==
    LET reg == [r.reg EXCEPT ![l] = x[l]]
    IN  IF r.todo = {l}
        THEN [r EXCEPT !.reg = next(A, C, reg), !.todo = 0..2, !.pc = "store"]
        ELSE [r EXCEPT !.reg = reg, !.todo = @ \ {l}]

load_limb(t) ==
    /\ At(t, "load")
    /\ \E l \in th[t].todo : th' = [th EXCEPT ![t] = Loaded(@, l)]
    /\ UNCHANGED <<phase, i, tree, x, left, hd, processed, time_total, armed, log,
                   iters, reported>>

Stored(r, l) == [r EXCEPT !.todo = @ \ {l}, !.pc = IF r.todo = {l} THEN "find" ELSE @]

\* Mutant: the lowest limb is not written.
store_limb_upper(t) ==
    /\ At(t, "store")
    /\ \E l \in th[t].todo :
          /\ x' = IF l = 0 THEN x ELSE [x EXCEPT ![l] = th[t].reg[l]]
          /\ th' = [th EXCEPT ![t] = Stored(@, l)]
    /\ UNCHANGED <<phase, i, tree, left, hd, processed, time_total, armed, log,
                   iters, reported>>

store_limb(t) ==
    /\ At(t, "store")
    /\ \E l \in th[t].todo :
          /\ x' = [x EXCEPT ![l] = th[t].reg[l]]
          /\ th' = [th EXCEPT ![t] = Stored(@, l)]
    /\ UNCHANGED <<phase, i, tree, left, hd, processed, time_total, armed, log,
                   iters, reported>>

\* The keys of the two lookups of an iteration.
LookedUp(t) == {Draw(th[t].reg) % NElements, ((Draw(th[t].reg) + 1) * 4) % NElements}

\* Both finds; what they sum up is not used.
find(t) ==
    /\ At(t, "find")
    /\ th' = [th EXCEPT ![t].pc = "count"]
    /\ UNCHANGED <<phase, i, tree, x, left, hd, processed, time_total, armed, log,
                   iters, reported>>

\* processed++: the load and the store of the addq.
load_processed(t) ==
    /\ At(t, "count")
    /\ th' = [th EXCEPT ![t] = [@ EXCEPT !.pc = "add", !.cnt = processed]]
    /\ UNCHANGED <<phase, i, tree, x, left, hd, processed, time_total, armed, log,
                   iters, reported>>

\* Mutant: both lookups of an iteration are counted.
store_processed_twice(t) ==
    /\ At(t, "add")
    /\ processed' = th[t].cnt + 2
    /\ left' = [left EXCEPT ![t] = @ - 1]
    /\ th' = [th EXCEPT ![t] = Load]
    /\ iters' = iters + 1
    /\ UNCHANGED <<phase, i, tree, x, hd, time_total, armed, log, reported>>

store_processed(t) ==
    /\ At(t, "add")
    /\ processed' = th[t].cnt + 1
    /\ left' = [left EXCEPT ![t] = @ - 1]
    /\ th' = [th EXCEPT ![t] = Load]
    /\ iters' = iters + 1
    /\ UNCHANGED <<phase, i, tree, x, hd, time_total, armed, log, reported>>

(***************************************************************************)
(* sig_handler, in any thread: SIGALRM is sent to the process.             *)
(***************************************************************************)
\* Mutant: the alarm is set again before the sample is taken.
SIGALRM_rearmed(t) ==
    /\ phase = "lookup" /\ armed /\ Len(log) < MaxSamples
    /\ hd[t].pc = "none"
    /\ th[t].pc # "add"
    /\ hd' = [hd EXCEPT ![t].pc = "load"]
    /\ UNCHANGED <<phase, i, tree, x, left, th, processed, time_total, armed, log,
                   iters, reported>>

SIGALRM(t) ==
    /\ phase = "lookup" /\ armed /\ Len(log) < MaxSamples
    /\ hd[t].pc = "none"
    /\ th[t].pc # "add"
    /\ armed' = FALSE
    /\ hd' = [hd EXCEPT ![t].pc = "load"]
    /\ UNCHANGED <<phase, i, tree, x, left, th, processed, time_total, log,
                   iters, reported>>

InHandler(t, pc) == phase = "lookup" /\ hd[t].pc = pc

sig_load(t) ==
    /\ InHandler(t, "load")
    /\ hd' = [hd EXCEPT ![t] = [pc |-> "print", time |-> time_total + 1,
                                entries |-> processed]]
    /\ UNCHANGED <<phase, i, tree, x, left, th, processed, time_total, armed, log,
                   iters, reported>>

sig_print(t) ==
    /\ InHandler(t, "print")
    /\ time_total' = hd[t].time
    /\ log' = Append(log, <<hd[t].time, hd[t].entries>>)
    /\ reported' = reported + hd[t].entries
    /\ hd' = [hd EXCEPT ![t].pc = "reset"]
    /\ UNCHANGED <<phase, i, tree, x, left, th, processed, armed, iters>>

\* Mutant: the counter is not set back.
sig_reset_none(t) ==
    /\ InHandler(t, "reset")
    /\ hd' = [hd EXCEPT ![t].pc = "rearm"]
    /\ UNCHANGED <<phase, i, tree, x, left, th, processed, time_total, armed, log,
                   iters, reported>>

sig_reset(t) ==
    /\ InHandler(t, "reset")
    /\ processed' = 0
    /\ hd' = [hd EXCEPT ![t].pc = "rearm"]
    /\ UNCHANGED <<phase, i, tree, x, left, th, time_total, armed, log,
                   iters, reported>>

\* fflush and alarm(45).
sig_rearm(t) ==
    /\ InHandler(t, "rearm")
    /\ armed' = TRUE
    /\ hd' = [hd EXCEPT ![t] = NoHandler]
    /\ UNCHANGED <<phase, i, tree, x, left, th, processed, time_total, log,
                   iters, reported>>

\* All iterations are done and main returns: a handler in another thread and
\* a pending alarm go with the process.
exit ==
    /\ phase = "lookup"
    /\ \A t \in Thread : left[t] = 0
    /\ hd[Main].pc = "none"
    /\ phase' = "done"
    /\ UNCHANGED <<i, tree, x, left, th, hd, processed, time_total, armed, log,
                   iters, reported>>

Terminated == phase = "done" /\ UNCHANGED vars

Iteration(t) == load_limb(t) \/ store_limb(t) \/ find(t) \/ load_processed(t)
                \/ store_processed(t)
sig_handler(t) == sig_load(t) \/ sig_print(t) \/ sig_reset(t) \/ sig_rearm(t)

Next ==
    \/ seed \/ insert_pair \/ start_lookups \/ exit \/ Terminated
    \/ \E t \in Thread : Iteration(t) \/ SIGALRM(t) \/ sig_handler(t)

Spec == Init /\ [][Next]_vars
-----------------------------------------------------------------------------
(***************************************************************************)
(* Properties.                                                             *)
(***************************************************************************)
ThreadRec == [pc : {"load", "store", "find", "count", "add"}, todo : SUBSET (0..2),
              reg : Word, cnt : Nat]
HandlerRec == [pc : {"none", "load", "print", "reset", "rearm"}, time : Nat,
               entries : Nat]

\* The types of the state; above all, whatever the threads' stores into x
\* interleave to, its limbs stay limbs.
TypeOK ==
    /\ phase \in {"start", "insert", "lookup", "done"}
    /\ i \in Nat
    /\ tree \in [Key -> ({"elms", "elms2"} \X Nat) \cup {NULL}]
    /\ x \in Word
    /\ left \in [Thread -> Nat]
    /\ th \in [Thread -> ThreadRec]
    /\ hd \in [Thread -> HandlerRec]
    /\ processed \in Nat /\ time_total \in Nat /\ iters \in Nat /\ reported \in Nat
    /\ armed \in BOOLEAN
    /\ log \in Seq(Nat \X Nat)

\* Every lookup finds the element inserted with its key, also when threads
\* draw from limbs that other threads have half written.
LookupsHit ==
    \A t \in Thread : th[t].pc = "find" =>
        \A k \in LookedUp(t) : k \in Key /\ tree[k] = Element(k)

\* A sample never shows more entries than iterations were done, whichever
\* increments and resets the race on processed loses.
SamplesBounded == \A n \in 1..Len(log) : log[n][2] <= iters

\* Samples are numbered 1, 2, 3, ...: the handler sets the next alarm last, so
\* that no two threads ever run it at a time.
SamplesNumbered == \A n \in 1..Len(log) : log[n][1] = n

\* With one thread, as under numactl -C 0, nothing is lost and nothing counted
\* twice: samples and counter add up to the iterations done.
ExactAccount ==
    Thread = {Main} =>
        iters = reported + IF hd[Main].pc = "reset" THEN 0 ELSE processed

\* With one thread the draws are those of the generator: a draw takes place
\* when its limbs have been loaded, and the stores put it into x.
Limbs == IF th[Main].pc = "store" THEN th[Main].reg ELSE x
Gen == INSTANCE Generator WITH
    Multiplier <- {A}, Increment <- {C}, Seed <- {Seed}, a <- A, c <- C,
    x <- Limbs,
    seeded <- phase # "start",
    drawn <- IF iters = 0 /\ th[Main].pc = "load" THEN 0 ELSE Draw(Limbs)
ImplementsGenerator == Gen!Spec
-----------------------------------------------------------------------------
(***************************************************************************)
(* The inductive invariant of the proofs.                                  *)
(***************************************************************************)
\* The insertions come from both ends of Key, the even keys upwards and the
\* odd ones downwards.
Filled ==
    /\ i % 2 = 0
    /\ \A k \in Key : (k % 2 = 0 /\ k < i) \/ (k % 2 = 1 /\ NElements - 1 - k < i)
                          => tree[k] = Element(k)
    /\ phase \in {"start", "insert"} => \A t \in Thread : th[t].pc = "load"
    /\ phase \in {"lookup", "done"} => i >= NElements

\* Every copy of processed, in a register or in the log, is some count of
\* iterations done.
Bounded ==
    /\ processed <= iters
    /\ \A t \in Thread : th[t].cnt <= iters /\ hd[t].entries <= iters
    /\ SamplesBounded

\* The handler runs in one thread at most, and never with an alarm pending.
OneHandler ==
    /\ armed \/ phase \in {"start", "insert"} => \A t \in Thread : hd[t].pc = "none"
    /\ \A t, u \in Thread : hd[t].pc # "none" /\ hd[u].pc # "none" => t = u
    /\ \A t \in Thread : hd[t].pc = "print" => hd[t].time = time_total + 1
    /\ Len(log) = time_total
    /\ SamplesNumbered

\* A single thread's registers are not stale: its handler never comes between
\* its own load and store.
Account ==
    Thread = {Main} =>
        /\ th[Main].pc = "add" => th[Main].cnt = processed /\ hd[Main].pc = "none"
        /\ hd[Main].pc = "print" => hd[Main].entries = processed
        /\ iters = reported + IF hd[Main].pc = "reset" THEN 0 ELSE processed

\* Between the loads of a draw a single thread's registers agree with x on the
\* limbs it has loaded, and between the stores x agrees with the registers on
\* the limbs it has stored.
Drawing ==
    Thread = {Main} =>
        /\ phase \in {"start", "insert"} => th[Main] = Load /\ iters = 0
        /\ phase = "start" => x = X
        /\ th[Main].pc \in {"load", "store"} =>
              \A l \in 0..2 : l \in th[Main].todo \/ th[Main].reg[l] = x[l]

IndInv == TypeOK /\ Filled /\ Bounded /\ OneHandler /\ Account /\ Drawing
=============================================================================

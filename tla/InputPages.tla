----------------------------- MODULE InputPages -----------------------------
(***************************************************************************)
(* evaluation_script/helpers/codes/basic-inputpages-pin.c: the program that*)
(* takes a number of pages from the memory of the host, writes every int   *)
(* of them and sleeps for ever.                                            *)
(*                                                                         *)
(* The widths of the C types are parameters, so that TLC can try them all  *)
(* around: an int has IntMod values, an unsigned long LongMod, a page has  *)
(* PageInts ints of SizeofInt bytes (2^32, 2^64, 1024 and 4 in the code).  *)
(* The kernel is external: what mlockall locks, whether mmap succeeds, and *)
(* whether a write finds a free frame.                                     *)
(***************************************************************************)
EXTENDS Integers

CONSTANTS PageInts, SizeofInt,
          IntMod, LongMod,
          AddressSpace,   \* bytes that a process can map
          Arg,            \* the numbers tried on the command line
          Text            \* an argument that is not a number

PageBytes == PageInts * SizeofInt

ASSUME PageAssumption == PageInts \in Nat \ {0} /\ SizeofInt \in Nat \ {0}
ASSUME IntAssumption == IntMod \in Nat \ {0} /\ IntMod % 2 = 0
ASSUME ArgAssumption == Arg \subseteq (-(IntMod \div 2))..((IntMod \div 2) - 1)
\* A size computed from a negative number of pages is beyond the address space,
\* one computed from any int does not wrap around.
ASSUME LongAssumption ==
    /\ LongMod \in Nat \ {0} /\ LongMod % IntMod = 0
    /\ AddressSpace \in Nat /\ AddressSpace >= PageBytes
    /\ PageBytes * (IntMod \div 2) + AddressSpace < LongMod
ASSUME TextAssumption == Text \notin Int

VARIABLES pc,
          argc, argv,       \* the command line; argv[1] and argv[2] are used
          multiplier, num_of_pages, size, i,
          mapped,           \* the mappings: the program itself, and the data
          locked,           \* those the kernel keeps in memory
          mem               \* the ints written, by index

vars == <<pc, argc, argv, multiplier, num_of_pages, size, i, mapped, locked, mem>>
args == <<argc, argv>>

\* The result of atoi for an argument that is not a number is 0.
atoi(a) == IF a = Text THEN 0 ELSE a

\* The conversion of an int to unsigned long.
ULong(n) == n % LongMod

\* Mutant: the product of the number of pages and 1024 is an int.
PageSizeInt(n) ==
    LET k == ((PageInts * n + (IntMod \div 2)) % IntMod) - (IntMod \div 2)
    IN  (ULong(k) * SizeofInt) % LongMod

\* 1024 * sizeof(int) * num_of_pages, of type unsigned long.
PageSize(n) == (PageBytes * ULong(n)) % LongMod

\* i * multiplier is an unsigned long; the store keeps an int of it.
Stored(k, m) == ((k * ULong(m)) % LongMod) % IntMod

\* Mutant: the last int is left out.
IntsShort == (size - 1) \div SizeofInt

\* Mutant: while (i <= size/sizeof(int)).
IntsLong == size \div SizeofInt + 1

\* while (i < size/sizeof(int))
Ints == size \div SizeofInt

-----------------------------------------------------------------------------
Init ==
    /\ pc = "mlockall"
    /\ argc \in 1..4
    /\ argv \in [1..2 -> Arg \cup {Text}]
    /\ multiplier = 0 /\ num_of_pages = 0 /\ size = 0 /\ i = 0
    /\ mapped = {"program"}
    /\ locked = {}
    /\ mem = [k \in {} |-> 0]

\* MCL_CURRENT locks what is mapped now, or nothing when the limit is too low;
\* the result is not looked at.
mlockall ==
    /\ pc = "mlockall"
    /\ locked' \in {{}, mapped}
    /\ pc' = "usage"
    /\ UNCHANGED <<args, multiplier, num_of_pages, size, i, mapped, mem>>

usage ==
    /\ pc = "usage" /\ argc < 2
    /\ pc' = "exit"
    /\ UNCHANGED <<args, multiplier, num_of_pages, size, i, mapped, locked, mem>>

arguments ==
    /\ pc = "usage" /\ argc >= 2
    /\ multiplier' = IF argc = 3 THEN atoi(argv[2]) ELSE 1
    /\ num_of_pages' = atoi(argv[1])
    /\ size' = PageSize(num_of_pages')
    /\ pc' = "mmap"
    /\ UNCHANGED <<args, i, mapped, locked, mem>>

\* mmap refuses an empty mapping and one that does not fit; it may refuse any
\* other.  addr is not compared with MAP_FAILED.
mmap ==
    /\ pc = "mmap"
    /\ \/ size > 0 /\ size <= AddressSpace /\ mapped' = mapped \cup {"data"}
       \/ UNCHANGED mapped
    /\ pc' = "fill"
    /\ UNCHANGED <<args, multiplier, num_of_pages, size, i, locked, mem>>

\* Mutant: i is an int, and size/sizeof(int) is compared with it.
write_int ==
    /\ pc = "fill" /\ i < Ints
    /\ "data" \in mapped
    /\ mem' = [k \in DOMAIN mem \cup {i} |-> IF k = i THEN Stored(i, multiplier) ELSE mem[k]]
    /\ i' = (i + 1) % (IntMod \div 2)
    /\ UNCHANGED <<pc, args, multiplier, num_of_pages, size, mapped, locked>>

\* One iteration of the loop.
write ==
    /\ pc = "fill" /\ i < Ints
    /\ "data" \in mapped
    /\ mem' = [k \in DOMAIN mem \cup {i} |-> IF k = i THEN Stored(i, multiplier) ELSE mem[k]]
    /\ i' = i + 1
    /\ UNCHANGED <<pc, args, multiplier, num_of_pages, size, mapped, locked>>

\* A store through MAP_FAILED: SIGSEGV.
fault ==
    /\ pc = "fill" /\ i < Ints
    /\ "data" \notin mapped
    /\ pc' = "segv"
    /\ UNCHANGED <<args, multiplier, num_of_pages, size, i, mapped, locked, mem>>

\* The first store into a page finds no frame, and the kernel kills the process.
oom_kill ==
    /\ pc = "fill" /\ i < Ints
    /\ "data" \in mapped /\ i % PageInts = 0
    /\ pc' = "killed"
    /\ UNCHANGED <<args, multiplier, num_of_pages, size, i, mapped, locked, mem>>

\* "Data populated" is printed, and the loop of sleep(100) begins.
populated ==
    /\ pc = "fill" /\ i >= Ints
    /\ pc' = "sleep"
    /\ UNCHANGED <<args, multiplier, num_of_pages, size, i, mapped, locked, mem>>

\* while(1) sleep(100), or a process that has ended.
rest == pc \in {"sleep", "exit", "segv", "killed"} /\ UNCHANGED vars

Next == mlockall \/ usage \/ arguments \/ mmap \/ write \/ fault \/ oom_kill
        \/ populated \/ rest

Spec == Init /\ [][Next]_vars

\* The program is one thread that nobody stops; the kernel need not refuse.
FairSpec ==
    Spec /\ WF_vars(mlockall \/ usage \/ arguments \/ mmap \/ write \/ fault
                    \/ oom_kill \/ populated)

-----------------------------------------------------------------------------
TypeOK ==
    /\ pc \in {"mlockall", "usage", "mmap", "fill", "sleep", "exit", "segv", "killed"}
    /\ argc \in 1..4
    /\ argv \in [1..2 -> Arg \cup {Text}]
    /\ multiplier \in Arg \cup {0, 1}
    /\ num_of_pages \in Arg \cup {0}
    /\ size \in 0..(LongMod - 1)
    /\ i \in Nat
    /\ mapped \in SUBSET {"program", "data"}
    /\ locked \in SUBSET {"program", "data"}
    /\ mem \in [0..(i - 1) -> 0..(IntMod - 1)]

\* What is mapped is as many pages as the command line says, although the number
\* is an int, the size an unsigned long, and neither is checked: a negative
\* number or 0 never gets memory (lines 25 to 28).
SizeExact == "data" \in mapped => num_of_pages > 0 /\ size = PageBytes * num_of_pages

\* The program goes to sleep only when the ints of all pages are written, the
\* last one too, and then two pages hold the same ints, so that KSM could merge
\* them, exactly when the product wraps around between them (lines 32 to 36).
Page(p) == [k \in 0..(PageInts - 1) |-> mem[PageInts * p + k]]

PagesAlike ==
    pc = "sleep" =>
        /\ DOMAIN mem = 0..(PageInts * num_of_pages - 1)
        /\ \A p, q \in 0..(num_of_pages - 1) :
              Page(p) = Page(q) <=> (PageInts * (q - p) * multiplier) % IntMod = 0

\* The unchecked result of mmap shows at the first store, before anything has
\* been written; a mapping that was granted is never left (lines 28 and 33).
StoresInside ==
    /\ pc = "segv" => "data" \notin mapped /\ i = 0 /\ num_of_pages # 0
    /\ "data" \in mapped => i <= PageInts * num_of_pages
    /\ "data" \notin mapped => i = 0

\* For every command line the program comes to rest: the index reaches the size
\* (lines 31 to 35).
Settles == <>(pc \in {"sleep", "exit", "segv", "killed"})
=============================================================================

# TLA+ models of the nuKSM artifact

The repository is the artifact of *nuKSM: NUMA-aware Memory De-duplication for
Multi-socket Servers*: workloads that run inside two virtual machines, shell
scripts that start the machines, run the workloads and collect readings, and
scripts that turn the readings into the tables of the paper. The kernels under
test are a git submodule and are not part of the repository. The program logic
of the artifact's own is in `benchmarks/btree`, `benchmarks/btree_throughput`
and `benchmarks/randomAccess`, in `evaluation_script` (drivers, orchestration and
the helper that occupies memory) and in `scripts`.

This directory holds the modules, the TLC configurations, the TLAPS proofs and
`PROJECT.json`, which maps every definition to the lines it models and lists
runs, mutants, hazards and theorems.

## 1. Inventory

### B+ tree (`benchmarks/btree/btree.c`; `btree_throughput` has the same code)
* **State**: nodes with arrays of `order - 1` keys and `order` pointers, a parent
  pointer, a leaf flag and a `next` pointer; the root; the free lists of the node
  slab and of the record slab; the queue of `print_tree`.
* **Operations**: `find`, `find_range`, `insert` (update, new tree, insertion
  into a leaf, split of a leaf, insertion into the parent, split of an internal
  node, new root), `delete` (removal, `adjust_root`, coalescence,
  redistribution, recursion into the parent), `print_tree`, `print_leaves`,
  `height`, `find_and_print_range`. `main` calls `insert` and `find`; the other
  operations are the file's interface and have no caller.
* **Hard**: array searches without a bound (`while (n->keys[i] != key) i++`),
  climbs by parent pointers that every split, merge and redistribution has to
  move, minima that differ between leaves and internal nodes and between odd and
  even orders, separators that deletions leave behind when their key is gone, the
  chain of leaves, nodes freed only after the recursion has returned.
* **Correct when**: it is a dictionary; arrays are never overrun; parent pointers
  agree; every node but the root has its minimum; leaves are at one depth; the
  chain visits them in order; nothing leaks and nothing freed is reachable; every
  call returns; a range query returns the range.

### Random number generator (same file: `N` .. `next`)
* **State**: three 16-bit limbs `x`, multiplier `a`, increment `c`.
* **Operations**: `redisSrand48`, `redisLrand48`.
* **Hard**: products cut to `int32_t` and therefore signed, carries found by
  comparison, a seed that is negative.
* **Correct when**: it is `x := a x + c mod 2^48` with the full period, and a draw
  is the upper 31 bits.

### Throughput benchmark (`benchmarks/btree_throughput/btree.c`, `main` and `sig_handler`)
* **State**: the tree (read only after the insertions), the limbs, the counter
  `processed`, `time_total`, the pending alarm, the file of samples.
* **Operations**: the insertions from both ends of the key range; the lookup loop
  under `#pragma omp parallel for`; the SIGALRM handler that writes `time_total`
  and `processed` every 45 seconds and resets the counter.
* **Hard**: threads share the limbs and the counter without a lock; the handler
  runs in any thread while the others go on.
* **Correct when**: every lookup hits; samples are numbered in order and never
  show more than was done; with one thread the account is exact.

### Random access micro-benchmark (`benchmarks/randomAccess`)
* **State**: the file `pid_file`, the mapped memory, the signal dispositions of the
  benchmark, the state of the controlling script; in the loops, the state of
  `rand_num`.
* **Operations**: the benchmark writes its pid and installs handlers for SIGUSR1
  (`filldata`) and SIGUSR2 (`random_access`); `complete_script.py` reads the file,
  sends a signal and spins until it gets SIGUSR1 in return.
* **Hard**: the pid is public before the handlers are installed; the file is empty
  between `fopen` and `fclose`; `sa_mask` is uninitialised; the answer may come
  while the script sleeps; a quotient that is narrower than the array.
* **Correct when**: memory is only read once filled, no answer is lost, an answer
  means that the work was done, the script comes to an end unless the benchmark has
  died, and the reads stay inside the array and spread over it.

### Memory helper (`evaluation_script/helpers/codes/basic-inputpages-pin.c`)
* **State**: the command line, the size of the mapping, the index, the ints written.
* **Operations**: `mlockall`, the size from the number of pages, `mmap`, a store to
  every int, a sleep for ever.
* **Hard**: an unchecked `int` becomes an `unsigned long` size; the result of `mmap`
  is not looked at; the product that is stored wraps around, so that pages meant to
  be different may be merged by KSM.
* **Correct when**: exactly the pages asked for are mapped and written, no store is
  outside them, and the program comes to rest.

### Experiment orchestration and campaign drivers (`evaluation_script`)
* **State**: the VMs, background jobs and their pids, the working directory, the
  links `config/config.sh` and `configure_ksm_at_begining.sh`, the folder
  `data_collections`, the result folders, the state of KSM and the priorities.
* **Operations**: start the VMs, set priorities, start collectors, prepare, run the
  workload in both VMs, wait, stop the collectors, copy files from the VMs, shut
  down; the drivers do so for each experiment, copy the folder and empty it.
* **Hard**: the phases are kept apart by sleeps; `virsh shutdown` returns before
  the machine is off; some steps leave the working directory changed; folders, a
  log that is appended to and a link are shared by all experiments; nothing stops
  at an error.
* **Correct when**: a result folder holds the readings of its own experiment, made
  under the conditions it is labelled with, and the figures find them.

### Result processing (`scripts`, `evaluation_script/parse_local_remote.py`)
* **State**: dictionaries of the lines of one file, the rows printed so far.
* **Operations**: join two files on the time, add up, find the jump that means an
  out-of-memory kill, print a table.
* **Hard**: files of different lengths, lines that were not counted, sums of 0.
* **Correct when**: a row puts together what belongs together, or the program fails.

### VM configuration, other helpers, third-party programs
`gen_vmconfigs.py` rewrites libvirt XML; `helperPrograms` occupy memory; XSBench,
NPB and sysbench are vendored.

### Interaction
The campaign driver selects a configuration and calls an orchestration script,
which logs into the VMs and starts a workload. The throughput benchmark calls the
tree and the generator in its own process; the micro-benchmark answers its
controlling script by signals. Samples and times go through files to the result
scripts.

## 2. Modules

| module | models | used by |
|---|---|---|
| `OrderedMap` | what the tree promises: a dictionary with one call at a time | `BTree` (refinement) |
| `BTree` | the tree, its slabs, `find`, `find_range`, `insert`, `delete`, and its properties | all `BTree*` modules |
| `BTreeInv` | the inductive invariants | `MCBTree`, the proofs |
| `BTreePrint` | `print_tree`, `print_leaves`, `height` | `MCBTree` |
| `BTreeRange` | the arrays of `find_and_print_range` | `MCBTree`, `BTreeMap` |
| `MCBTree` | the tree and its output functions for TLC | runs `order3`, `order4`, `range_complete` |
| `BTreeSafety` | proofs about the arrays and pointers of the tree; facts about the order of keys | `BTreeMap` |
| `BTreeMap` | proofs about the order of keys, the chain, ranges, the dictionary and the slabs | |
| `Rand48` | the limb arithmetic as operators | `Generator`, `Throughput` |
| `Generator`, `MCGenerator` | the generator called by one thread | run `generator` |
| `Throughput`, `MCThroughput` | insertions, threads, handler | runs `throughput_one`, `throughput_two` |
| `ThroughputProofs` | proofs about `Throughput` | |
| `InputPages`, `MCInputPages` | the helper that occupies memory | run `input_pages` |
| `InputPagesProofs` | proofs about `InputPages` | |
| `RandomReads`, `MCRandomReads` | `rand_num` and the loops of `random_access`, and those of the sibling program | run `random_reads` |
| `RandomReadsProofs` | proofs about `RandomReads` | |
| `RandomAccess`, `MCRandomAccess` | benchmark, signals, `pid_file`, controlling script, phases of `run.sh` | run `access` |
| `RandomAccessProofs` | proofs about `RandomAccess` | |
| `Campaign`, `MCCampaign` | drivers, orchestration scripts, guests, folders and links | runs `campaign`, `campaign_counts` |
| `CampaignProofs` | proofs about `Campaign` | |
| `Results`, `MCResults` | the programs behind the figures | run `results` |
| `ResultsProofs` | proofs about `Results` | |

### BTree
The tree is sequential. `call` is the activation that runs next, with its
arguments; one action is one iteration of the descent of `find_leaf` or one C
function of the update path. An operation runs to its end before the next begins,
and the states between two of its functions can be seen, which is where parent
pointers and arrays are at risk. `heap[n]` holds `keys[0 .. num_keys-1]` as a
sequence; the array `pointers` is split into `kids` (internal nodes), `recs`
(leaves; a record is its value) and `link` (`pointers[order - 1]` of a leaf). A
loop that looks for an index is a predicate that says where it stops
(`StopsAbove`, `StopsAtOrAbove`, `FirstIndex`); where the C loop has no bound the
predicate has no solution when the element is missing, and the call gets stuck,
which `CallsReturn` would show. `coalesce_nodes` puts its node into `doomed`; the
node goes to the free list when the recursion returns, as in the code. The free
lists are sets: addresses are compared for equality only. Memory does not run out
(`allocate` exits on ENOMEM); the bound `Node` is large enough that `free # {}`
is never what stops an action in the runs: `order3` would show it by `CallsReturn`, the
other runs as a deadlock.
Not modelled: `destroy_tree`, which has no caller.

### BTreePrint, BTreeRange
The queue of `print_tree` is a list through the `next` pointers, and `enqueue`
and `dequeue` work on it as in the code. One action is one iteration of the loop
of `print_tree` or of `print_leaves`. What is printed of a node is its keys, and
`out` is the lines printed. The slab's free list is threaded through the same `next`
pointers (lines 653 and 665): `slab` is what a call of the tree does to them, and
`PrintsLevels` says that the queue starts well from pointers the slab has used and
leaves the list as it was. The list is in the order in which `alloc_node` of `BTree`
takes the nodes. `Width` in `BTreeRange` is the modulus of `uint64_t`.

### Rand48, Generator
Numbers are in limbs of base `Base` (2^16 in the code). `Int32` is the conversion
of the product to `int32_t`; `HIGH` shifts it arithmetically, as the compilers
used do. `next` follows the C function carry by carry.

### Throughput
Undefined behaviour is modelled by what the build can do. In the binary the
Makefile builds (`-O3 -fopenmp`) every limb is loaded once and stored once per
draw, and `processed++` is one `addq` to memory without a lock prefix. So
`load_limb` and `store_limb` take the limbs in any order, one at a time, and the
increment is a load and a store that another thread can come between but the
thread's own handler cannot (`th[t].pc # "add"` in `SIGALRM`). The handler is four
steps in the order of the code; it may run in any thread and stops that thread
only. `alarm` is external: a pending alarm fires at any time. OpenMP's static
schedule is external: `Schedules` gives every thread its share. The tree is the
dictionary, since `BTree` implements it and the loop only reads it; the sum that
the loop computes is not used by anything. `iters` and `reported` are history
variables. `exit` ends the process with whatever handler another thread is in.

### InputPages
One action per statement of `main`. The widths of `int` and `unsigned long` and the
size of a page are constants; `PageSize` and `Stored` are the conversions and
products with the wrap-around of the C types. `mem` is the ints written so far. The
kernel is external: `mlockall` locks what is mapped at that moment or nothing,
`mmap` may refuse anything and must refuse an empty or too large size, the first
store into a page may find no frame.

### RandomReads
`State` and `Ranged` are the two lines of `rand_num`; `State2` and `Ranged2` are
those of `wl-randomreads-inputpages-2.c`, where `*=` multiplies by the sum. `seen` is
the set of words read, `draws` a history variable.

### RandomAccess
`wl` is where `main` of the benchmark is, `frames` the stack of handlers, each at a
statement of it, with the script that called. `pending` and `Blocked` are the
kernel's: a signal number is pending once, a handler blocks its own signal and its
`sa_mask`, a signal without a handler kills. The masks are never initialised by the
code, so `sigaction` chooses them. `pid_file` is whose pid the file holds: of no
process, of another one, of the benchmark, or nothing. A script is at `open`, `kill`,
`spin`, `sleep` or `second`; `out` is how it ended. `run.sh` starts the next script
when the last has ended, whatever became of it. `setting` is what a run is given and
never changes: the modes of its phases (`Plan`), whether the sleeps are long enough
for the benchmark to reach its loop (`Settled`), whether `mmap` always succeeds
(`Memory`). The reads themselves are in `RandomReads`; here a loop is counted.

### Campaign
One action is one function of an orchestration script or one statement of a driver.
`Steps` gives the functions of each script in the order in which it calls them, as
far as they change what is modelled; `pc` is the next one. A file is the set of the
measurements that can be read in it, and a measurement is a record of the folder and
command it was made for, the configuration, the state of KSM and the priority it was
made under, and whether its guest was stopping. So "the folder holds its own readings" can be said of the content of
folders, whatever way it got there. `cp` into a folder that exists changes nothing
at the place where the figures look; `scp` from a guest that is not there leaves the
old file; the shell truncates the file of times even if the guest cannot be
reached; `virsh start` fails for a guest that is still stopping. What goes on
in a guest before the measured phase is the business of `RandomAccess`. The user is
external: `Sessions` is the set of sequences of commands that are tried, reboots and
refused commands among them. That a workload is not started in a guest that is
stopping is an assumption of `phase3`; perf, which counts on the host, may still see
such a guest (`collect_read`), at the priority of the experiment before.
`ConditionsAsLabelled` is about every file of a folder and makes an exception for that
reading only, in the log and the counts. Which kernel is booted is the user's doing; no
script looks at it and the property does not speak of it. `FigureFiles` is what the
figures read of a folder: the counts for the perf folders (3b, 6b), else times or an
output, and nothing of the folders of `complete_mod.sh`. `AllMeasured` excepts the
counts of the micro-benchmark, which are never written (`campaign_counts`).

### Results
One action loads a file into a dictionary, goes through one line, or prints. A line
is a time and a value. A Python exception ends the program in `error`; what was
printed before stays printed. `Counted` makes files as perf and `grep -v "<not
counted>"` leave them: any line may be missing from either.

## 3. Runs

| run | bound | distinct states | shows |
|---|---|---|---|
| `order3` | order 3, 6 keys, 12 nodes; insert, delete, find, print | 293,073 | no leak and nothing dangling, parents agree, the inductive invariant in the middle of updates, every call returns, the tree implements `OrderedMap`, the output functions print it and leave the free list alone |
| `order4` | order 4, 6 keys, 2 values, 9 nodes; ranges as well | 914,728 | arrays fit, minima, chain of leaves, an update changes its own record, a range gives all of its keys in order or none and stays in its arrays |
| `range_complete` | order 3, 4 keys | violated | see below |
| `generator` | limbs of two bits, all parameters, seeds and states | 9,858 | the arithmetic is the congruence and has full period |
| `throughput_one` | one thread, 6 lookups, 4 samples | 22,358 | exact account, draws are the generator's |
| `throughput_two` | two threads, 3 lookups, 2 samples | 914,669 | lookups hit, samples bounded and numbered |
| `input_pages` | `int` of 4 bits, pages of 4 ints, all command lines | 24,956 | what is mapped and written; which pages are alike; it comes to rest |
| `access` | 3 words, 2 reads, phases `filldata`, `access` or mode `complete`, sleeps and memory that suffice or not | 6,658 | reads are of filled memory, an answer means done, a signal that went astray is never answered, only a dead or wrong target is waited for in vain, with long sleeps both phases end |
| `random_reads` | words of 5 bits, all multipliers and increments like the code's, 1 to 4 pages, 34 loops | 628,736 | reads are inside the array and reach what the quotient can reach; the sibling reads one word |
| `campaign` | the workflow of the README, any two of seven commands, the fifteen priority experiments after a driver that ran or was refused; one late guest | 311,398 | every folder has its own readings, made under the conditions of its label but for a late guest's counts; sessions end, and without a late guest the figures find in the files they read every measurement but the counts of the micro-benchmark |
| `campaign_counts` | the perf experiments | violated | see below |
| `results` | files of up to three lines, three values | 33,169 | joins, out-of-memory latch, sums |

**Bounds.** Order 3 is `MIN_ORDER` and makes the deepest trees of a few keys: six
keys give three levels, with splits, merges and redistribution of internal nodes
and an internal root that is replaced. At order 4 the minima of leaves and
internal nodes differ and splits are uneven, which order 3 does not show; with six keys
the root is the only internal node there, so that merges of internal nodes are left to
order 3 and to the theorems. Two
values are enough since the tree never looks at a value. The nodes are more than
any tree of that many keys takes. Ranges are left to order 4, where the chain has up
to three leaves, and to `range_complete`. Limbs of two bits have products with a sign bit
and every carry; all values of all parameters are tried. Two threads and three
lookups let one thread do an iteration between any two steps of the other, and two
samples let a lost reset show up in the next one; `MaxSamples` bounds the alarms.
`NElements = 6` is even, as NELEMENTS is. An `int` of four bits and pages of four
ints make seven pages wrap around the product, and the size of a negative number of
pages wraps around `unsigned long`. With words of five bits and a quotient of eleven
values, arrays of two pages are smaller and arrays of three pages larger than the
quotient; 34 loops go through the period of the generator. Three words and two
reads put a signal before, inside and after each loop. Two commands are enough for a
repetition, a usage error before a run, a change of KSM and a reboot in between;
`MaxLate` bounds how often a guest is late in a session. Three lines give a file that is shorter
or longer than the other, a jump and a line after it.

**Deadlock** is checked in every run but `random_reads`, whose loops end and leave
nothing to do. `Throughput` has the step `Terminated` for the process that has
ended, the other modules `rest`: a process that sleeps for ever or has ended, a
script that spins, a session that is over.

**Fairness.** `FairPrintSpec` of `BTreePrint` is weak fairness of the running call: the
program is one thread that is never stopped in the middle of a call. `FairSpec` of
`Generator` is weak fairness of the loop that draws. No fairness is assumed of the
client of the tree, nor of any thread or signal of the throughput benchmark.
`FairSpec` of `InputPages` is weak fairness of its one thread. In `RandomAccess` the
benchmark, each of its handlers, the script and the delivery of a signal that is not
blocked are weakly fair: two processes that the kernel schedules, and no one stops
them. In `Campaign` the scripts and the user go on, and a guest that was asked to
stop does so some time; how late is open.

**The disagreements.** `find_range` gives up when `key_start` is above every key of
the leaf that `find_leaf` leads to (`if (i == n->num_keys) return 0;`, line 544),
although the leaves to the right may hold keys of the range. Its comment says that
it "finds keys and their pointers, if present, in the range specified". The run
`range_complete` shows it after three insertions: the split of a leaf makes the leaves
{1} and {3, 4} with the separator 3, the first key of the right leaf. A range that
starts at 2, in the gap between the last key of the left leaf and the separator, is
led to the left leaf and returns nothing. The
benchmarks do not call `find_range`.

In a PERF run of `run.sh`, `process_results` calls `python3 parse_local_remote.py`
(line 133) when the shell is in `helpers/`: `run_workloads_inside_vm_op_redirection`
changes the directory and does not change it back (`virsh_scripts.sh`, line 40), and
`run.sh` calls it in the foreground. The counts of the micro-benchmark are never
written, although `figure_six_b.sh` (line 15) lists it. The run `campaign_counts`
shows it; the other scripts call the function in the background, in a subshell.

Not a matter for a model, but seen on the way: `figure_three_a.sh` labels its columns
KSM_ON, KSM_ON, KSM_OFF, KSM_OFF (line 11) and prints KSM_OFF first (line 23).

## 4. Proofs

All theorems hold for every value of the constants that satisfies the ASSUMEs.

**Tree** (`OrderAssumption`: `Order >= 3`; `KeyAssumption`, `NullAssumption`,
`VoidAssumption`, `OpsAssumption`). `BTreeSafety!Inductive` proves `Spec => []IndInv`
and from it `PointersLive` (no function follows a pointer to a freed node: its parts
`CallOK` and `Linked`), `ArraysNeverOverrun`, `ParentPointers` and `Occupancy`.
None of these is inductive alone: that a merged node fits needs the minima of the
neighbour, that the climb of `insert_into_parent` ends at the right node needs the
parent pointers in the middle of an insertion, and that a node and its neighbour
are both leaves or both internal, which decides how they are merged, needs that
the tree is balanced. `IndInv` therefore says of every moment, inside an update
too: arrays have the right lengths (`Shaped`); child and parent pointers agree but
for the one entry that is about to be deleted (`Dangling`) or inserted (`Orphan`)
(`Linked`); no node is below its minimum (`Full`); there is a height function that
falls by one from parent to child and is 0 at the leaves only (`Graded`); and each
activation has what it relies on (`CallOK`). The parts take the heap and the set of
nodes as parameters, so that the proof can state them of the heap half way through
`delete_entry`, when `remove_entry_from_node` has left a node one key below its
minimum (`Removed`).

*Order.* `BTreeMap!AlwaysInOrder` proves `Spec => []OrdInv`. The order of the keys is
not inductive as a statement about neighbouring keys: after deletions a separator
need not be a key of any leaf, and in the middle of an update the arrays of a parent
do not agree with its children. `InOrder` therefore gives every node a span by ghost
functions: node `n` is responsible for the keys from `lo[n]` up to `hi[n]`, its keys
are inside (`Spans`), the separators of an internal node divide its span among its
children (`Routed`), the spans of leaves are apart (`Apart`), and the link of a leaf
leads to the leaf whose span begins where its own ends (`Chained`). `seen` is the end
of the span that the parent's arrays send to a node; it differs from `hi` between a
split and `insert_into_parent` and between a merge and `delete_entry`, at the one
node the running call knows (`Pending`). `Searches` puts a search into a node whose
span has its key, and says what a scan has collected so far. One lemma per action
gives the spans after it. From `OrdInv` follow `LeafChain` (`LeavesChained`),
`RangeSound` (`RangeIsSound`) and the refinement.

*Dictionary* (`RequestAssumption`). `TreeIsMap` proves `Spec => ImplementsMap`, that is
`Map!Spec` with the refinement mapping `Dict`, `Req` of `BTree`. Each action is shown to
keep the set of entries (`SameEntries`), to set one (`Puts`) or to take one away
(`Drops`); since the spans of leaves are apart a key has one place, so these are the
steps of the dictionary. A search that ends at a leaf has found the only leaf the key
can be in: that is what makes the answer of `find` and the early return of `insert`
right.

*Slabs* (`NodeAssumption`: `Node` is finite). `NothingLost` proves `NoLeakNoDangling`.
For records, `Counted` says that as many are taken from the slab as keys are stored,
and one more between `delete_entry` and the end of a deletion (`RecordsCounted`). For
nodes, `Linked` and `Graded` leave only the possibility that a live node is not
reachable; every live node but the root has a parent one height above it (`Hangs`),
no height between a node's and the root's is empty, so there are at most as many
levels as nodes and `Level[d]` is the set of the nodes whose height is `d` below the
root's. This is an induction over levels, made as an argument about a least
counterexample.

*Ranges* (`WidthAssumption`). `RangeArraysFit` proves `RangeFits` under the hypothesis
`Narrow`, that the size of every range is below 2^64; at 2^64 keys the size the code
computes is 0.

**Throughput** (`BaseAssumption`, `ThreadAssumption`, `ElementsAssumption`,
`LookupAssumption`, `RandAssumption`). `ThroughputInductive` proves
`Spec => []IndInv`, and from it follow `AllLookupsHit`, `SamplesNeverInflated`,
`SamplesInOrder` and `SingleThreadExact`, for any number of threads and any width
of the limbs. `Filled` says which keys the insertions from both ends have reached;
with it, and since a step of the generator turns any three limbs into three limbs,
torn draws included, every lookup hits. `Bounded` says that every copy of the
counter, in a register or in the file, is at most the iterations done. `OneHandler`
says that the alarm and the handler exclude each other. `Account` says that the
registers of a single thread are not stale, and `Drawing` that between its loads they
agree with `x` on the limbs already loaded, and between its stores on those already
stored.

With one thread (the hypothesis `Thread = {Main}`, the run under `numactl -C 0`)
`OneThreadDraws` proves that the loads and stores implement `Generator`: the last load of
a draw is `redisLrand48`, every other step a stutter; by `Drawing` the registers hold all
of `x` at that load, and `x` all of the registers after the last store.
`OneThreadCongruence` goes on to what the limbs mean, for every even `Base`: `Gen!IsLcg`.
It rests on `MulExact` (the sign that a product of two limbs gets in 2N bits is lost in
the masks: the halves are exactly the product), `CarryExact` (a masked sum and its carry
are exactly the sum), `NextIsLcg` (so that three limbs and three carries add up to
`a x + c` modulo `Base^3`), `DrawIsTop` and `SeededValue`. These lemmas are about any
multiplier, increment and seed; the run `generator` checks `IsLcg` of `Generator` itself. With two threads neither
holds, and nothing of the kind is claimed.

**Memory helper** (`PageAssumption`, `IntAssumption`, `ArgAssumption`,
`LongAssumption`, `TextAssumption`). `InputPagesProofs` proves `TypeOK`, `SizeExact`,
`StoresInside` and `PagesAlike` for every width of the types, every
size of a page and every command line. The inductive invariant says what `size` is
for each number of pages, that the ints below the index are the products, and that a
program asleep has reached the bound of its loop. The proof of `PagesAlike` rests on
lemmas about remainders: cutting to the longer type first makes no difference, and
two products are equal as ints when their difference is a multiple of the modulus.

**Micro-benchmark** (`WordsAssumption`, `PlansAssumption`). `FilledFirst` proves
`ReadsFilled` for any sequence of `filldata` and `access` phases, any array, any
masks, sleeps that are too short and mappings that fail. `ReadsFilled` is not
inductive: it needs that `random_access` never starts on top of `filldata`, which the
masks do not ensure. The scripts do: `OneAtATime` says that at most one signal is
pending or being handled, and that its script waits for it without an answer;
`Below` and `ExitsOnly` say that below the running handler there are only handlers
that have answered and are about to exit; `FilledOrFilling` says that a mapping is
filled unless the running handler is filling it. Mode `complete` sends its second
signal without waiting, and is excluded (`Phased`, a condition of `ReadsFilled`).
`AnswersHold` proves `AnswerMeansDone` when no phase but the first fills
(`FilledOnce`; `run.sh` calls the script so): a second `filldata` starts all over, and
then the first answer holds no longer.
`AInv` ties the answer that is on its way, and every answer given, to the memory its
phase has left. For mode `complete` `CInv` says where the second signal can be when the
first one is answered, and gives `AnswerMeansDone` again (`CompleteAnswer`).
`StraysShow` proves `StrayUnanswered`, where the sleeps may be too short: `SInv` says that
nothing reaches the benchmark before `pid_file` holds its pid, nor after a script has
read another one, since that script never ends; `KInv` that a benchmark without both
handlers has read nothing, and one that has both is not killed by a signal. That mode
`complete` never sends its second signal when the first is answered during the sleep is
in the model and is a defect of a mode that no script uses; no property requires it.
`OnlyOurs` proves `OnlyBenchSignalled` for any
plan, from where `main` is when the sleeps have ended.

*Reads* (`WidthAssumption`, `ModAssumption`: `Mod` is a power of two, said as: its only odd
divisor is 1; `MultiplierAssumption`, `IncrementAssumption`, `PagesAssumption`).
`ReadsStayInside` and `ReadsSpreadOut` prove `ReadsInside` and `ReadsSpread`. The invariant
(`IInv`) says that the states drawn are a trail of the generator from 1 and the words read
what `Ranged` makes of them, and that the state of the sibling stays 0. `ReadsSpread` needs
that the generator goes through all of its states (`FullPeriod`). That is an induction over
the width, made as an argument about a least counterexample: two steps modulo `2 h` keep
the parity of the state, and on the states of one parity they are one step modulo `h` with
the multiplier `a * a`, which is 1 modulo 4, and an increment that is odd (`TwoSteps`,
`CoversTwice`). A word `w` within reach is drawn from the state `w * Divisor`.

**Campaign** (`SessionAssumption`, `LateAssumption`). `FilesInductive` proves an invariant
for every session of commands, any number of guests and any number of sleeps that were
too short; `OwnReadings` (`FoldersOwn`) and `ConditionsAsLabelled` (`LabelsHold`) follow.
Neither is inductive: what `cp` puts into a folder is whatever `data_collections` holds.
`DataOK` says for each file what that can be at each step: readings of the running
experiment, but for the times of CG, which `complete_mod.sh` leaves and the measured
phase of BTREE overwrites (`OldTimes`), and the output of MySQL, which the
micro-benchmark does not overwrite (`LeftOver`). `DiskOK` says that what a guest that is
on holds after the measured phase was written in it, `GuestsOK` that a guest that is on
was started by the running experiment and so has the priority of it, `LinksOK` that
the state of KSM is that of the link and the link that of the last command that makes
it. `LateOK` says that a guest is stopping when an experiment measures only if it was
late: that is the one way to a reading of perf at another priority (`Counted`).
`StepsFollow` and `DriversRun` are the facts about the tables of scripts and drivers
on which this rests.

**Results** (`ResultsAssumption`). `FigureFour` and `FigureEight` prove
`ThroughputJoined` and `OomFromJump` for files of any length. The invariants say what
is in the dictionary and what was printed after `i` lines; for figure 8 that the flag
`oom` is set exactly when there was a jump among them, and that `prev` is the reading of
line `i` until then.
`FiguresThreeAndSix` proves `CountsAddUp`. `Sum` takes the rows in an order of its own, so the
proof first shows, by least counterexamples in the number of rows, that its recursion has a
solution (`SumIs`), that any row may be taken first (`SumAnyOrder`) and that two tables whose
rows correspond have the same sums (`SumsAgree`). Lines are more than a second apart
(`Period > 10` tenths), so rounding keeps them apart and pairs the same periods
(`SecondsApart`), and the rows written correspond to the periods both files have
(`WrittenRows`).

**Only model-checked**: what `print_tree` and `print_leaves` print (`PrintsLevels`,
`PrintsLeaves`; their definitions are RECURSIVE operators, which the prover does not take).
`HoldsInside` is the form of `IndInv`, `OrdInv` and
`Counted` that TLC can evaluate: it finds heights and spans instead of asking whether
there are any.
Liveness (`CallsReturn`, `FullPeriod`, `Settles`, `ScriptEnds`, `RunCompletes`,
`AllMeasured`) is out of the prover's reach.

## 5. Not modelled

`PROJECT.json` lists every component.
* `destroy_tree` has no caller. Licence, usage and verbose output are text.
* The orchestration scripts that no driver of the workflow calls: `run_native*.sh`,
  `run_perf*.sh`, `run_real_scalablity*.sh`, `run_real_dedup.sh`,
  `run_real_nosleep.sh`, `run_ycsb_throughput.sh`. They repeat the steps of the
  modelled scripts with other files. `complete_priority_btree.sh` repeats
  `complete_priority_single.sh`.
* A driver that is interrupted: none handles it, and the next command finds its files
  in `data_collections`.
* Preparation of the third-party workloads in the guests, and the workloads.
* The writes of the KSM scripts but `run`; `crontab_script.sh`, which starts the
  scalability runs after a reboot, and `configure_ksm_before_launch.sh`, which
  `run_perf_synthetic.sh` and `run_root.sh` call; the counters that the collectors
  print.
* The scripts that print the tables of the figures: `grep`, `awk` and one division
  per cell.
* `gen_vmconfigs.py` and the scripts around it: text. `helperPrograms`: straight-line
  code like `basic-inputpages-pin.c`.

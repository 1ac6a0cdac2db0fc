---------------------------- MODULE RandomAccess ----------------------------
(***************************************************************************)
(* The random access micro-benchmark inside one VM: the process            *)
(* wl-randomreads-inputpages, the script complete_script.py that finds it  *)
(* through pid_file and talks to it with SIGUSR1 and SIGUSR2, and run.sh,  *)
(* which runs prepare-workload.sh in the background, sleeps, and then runs *)
(* the scripts of its phases one after the other, whatever became of them. *)
(*                                                                         *)
(* The kernel is external: signals of one number do not queue, a signal    *)
(* without a handler kills, a handler blocks its own signal and those of   *)
(* its sa_mask.  The code leaves both sa_mask fields uninitialised: what   *)
(* they hold is chosen when the handler is installed.                      *)
(***************************************************************************)
EXTENDS Integers, Sequences

CONSTANTS Words,     \* ints of the array
          Reads,     \* reads of random_access
          Plans      \* the modes of the scripts, in the order of the phases

ASSUME WordsAssumption == Words \in Nat \ {0} /\ Reads \in Nat \ {0}
ASSUME PlansAssumption == Plans \subseteq Seq({"filldata", "access", "complete"})

Signals == {"SIGUSR1", "SIGUSR2"}
Nobody == 0

VARIABLES setting,     \* what the run is given, and never changes
          wl,          \* where the benchmark is
          pid_file,    \* what the file holds: whose pid, or nothing
          sa_mask,     \* per handler, the signals blocked while it runs
          pending,     \* per signal, the script it is from
          frames,      \* the handlers on the stack, the running one first
          addr, filled, reads,
          step, script,   \* the phase, and where its script is
          target,      \* the pid the script read
          answer,      \* an answer for the script is pending
          out,         \* how the scripts ended
          stranger     \* a process that now has the pid of an earlier benchmark

data == <<addr, filled, reads>>
server == <<wl, sa_mask, pending, frames, addr, filled, reads>>
client == <<step, script, target, answer, out>>
vars == <<server, pid_file, client, stranger, setting>>

Plan == setting.plan
Settled == setting.settled   \* run.sh sleeps long enough after the preparation
Memory == setting.memory     \* mmap always succeeds
Scripts == 1..Len(Plan)

Dead == {"exited", "killed", "segv"}
Alive == wl \notin Dead \cup {"off"}

Handler(sig) == IF sig = "SIGUSR1" THEN "filldata" ELSE "random_access"
Installed(sig) == IF sig = "SIGUSR1" THEN wl \in {"one", "loop"} ELSE wl = "loop"
Running(h, at) == Alive /\ frames # <<>> /\ Head(frames).handler = h /\ Head(frames).at = at
Go(at) == frames' = <<[Head(frames) EXCEPT !.at = at]>> \o Tail(frames)
Die(how) == wl' = how /\ frames' = <<>> /\ pending' = [sig \in Signals |-> Nobody]

-----------------------------------------------------------------------------
\* pid_file is left from the last time the VM ran, if at all; its pid belongs to
\* nobody, or to another process.
Init ==
    /\ setting \in [plan : Plans, settled : BOOLEAN, memory : BOOLEAN]
    /\ wl = "off"
    /\ pid_file \in {"absent", "dead", "stranger"}
    /\ sa_mask = [sig \in Signals |-> {}]
    /\ pending = [sig \in Signals |-> Nobody]
    /\ frames = <<>>
    /\ addr = "null" /\ filled = 0 /\ reads = 0
    /\ step = 0 /\ script = "none" /\ target = "none" /\ answer = FALSE
    /\ out = [k \in Scripts |-> "none"]
    /\ stranger = "alive"

\* The ssh session of prepare_vms gets through, and the shell forks the benchmark.
prepare ==
    /\ wl = "off" /\ wl' = "main"
    /\ UNCHANGED <<pid_file, sa_mask, pending, frames, data, client, stranger, setting>>

\* write_pid_to_file: fopen truncates.
fopen ==
    /\ wl = "main"
    /\ wl' = "truncated" /\ pid_file' = "empty"
    /\ UNCHANGED <<sa_mask, pending, frames, data, client, stranger, setting>>

\* Mutant: the stream is not closed, and the process never ends to flush it.
fclose_missing ==
    /\ wl = "truncated" /\ wl' = "written"
    /\ UNCHANGED <<pid_file, sa_mask, pending, frames, data, client, stranger, setting>>

\* The pid reaches the file when the stream is closed.
fclose ==
    /\ wl = "truncated"
    /\ wl' = "written" /\ pid_file' = "wl"
    /\ UNCHANGED <<sa_mask, pending, frames, data, client, stranger, setting>>

\* The two calls of sigaction, each with the sa_mask the stack happens to hold.
sigaction(sig) ==
    /\ \/ wl = "written" /\ sig = "SIGUSR1" /\ wl' = "one"
       \/ wl = "one" /\ sig = "SIGUSR2" /\ frames = <<>> /\ wl' = "loop"
    /\ \E mask \in SUBSET Signals : sa_mask' = [sa_mask EXCEPT ![sig] = mask]
    /\ UNCHANGED <<pid_file, pending, frames, data, client, stranger, setting>>

\* A handler blocks its own signal and its mask, while it is on the stack.
Blocked(sig) ==
    \E k \in DOMAIN frames : sig = frames[k].sig \/ sig \in sa_mask[frames[k].sig]

deliver(sig) ==
    /\ Alive /\ pending[sig] # Nobody /\ ~Blocked(sig)
    /\ IF Installed(sig)
       THEN /\ frames' = <<[handler |-> Handler(sig), sig |-> sig, at |-> "entry",
                            caller |-> pending[sig]]>> \o frames
            /\ pending' = [pending EXCEPT ![sig] = Nobody]
            /\ wl' = wl
       ELSE Die("killed")
    /\ UNCHANGED <<pid_file, sa_mask, data, client, stranger, setting>>

\* kill(callerpid, SIGUSR1): heard if that script still runs.
Answer(caller) == answer' = (answer \/ (caller = step /\ script # "none"))

\* filldata: the mapping, whose address is not compared with MAP_FAILED.
mmap ==
    /\ Running("filldata", "entry")
    /\ \/ addr' = "mapped"
       \/ ~Memory /\ addr' = "failed"
    /\ filled' = 0
    /\ Go("fill")
    /\ UNCHANGED <<wl, pid_file, sa_mask, pending, reads, client, stranger, setting>>

write ==
    /\ Running("filldata", "fill") /\ filled < Words
    /\ IF addr = "mapped" THEN filled' = filled + 1 /\ UNCHANGED <<wl, frames, pending>>
                          ELSE Die("segv") /\ filled' = filled
    /\ UNCHANGED <<pid_file, sa_mask, addr, reads, client, stranger, setting>>

\* Mutant: the answer is sent before the loop.
filldata_answer_early ==
    /\ Running("filldata", "fill") /\ filled <= Words
    /\ Answer(Head(frames).caller)
    /\ IF filled = Words THEN frames' = Tail(frames) ELSE frames' = frames
    /\ UNCHANGED <<wl, pid_file, sa_mask, pending, data, step, script, target, out, stranger, setting>>

\* Mutant: the handler returns without an answer.
filldata_mute ==
    /\ Running("filldata", "fill") /\ filled = Words
    /\ frames' = Tail(frames)
    /\ UNCHANGED <<wl, pid_file, sa_mask, pending, data, client, stranger, setting>>

\* The answer, and the return from the handler.
filldata_answer ==
    /\ Running("filldata", "fill") /\ filled = Words
    /\ Answer(Head(frames).caller)
    /\ frames' = Tail(frames)
    /\ UNCHANGED <<wl, pid_file, sa_mask, pending, data, step, script, target, out, stranger, setting>>

\* random_access: a read, through addr as it is now.
read ==
    /\ Running("random_access", "entry") /\ reads < Reads
    /\ IF addr = "mapped" THEN reads' = reads + 1 /\ UNCHANGED <<wl, frames, pending>>
                          ELSE Die("segv") /\ reads' = reads
    /\ UNCHANGED <<pid_file, sa_mask, addr, filled, client, stranger, setting>>

unmap_all ==
    /\ Running("random_access", "entry") /\ reads = Reads
    /\ addr' = "unmapped"
    /\ Go("answer")
    /\ UNCHANGED <<wl, pid_file, sa_mask, pending, filled, reads, client, stranger, setting>>

\* The answer of random_access.
random_access_answer ==
    /\ Running("random_access", "answer")
    /\ Answer(Head(frames).caller)
    /\ Go("exit")
    /\ UNCHANGED <<wl, pid_file, sa_mask, pending, data, step, script, target, out, stranger, setting>>

\* exit(0) in the handler ends the benchmark, with whatever it interrupted.
exit ==
    /\ Running("random_access", "exit")
    /\ Die("exited")
    /\ UNCHANGED <<pid_file, sa_mask, data, client, stranger, setting>>

-----------------------------------------------------------------------------
\* Mutant: the sleeps of prepare_vms are left out.
ReadyAtOnce == TRUE

\* The sleeps of prepare_vms: long enough, if Settled, for main to reach its loop.
Ready == Settled => step > 0 \/ wl = "loop"

\* run.sh goes on to the next phase when the script before has ended.
start_script ==
    /\ script = "none" /\ step < Len(Plan) /\ Ready
    /\ step' = step + 1
    /\ script' = "open" /\ target' = "none" /\ answer' = FALSE
    /\ UNCHANGED <<server, pid_file, out, stranger, setting>>

Mode == Plan[step]
Ends(how) == script' = "none" /\ out' = [out EXCEPT ![step] = how]

\* open('pid_file') and int(f.read()): an exception when there is no file or no
\* number in it.
read_pid ==
    /\ script = "open"
    /\ IF pid_file \in {"absent", "empty"}
       THEN Ends("error") /\ target' = target
       ELSE script' = "kill" /\ target' = pid_file /\ out' = out
    /\ UNCHANGED <<server, pid_file, step, answer, stranger, setting>>

\* What os.kill does to the process that has the pid; then the script goes on.
Send(sig, next) ==
    CASE target = "wl" /\ Alive ->
            /\ pending' = IF pending[sig] = Nobody THEN [pending EXCEPT ![sig] = step]
                                                   ELSE pending
            /\ next
            /\ UNCHANGED stranger
      [] target = "stranger" /\ stranger = "alive" ->
            /\ stranger' = "killed"
            /\ next
            /\ UNCHANGED pending
      [] OTHER ->  \* ProcessLookupError
            /\ Ends("error")
            /\ UNCHANGED <<pending, stranger>>

\* Mutant: the script opens the file again and sends its signal again until it is answered.
kill_again ==
    /\ script = "kill"
    /\ Send(IF Mode = "access" THEN "SIGUSR2" ELSE "SIGUSR1",
            script' \in {"open", "spin"} /\ out' = out)
    /\ UNCHANGED <<wl, pid_file, sa_mask, frames, data, step, target, answer, setting>>

kill ==
    /\ script = "kill"
    /\ Send(IF Mode = "access" THEN "SIGUSR2" ELSE "SIGUSR1",
            script' = (IF Mode = "complete" THEN "sleep" ELSE "spin") /\ out' = out)
    /\ UNCHANGED <<wl, pid_file, sa_mask, frames, data, step, target, answer, setting>>

\* time.sleep(100) is over.
wake ==
    /\ script = "sleep"
    /\ script' = "second"
    /\ UNCHANGED <<server, pid_file, step, target, answer, out, stranger, setting>>

\* The second signal of mode complete, and the end of the script.
kill_second ==
    /\ script = "second"
    /\ Send("SIGUSR2", Ends("done"))
    /\ UNCHANGED <<wl, pid_file, sa_mask, frames, data, step, target, answer, setting>>

\* sigusr1_handler: exit(0), in the loop and in the sleep.
sigusr1_handler ==
    /\ script \in {"spin", "sleep", "second"} /\ answer
    /\ Ends("answered") /\ answer' = FALSE
    /\ UNCHANGED <<server, pid_file, step, target, stranger, setting>>

main == prepare \/ fopen \/ fclose \/ \E sig \in Signals : sigaction(sig)
filldata == mmap \/ write \/ filldata_answer
random_access == read \/ unmap_all \/ random_access_answer \/ exit
complete_script == read_pid \/ kill \/ wake \/ kill_second \/ sigusr1_handler

\* The phases are over, or the script goes round its loop: for ever, if nobody is
\* left to answer.
Over == script = "none" /\ step = Len(Plan)
Hangs == script = "spin" /\ ~answer /\ (target = "stranger" \/ wl \in Dead)
rest == (Over \/ script = "spin") /\ UNCHANGED vars

Next ==
    \/ main \/ filldata \/ random_access
    \/ \E sig \in Signals : deliver(sig)
    \/ start_script \/ complete_script
    \/ rest

Spec == Init /\ [][Next]_vars

\* Each process runs on, and the kernel delivers what is not blocked.
FairSpec ==
    /\ Spec
    /\ WF_vars(main) /\ WF_vars(filldata) /\ WF_vars(random_access)
    /\ \A sig \in Signals : WF_vars(deliver(sig))
    /\ WF_vars(start_script) /\ WF_vars(complete_script)

-----------------------------------------------------------------------------

\* No script is of mode complete, which nothing in the repository uses.
Phased == \A k \in Scripts : Plan[k] # "complete"

\* When the phases are filldata and access, what random_access reads has been
\* filled to the last word, whatever the uninitialised masks hold and however the
\* start of the benchmark races with the scripts (lines 28 to 33, 79 and 120 of
\* wl-randomreads-inputpages.c).
ReadsFilled ==
    Phased /\ Running("random_access", "entry") /\ addr = "mapped" => filled = Words

\* A script that was answered can rely on it: after filldata the array is filled,
\* after access the reads are over and the memory is given back (lines 33, 89, 90).
AnswerMeansDone ==
    \A k \in Scripts :
        out[k] = "answered" =>
            IF Plan[k] = "access" THEN reads = Reads /\ addr = "unmapped"
                                  ELSE filled = Words /\ addr \in {"mapped", "unmapped"}

\* With sleeps that are long enough the signal goes to the benchmark only: the
\* pid of an earlier run is no longer in pid_file (line 96).
OnlyBenchSignalled == Settled => stranger = "alive"

\* However the scripts race with the start of the benchmark, a signal that misses its
\* handler is never taken for an experiment that was made.  Once one has gone to another
\* process, whose number pid_file still held, no phase of the run is answered and the
\* benchmark has mapped nothing; and when one has killed the benchmark, before it had
\* a handler for it, the accesses are not answered (lines 12 to 26 of complete_script.py,
\* lines 94 to 106, 128 and 130 of wl-randomreads-inputpages.c).
StrayUnanswered ==
    Phased =>
        /\ stranger = "killed" => addr = "null" /\ \A k \in Scripts : out[k] # "answered"
        /\ wl = "killed" => \A k \in Scripts : Plan[k] = "access" => out[k] # "answered"

\* A script ends, with an answer or without, unless it waits for one from another
\* process or from one that has died: the masks lose no signal and no answer, and
\* mode complete does not wait at all (lines 15 to 21 of complete_script.py).
ScriptEnds == script # "none" ~> script = "none" \/ Hangs

\* With sleeps that are long enough and memory for the array, both phases of
\* run.sh are answered and the benchmark ends.
RunCompletes ==
    Settled /\ Memory /\ Plan = <<"filldata", "access">> =>
        <>[](Over /\ wl = "exited" /\ \A k \in Scripts : out[k] = "answered")

=============================================================================

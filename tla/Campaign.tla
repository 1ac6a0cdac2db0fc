------------------------------ MODULE Campaign ------------------------------
(***************************************************************************)
(* The experiments of evaluation_script: the drivers (run_evaluation_*.sh, *)
(* run_priority_*.sh, complete_mod.sh), which select a configuration, call *)
(* an orchestration script (run.sh, run_real.sh, run_real_throughput.sh,   *)
(* run_ycsb.sh), copy data_collections to a result folder and empty it; and*)
(* the guests, which take their time to stop.                              *)
(*                                                                         *)
(* A file is the set of the measurements that can be read in it: a missing *)
(* file and an empty one are {}.  A measurement knows the result folder it *)
(* was made for, the command of the session it was made by, the state of   *)
(* KSM and the priority it was made under, and whether its guest was on or *)
(* stopping.  What happens in a guest before the measured phase is the     *)
(* business of module RandomAccess.                                        *)
(***************************************************************************)
EXTENDS Integers, Sequences, FiniteSets

CONSTANTS Guests,
          Sessions,   \* the sequences of commands that are tried
          MaxLate     \* how often a guest is not off yet when a driver's sleep ends

Modes == {"KSM_ON", "KSM_OFF", "nuKSM"}
Drivers == {"fairness", "perf", "inversion", "priority", "complete_mod"}
\* The drivers that leave the link of the KSM configuration as it is.
Inherits == {"priority", "complete_mod"}

ASSUME SessionAssumption ==
    Sessions \subseteq Seq([driver : Drivers \cup {"reboot"}, mode : Modes \cup {"other"}])
ASSUME LateAssumption == MaxLate \in Nat

VARIABLES session, cmd,     \* the commands, and the one that is running
          exp, pc,          \* its experiment, and the step of it
          link, config,     \* the symbolic links
          cwd,              \* where the orchestration script is
          ksm,              \* /sys/kernel/mm/ksm/run
          vm, nice, disk,   \* the guests, their priority, the files in them
          data,             \* data_collections
          results,          \* the result folders
          late              \* sleeps that were too short, so far

vars == <<session, cmd, exp, pc, link, config, cwd, ksm, vm, nice, disk, data, results, late>>
place == <<session, cmd, exp>>
links == <<link, config>>
guests == <<vm, nice, disk>>

-----------------------------------------------------------------------------
\* The experiments of a driver, in their order: the benchmark, the script that
\* runs it, and, for priorities, the number of the configuration.
Exp(b, s) == [bench |-> b, script |-> s, num |-> 0]

Fairness == <<Exp("XSBENCH", "run_real"), Exp("CG", "run_real"), Exp("BTREE", "run_real"),
              Exp("MICROBENCH", "run"), Exp("MYSQL", "run_ycsb")>>
Perf == <<Exp("XSBENCH", "run_real"), Exp("CG", "run_real"), Exp("MYSQL", "run_ycsb"),
          Exp("BTREE", "run_real"), Exp("MICROBENCH", "run")>>
Inversion == <<Exp("BTREE", "run_real_throughput")>>
CompleteMod == <<Exp("XSBENCH", "run_real"), Exp("CG", "run_real"), Exp("BTREE", "run_real"),
                 Exp("MYSQL", "run_ycsb"), Exp("MICROBENCH", "run")>>

\* Three benchmarks, five pairs of priorities each.
Priority ==
    [n \in 1..15 |->
        [bench |-> <<"MYSQL", "BTREE", "XSBENCH">>[((n - 1) \div 5) + 1],
         script |-> <<"run_ycsb", "run_real", "run_real">>[((n - 1) \div 5) + 1],
         num |-> ((n - 1) % 5) + 1]]

Experiments(driver) ==
    CASE driver = "fairness" -> Fairness
      [] driver = "perf" -> Perf
      [] driver = "inversion" -> Inversion
      [] driver = "priority" -> Priority
      [] driver = "complete_mod" -> CompleteMod

\* Mutant: run_ycsb.sh copies the output before the run that writes it.
StepsCopyFirst(script) ==
    CASE script = "run" ->
            <<"configure", "start_vms", "collect_read", "phase3", "stop", "copy_files", "shutdown_vms">>
      [] script \in {"run_ycsb", "run_real_throughput"} ->
            <<"configure", "start_vms", "priority", "collect_read", "copy_files", "phase3", "stop",
              "shutdown_vms">>
      [] script = "run_real" ->
            <<"configure", "start_vms", "priority", "collect_read", "phase3", "stop", "shutdown_vms">>

\* Mutant: run_ycsb.sh stops the guests before it copies from them.
StepsStopFirst(script) ==
    IF script = "run"
    THEN <<"configure", "start_vms", "collect_read", "phase3", "stop", "copy_files", "shutdown_vms">>
    ELSE <<"configure", "start_vms", "priority", "collect_read", "phase3", "stop", "shutdown_vms",
           "copy_files">>

\* The steps of the orchestration scripts that change what is modelled.
Steps(script) ==
    CASE script = "run" ->
            <<"configure", "start_vms", "collect_read", "phase3", "stop", "copy_files", "shutdown_vms">>
      [] script = "run_ycsb" ->
            <<"configure", "start_vms", "priority", "collect_read", "phase3", "stop", "copy_files",
              "shutdown_vms">>
      [] script = "run_real" ->
            <<"configure", "start_vms", "priority", "collect_read", "phase3", "stop", "shutdown_vms">>
      [] script = "run_real_throughput" ->
            <<"configure", "start_vms", "priority", "phase3", "copy_files", "shutdown_vms">>

Command == session[cmd]
E == Experiments(Command.driver)[exp]
PERF_RUN == Command.driver = "perf"

\* The result folder of an experiment of a command.
Folder(c, e) == [driver |-> c.driver, bench |-> e.bench, num |-> e.num,
                 mode |-> IF c.driver \in Inherits THEN "none" ELSE c.mode]
Key == Folder(Command, E)

\* The measurement that is made now in guest g.
Reading(g) == [key |-> Key, cmd |-> cmd, of |-> config, ksm |-> ksm, nice |-> nice[g], vm |-> vm[g]]

Nothing == [g \in Guests |-> {}]
NoData == [time |-> Nothing, run_op |-> Nothing, log |-> Nothing, csv |-> Nothing]

\* The step after the current one: of the script, then of the driver.
Goto(step) == pc' = step
NextStep ==
    LET s == Steps(E.script)
        k == CHOOSE n \in DOMAIN s : s[n] = pc
    IN  Goto(IF k < Len(s) THEN s[k + 1] ELSE "cp")

-----------------------------------------------------------------------------
\* The links are whatever the clone and its user left.
Init ==
    /\ session \in Sessions
    /\ cmd = 0 /\ exp = 0 /\ pc = "shell"
    /\ link \in {"none", "on", "off"} /\ config = "none"
    /\ cwd = "home"
    /\ ksm = "off"
    /\ vm = [g \in Guests |-> "off"]
    /\ nice = [g \in Guests |-> 0]
    /\ disk = [g \in Guests |-> [f \in {"OpRun.out", "btree_throughput.csv"} |-> {}]]
    /\ data = NoData
    /\ results = [k \in {} |-> NoData]
    /\ late = 0

Starts(c) == pc = "shell" /\ cmd < Len(session) /\ session[cmd + 1] = c

reboot(c) ==
    /\ Starts(c) /\ c.driver = "reboot"
    /\ cmd' = cmd + 1
    /\ ksm' = "off"
    /\ vm' = [g \in Guests |-> "off"]
    /\ UNCHANGED <<session, exp, pc, links, cwd, nice, disk, data, results, late>>

\* A driver that wants an argument removes the link first and looks at the
\* argument then; a usage error ends it.
usage(c) ==
    /\ Starts(c) /\ c.driver \notin Inherits \cup {"reboot"} /\ c.mode = "other"
    /\ cmd' = cmd + 1
    /\ link' = "none"
    /\ UNCHANGED <<session, exp, pc, config, cwd, ksm, guests, data, results, late>>

\* A driver starts, and makes the link unless it leaves it as it is.
driver(c) ==
    /\ Starts(c) /\ c.driver # "reboot" /\ (c.driver \in Inherits \/ c.mode # "other")
    /\ cmd' = cmd + 1 /\ exp' = 1
    /\ link' = IF c.driver \in Inherits THEN link
               ELSE IF c.mode = "KSM_OFF" THEN "off" ELSE "on"
    /\ Goto("select")
    /\ UNCHANGED <<session, config, cwd, ksm, guests, data, results, late>>

\* The link of the configuration; complete_priority_single.sh empties the folder
\* before every run as well.
select ==
    /\ pc = "select"
    /\ config' = E.bench
    /\ data' = IF Command.driver = "priority" THEN NoData ELSE data
    /\ cwd' = "home"
    /\ Goto("configure")
    /\ UNCHANGED <<place, link, ksm, guests, results, late>>

\* Mutant: configure_ksm_at_begining.sh only ever switches KSM on.
configure_on ==
    /\ pc = "configure"
    /\ ksm' = IF link = "on" THEN "on" ELSE ksm
    /\ NextStep
    /\ UNCHANGED <<place, links, cwd, guests, data, results, late>>

\* bash configure_ksm_at_begining.sh: without the link the shell complains, the
\* script goes on.
configure ==
    /\ pc = "configure"
    /\ ksm' = IF link = "none" THEN ksm ELSE link
    /\ NextStep
    /\ UNCHANGED <<place, links, cwd, guests, data, results, late>>

\* virsh start fails for a guest that has not stopped yet.
start_vms ==
    /\ pc = "start_vms"
    /\ vm' = [g \in Guests |-> IF vm[g] = "off" THEN "on" ELSE vm[g]]
    /\ nice' = [g \in Guests |-> IF vm[g] = "off" THEN 0 ELSE nice[g]]
    /\ NextStep
    /\ UNCHANGED <<place, links, cwd, ksm, disk, data, results, late>>

\* set_vms_priority: the configured pair, or, in run_real_throughput.sh, -3 for
\* the second guest only.
Pairs1 == <<-20, -20, -20, -16, -11>>
Pairs2 == <<-11, -16, -20, -20, -20>>

Asked(k, g) ==
    CASE k.driver = "priority" -> IF g = 1 THEN Pairs1[k.num] ELSE Pairs2[k.num]
      [] k.driver = "inversion" -> IF g = 1 THEN 0 ELSE -3
      [] OTHER -> 0

priority ==
    /\ pc = "priority"
    /\ nice' = IF Command.driver \in {"priority", "inversion"}
               THEN [g \in Guests |-> IF vm[g] # "off" THEN Asked(Key, g) ELSE nice[g]]
               ELSE nice
    /\ NextStep
    /\ UNCHANGED <<place, links, cwd, ksm, vm, disk, data, results, late>>

\* The collectors that run during the measured phase.  perf appends to its log
\* what it counts for a process it finds, which may be one that is stopping.
collect_read ==
    /\ pc = "collect_read"
    /\ \E last \in SUBSET {g \in Guests : vm[g] = "stopping"} :
          LET counted == IF PERF_RUN THEN last \cup {g \in Guests : vm[g] = "on"} ELSE {} IN
          data' = [data EXCEPT !.log =
                     [g \in Guests |-> @[g] \cup IF g \in counted THEN {Reading(g)} ELSE {}]]
    /\ NextStep
    /\ UNCHANGED <<place, links, cwd, ksm, guests, results, late>>

\* The measured phase.  The shell truncates the file of times, whether or not the
\* guest can be reached.  run.sh calls the function in the foreground and stays
\* in helpers/; run_ycsb.sh comes back, and its output stays in the guest.
Redirected == E.script # "run_ycsb"
RunFile == IF E.script = "run_ycsb" THEN "OpRun.out" ELSE "btree_throughput.csv"
WritesRunFile == E.script \in {"run_ycsb", "run_real_throughput"}

phase3 ==
    /\ pc = "phase3"
    /\ LET Made(g) == IF vm[g] = "on" THEN {Reading(g)} ELSE {} IN
       /\ data' = IF Redirected THEN [data EXCEPT !.time = [g \in Guests |-> Made(g)]] ELSE data
       /\ disk' = [g \in Guests |->
                     IF WritesRunFile /\ vm[g] = "on" THEN [disk[g] EXCEPT ![RunFile] = Made(g)]
                                                      ELSE disk[g]]
    /\ cwd' = IF E.script = "run" THEN "helpers" ELSE cwd
    /\ NextStep
    /\ UNCHANGED <<place, links, ksm, vm, nice, results, late>>

\* complete_counting_porcesses_perf: process_results writes the counts of the log,
\* if parse_local_remote.py is where the script is.
stop ==
    /\ pc = "stop"
    /\ data' = IF PERF_RUN /\ cwd = "home" THEN [data EXCEPT !.csv = data.log] ELSE data
    /\ NextStep
    /\ UNCHANGED <<place, links, cwd, ksm, guests, results, late>>

\* copy_files_from_vm, in helpers/ from then on: scp leaves the file on the host
\* as it is when there is none in the guest, or no guest.  The micro-benchmark
\* writes no file.
copy_files ==
    /\ pc = "copy_files"
    /\ data' = [data EXCEPT !.run_op =
                   [g \in Guests |-> IF WritesRunFile /\ vm[g] = "on" /\ disk[g][RunFile] # {}
                                     THEN disk[g][RunFile] ELSE @[g]]]
    /\ cwd' = "helpers"
    /\ NextStep
    /\ UNCHANGED <<place, links, ksm, guests, results, late>>

\* virsh shutdown asks.
shutdown_vms ==
    /\ pc = "shutdown_vms"
    /\ vm' = [g \in Guests |-> IF vm[g] = "on" THEN "stopping" ELSE vm[g]]
    /\ NextStep
    /\ UNCHANGED <<place, links, cwd, ksm, nice, disk, data, results, late>>

\* The guest is off at last.
power_off(g) ==
    /\ vm[g] = "stopping"
    /\ vm' = [vm EXCEPT ![g] = "off"]
    /\ UNCHANGED <<place, pc, links, cwd, ksm, nice, disk, data, results, late>>

\* cp -R data_collections <folder>: into a folder that exists it copies a folder
\* of its own, which nothing looks at.
cp ==
    /\ pc = "cp"
    /\ results' = [k \in DOMAIN results \cup {Key} |->
                     IF k \in DOMAIN results THEN results[k] ELSE data]
    /\ Goto("rm")
    /\ UNCHANGED <<place, links, cwd, ksm, guests, data, late>>

\* rm -rf data_collections/*, which complete_mod.sh leaves out after two of its
\* experiments.
rm ==
    /\ pc = "rm"
    /\ data' = IF Command.driver = "complete_mod" /\ E.bench \in {"CG", "MYSQL"} THEN data ELSE NoData
    /\ Goto("sleep")
    /\ UNCHANGED <<place, links, cwd, ksm, guests, results, late>>

\* The driver sleeps, and goes on to its next experiment or ends.
sleep ==
    /\ pc = "sleep"
    /\ \/ (\A g \in Guests : vm[g] # "stopping") /\ late' = late
       \/ (\E g \in Guests : vm[g] = "stopping") /\ late < MaxLate /\ late' = late + 1
    /\ IF exp < Len(Experiments(Command.driver)) THEN exp' = exp + 1 /\ Goto("select")
                                                 ELSE exp' = 0 /\ Goto("shell")
    /\ UNCHANGED <<session, cmd, links, cwd, ksm, guests, data, results>>

experiment ==
    \/ select \/ configure \/ start_vms \/ priority \/ collect_read \/ phase3 \/ stop
    \/ copy_files \/ shutdown_vms \/ cp \/ rm \/ sleep

Done == pc = "shell" /\ cmd = Len(session)
rest == Done /\ UNCHANGED vars

Issue == cmd < Len(session) /\ LET c == session[cmd + 1] IN reboot(c) \/ usage(c) \/ driver(c)

Next == Issue \/ experiment \/ (\E g \in Guests : power_off(g)) \/ rest

Spec == Init /\ [][Next]_vars

\* The scripts run on, the user types the next command, and a guest that was asked
\* to stop does so some time.
FairSpec ==
    /\ Spec
    /\ WF_vars(Issue) /\ WF_vars(experiment)
    /\ \A g \in Guests : WF_vars(power_off(g))

-----------------------------------------------------------------------------
\* Every measurement in a result folder.
Measured(k) == UNION {results[k][f][g] : f \in DOMAIN NoData, g \in Guests}

\* A result folder holds measurements of its own experiment, made by one command,
\* although all experiments share data_collections, the guests and a log that is
\* appended to.  The one exception is a file that no figure reads: complete_mod.sh
\* leaves the output of MySQL where the micro-benchmark finds it (line 59).
LeftOver(k, r) ==
    k.driver = "complete_mod" /\ k.bench = "MICROBENCH" /\ r.key.bench = "MYSQL"

OwnReadings ==
    \A k \in DOMAIN results :
        LET own == {r \in Measured(k) : ~LeftOver(k, r)} IN
        /\ \A r \in own : r.key = k /\ r.of = k.bench
        /\ Cardinality({r.cmd : r \in own}) <= 1

\* Every reading in a result folder, in whichever file, was made with KSM as the folder
\* is labelled and at the priority the folder is numbered for.  The exception is what
\* perf counts of the last moments of a guest that was late to stop: it has the priority
\* of the experiment before, and only the log of the counts and the counts made of it
\* can hold it.  A driver that inherits the link gets the state of KSM only if the last
\* driver that sets it was not refused and not for KSM_OFF (lines 1 to 13 of
\* run_evaluation_fairness.sh).  Which kernel is running, nuKSM's or the stock one, is
\* the user's reboot, which no script looks at: it is no part of this.
Label(k) == IF k.mode = "KSM_OFF" THEN "off" ELSE "on"

SetsLink(n) == session[n].driver \notin Inherits \cup {"reboot"}
LeftOn(n) ==
    \E m \in 1..(n - 1) :
        /\ SetsLink(m) /\ session[m].mode \in {"KSM_ON", "nuKSM"}
        /\ \A l \in (m + 1)..(n - 1) : ~SetsLink(l)

LateCount(f, r) == f \in {"log", "csv"} /\ r.vm = "stopping" /\ late > 0

ConditionsAsLabelled ==
    \A k \in DOMAIN results : \A f \in DOMAIN NoData : \A g \in Guests :
        \A r \in results[k][f][g] :
            ~LeftOver(k, r) =>
                /\ r.ksm = Label(k) \/ (k.driver \in Inherits /\ ~LeftOn(r.cmd))
                /\ r.nice = Asked(k, g) \/ LateCount(f, r)

\* What the figures read of a folder: the counts of a run for perf (3b, 6b), the
\* throughput of the tree in the guest (4), the output of MySQL and otherwise the
\* file of times (3a, 6a, 7).  No figure reads the folders of complete_mod.sh.
FigureFiles(k) ==
    CASE k.driver = "perf" -> {"csv"}
      [] k.driver = "complete_mod" -> {}
      [] k.driver = "inversion" -> {"run_op"}
      [] OTHER -> IF k.bench = "MYSQL" THEN {"run_op"} ELSE {"time"}

\* run.sh never writes the counts of the micro-benchmark: see CountsForFigure.
NeverCounted(k) == k.driver = "perf" /\ k.bench = "MICROBENCH"

Accepted(c) == c.driver # "reboot" /\ (c.driver \in Inherits \/ c.mode # "other")

Folders == UNION {{Folder(session[n], Experiments(session[n].driver)[m]) :
                      m \in DOMAIN Experiments(session[n].driver)} :
                  n \in {l \in DOMAIN session : Accepted(session[l])}}

\* Every command of a session comes to its end and leaves a folder for each of its
\* experiments: guests that stop late make measurements fail, never the session,
\* since the scripts wait for nothing that may not come.  When the guests stop in
\* time the figures find the measurements of both in every file they read, but for
\* the counts of the micro-benchmark, which are missing then too.
AllMeasured ==
    <>(Done /\ \A k \in Folders :
                 /\ k \in DOMAIN results
                 /\ late = 0 => \A f \in FigureFiles(k) : \A g \in Guests :
                                   results[k][f][g] # {} \/ NeverCounted(k))

\* figure_six_b.sh reads the counts of all five benchmarks.
CountsForFigure ==
    \A k \in DOMAIN results :
        k.driver = "perf" => \A g \in Guests : results[k].csv[g] # {}
=============================================================================

--------------------------- MODULE CampaignProofs ---------------------------
(***************************************************************************)
(* The result folders of every session of commands, with guests that are   *)
(* late as often as they like: what they hold is of their own experiment,  *)
(* made under the conditions they are labelled with.                       *)
(***************************************************************************)
EXTENDS Campaign, FiniteSetTheorems, TLAPS

-----------------------------------------------------------------------------
(***************************************************************************)
(* Where the session is.                                                   *)
(***************************************************************************)
Elements(s) == {s[n] : n \in DOMAIN s}

Running == pc # "shell"

Placed ==
    /\ session \in Sessions /\ cmd \in 0..Len(session)
    /\ Running =>
          /\ cmd \in 1..Len(session) /\ Accepted(Command) /\ Command.driver \in Drivers
          /\ exp \in DOMAIN Experiments(Command.driver)
          /\ pc \in Elements(Steps(E.script)) \cup {"select", "cp", "rm", "sleep"}

(***************************************************************************)
(* The links.  A command that sets the link of the KSM configuration does  *)
(* it before its first experiment, the others find what the last one left. *)
(***************************************************************************)
LinksOK ==
    /\ LeftOn(cmd + 1) => link = "on"
    /\ Running /\ Command.driver \notin Inherits => link = Label(Key)
    /\ Running /\ pc \notin {"select", "configure"} => link = "none" \/ ksm = link
    /\ Running /\ pc # "select" => config = E.bench

(***************************************************************************)
(* The guests.  Outside of an experiment none is on, however late it was   *)
(* to stop: one that is on has been started by the experiment.             *)
(***************************************************************************)
Idle == {"shell", "select", "configure", "start_vms", "cp", "rm", "sleep"}

GuestsOK ==
    /\ vm \in [Guests -> {"on", "off", "stopping"}]
    /\ \A g \in Guests : vm[g] = "on" =>
          /\ pc \notin Idle
          /\ nice[g] = IF pc = "priority" THEN 0 ELSE Asked(Key, g)

\* A guest is stopping in the experiment that asked it to, or it was late.
LateOK ==
    /\ late \in Nat
    /\ \A g \in Guests : vm[g] = "stopping" => pc \in {"cp", "rm", "sleep"} \/ late > 0

(***************************************************************************)
(* The files.                                                              *)
(***************************************************************************)
\* r is a measurement of the experiment of folder k, made by command c, and under the
\* conditions of the folder.
Own(k, c, r) == r.key = k /\ r.of = k.bench /\ r.cmd = c

KsmAsLabelled(k, r) == r.ksm = Label(k) \/ (k.driver \in Inherits /\ ~LeftOn(r.cmd))

Labelled(k, g, r) == r.nice = Asked(k, g) /\ KsmAsLabelled(k, r)

\* A count of perf is so too, unless its guest was late to stop.
Counted(k, g, r) ==
    /\ r.nice = Asked(k, g) \/ (r.vm = "stopping" /\ late > 0)
    /\ KsmAsLabelled(k, r)

\* Before the measured phase the file of times may be that of the experiment before,
\* where complete_mod.sh has not removed it.
ToMeasure == {"select", "configure", "start_vms", "priority", "collect_read", "phase3"}
Kept == Command.driver = "complete_mod" /\ E.bench \in {"CG", "MYSQL"}
OldTimes == Command.driver = "complete_mod" /\ E.bench = "BTREE" /\ pc \in ToMeasure

Collected(g) ==
    /\ \A r \in data.time[g] : OldTimes \/ (Own(Key, cmd, r) /\ Labelled(Key, g, r))
    /\ \A r \in data.run_op[g] : LeftOver(Key, r) \/ (Own(Key, cmd, r) /\ Labelled(Key, g, r))
    /\ \A r \in data.log[g] \cup data.csv[g] : Own(Key, cmd, r) /\ Counted(Key, g, r)
    /\ E.script = "run_real" => data.run_op[g] = {}
    /\ E.script = "run_ycsb" => data.time[g] = {}
    /\ Command.driver # "perf" => data.log[g] = {} /\ data.csv[g] = {}

DataOK ==
    /\ DOMAIN data = DOMAIN NoData
    /\ pc = "shell" \/ (pc = "sleep" /\ ~Kept) => data = NoData
    /\ Running => \A g \in Guests : Collected(g)

\* What the run has written in a guest stays there until it is copied.
DiskOK ==
    /\ \A g \in Guests : DOMAIN disk[g] = {"OpRun.out", "btree_throughput.csv"}
    /\ pc \in {"stop", "copy_files"} /\ WritesRunFile =>
          \A g \in Guests : vm[g] = "on" =>
              \A r \in disk[g][RunFile] : Own(Key, cmd, r) /\ Labelled(Key, g, r)

FoldersOK ==
    \A k \in DOMAIN results : \E c \in Nat :
        /\ \A f \in DOMAIN NoData : \A g \in Guests : \A r \in results[k][f][g] :
              LeftOver(k, r) \/ Own(k, c, r)
        /\ \A f \in {"time", "run_op"} : \A g \in Guests : \A r \in results[k][f][g] :
              LeftOver(k, r) \/ Labelled(k, g, r)
        /\ \A f \in {"log", "csv"} : \A g \in Guests : \A r \in results[k][f][g] : Counted(k, g, r)

FilesInv == Placed /\ LinksOK /\ GuestsOK /\ LateOK /\ DataOK /\ DiskOK /\ FoldersOK

-----------------------------------------------------------------------------
(***************************************************************************)
(* The tables: which step follows which, which experiment is run how.      *)
(***************************************************************************)
Scripts == {"run", "run_ycsb", "run_real", "run_real_throughput"}

\* What is to be known of the steps of a script: x is followed by y.
Follows(script, x, y) ==
    /\ x = "configure" => y = "start_vms"
    /\ x = "start_vms" => y = IF script = "run" THEN "collect_read" ELSE "priority"
    /\ x = "priority" => y \in {"collect_read", "phase3"} /\ script # "run"
    /\ x = "collect_read" => y = "phase3"
    /\ x = "phase3" => y \in {"stop", "copy_files"} \cup (IF script = "run_real" THEN {"shutdown_vms"} ELSE {})
    /\ x = "stop" => y \in {"copy_files", "shutdown_vms"}
    /\ x = "copy_files" => y = "shutdown_vms" /\ script # "run_real"
    /\ x = "shutdown_vms" => y = "cp"
    /\ y \in Elements(Steps(script)) \cup {"cp"}

\* Every script calls its functions in that order.
LEMMA StepsFollow ==
  ASSUME NEW script \in Scripts, NEW x \in Elements(Steps(script))
  PROVE  LET s == Steps(script)
             k == CHOOSE n \in DOMAIN s : s[n] = x
         IN  Follows(script, x, IF k < Len(s) THEN s[k + 1] ELSE "cp")
<1> DEFINE s == Steps(script)
           k == CHOOSE n \in DOMAIN s : s[n] = x
           y == IF k < Len(s) THEN s[k + 1] ELSE "cp"
<1>1. k \in DOMAIN s /\ s[k] = x
  BY DEF Elements
<1>2. CASE script = "run"
  <2>1. s = <<"configure", "start_vms", "collect_read", "phase3", "stop", "copy_files", "shutdown_vms">>
    BY <1>2 DEF Steps
  <2>. HIDE DEF s
  <2>2. DOMAIN s = 1..7 /\ Len(s) = 7
    BY <2>1
  <2>3. k \in 1..7 /\ s[k] = x
    BY <1>1, <2>2
  <2>. HIDE DEF k
  <2>4. k < 7 => s[k + 1] \in Elements(s)
    BY <2>2, <2>3 DEF Elements
  <2>5. \A n \in 1..7 : n = 1 \/ n = 2 \/ n = 3 \/ n = 4 \/ n = 5 \/ n = 6 \/ n = 7
    OBVIOUS
  <2>6. \/ x = "configure" /\ y = "start_vms"
        \/ x = "start_vms" /\ y = "collect_read"
        \/ x = "collect_read" /\ y = "phase3"
        \/ x = "phase3" /\ y = "stop"
        \/ x = "stop" /\ y = "copy_files"
        \/ x = "copy_files" /\ y = "shutdown_vms"
        \/ x = "shutdown_vms" /\ y = "cp"
    BY <2>1, <2>2, <2>3, <2>5
  <2>7. y \in Elements(s) \cup {"cp"}
    BY <2>2, <2>3, <2>4
  <2>. HIDE DEF y
  <2>8. Follows(script, x, y)
    BY <1>2, <2>6, <2>7 DEF Follows, s
  <2>. QED BY <2>8 DEF y, k, s
<1>3. CASE script = "run_ycsb"
  <2>1. s = <<"configure", "start_vms", "priority", "collect_read", "phase3", "stop", "copy_files", "shutdown_vms">>
    BY <1>3 DEF Steps
  <2>. HIDE DEF s
  <2>2. DOMAIN s = 1..8 /\ Len(s) = 8
    BY <2>1
  <2>3. k \in 1..8 /\ s[k] = x
    BY <1>1, <2>2
  <2>. HIDE DEF k
  <2>4. k < 8 => s[k + 1] \in Elements(s)
    BY <2>2, <2>3 DEF Elements
  <2>5. \A n \in 1..8 : n = 1 \/ n = 2 \/ n = 3 \/ n = 4 \/ n = 5 \/ n = 6 \/ n = 7 \/ n = 8
    OBVIOUS
  <2>6. \/ x = "configure" /\ y = "start_vms"
        \/ x = "start_vms" /\ y = "priority"
        \/ x = "priority" /\ y = "collect_read"
        \/ x = "collect_read" /\ y = "phase3"
        \/ x = "phase3" /\ y = "stop"
        \/ x = "stop" /\ y = "copy_files"
        \/ x = "copy_files" /\ y = "shutdown_vms"
        \/ x = "shutdown_vms" /\ y = "cp"
    BY <2>1, <2>2, <2>3, <2>5
  <2>7. y \in Elements(s) \cup {"cp"}
    BY <2>2, <2>3, <2>4
  <2>. HIDE DEF y
  <2>8. Follows(script, x, y)
    BY <1>3, <2>6, <2>7 DEF Follows, s
  <2>. QED BY <2>8 DEF y, k, s
<1>4. CASE script = "run_real"
  <2>1. s = <<"configure", "start_vms", "priority", "collect_read", "phase3", "stop", "shutdown_vms">>
    BY <1>4 DEF Steps
  <2>. HIDE DEF s
  <2>2. DOMAIN s = 1..7 /\ Len(s) = 7
    BY <2>1
  <2>3. k \in 1..7 /\ s[k] = x
    BY <1>1, <2>2
  <2>. HIDE DEF k
  <2>4. k < 7 => s[k + 1] \in Elements(s)
    BY <2>2, <2>3 DEF Elements
  <2>5. \A n \in 1..7 : n = 1 \/ n = 2 \/ n = 3 \/ n = 4 \/ n = 5 \/ n = 6 \/ n = 7
    OBVIOUS
  <2>6. \/ x = "configure" /\ y = "start_vms"
        \/ x = "start_vms" /\ y = "priority"
        \/ x = "priority" /\ y = "collect_read"
        \/ x = "collect_read" /\ y = "phase3"
        \/ x = "phase3" /\ y = "stop"
        \/ x = "stop" /\ y = "shutdown_vms"
        \/ x = "shutdown_vms" /\ y = "cp"
    BY <2>1, <2>2, <2>3, <2>5
  <2>7. y \in Elements(s) \cup {"cp"}
    BY <2>2, <2>3, <2>4
  <2>. HIDE DEF y
  <2>8. Follows(script, x, y)
    BY <1>4, <2>6, <2>7 DEF Follows, s
  <2>. QED BY <2>8 DEF y, k, s
<1>5. CASE script = "run_real_throughput"
  <2>1. s = <<"configure", "start_vms", "priority", "phase3", "copy_files", "shutdown_vms">>
    BY <1>5 DEF Steps
  <2>. HIDE DEF s
  <2>2. DOMAIN s = 1..6 /\ Len(s) = 6
    BY <2>1
  <2>3. k \in 1..6 /\ s[k] = x
    BY <1>1, <2>2
  <2>. HIDE DEF k
  <2>4. k < 6 => s[k + 1] \in Elements(s)
    BY <2>2, <2>3 DEF Elements
  <2>5. \A n \in 1..6 : n = 1 \/ n = 2 \/ n = 3 \/ n = 4 \/ n = 5 \/ n = 6
    OBVIOUS
  <2>6. \/ x = "configure" /\ y = "start_vms"
        \/ x = "start_vms" /\ y = "priority"
        \/ x = "priority" /\ y = "phase3"
        \/ x = "phase3" /\ y = "copy_files"
        \/ x = "copy_files" /\ y = "shutdown_vms"
        \/ x = "shutdown_vms" /\ y = "cp"
    BY <2>1, <2>2, <2>3, <2>5
  <2>7. y \in Elements(s) \cup {"cp"}
    BY <2>2, <2>3, <2>4
  <2>. HIDE DEF y
  <2>8. Follows(script, x, y)
    BY <1>5, <2>6, <2>7 DEF Follows, s
  <2>. QED BY <2>8 DEF y, k, s
<1>. QED BY <1>2, <1>3, <1>4, <1>5 DEF Scripts

\* Every script begins with the configuration of KSM.
LEMMA FirstStep ==
  ASSUME NEW script \in Scripts
  PROVE  "configure" \in Elements(Steps(script))
<1>1. 1 \in DOMAIN Steps(script) /\ Steps(script)[1] = "configure"
  BY DEF Steps, Scripts
<1>. QED BY <1>1 DEF Elements

\* What is to be known of experiment n of driver d.
Runs(d, n) ==
    LET e == Experiments(d)[n] IN
    /\ e.script \in Scripts
    /\ e.script = "run" => d \notin {"priority", "inversion"}
    /\ d = "complete_mod" =>
          /\ e.bench = "BTREE" => e.script = "run_real"
          /\ e.bench = "CG" => /\ e.script = "run_real" /\ n < Len(Experiments(d))
                               /\ Experiments(d)[n + 1].bench = "BTREE"
          /\ e.bench = "MYSQL" => /\ e.script = "run_ycsb" /\ n < Len(Experiments(d))
                                  /\ Experiments(d)[n + 1].bench = "MICROBENCH"
                                  /\ Experiments(d)[n + 1].script = "run"

\* The experiments of the drivers are so.
LEMMA DriversRun ==
  ASSUME NEW d \in Drivers
  PROVE  /\ Len(Experiments(d)) \in Nat \ {0}
         /\ DOMAIN Experiments(d) = 1..Len(Experiments(d))
         /\ \A n \in 1..Len(Experiments(d)) : Runs(d, n)
<1> DEFINE s == Experiments(d)
<1>1. CASE d = "fairness"
  <2>1. s = Fairness
    BY <1>1 DEF Experiments
  <2>2. Len(s) = 5 /\ DOMAIN s = 1..5 /\ \A n \in 1..5 : s[n].script \in Scripts
    BY <2>1 DEF Fairness, Exp, Scripts
  <2>. QED BY <1>1, <2>2 DEF Runs
<1>2. CASE d = "perf"
  <2>1. s = Perf
    BY <1>2 DEF Experiments
  <2>2. Len(s) = 5 /\ DOMAIN s = 1..5 /\ \A n \in 1..5 : s[n].script \in Scripts
    BY <2>1 DEF Perf, Exp, Scripts
  <2>. QED BY <1>2, <2>2 DEF Runs
<1>3. CASE d = "inversion"
  <2>1. s = Inversion
    BY <1>3 DEF Experiments
  <2>2. Len(s) = 1 /\ DOMAIN s = 1..1 /\ s[1].script = "run_real_throughput"
    BY <2>1 DEF Inversion, Exp
  <2>. QED BY <1>3, <2>2 DEF Runs, Scripts
<1>4. CASE d = "priority"
  <2>1. s = Priority
    BY <1>4 DEF Experiments
  <2>2. DOMAIN s = 1..15
    BY <2>1 DEF Priority
  <2>3. Len(s) = 15
    BY <2>1 DEF Priority
  <2>4. ASSUME NEW n \in 1..15 PROVE s[n].script \in {"run_ycsb", "run_real"}
    <3>1. s[n].script = <<"run_ycsb", "run_real", "run_real">>[((n - 1) \div 5) + 1]
      BY <2>1 DEF Priority
    <3>2. PICK q \in 1..3 : q = ((n - 1) \div 5) + 1
      OBVIOUS
    <3>3. <<"run_ycsb", "run_real", "run_real">>[q] \in {"run_ycsb", "run_real"}
      OBVIOUS
    <3>. QED BY <3>1, <3>2, <3>3, Zenon
  <2>5. \A n \in 1..15 : s[n].script \in Scripts /\ s[n].script # "run"
    BY <2>4 DEF Scripts
  <2>6. Len(s) \in Nat \ {0} /\ DOMAIN s = 1..Len(s) /\ \A n \in 1..Len(s) : s[n].script \in Scripts /\ s[n].script # "run"
    BY <2>2, <2>3, <2>5
  <2>. HIDE DEF s
  <2>7. \A n \in 1..Len(s) : s[n].script \in Scripts /\ s[n].script # "run" => Runs(d, n)
    BY <1>4 DEF Runs, s
  <2>. QED BY <2>6, <2>7 DEF s
<1>5. CASE d = "complete_mod"
  <2>1. s = CompleteMod
    BY <1>5 DEF Experiments
  <2>2. /\ Len(s) = 5 /\ DOMAIN s = 1..5
        /\ s[1].bench = "XSBENCH" /\ s[1].script = "run_real"
        /\ s[2].bench = "CG" /\ s[2].script = "run_real"
        /\ s[3].bench = "BTREE" /\ s[3].script = "run_real"
        /\ s[4].bench = "MYSQL" /\ s[4].script = "run_ycsb"
        /\ s[5].bench = "MICROBENCH" /\ s[5].script = "run"
    BY <2>1 DEF CompleteMod, Exp
  <2>. HIDE DEF s
  <2>3. ASSUME NEW n \in 1..5 PROVE n = 1 \/ n = 2 \/ n = 3 \/ n = 4 \/ n = 5
    OBVIOUS
  <2>4. ASSUME NEW n \in 1..5
        PROVE  /\ s[n].script \in Scripts
               /\ s[n].bench = "BTREE" => s[n].script = "run_real"
               /\ s[n].bench = "CG" => s[n].script = "run_real" /\ n < 5 /\ s[n + 1].bench = "BTREE"
               /\ s[n].bench = "MYSQL" => /\ s[n].script = "run_ycsb" /\ n < 5
                                          /\ s[n + 1].bench = "MICROBENCH" /\ s[n + 1].script = "run"
    BY <2>2, <2>3 DEF Scripts
  <2>. QED BY <1>5, <2>2, <2>4 DEF Runs, s
<1>. QED BY <1>1, <1>2, <1>3, <1>4, <1>5 DEF Drivers

-----------------------------------------------------------------------------
(***************************************************************************)
(* Steps.  The steps of a script go from one function to the next one and  *)
(* stay in their experiment.                                               *)
(***************************************************************************)
Function ==
    \/ configure \/ start_vms \/ priority \/ collect_read \/ phase3 \/ stop \/ copy_files
    \/ shutdown_vms

Functions == {"configure", "start_vms", "priority", "collect_read", "phase3", "stop", "copy_files",
              "shutdown_vms"}

\* The session is what it was.
LEMMA SessionKept ==
  ASSUME [Next]_vars
  PROVE  session' = session
BY Zenon DEF Next, Issue, reboot, usage, driver, experiment, select, configure, start_vms, priority, collect_read,
       phase3, stop, copy_files, shutdown_vms, cp, rm, sleep, power_off, rest, vars, place

\* In an experiment that goes on all that depends on the place stays.
LEMMA PlaceKept ==
  ASSUME UNCHANGED place
  PROVE  /\ session' = session /\ cmd' = cmd /\ exp' = exp
         /\ Command' = Command /\ E' = E /\ Key' = Key
<1>1. session' = session /\ cmd' = cmd /\ exp' = exp
  BY DEF place
<1>2. Command' = Command
  BY <1>1 DEF Command
<1>3. E' = E
  BY <1>1, <1>2 DEF E, Experiments
<1>. QED BY <1>1, <1>2, <1>3 DEF Key

\* A reading that is as labelled stays so.
LEMMA LabelKept ==
  ASSUME session' = session
  PROVE  /\ \A n : LeftOn(n)' <=> LeftOn(n)
         /\ \A k, r : KsmAsLabelled(k, r)' <=> KsmAsLabelled(k, r)
         /\ \A k, g, r : Labelled(k, g, r)' <=> Labelled(k, g, r)
<1>1. \A n : SetsLink(n)' <=> SetsLink(n)
  BY DEF SetsLink
<1>2. \A n : LeftOn(n)' <=> LeftOn(n)
  BY <1>1 DEF LeftOn
<1>. QED BY <1>2, Zenon DEF Labelled, KsmAsLabelled

\* The command and the experiment that run.
LEMMA Here ==
  ASSUME Placed, Running
  PROVE  /\ cmd \in Nat \ {0} /\ cmd \in 1..Len(session) /\ Len(session) \in Nat
         /\ Command.driver \in Drivers /\ (Command.driver \in Inherits \/ Command.mode # "other")
         /\ exp \in 1..Len(Experiments(Command.driver)) /\ Len(Experiments(Command.driver)) \in Nat
         /\ Runs(Command.driver, exp) /\ E.script \in Scripts
         /\ pc \in Elements(Steps(E.script)) \cup {"select", "cp", "rm", "sleep"}
         /\ Key.driver = Command.driver /\ Key.bench = E.bench
         /\ Key.mode = IF Command.driver \in Inherits THEN "none" ELSE Command.mode
<1>1. cmd \in 1..Len(session) /\ Len(session) \in Nat
  BY SessionAssumption DEF Placed
<1>2. /\ Command.driver \in Drivers /\ (Command.driver \in Inherits \/ Command.mode # "other")
      /\ exp \in DOMAIN Experiments(Command.driver)
      /\ pc \in Elements(Steps(E.script)) \cup {"select", "cp", "rm", "sleep"}
  BY DEF Placed, Accepted
<1>3. /\ exp \in 1..Len(Experiments(Command.driver)) /\ Len(Experiments(Command.driver)) \in Nat
      /\ Runs(Command.driver, exp)
  BY <1>2, DriversRun
<1>4. E.script \in Scripts
  BY <1>3 DEF Runs, E
<1>5. /\ Key.driver = Command.driver /\ Key.bench = E.bench
      /\ Key.mode = IF Command.driver \in Inherits THEN "none" ELSE Command.mode
  BY DEF Key, Folder
<1>. QED BY <1>1, <1>2, <1>3, <1>4, <1>5

\* A function of a script.
LEMMA FunctionStep ==
  ASSUME Placed, Function
  PROVE  /\ pc \in Functions /\ UNCHANGED place /\ Running /\ Follows(E.script, pc, pc')
         /\ UNCHANGED <<link, config, results, late>>
<1>1. pc \in Functions /\ UNCHANGED place /\ NextStep /\ UNCHANGED <<link, config, results, late>>
  BY Zenon DEF Function, Functions, configure, start_vms, priority, collect_read, phase3, stop, copy_files,
         shutdown_vms, links
<1>2. Running /\ pc \notin {"select", "cp", "rm", "sleep"}
  BY <1>1 DEF Running, Functions
<1>3. E.script \in Scripts /\ pc \in Elements(Steps(E.script))
  BY <1>2, Here
<1>4. Follows(E.script, pc, pc')
  BY ONLY <1>1, <1>3, StepsFollow DEF NextStep, Goto
<1>. QED BY <1>1, <1>2, <1>4

\* A command that is typed.
LEMMA IssueStep ==
  ASSUME Placed, Issue
  PROVE  /\ pc = "shell" /\ cmd \in Nat /\ cmd + 1 \in 1..Len(session) /\ Len(session) \in Nat
         /\ cmd' = cmd + 1 /\ Command' = session[cmd + 1] /\ session' = session
         /\ session[cmd + 1].driver \in Drivers \cup {"reboot"}
         /\ session[cmd + 1].mode \in Modes \cup {"other"}
         /\ UNCHANGED <<data, disk, nice, results, config>>
<1>1. PICK c : c = session[cmd + 1] /\ cmd < Len(session) /\ (reboot(c) \/ usage(c) \/ driver(c))
  BY DEF Issue
<1>2. pc = "shell" /\ cmd' = cmd + 1 /\ session' = session /\ UNCHANGED <<data, disk, nice, results, config>>
  BY <1>1, Zenon DEF reboot, usage, driver, Starts, links, guests
<1>3. session \in Seq([driver : Drivers \cup {"reboot"}, mode : Modes \cup {"other"}]) /\ cmd \in 0..Len(session)
  BY SessionAssumption DEF Placed
<1>4. cmd \in Nat /\ cmd + 1 \in 1..Len(session) /\ Len(session) \in Nat
  BY <1>1, <1>3
<1>5. session[cmd + 1].driver \in Drivers \cup {"reboot"} /\ session[cmd + 1].mode \in Modes \cup {"other"}
  <2>1. PICK C : C = [driver : Drivers \cup {"reboot"}, mode : Modes \cup {"other"}]
    OBVIOUS
  <2>2. session \in Seq(C)
    BY <1>3, <2>1
  <2>3. session[cmd + 1] \in C
    BY ONLY <1>4, <2>2
  <2>. QED BY ONLY <2>1, <2>3
<1>6. Command' = session[cmd + 1]
  BY <1>2 DEF Command
<1>. QED BY <1>2, <1>4, <1>5, <1>6

\* Every step keeps the place.
LEMMA PlacedNext ==
  ASSUME Placed, [Next]_vars
  PROVE  Placed'
<1>0. session' = session /\ session \in Sessions /\ cmd \in 0..Len(session) /\ Len(session) \in Nat
  BY SessionKept, SessionAssumption DEF Placed
<1>1. ASSUME UNCHANGED place, pc' = pc PROVE Placed'
  <2>1. Command' = Command /\ E' = E /\ cmd' = cmd /\ exp' = exp
    BY <1>1, PlaceKept
  <2>. QED BY <1>0, <1>1, <2>1 DEF Placed, Running, Accepted
<1>2. ASSUME UNCHANGED place, Running,
             pc' \in Elements(Steps(E.script)) \cup {"select", "cp", "rm", "sleep"}
      PROVE  Placed'
  <2>1. Command' = Command /\ E' = E /\ cmd' = cmd /\ exp' = exp
    BY <1>2, PlaceKept
  <2>. QED BY <1>0, <1>2, <2>1 DEF Placed, Running, Accepted
<1>3. CASE Function
  <2>1. UNCHANGED place /\ Running /\ Follows(E.script, pc, pc')
    BY <1>3, FunctionStep
  <2>2. pc' \in Elements(Steps(E.script)) \cup {"select", "cp", "rm", "sleep"}
    BY <2>1 DEF Follows
  <2>. QED BY <1>2, <2>1, <2>2
<1>4. CASE select \/ cp \/ rm
  <2>1. UNCHANGED place /\ Running /\ pc' \in {"configure", "rm", "sleep"}
    BY <1>4 DEF select, cp, rm, Running, Goto
  <2>2. "configure" \in Elements(Steps(E.script))
    BY <2>1, Here, FirstStep
  <2>. QED BY <1>2, <2>1, <2>2
<1>5. CASE sleep
  <2>1. /\ Running /\ cmd' = cmd
        /\ IF exp < Len(Experiments(Command.driver)) THEN exp' = exp + 1 /\ pc' = "select"
                                                     ELSE exp' = 0 /\ pc' = "shell"
    BY <1>5 DEF sleep, Running, Goto
  <2>2. /\ exp \in 1..Len(Experiments(Command.driver)) /\ Len(Experiments(Command.driver)) \in Nat
        /\ Command.driver \in Drivers /\ cmd \in 1..Len(session)
    BY <2>1, Here
  <2>3. Command' = Command
    BY <1>0, <2>1 DEF Command
  <2>4. Running' => exp' \in DOMAIN Experiments(Command.driver)
    BY <2>1, <2>2, DriversRun DEF Running
  <2>5. Running' => pc' = "select"
    BY <2>1 DEF Running
  <2>6. Accepted(Command)
    BY <2>1 DEF Placed
  <2>. QED BY <1>0, <2>1, <2>2, <2>3, <2>4, <2>5, <2>6 DEF Placed
<1>6. CASE Issue
  <2>1. /\ pc = "shell" /\ cmd \in Nat /\ cmd + 1 \in 1..Len(session) /\ cmd' = cmd + 1
        /\ Command' = session[cmd + 1]
        /\ session[cmd + 1].driver \in Drivers \cup {"reboot"}
    BY <1>6, IssueStep
  <2>2. Running' => driver(session[cmd + 1])
    BY <1>6, <2>1 DEF Issue, reboot, usage, Running
  <2>3. ASSUME Running' PROVE /\ Accepted(Command') /\ Command'.driver \in Drivers /\ exp' = 1 /\ pc' = "select"
    BY <2>1, <2>2, <2>3 DEF driver, Accepted, Goto
  <2>4. ASSUME Running' PROVE exp' \in DOMAIN Experiments(Command'.driver)
    BY <2>3, <2>4, DriversRun
  <2>5. cmd' \in 0..Len(session') /\ cmd' \in 1..Len(session')
    BY <1>0, <2>1
  <2>. QED BY <1>0, <2>3, <2>4, <2>5 DEF Placed
<1>7. CASE \E g \in Guests : power_off(g)
  BY <1>1, <1>7 DEF power_off
<1>8. CASE UNCHANGED vars
  BY <1>1, <1>8 DEF vars, place
<1>. QED BY <1>3, <1>4, <1>5, <1>6, <1>7, <1>8 DEF Next, experiment, rest, Function

-----------------------------------------------------------------------------
(***************************************************************************)
(* The links.                                                              *)
(***************************************************************************)
\* A command that sets no link leaves the one before it the last that did; after one
\* that does only its own mode counts.
LEMMA LeftOnNext ==
  ASSUME NEW n \in Nat \ {0}
  PROVE  /\ ~SetsLink(n) => (LeftOn(n + 1) <=> LeftOn(n))
         /\ SetsLink(n) => (LeftOn(n + 1) <=> session[n].mode \in {"KSM_ON", "nuKSM"})
<1>1. ASSUME NEW m \in 1..n PROVE m = n \/ (m \in 1..(n - 1) /\ n \in (m + 1)..n)
  OBVIOUS
<1>2. (n + 1) - 1 = n /\ n \in 1..n
  OBVIOUS
<1>3. \A m \in 1..(n - 1) : m \in 1..n
  OBVIOUS
<1>4. ASSUME NEW m \in 1..(n - 1), NEW l \in (m + 1)..n PROVE l = n \/ l \in (m + 1)..(n - 1)
  OBVIOUS
<1>5. ASSUME NEW m \in 1..(n - 1), NEW l \in (m + 1)..(n - 1) PROVE l \in (m + 1)..n
  OBVIOUS
<1>6. ASSUME NEW l \in (n + 1)..n PROVE FALSE
  OBVIOUS
<1>7. LeftOn(n + 1) <=> \E m \in 1..n : /\ SetsLink(m) /\ session[m].mode \in {"KSM_ON", "nuKSM"}
                                        /\ \A l \in (m + 1)..n : ~SetsLink(l)
  BY <1>2, Zenon DEF LeftOn
<1>8. LeftOn(n) <=> \E m \in 1..(n - 1) : /\ SetsLink(m) /\ session[m].mode \in {"KSM_ON", "nuKSM"}
                                          /\ \A l \in (m + 1)..(n - 1) : ~SetsLink(l)
  BY Zenon DEF LeftOn
<1>9. ~SetsLink(n) => (LeftOn(n + 1) <=> LeftOn(n))
  BY <1>1, <1>3, <1>4, <1>5, <1>7, <1>8, Zenon
<1>10. SetsLink(n) => (LeftOn(n + 1) <=> session[n].mode \in {"KSM_ON", "nuKSM"})
  BY <1>1, <1>2, <1>6, <1>7, Zenon
<1>. QED BY <1>9, <1>10

\* What the links are after a step.
LEMMA LinksNext ==
  ASSUME Placed, Placed', LinksOK, [Next]_vars
  PROVE  LinksOK'
<1>0. session' = session
  BY SessionKept
<1>1. \A n : LeftOn(n)' <=> LeftOn(n)
  BY <1>0, LabelKept
<1>2. ASSUME UNCHANGED place, UNCHANGED <<link, ksm, config>>, Running,
             pc' \in {"select", "configure"} => pc' = pc,
             pc \in {"select", "configure"} => pc' = pc,
             Running'
      PROVE  LinksOK'
  <2>1. Command' = Command /\ E' = E /\ Key' = Key /\ cmd' = cmd
    BY <1>2, PlaceKept
  <2>2. LeftOn(cmd + 1)' => link' = "on"
    BY <1>1, <1>2, <2>1, Zenon DEF LinksOK
  <2>. QED BY <1>2, <2>1, <2>2 DEF LinksOK, Label
<1>3. CASE Function
  <2>1. /\ pc \in Functions /\ UNCHANGED place /\ Running /\ Follows(E.script, pc, pc')
        /\ UNCHANGED <<link, config>>
    BY <1>3, FunctionStep
  <2>2. Command' = Command /\ E' = E /\ Key' = Key /\ cmd' = cmd
    BY <2>1, PlaceKept
  <2>3. Running' /\ pc' \notin {"select", "configure"}
    BY <2>1 DEF Follows, Functions, Running
  <2>4. pc = "configure" => link = "none" \/ ksm' = link
    BY <1>3 DEF Function, configure, start_vms, priority, collect_read, phase3, stop, copy_files, shutdown_vms
  <2>5. pc # "configure" => ksm' = ksm
    BY <1>3 DEF Function, configure, start_vms, priority, collect_read, phase3, stop, copy_files, shutdown_vms
  <2>6. LeftOn(cmd + 1)' => link' = "on"
    BY <1>1, <2>1, <2>2, Zenon DEF LinksOK
  <2>7. link' = "none" \/ ksm' = link'
    BY <2>1, <2>4, <2>5 DEF LinksOK, Functions
  <2>8. config' = E'.bench
    BY <2>1, <2>2 DEF LinksOK, Functions
  <2>. QED BY <2>1, <2>2, <2>3, <2>6, <2>7, <2>8 DEF LinksOK, Label
<1>4. CASE select
  <2>1. UNCHANGED place /\ Running /\ link' = link /\ config' = E.bench /\ pc' = "configure"
    BY <1>4 DEF select, Running, Goto
  <2>2. Command' = Command /\ E' = E /\ Key' = Key /\ cmd' = cmd
    BY <2>1, PlaceKept
  <2>3. LeftOn(cmd + 1)' => link' = "on"
    BY <1>1, <2>1, <2>2, Zenon DEF LinksOK
  <2>. QED BY <2>1, <2>2, <2>3 DEF LinksOK, Label
<1>5. CASE cp \/ rm
  BY <1>2, <1>5 DEF cp, rm, links, Running, Goto
<1>6. CASE sleep
  <2>1. /\ Running /\ cmd' = cmd /\ link' = link /\ ksm' = ksm /\ pc' \in {"select", "shell"}
    BY <1>6 DEF sleep, links, Running, Goto
  <2>2. Command' = Command
    BY <1>0, <2>1 DEF Command
  <2>3. Key'.mode = Key.mode
    BY <2>2 DEF Key, Folder
  <2>4. LeftOn(cmd + 1)' => link' = "on"
    BY <1>1, <2>1, Zenon DEF LinksOK
  <2>. QED BY <2>1, <2>2, <2>3, <2>4 DEF LinksOK, Label, Running
<1>7. CASE Issue
  <2>1. /\ pc = "shell" /\ cmd \in Nat /\ cmd' = cmd + 1
        /\ Command' = session[cmd + 1]
        /\ session[cmd + 1].driver \in Drivers \cup {"reboot"}
        /\ session[cmd + 1].mode \in Modes \cup {"other"}
    BY <1>7, IssueStep
  <2>2. PICK c : c = session[cmd + 1] /\ (reboot(c) \/ usage(c) \/ driver(c))
    BY <1>7 DEF Issue
  <2>3. SetsLink(cmd + 1) <=> c.driver \notin Inherits \cup {"reboot"}
    BY <2>2 DEF SetsLink
  <2>4. cmd + 1 \in Nat \ {0}
    BY <2>1
  <2>5. /\ ~SetsLink(cmd + 1) => (LeftOn(cmd + 2) <=> LeftOn(cmd + 1))
        /\ SetsLink(cmd + 1) => (LeftOn(cmd + 2) <=> c.mode \in {"KSM_ON", "nuKSM"})
    <3>1. (cmd + 1) + 1 = cmd + 2
      BY <2>1
    <3>. QED BY <2>2, <2>4, <3>1, LeftOnNext, Zenon
  <2>6. LeftOn(cmd + 1)' <=> LeftOn(cmd + 2)
    <3>1. cmd' + 1 = cmd + 2
      BY <2>1
    <3>. QED BY <1>1, <3>1, Zenon
  <2>7. CASE ~SetsLink(cmd + 1)
    <3>1. link' = link /\ (c.driver = "reboot" => pc' = "shell")
      BY <2>1, <2>2, <2>3, <2>7 DEF reboot, usage, driver, links, Inherits, Goto
    <3>2. LeftOn(cmd + 1)' => link' = "on"
      BY <2>5, <2>6, <2>7, <3>1, Zenon DEF LinksOK
    <3>3. pc' = "shell" \/ (Command'.driver \in Inherits /\ pc' = "select")
      BY <2>1, <2>2, <2>3, <2>7 DEF reboot, usage, driver, Goto
    <3>. QED BY <3>2, <3>3 DEF LinksOK, Running
  <2>8. CASE SetsLink(cmd + 1) /\ c.mode = "other"
    <3>1. pc' = "shell"
      BY <2>1, <2>2, <2>3, <2>8 DEF reboot, usage, driver
    <3>2. ~LeftOn(cmd + 1)'
      BY <2>5, <2>6, <2>8
    <3>. QED BY <3>1, <3>2 DEF LinksOK, Running
  <2>9. CASE SetsLink(cmd + 1) /\ c.mode # "other"
    <3>1. link' = (IF c.mode = "KSM_OFF" THEN "off" ELSE "on") /\ pc' = "select"
      BY <2>2, <2>3, <2>9 DEF reboot, usage, driver, Goto
    <3>2. LeftOn(cmd + 1)' => link' = "on"
      <4>1. LeftOn(cmd + 1)' => c.mode \in {"KSM_ON", "nuKSM"}
        BY <2>5, <2>6, <2>9, Zenon
      <4>2. c.mode \in {"KSM_ON", "nuKSM"} => link' = "on"
        BY <3>1
      <4>. QED BY <4>1, <4>2
    <3>3. Key'.mode = c.mode
      BY <2>1, <2>2, <2>3, <2>9 DEF Key, Folder
    <3>4. link' = Label(Key')
      BY <3>1, <3>3 DEF Label
    <3>. QED BY <3>1, <3>2, <3>4 DEF LinksOK, Running, Label
  <2>. QED BY <2>7, <2>8, <2>9
<1>8. CASE (\E g \in Guests : power_off(g)) \/ UNCHANGED vars
  <2>1. UNCHANGED place /\ pc' = pc /\ UNCHANGED <<link, ksm, config>>
    BY <1>8 DEF power_off, links, vars, place
  <2>2. Command' = Command /\ E' = E /\ Key' = Key /\ cmd' = cmd
    BY <2>1, PlaceKept
  <2>3. LeftOn(cmd + 1)' => link' = "on"
    BY <1>1, <2>1, <2>2, Zenon DEF LinksOK
  <2>. QED BY <2>1, <2>2, <2>3 DEF LinksOK, Label, Running
<1>. QED BY <1>3, <1>4, <1>5, <1>6, <1>7, <1>8 DEF Next, experiment, rest, Function

-----------------------------------------------------------------------------
(***************************************************************************)
(* The guests.                                                             *)
(***************************************************************************)
\* A guest that is on has the priority it should have at this step.
GuestOK(g) ==
    vm[g] = "on" => pc \notin Idle /\ nice[g] = IF pc = "priority" THEN 0 ELSE Asked(Key, g)

\* Where the script sets no priority none is asked for.
LEMMA AskedNone ==
  ASSUME NEW k, NEW g, k.driver \notin {"priority", "inversion"}
  PROVE  Asked(k, g) = 0
BY DEF Asked

\* What the guests are after a step.
LEMMA GuestsNext ==
  ASSUME Placed, GuestsOK, [Next]_vars
  PROVE  GuestsOK'
<1>0. vm \in [Guests -> {"on", "off", "stopping"}] /\ \A g \in Guests : GuestOK(g)
  BY DEF GuestsOK, GuestOK
<1>1. SUFFICES vm' \in [Guests -> {"on", "off", "stopping"}] /\ \A g \in Guests : GuestOK(g)'
  BY DEF GuestsOK, GuestOK
<1>2. CASE Function
  <2>1. pc \in Functions /\ UNCHANGED place /\ Running /\ Follows(E.script, pc, pc')
    BY <1>2, FunctionStep
  <2>2. Key' = Key /\ Key.driver = Command.driver /\ Runs(Command.driver, exp) /\ E.script \in Scripts
    BY <2>1, PlaceKept, Here
  <2>3. E.script = "run" => Command.driver \notin {"priority", "inversion"}
    BY <2>2 DEF Runs, E
  <2>4. CASE start_vms
    <3>1. /\ pc = "start_vms"
          /\ vm' = [g \in Guests |-> IF vm[g] = "off" THEN "on" ELSE vm[g]]
          /\ nice' = [g \in Guests |-> IF vm[g] = "off" THEN 0 ELSE nice[g]]
      BY <2>4 DEF start_vms
    <3>2. \/ pc' = "priority"
          \/ pc' = "collect_read" /\ Command.driver \notin {"priority", "inversion"}
      BY <2>1, <2>3, <3>1 DEF Follows
    <3>3. ASSUME NEW g \in Guests, vm'[g] = "on" PROVE nice'[g] = 0
      BY <1>0, <3>1, <3>3 DEF GuestOK, Idle
    <3>4. ASSUME NEW g \in Guests PROVE GuestOK(g)'
      <4>1. CASE pc' = "priority"
        BY <3>3, <4>1 DEF GuestOK, Idle
      <4>2. CASE pc' = "collect_read" /\ Command.driver \notin {"priority", "inversion"}
        <5>1. Asked(Key', g) = 0
          BY <2>2, <4>2, AskedNone
        <5>. QED BY <3>3, <4>2, <5>1 DEF GuestOK, Idle, Asked
      <4>. QED BY <3>2, <4>1, <4>2
    <3>. QED BY <1>0, <3>1, <3>4
  <2>5. CASE priority
    <3>1. /\ pc = "priority" /\ vm' = vm
          /\ nice' = IF Command.driver \in {"priority", "inversion"}
                     THEN [g \in Guests |-> IF vm[g] # "off" THEN Asked(Key, g) ELSE nice[g]]
                     ELSE nice
      BY <2>5 DEF priority
    <3>2. pc' \in {"collect_read", "phase3"}
      BY <2>1, <3>1 DEF Follows
    <3>3. ASSUME NEW g \in Guests, vm'[g] = "on" PROVE nice'[g] = Asked(Key, g)
      <4>1. CASE Command.driver \in {"priority", "inversion"}
        BY <3>1, <3>3, <4>1
      <4>2. CASE Command.driver \notin {"priority", "inversion"}
        <5>1. Asked(Key, g) = 0
          BY <2>2, <4>2, AskedNone
        <5>. QED BY <1>0, <3>1, <3>3, <4>2, <5>1 DEF GuestOK
      <4>. QED BY <4>1, <4>2
    <3>4. ASSUME NEW g \in Guests PROVE GuestOK(g)'
      <4>1. vm'[g] = "on" => nice'[g] = Asked(Key', g)
        BY <2>2, <3>3
      <4>2. pc' \notin Idle /\ pc' # "priority"
        BY <3>2 DEF Idle
      <4>. QED BY <4>1, <4>2 DEF GuestOK, Asked
    <3>. QED BY <1>0, <3>1, <3>4
  <2>6. CASE shutdown_vms
    <3>1. vm' = [g \in Guests |-> IF vm[g] = "on" THEN "stopping" ELSE vm[g]]
      BY <2>6 DEF shutdown_vms
    <3>2. \A g \in Guests : vm'[g] # "on"
      BY <3>1
    <3>. QED BY <1>0, <3>1, <3>2 DEF GuestOK
  <2>7. CASE configure
    <3>1. pc = "configure" /\ vm' = vm
      BY <2>7 DEF configure, guests
    <3>2. \A g \in Guests : vm'[g] # "on"
      BY <1>0, <3>1 DEF GuestOK, Idle
    <3>. QED BY <1>0, <3>1, <3>2 DEF GuestOK
  <2>8. CASE collect_read \/ phase3 \/ stop \/ copy_files
    <3>1. pc \in {"collect_read", "phase3", "stop", "copy_files"} /\ vm' = vm /\ nice' = nice
      BY <2>8 DEF collect_read, phase3, stop, copy_files, guests
    <3>2. pc' \notin Idle /\ pc' # "priority"
      BY <2>1, <3>1 DEF Follows, Idle
    <3>3. pc # "priority"
      BY <3>1
    <3>4. ASSUME NEW g \in Guests PROVE GuestOK(g)'
      <4>1. vm'[g] = "on" => nice'[g] = Asked(Key', g)
        BY <1>0, <2>2, <3>1, <3>3 DEF GuestOK
      <4>. QED BY <3>2, <4>1 DEF GuestOK, Asked
    <3>. QED BY <1>0, <3>1, <3>4
  <2>. QED BY <1>2, <2>4, <2>5, <2>6, <2>7, <2>8 DEF Function
<1>3. CASE select \/ cp \/ rm \/ sleep
  <2>1. pc \in Idle /\ vm' = vm
    BY <1>3 DEF select, cp, rm, sleep, guests, Idle
  <2>2. \A g \in Guests : vm'[g] # "on"
    BY <1>0, <2>1 DEF GuestOK
  <2>. QED BY <1>0, <2>1, <2>2 DEF GuestOK
<1>4. CASE Issue
  <2>1. pc \in Idle /\ (vm' = vm \/ vm' = [g \in Guests |-> "off"])
    BY <1>4 DEF Issue, reboot, usage, driver, Starts, guests, Idle
  <2>2. \A g \in Guests : vm'[g] # "on"
    BY <1>0, <2>1 DEF GuestOK
  <2>. QED BY <1>0, <2>1, <2>2 DEF GuestOK
<1>5. CASE \E g \in Guests : power_off(g)
  <2>1. PICK h \in Guests : power_off(h)
    BY <1>5
  <2>2. vm' = [vm EXCEPT ![h] = "off"] /\ pc' = pc /\ nice' = nice /\ UNCHANGED place
    BY <2>1 DEF power_off
  <2>3. Key' = Key
    BY <2>2, PlaceKept
  <2>4. ASSUME NEW g \in Guests PROVE GuestOK(g)'
    <3>1. vm'[g] = "on" => vm[g] = "on"
      BY <1>0, <2>2
    <3>2. GuestOK(g)
      BY <1>0
    <3>. QED BY <2>2, <2>3, <3>1, <3>2 DEF GuestOK, Asked
  <2>. QED BY <1>0, <2>2, <2>4
<1>6. CASE UNCHANGED vars
  <2>1. vm' = vm /\ pc' = pc /\ nice' = nice /\ UNCHANGED place
    BY <1>6 DEF vars, place
  <2>2. Key' = Key
    BY <2>1, PlaceKept
  <2>. QED BY <1>0, <2>1, <2>2 DEF GuestOK, Asked
<1>. QED BY <1>2, <1>3, <1>4, <1>5, <1>6 DEF Next, experiment, rest, Function

\* A driver that goes on while a guest is stopping has slept too little; what was late
\* once stays so.
LEMMA LateNext ==
  ASSUME Placed, GuestsOK, LateOK, [Next]_vars
  PROVE  LateOK' /\ (late > 0 => late' > 0)
<1>0. late \in Nat /\ vm \in [Guests -> {"on", "off", "stopping"}]
  BY DEF LateOK, GuestsOK
<1>1. ASSUME late' = late, \A g \in Guests : vm'[g] = "stopping" => vm[g] = "stopping",
             pc \in {"cp", "rm", "sleep"} => pc' \in {"cp", "rm", "sleep"}
      PROVE  LateOK' /\ (late > 0 => late' > 0)
  BY <1>0, <1>1 DEF LateOK
<1>2. CASE shutdown_vms
  <2>1. Function
    BY <1>2 DEF Function
  <2>2. pc = "shutdown_vms" /\ late' = late
    BY <1>2 DEF shutdown_vms
  <2>3. pc' = "cp"
    BY <2>1, <2>2, FunctionStep DEF Follows
  <2>. QED BY <1>0, <2>2, <2>3 DEF LateOK
<1>3. CASE start_vms
  <2>1. pc = "start_vms" /\ late' = late /\ vm' = [g \in Guests |-> IF vm[g] = "off" THEN "on" ELSE vm[g]]
    BY <1>3 DEF start_vms
  <2>2. \A g \in Guests : vm'[g] = "stopping" => vm[g] = "stopping"
    BY <2>1
  <2>. QED BY <1>1, <2>1, <2>2
<1>4. CASE configure \/ priority \/ collect_read \/ phase3 \/ stop \/ copy_files \/ select
  <2>1. late' = late /\ vm' = vm /\ pc \notin {"cp", "rm", "sleep"}
    BY <1>4 DEF configure, priority, collect_read, phase3, stop, copy_files, select, guests
  <2>. QED BY <1>1, <2>1
<1>5. CASE cp \/ rm
  <2>1. late' = late /\ vm' = vm /\ pc' \in {"rm", "sleep"}
    BY <1>5 DEF cp, rm, guests, Goto
  <2>. QED BY <1>1, <2>1
<1>6. CASE sleep
  <2>1. /\ vm' = vm
        /\ \/ (\A g \in Guests : vm[g] # "stopping") /\ late' = late
           \/ late' = late + 1
    BY <1>6 DEF sleep, guests
  <2>. QED BY <1>0, <2>1 DEF LateOK
<1>7. CASE Issue
  <2>1. late' = late /\ pc = "shell" /\ (vm' = vm \/ vm' = [g \in Guests |-> "off"])
    BY <1>7 DEF Issue, reboot, usage, driver, Starts, guests
  <2>2. \A g \in Guests : vm'[g] = "stopping" => vm[g] = "stopping"
    BY <2>1
  <2>. QED BY <1>1, <2>1, <2>2
<1>8. CASE (\E g \in Guests : power_off(g)) \/ UNCHANGED vars
  <2>1. late' = late /\ pc' = pc
    BY <1>8 DEF power_off, vars
  <2>2. \A g \in Guests : vm'[g] = "stopping" => vm[g] = "stopping"
    BY <1>0, <1>8 DEF power_off, vars
  <2>. QED BY <1>1, <2>1, <2>2
<1>. QED BY <1>2, <1>3, <1>4, <1>5, <1>6, <1>7, <1>8 DEF Next, experiment, rest

-----------------------------------------------------------------------------
(***************************************************************************)
(* The files in data_collections.                                          *)
(***************************************************************************)
\* r is a measurement of the running experiment, as labelled.
Good(g, r) == Own(Key, cmd, r) /\ Labelled(Key, g, r)

\* r is a count of perf of the running experiment, as labelled unless its guest was late.
GoodCount(g, r) == Own(Key, cmd, r) /\ Counted(Key, g, r)

Fields == {"time", "run_op", "log", "csv"}

\* Nothing is measured yet.
LEMMA NoDataFields ==
  /\ DOMAIN NoData = Fields
  /\ \A g \in Guests : NoData.time[g] = {} /\ NoData.run_op[g] = {} /\ NoData.log[g] = {} /\ NoData.csv[g] = {}
BY DEF NoData, Nothing, Fields

\* After the selection of the configuration a measurement is one of its experiment.
LEMMA ReadingOwn ==
  ASSUME Placed, LinksOK, Running, pc # "select", NEW g
  PROVE  Own(Key, cmd, Reading(g))
BY Here DEF LinksOK, Own, Reading

\* After the configuration KSM is what the folder says: the link was made by this
\* command, or by the last one that makes it.
LEMMA ReadingKsm ==
  ASSUME Placed, LinksOK, Running, pc \notin {"select", "configure"}, NEW g
  PROVE  KsmAsLabelled(Key, Reading(g))
<1>1. /\ Reading(g).ksm = ksm /\ Reading(g).cmd = cmd /\ (link = "none" \/ ksm = link)
      /\ (Command.driver \notin Inherits => link = Label(Key))
  BY DEF Reading, LinksOK
<1>2. /\ Key.driver = Command.driver /\ cmd \in Nat \ {0}
      /\ Key.mode = IF Command.driver \in Inherits THEN "none" ELSE Command.mode
  BY Here
<1>3. CASE Command.driver \notin Inherits
  <2>1. link = Label(Key) /\ link # "none"
    BY <1>1, <1>3 DEF Label
  <2>2. Reading(g).ksm = Label(Key)
    BY <1>1, <2>1
  <2>. QED BY <2>2, Zenon DEF KsmAsLabelled
<1>4. CASE Command.driver \in Inherits
  <2>1. ~SetsLink(cmd)
    BY <1>4 DEF SetsLink, Command
  <2>2. LeftOn(cmd) => link = "on"
    <3>1. LeftOn(cmd) => LeftOn(cmd + 1)
      BY <1>2, <2>1, LeftOnNext, Zenon
    <3>. QED BY <3>1, Zenon DEF LinksOK
  <2>3. Label(Key) = "on"
    BY <1>2, <1>4 DEF Label
  <2>4. LeftOn(cmd) => Reading(g).ksm = Label(Key)
    BY <1>1, <2>2, <2>3
  <2>5. Key.driver \in Inherits
    BY <1>2, <1>4
  <2>6. Reading(g).ksm = Label(Key) \/ (Key.driver \in Inherits /\ ~LeftOn(Reading(g).cmd))
    BY <1>1, <2>4, <2>5, Zenon
  <2>. QED BY <2>6, Zenon DEF KsmAsLabelled
<1>. QED BY <1>3, <1>4

\* In the measured phase a guest that is on was started by this experiment and has the
\* priority the folder says.
LEMMA ReadingGood ==
  ASSUME Placed, LinksOK, GuestsOK, pc \in {"collect_read", "phase3"}, NEW g \in Guests, vm[g] = "on"
  PROVE  Good(g, Reading(g))
<1>1. Running /\ pc \notin {"select", "configure", "priority"}
  BY DEF Running
<1>2. Own(Key, cmd, Reading(g)) /\ KsmAsLabelled(Key, Reading(g))
  BY <1>1, ReadingOwn, ReadingKsm
<1>3. Reading(g).nice = Asked(Key, g)
  BY <1>1 DEF GuestsOK, Reading
<1>. QED BY <1>2, <1>3, Zenon DEF Good, Labelled

\* The counters may also find a guest that is stopping; then it is late.
LEMMA CountGood ==
  ASSUME Placed, LinksOK, GuestsOK, LateOK, pc = "collect_read", NEW g \in Guests,
         vm[g] \in {"on", "stopping"}
  PROVE  GoodCount(g, Reading(g))
<1>1. Running /\ pc \notin {"select", "configure", "cp", "rm", "sleep"}
  BY DEF Running
<1>2. Own(Key, cmd, Reading(g)) /\ KsmAsLabelled(Key, Reading(g))
  BY <1>1, ReadingOwn, ReadingKsm
<1>3. CASE vm[g] = "on"
  <2>1. Good(g, Reading(g))
    BY <1>3, ReadingGood
  <2>. QED BY <2>1, Zenon DEF Good, Labelled, GoodCount, Counted
<1>4. CASE vm[g] = "stopping"
  <2>1. Reading(g).vm = "stopping" /\ late > 0
    BY <1>1, <1>4 DEF LateOK, Reading
  <2>. QED BY <1>2, <2>1, Zenon DEF GoodCount, Counted
<1>. QED BY <1>3, <1>4

\* What the files of one guest have to be, as sets of measurements.
FilesOK(times, output, log, csv, g) ==
    /\ \A r \in times : OldTimes \/ Good(g, r)
    /\ \A r \in output : LeftOver(Key, r) \/ Good(g, r)
    /\ \A r \in log \cup csv : GoodCount(g, r)
    /\ E.script = "run_real" => output = {}
    /\ E.script = "run_ycsb" => times = {}
    /\ Command.driver # "perf" => log = {} /\ csv = {}

\* It is what Collected says of the files in data_collections, now and after a step.
LEMMA CollectedFiles ==
  ASSUME NEW g
  PROVE  /\ Collected(g) <=> FilesOK(data.time[g], data.run_op[g], data.log[g], data.csv[g], g)
         /\ Collected(g)' <=> FilesOK(data.time[g], data.run_op[g], data.log[g], data.csv[g], g)'
BY DEF Collected, FilesOK, Good, GoodCount

\* A measurement stays what it is as long as the experiment goes on.
LEMMA GoodKept ==
  ASSUME UNCHANGED place
  PROVE  /\ \A g, r : Good(g, r)' <=> Good(g, r)
         /\ late' = late => \A g, r : GoodCount(g, r)' <=> GoodCount(g, r)
         /\ \A r : LeftOver(Key, r)' <=> LeftOver(Key, r)
<1>1. Key' = Key /\ cmd' = cmd /\ session' = session
  BY PlaceKept
<1>2. \A r : KsmAsLabelled(Key, r)' <=> KsmAsLabelled(Key, r)
  <2>1. \A n : LeftOn(n)' <=> LeftOn(n)
    BY <1>1, LabelKept
  <2>2. Label(Key)' = Label(Key)
    BY <1>1 DEF Label
  <2>. QED BY <1>1, <2>1, <2>2, Zenon DEF KsmAsLabelled
<1>3. \A r : Own(Key, cmd, r)' <=> Own(Key, cmd, r)
  BY <1>1 DEF Own
<1>4. ASSUME NEW g, NEW r
      PROVE  /\ Labelled(Key, g, r)' <=> Labelled(Key, g, r)
             /\ late' = late => (Counted(Key, g, r)' <=> Counted(Key, g, r))
  <2>1. Asked(Key, g)' = Asked(Key, g)
    BY <1>1 DEF Asked
  <2>. QED BY <1>2, <2>1, Zenon DEF Labelled, Counted
<1>5. \A r : LeftOver(Key, r)' <=> LeftOver(Key, r)
  BY <1>1 DEF LeftOver
<1>. QED BY <1>3, <1>4, <1>5, Zenon DEF Good, GoodCount

\* What the files are in the next state of the same experiment.
LEMMA FilesNext ==
  ASSUME UNCHANGED place, late' = late, NEW g,
         \A r \in data'.time[g] : OldTimes' \/ Good(g, r),
         \A r \in data'.run_op[g] : LeftOver(Key, r) \/ Good(g, r),
         \A r \in data'.log[g] \cup data'.csv[g] : GoodCount(g, r),
         E.script = "run_real" => data'.run_op[g] = {},
         E.script = "run_ycsb" => data'.time[g] = {},
         Command.driver # "perf" => data'.log[g] = {} /\ data'.csv[g] = {}
  PROVE  Collected(g)'
<1>1. Command' = Command /\ E' = E
  BY PlaceKept
<1>2. /\ \A r : Good(g, r)' <=> Good(g, r)
      /\ \A r : GoodCount(g, r)' <=> GoodCount(g, r)
      /\ \A r : LeftOver(Key, r)' <=> LeftOver(Key, r)
  BY GoodKept
<1>3. \A r \in data'.time[g] : OldTimes' \/ Good(g, r)'
  BY <1>2
<1>4. \A r \in data'.run_op[g] : LeftOver(Key, r)' \/ Good(g, r)'
  BY <1>2
<1>5. \A r \in data'.log[g] \cup data'.csv[g] : GoodCount(g, r)'
  BY <1>2
<1>6. /\ E'.script = "run_real" => data'.run_op[g] = {}
      /\ E'.script = "run_ycsb" => data'.time[g] = {}
      /\ Command'.driver # "perf" => data'.log[g] = {} /\ data'.csv[g] = {}
  BY <1>1
<1>. QED BY <1>3, <1>4, <1>5, <1>6, CollectedFiles DEF FilesOK

\* What is known of the files of a guest before a function is called.
LEMMA FilesBefore ==
  ASSUME Placed, DataOK, Function
  PROVE  /\ DOMAIN data = Fields /\ UNCHANGED place /\ late' = late /\ Running /\ pc \in Functions
         /\ pc' \notin {"shell", "sleep"} /\ Follows(E.script, pc, pc')
         /\ pc # "phase3" => (OldTimes => OldTimes')
         /\ \A g \in Guests : FilesOK(data.time[g], data.run_op[g], data.log[g], data.csv[g], g)
<1>1. pc \in Functions /\ UNCHANGED place /\ late' = late /\ Running /\ Follows(E.script, pc, pc')
  BY FunctionStep
<1>2. Command' = Command /\ E' = E
  BY <1>1, PlaceKept
<1>3. pc' \notin {"shell", "sleep"} /\ (pc # "phase3" /\ pc \in ToMeasure => pc' \in ToMeasure)
  BY <1>1 DEF Follows, Functions, ToMeasure
<1>4. pc # "phase3" => (OldTimes => OldTimes')
  BY <1>2, <1>3 DEF OldTimes
<1>5. DOMAIN data = Fields /\ \A g \in Guests : Collected(g)
  BY <1>1, NoDataFields DEF DataOK
<1>. QED BY <1>1, <1>3, <1>4, <1>5, CollectedFiles

\* A function that leaves every file of every guest what it may be.
LEMMA FunctionData ==
  ASSUME Placed, DataOK, Function, DOMAIN data' = Fields, \A g \in Guests : Collected(g)'
  PROVE  DataOK'
<1>1. pc' \notin {"shell", "sleep"}
  BY FilesBefore
<1>. QED BY <1>1, NoDataFields DEF DataOK

\* The functions that do not write, and the ones that write for one kind of run only.
LEMMA IdleData ==
  ASSUME Placed, DataOK, Function, data' = data, pc # "phase3"
  PROVE  DataOK'
<1>1. /\ DOMAIN data = Fields /\ UNCHANGED place /\ late' = late /\ (OldTimes => OldTimes')
      /\ \A g \in Guests : FilesOK(data.time[g], data.run_op[g], data.log[g], data.csv[g], g)
  BY FilesBefore
<1>2. ASSUME NEW g \in Guests PROVE Collected(g)'
  BY <1>1, FilesNext DEF FilesOK
<1>. QED BY <1>1, <1>2, FunctionData

\* The counters of perf count for this experiment, and only in a run for them; they
\* find the guests that are on, and ones that are late.
LEMMA CollectReadData ==
  ASSUME Placed, LinksOK, GuestsOK, LateOK, DataOK, collect_read
  PROVE  DataOK'
<1>0. Function /\ pc = "collect_read"
  BY DEF Function, collect_read
<1>1. /\ DOMAIN data = Fields /\ UNCHANGED place /\ late' = late /\ (OldTimes => OldTimes') /\ Running
      /\ \A g \in Guests : FilesOK(data.time[g], data.run_op[g], data.log[g], data.csv[g], g)
  BY <1>0, FilesBefore
<1>2. PICK last \in SUBSET {g \in Guests : vm[g] = "stopping"} :
         LET counted == IF PERF_RUN THEN last \cup {g \in Guests : vm[g] = "on"} ELSE {} IN
         data' = [data EXCEPT !.log =
                    [g \in Guests |-> @[g] \cup IF g \in counted THEN {Reading(g)} ELSE {}]]
  BY DEF collect_read
<1>3. PICK counted : /\ PERF_RUN \/ counted = {}
                     /\ counted \subseteq {g \in Guests : vm[g] \in {"on", "stopping"}}
                     /\ data' = [data EXCEPT !.log =
                          [g \in Guests |-> data.log[g] \cup IF g \in counted THEN {Reading(g)} ELSE {}]]
  BY <1>2
<1>4. /\ DOMAIN data' = Fields /\ data'.time = data.time /\ data'.run_op = data.run_op /\ data'.csv = data.csv
      /\ data'.log = [g \in Guests |-> data.log[g] \cup IF g \in counted THEN {Reading(g)} ELSE {}]
  BY <1>1, <1>3 DEF Fields
<1>5. ASSUME NEW g \in Guests PROVE Collected(g)'
  <2>1. g \in counted => GoodCount(g, Reading(g))
    BY <1>0, <1>3, CountGood
  <2>2. data'.log[g] = data.log[g] \cup IF g \in counted THEN {Reading(g)} ELSE {}
    BY <1>4
  <2>3. FilesOK(data.time[g], data.run_op[g], data.log[g], data.csv[g], g)
    BY <1>1
  <2>4. \A r \in data'.log[g] \cup data'.csv[g] : GoodCount(g, r)
    BY <1>4, <2>1, <2>2, <2>3 DEF FilesOK
  <2>5. Command.driver # "perf" => data'.log[g] = {} /\ data'.csv[g] = {}
    BY <1>3, <1>4, <2>2, <2>3 DEF FilesOK, PERF_RUN
  <2>. QED BY <1>1, <1>4, <2>3, <2>4, <2>5, FilesNext DEF FilesOK
<1>. QED BY <1>0, <1>4, <1>5, FunctionData

\* The measured phase overwrites the times of whatever was run before, but for MySQL,
\* which writes none.
LEMMA PhaseData ==
  ASSUME Placed, LinksOK, GuestsOK, DataOK, phase3
  PROVE  DataOK'
<1>0. Function /\ pc = "phase3"
  BY DEF Function, phase3
<1>1. /\ DOMAIN data = Fields /\ UNCHANGED place /\ late' = late /\ Running
      /\ \A g \in Guests : FilesOK(data.time[g], data.run_op[g], data.log[g], data.csv[g], g)
  BY <1>0, FilesBefore
<1>2. data' = IF Redirected
              THEN [data EXCEPT !.time = [g \in Guests |-> IF vm[g] = "on" THEN {Reading(g)} ELSE {}]]
              ELSE data
  BY DEF phase3
<1>3. CASE Redirected
  <2>1. /\ DOMAIN data' = Fields /\ data'.run_op = data.run_op /\ data'.log = data.log /\ data'.csv = data.csv
        /\ data'.time = [g \in Guests |-> IF vm[g] = "on" THEN {Reading(g)} ELSE {}]
    BY <1>1, <1>2, <1>3 DEF Fields
  <2>2. ASSUME NEW g \in Guests PROVE Collected(g)'
    <3>1. vm[g] = "on" => Good(g, Reading(g))
      BY <1>0, ReadingGood
    <3>2. \A r \in data'.time[g] : Good(g, r)
      BY <2>1, <3>1
    <3>3. FilesOK(data.time[g], data.run_op[g], data.log[g], data.csv[g], g)
      BY <1>1
    <3>4. E.script # "run_ycsb"
      BY <1>3 DEF Redirected
    <3>. QED BY <1>1, <2>1, <3>2, <3>3, <3>4, FilesNext DEF FilesOK
  <2>. QED BY <1>0, <2>1, <2>2, FunctionData
<1>4. CASE ~Redirected
  <2>1. data' = data /\ E.script = "run_ycsb"
    BY <1>2, <1>4 DEF Redirected
  <2>2. ASSUME NEW g \in Guests PROVE Collected(g)'
    <3>1. FilesOK(data.time[g], data.run_op[g], data.log[g], data.csv[g], g)
      BY <1>1
    <3>2. data'.time[g] = {}
      BY <2>1, <3>1 DEF FilesOK
    <3>. QED BY <1>1, <2>1, <3>1, <3>2, FilesNext DEF FilesOK
  <2>. QED BY <1>0, <1>1, <2>1, <2>2, FunctionData
<1>. QED BY <1>3, <1>4

\* The counts are those of the log.
LEMMA StopData ==
  ASSUME Placed, DataOK, stop
  PROVE  DataOK'
<1>0. Function /\ pc = "stop" /\ pc # "phase3"
  BY DEF Function, stop
<1>1. /\ DOMAIN data = Fields /\ UNCHANGED place /\ late' = late /\ (OldTimes => OldTimes')
      /\ \A g \in Guests : FilesOK(data.time[g], data.run_op[g], data.log[g], data.csv[g], g)
  BY <1>0, FilesBefore
<1>2. CASE data' = data
  BY <1>0, <1>2, IdleData
<1>3. CASE data' = [data EXCEPT !.csv = data.log] /\ PERF_RUN
  <2>1. /\ DOMAIN data' = Fields /\ data'.run_op = data.run_op /\ data'.log = data.log /\ data'.time = data.time
        /\ data'.csv = data.log
    BY <1>1, <1>3 DEF Fields
  <2>2. ASSUME NEW g \in Guests PROVE Collected(g)'
    <3>1. FilesOK(data.time[g], data.run_op[g], data.log[g], data.csv[g], g)
      BY <1>1
    <3>2. \A r \in data'.log[g] \cup data'.csv[g] : GoodCount(g, r)
      BY <2>1, <3>1 DEF FilesOK
    <3>3. Command.driver = "perf"
      BY <1>3 DEF PERF_RUN
    <3>. QED BY <1>1, <2>1, <3>1, <3>2, <3>3, FilesNext DEF FilesOK
  <2>. QED BY <1>0, <2>1, <2>2, FunctionData
<1>. QED BY <1>2, <1>3 DEF stop

\* What is copied from a guest that is on was written by this run; without one the
\* file on the host stays.
LEMMA CopyData ==
  ASSUME Placed, DataOK, DiskOK, copy_files
  PROVE  DataOK'
<1>0. Function /\ pc = "copy_files" /\ pc # "phase3"
  BY DEF Function, copy_files
<1>1. /\ DOMAIN data = Fields /\ UNCHANGED place /\ late' = late /\ (OldTimes => OldTimes') /\ Follows(E.script, pc, pc')
      /\ \A g \in Guests : FilesOK(data.time[g], data.run_op[g], data.log[g], data.csv[g], g)
  BY <1>0, FilesBefore
<1>2. data' = [data EXCEPT !.run_op =
                 [g \in Guests |-> IF WritesRunFile /\ vm[g] = "on" /\ disk[g][RunFile] # {}
                                   THEN disk[g][RunFile] ELSE data.run_op[g]]]
  BY DEF copy_files
<1>3. /\ DOMAIN data' = Fields /\ data'.csv = data.csv /\ data'.log = data.log /\ data'.time = data.time
      /\ data'.run_op = [g \in Guests |-> IF WritesRunFile /\ vm[g] = "on" /\ disk[g][RunFile] # {}
                                          THEN disk[g][RunFile] ELSE data.run_op[g]]
  BY <1>1, <1>2 DEF Fields
<1>4. E.script # "run_real"
  BY <1>0, <1>1 DEF Follows
<1>5. ASSUME NEW g \in Guests PROVE Collected(g)'
  <2>1. FilesOK(data.time[g], data.run_op[g], data.log[g], data.csv[g], g)
    BY <1>1
  <2>2. WritesRunFile /\ vm[g] = "on" => \A r \in disk[g][RunFile] : Good(g, r)
    BY <1>0 DEF DiskOK, Good
  <2>3. \A r \in data'.run_op[g] : LeftOver(Key, r) \/ Good(g, r)
    <3>1. CASE WritesRunFile /\ vm[g] = "on" /\ disk[g][RunFile] # {}
      BY <1>3, <2>2, <3>1
    <3>2. CASE ~(WritesRunFile /\ vm[g] = "on" /\ disk[g][RunFile] # {})
      BY <1>3, <2>1, <3>2 DEF FilesOK
    <3>. QED BY <3>1, <3>2
  <2>. QED BY <1>1, <1>3, <1>4, <2>1, <2>3, FilesNext DEF FilesOK
<1>. QED BY <1>0, <1>3, <1>5, FunctionData

\* An emptied data_collections holds nothing of another experiment.
LEMMA EmptyCollected ==
  ASSUME data' = NoData, NEW g \in Guests
  PROVE  Collected(g)'
<1>1. data'.time[g] = {} /\ data'.run_op[g] = {} /\ data'.log[g] = {} /\ data'.csv[g] = {}
  BY NoDataFields
<1>2. FilesOK(data.time[g], data.run_op[g], data.log[g], data.csv[g], g)'
  BY <1>1 DEF FilesOK
<1>. QED BY <1>2, CollectedFiles

\* The statements of a driver: where data_collections is not emptied, after CG and
\* MySQL of complete_mod.sh, the next experiment is one that overwrites the times, or
\* one to which the output of MySQL is left over.
LEMMA SleepData ==
  ASSUME Placed, Placed', DataOK, sleep
  PROVE  DataOK'
<1>1. /\ pc = "sleep" /\ Running /\ data' = data /\ session' = session /\ cmd' = cmd
      /\ IF exp < Len(Experiments(Command.driver)) THEN exp' = exp + 1 /\ pc' = "select"
                                                   ELSE exp' = 0 /\ pc' = "shell"
  BY DEF sleep, Goto, Running
<1>2. DOMAIN data = Fields /\ \A g \in Guests : FilesOK(data.time[g], data.run_op[g], data.log[g], data.csv[g], g)
  BY <1>1, NoDataFields, CollectedFiles DEF DataOK
<1>3. CASE ~Kept
  <2>1. data' = NoData
    BY <1>1, <1>3 DEF DataOK
  <2>. QED BY <2>1, EmptyCollected DEF DataOK
<1>4. CASE Kept
  <2>1. Runs(Command.driver, exp) /\ Key.bench = E.bench /\ E.bench \in {"CG", "MYSQL"}
    BY <1>1, <1>4, Here DEF Kept
  <2>2. Command' = Command /\ Command.driver = "complete_mod"
    BY <1>1, <1>4 DEF Kept, Command
  <2>3. /\ exp < Len(Experiments(Command.driver))
        /\ E.bench = "CG" => E.script = "run_real" /\ Experiments(Command.driver)[exp + 1].bench = "BTREE"
        /\ E.bench = "MYSQL" => /\ E.script = "run_ycsb" /\ Experiments(Command.driver)[exp + 1].bench = "MICROBENCH"
                                /\ Experiments(Command.driver)[exp + 1].script = "run"
    BY <2>1, <2>2 DEF Runs, E
  <2>4. pc' = "select" /\ exp' = exp + 1
    BY <1>1, <2>3
  <2>5. E' = Experiments(Command.driver)[exp + 1]
    BY <2>2, <2>4 DEF E, Experiments
  <2>6. Running' /\ Key'.driver = "complete_mod" /\ Key'.bench = E'.bench
    BY <2>2, <2>4 DEF Running, Key, Folder
  <2>7. ASSUME NEW g \in Guests PROVE Collected(g)'
    <3>1. FilesOK(data.time[g], data.run_op[g], data.log[g], data.csv[g], g)
      BY <1>2
    <3>2. data'.log[g] = {} /\ data'.csv[g] = {}
      BY <1>1, <2>2, <3>1 DEF FilesOK
    <3>3. CASE E.bench = "CG"
      <4>1. data'.run_op[g] = {}
        BY <1>1, <2>3, <3>1, <3>3 DEF FilesOK
      <4>2. OldTimes'
        BY <2>2, <2>3, <2>4, <2>5, <3>3 DEF OldTimes, ToMeasure
      <4>3. E'.script # "run_ycsb"
        <5>1. E'.bench = "BTREE"
          BY <2>3, <2>5, <3>3
        <5>2. Command.driver \in Drivers /\ exp + 1 \in 1..Len(Experiments(Command.driver))
          BY <1>1, <2>3, Here
        <5>3. Runs(Command.driver, exp + 1)
          BY <5>2, DriversRun
        <5>. QED BY <2>2, <2>5, <5>1, <5>3 DEF Runs
      <4>4. FilesOK(data.time[g], data.run_op[g], data.log[g], data.csv[g], g)'
        BY <3>2, <4>1, <4>2, <4>3 DEF FilesOK
      <4>. QED BY <4>4, CollectedFiles
    <3>4. CASE E.bench = "MYSQL"
      <4>1. data'.time[g] = {}
        BY <1>1, <2>3, <3>1, <3>4 DEF FilesOK
      <4>2. E'.bench = "MICROBENCH" /\ E'.script = "run"
        BY <2>3, <2>5, <3>4
      <4>3. \A r \in data'.run_op[g] : LeftOver(Key, r)'
        <5>1. ASSUME NEW r \in data.run_op[g] PROVE r.key.bench = "MYSQL"
          <6>1. LeftOver(Key, r) \/ Good(g, r)
            BY <3>1 DEF FilesOK
          <6>2. ~LeftOver(Key, r)
            BY <2>1, <3>4 DEF LeftOver
          <6>. QED BY <2>1, <3>4, <6>1, <6>2 DEF Good, Own
        <5>. QED BY <1>1, <2>6, <4>2, <5>1 DEF LeftOver
      <4>4. FilesOK(data.time[g], data.run_op[g], data.log[g], data.csv[g], g)'
        BY <3>2, <4>1, <4>2, <4>3 DEF FilesOK
      <4>. QED BY <4>4, CollectedFiles
    <3>. QED BY <2>1, <3>3, <3>4
  <2>8. DOMAIN data' = DOMAIN NoData
    BY <1>1 DEF DataOK
  <2>. QED BY <2>4, <2>7, <2>8 DEF DataOK
<1>. QED BY <1>3, <1>4

\* Every step keeps what data_collections may hold.
LEMMA DataNext ==
  ASSUME Placed, Placed', LinksOK, GuestsOK, LateOK, DataOK, DiskOK, [Next]_vars
  PROVE  DataOK'
<1>1. ASSUME UNCHANGED place, late' = late, data' = data, Running, Running', OldTimes => OldTimes',
             pc' = "sleep" => Kept \/ data = NoData
      PROVE  DataOK'
  <2>1. \A g \in Guests : FilesOK(data.time[g], data.run_op[g], data.log[g], data.csv[g], g)
    BY <1>1, CollectedFiles DEF DataOK
  <2>2. ASSUME NEW g \in Guests PROVE Collected(g)'
    BY <1>1, <2>1, FilesNext DEF FilesOK
  <2>3. Kept' <=> Kept
    BY <1>1, PlaceKept DEF Kept
  <2>. QED BY <1>1, <2>2, <2>3 DEF DataOK, Running
<1>2. CASE configure \/ start_vms \/ priority \/ shutdown_vms
  <2>1. Function /\ data' = data /\ pc # "phase3"
    BY <1>2 DEF Function, configure, start_vms, priority, shutdown_vms
  <2>. QED BY <2>1, IdleData
<1>3. CASE collect_read \/ phase3 \/ stop \/ copy_files
  BY <1>3, CollectReadData, PhaseData, StopData, CopyData
<1>4. CASE select
  <2>1. /\ UNCHANGED place /\ late' = late /\ Running /\ Running' /\ pc = "select" /\ pc' = "configure"
        /\ data' = NoData \/ data' = data
    BY <1>4 DEF select, Running, Goto
  <2>2. Command' = Command /\ E' = E
    BY <2>1, PlaceKept
  <2>3. OldTimes => OldTimes'
    BY <2>1, <2>2 DEF OldTimes, ToMeasure
  <2>4. CASE data' = NoData
    BY <2>4, EmptyCollected DEF DataOK
  <2>. QED BY <1>1, <2>1, <2>3, <2>4
<1>5. CASE cp
  <2>1. UNCHANGED place /\ late' = late /\ Running /\ Running' /\ pc = "cp" /\ pc' = "rm" /\ data' = data
    BY <1>5 DEF cp, Running, Goto
  <2>2. ~OldTimes
    BY <2>1 DEF OldTimes, ToMeasure
  <2>. QED BY <1>1, <2>1, <2>2
<1>6. CASE rm
  <2>1. /\ UNCHANGED place /\ late' = late /\ Running /\ Running' /\ pc = "rm" /\ pc' = "sleep"
        /\ data' = IF Kept THEN data ELSE NoData
    BY <1>6 DEF rm, Running, Goto, Kept
  <2>2. ~OldTimes
    BY <2>1 DEF OldTimes, ToMeasure
  <2>3. CASE ~Kept
    BY <2>1, <2>3, EmptyCollected DEF DataOK
  <2>. QED BY <1>1, <2>1, <2>2, <2>3
<1>7. CASE sleep
  BY <1>7, SleepData
<1>8. CASE Issue
  <2>1. data' = NoData
    BY <1>8, IssueStep DEF DataOK
  <2>. QED BY <2>1, EmptyCollected DEF DataOK
<1>9. CASE (\E g \in Guests : power_off(g)) \/ UNCHANGED vars
  <2>1. UNCHANGED place /\ late' = late /\ data' = data /\ pc' = pc
    BY <1>9 DEF power_off, vars, place
  <2>2. Command' = Command /\ E' = E
    BY <2>1, PlaceKept
  <2>3. CASE Running
    <3>1. Running' /\ (OldTimes => OldTimes')
      BY <2>1, <2>2, <2>3 DEF Running, OldTimes
    <3>2. pc' = "sleep" => Kept \/ data = NoData
      BY <2>1 DEF DataOK
    <3>. QED BY <1>1, <2>1, <2>3, <3>1, <3>2
  <2>4. CASE ~Running
    BY <2>1, <2>4 DEF DataOK, Running
  <2>. QED BY <2>3, <2>4
<1>. QED BY <1>2, <1>3, <1>4, <1>5, <1>6, <1>7, <1>8, <1>9 DEF Next, experiment, rest

-----------------------------------------------------------------------------
(***************************************************************************)
(* The guests' disks.                                                      *)
(***************************************************************************)
RunFiles == {"OpRun.out", "btree_throughput.csv"}

\* What the run has written stays until it is copied.
LEMMA DiskNext ==
  ASSUME Placed, LinksOK, GuestsOK, DiskOK, [Next]_vars
  PROVE  DiskOK'
<1>0. \A g \in Guests : DOMAIN disk[g] = RunFiles
  BY DEF DiskOK, RunFiles
<1>1. RunFile \in RunFiles
  BY DEF RunFile, RunFiles
<1>2. ASSUME disk' = disk, pc' \notin {"stop", "copy_files"} PROVE DiskOK'
  BY <1>0, <1>2 DEF DiskOK, RunFiles
<1>3. ASSUME UNCHANGED place, disk' = disk, pc \in {"stop", "copy_files"},
             \A g \in Guests : vm'[g] = "on" => vm[g] = "on"
      PROVE  DiskOK'
  <2>1. E' = E
    BY <1>3, PlaceKept
  <2>2. (WritesRunFile' <=> WritesRunFile) /\ RunFile' = RunFile
    BY <2>1 DEF WritesRunFile, RunFile
  <2>3. \A g, r : Good(g, r)' <=> Good(g, r)
    BY <1>3, GoodKept
  <2>4. WritesRunFile => \A g \in Guests : vm[g] = "on" => \A r \in disk[g][RunFile] : Good(g, r)
    BY <1>3 DEF DiskOK, Good
  <2>5. WritesRunFile' => \A g \in Guests : vm'[g] = "on" => \A r \in disk'[g][RunFile'] : Good(g, r)'
    BY <1>3, <2>2, <2>3, <2>4
  <2>. QED BY <1>0, <1>3, <2>5 DEF DiskOK, RunFiles, Good
<1>4. CASE phase3
  <2>1. /\ UNCHANGED place /\ pc = "phase3" /\ vm' = vm
        /\ disk' = [g \in Guests |->
                      IF WritesRunFile /\ vm[g] = "on"
                      THEN [disk[g] EXCEPT ![RunFile] = IF vm[g] = "on" THEN {Reading(g)} ELSE {}]
                      ELSE disk[g]]
    BY <1>4 DEF phase3
  <2>2. E' = E
    BY <2>1, PlaceKept
  <2>3. (WritesRunFile' <=> WritesRunFile) /\ RunFile' = RunFile
    BY <2>2 DEF WritesRunFile, RunFile
  <2>4. \A g \in Guests : DOMAIN disk'[g] = RunFiles
    BY <1>0, <2>1
  <2>5. ASSUME WritesRunFile, NEW g \in Guests, vm'[g] = "on", NEW r \in disk'[g][RunFile] PROVE Good(g, r)'
    <3>1. disk'[g][RunFile] = {Reading(g)}
      BY <1>0, <1>1, <2>1, <2>5
    <3>2. Good(g, r)
      BY <2>1, <2>5, <3>1, ReadingGood
    <3>. QED BY <2>1, <3>2, GoodKept
  <2>6. WritesRunFile' => \A g \in Guests : vm'[g] = "on" => \A r \in disk'[g][RunFile'] : Good(g, r)'
    BY <2>3, <2>5
  <2>. QED BY <2>4, <2>6 DEF DiskOK, RunFiles, Good
<1>5. CASE stop \/ copy_files
  <2>1. UNCHANGED place /\ disk' = disk /\ pc \in {"stop", "copy_files"} /\ vm' = vm
    BY <1>5 DEF stop, copy_files, guests
  <2>. QED BY <1>3, <2>1
<1>6. CASE configure \/ start_vms \/ priority \/ collect_read \/ shutdown_vms
  <2>1. /\ Function /\ disk' = disk
        /\ pc \in {"configure", "start_vms", "priority", "collect_read", "shutdown_vms"}
    BY <1>6 DEF Function, configure, start_vms, priority, collect_read, shutdown_vms, guests
  <2>2. Follows(E.script, pc, pc')
    BY <2>1, FunctionStep
  <2>3. pc' \notin {"stop", "copy_files"}
    BY <2>1, <2>2 DEF Follows
  <2>. QED BY <1>2, <2>1, <2>3
<1>7. CASE select \/ cp \/ rm \/ sleep \/ Issue
  <2>1. disk' = disk /\ pc' \notin {"stop", "copy_files"}
    BY <1>7 DEF select, cp, rm, sleep, Issue, reboot, usage, driver, Starts, guests, Goto
  <2>. QED BY <1>2, <2>1
<1>8. CASE (\E g \in Guests : power_off(g)) \/ UNCHANGED vars
  <2>1. UNCHANGED place /\ disk' = disk /\ pc' = pc
    BY <1>8 DEF power_off, vars, place
  <2>2. \A g \in Guests : vm'[g] = "on" => vm[g] = "on"
    BY <1>8 DEF power_off, vars, GuestsOK
  <2>. QED BY <1>2, <1>3, <2>1, <2>2
<1>. QED BY <1>4, <1>5, <1>6, <1>7, <1>8 DEF Next, experiment, rest

-----------------------------------------------------------------------------
(***************************************************************************)
(* The result folders.                                                     *)
(***************************************************************************)
\* d holds what folder k should hold, of one command.
FolderOK(k, d) ==
    \E c \in Nat :
        /\ \A f \in DOMAIN NoData : \A g \in Guests : \A r \in d[f][g] : LeftOver(k, r) \/ Own(k, c, r)
        /\ \A f \in {"time", "run_op"} : \A g \in Guests : \A r \in d[f][g] : LeftOver(k, r) \/ Labelled(k, g, r)
        /\ \A f \in {"log", "csv"} : \A g \in Guests : \A r \in d[f][g] : Counted(k, g, r)

\* Only cp makes a folder, and it changes none.
LEMMA ResultsKept ==
  ASSUME [Next]_vars
  PROVE  results' = results \/ cp
BY Zenon DEF Next, Issue, reboot, usage, driver, experiment, select, configure, start_vms, priority, collect_read,
       phase3, stop, copy_files, shutdown_vms, rm, sleep, power_off, rest, vars

\* At cp data_collections holds what the folder should hold.
LEMMA CopyOK ==
  ASSUME Placed, DataOK, pc = "cp"
  PROVE  FolderOK(Key, data)
<1>1. Running /\ ~OldTimes
  BY DEF Running, OldTimes, ToMeasure
<1>2. cmd \in Nat
  BY <1>1, Here
<1>3. ASSUME NEW g \in Guests
      PROVE  /\ \A f \in Fields : \A r \in data[f][g] : LeftOver(Key, r) \/ Own(Key, cmd, r)
             /\ \A f \in {"time", "run_op"} : \A r \in data[f][g] : LeftOver(Key, r) \/ Labelled(Key, g, r)
             /\ \A f \in {"log", "csv"} : \A r \in data[f][g] : Counted(Key, g, r)
  <2>1. FilesOK(data.time[g], data.run_op[g], data.log[g], data.csv[g], g)
    BY <1>1, CollectedFiles DEF DataOK
  <2>2. /\ \A r \in data["time"][g] : Good(g, r)
        /\ \A r \in data["run_op"][g] : LeftOver(Key, r) \/ Good(g, r)
        /\ \A r \in data["log"][g] : GoodCount(g, r)
        /\ \A r \in data["csv"][g] : GoodCount(g, r)
    BY <1>1, <2>1 DEF FilesOK
  <2>3. ASSUME NEW f \in Fields PROVE f = "time" \/ f = "run_op" \/ f = "log" \/ f = "csv"
    BY DEF Fields
  <2>. QED BY <2>2, <2>3, Zenon DEF Good, GoodCount
<1>. QED BY <1>2, <1>3, NoDataFields DEF FolderOK

\* Every step keeps what the folders hold.
LEMMA FoldersNext ==
  ASSUME Placed, GuestsOK, LateOK, DataOK, FoldersOK, [Next]_vars
  PROVE  FoldersOK'
<1>0. session' = session
  BY SessionKept
<1>1. /\ \A k, g, r : Labelled(k, g, r)' <=> Labelled(k, g, r)
      /\ \A k, g, r : Counted(k, g, r) => Counted(k, g, r)'
  BY <1>0, LabelKept, LateNext, Zenon DEF Counted, Asked
<1>2. \A k \in DOMAIN results : FolderOK(k, results[k])
  BY DEF FoldersOK, FolderOK
<1>3. SUFFICES \A k \in DOMAIN results' : FolderOK(k, results'[k])
  BY <1>1, <1>3 DEF FoldersOK, FolderOK
<1>4. CASE results' = results
  BY <1>2, <1>4
<1>5. CASE cp
  <2>1. /\ pc = "cp"
        /\ results' = [k \in DOMAIN results \cup {Key} |-> IF k \in DOMAIN results THEN results[k] ELSE data]
    BY <1>5 DEF cp
  <2>2. FolderOK(Key, data)
    BY <2>1, CopyOK
  <2>. QED BY <1>2, <2>1, <2>2
<1>. QED BY <1>4, <1>5, ResultsKept

\* A session starts with nothing.
LEMMA FilesInit ==
  ASSUME Init
  PROVE  FilesInv
<1>1. /\ session \in Sessions /\ cmd = 0 /\ pc = "shell" /\ data = NoData /\ ~Running
      /\ vm = [g \in Guests |-> "off"] /\ results = [k \in {} |-> NoData]
      /\ disk = [g \in Guests |-> [f \in {"OpRun.out", "btree_throughput.csv"} |-> {}]]
  BY DEF Init, Running
<1>2. Len(session) \in Nat
  BY <1>1, SessionAssumption
<1>3. Placed
  BY <1>1, <1>2 DEF Placed
<1>4. ~LeftOn(cmd + 1)
  BY <1>1 DEF LeftOn
<1>5. LinksOK
  BY <1>1, <1>4 DEF LinksOK
<1>6. GuestsOK
  BY <1>1 DEF GuestsOK
<1>7. DataOK
  BY <1>1 DEF DataOK
<1>8. DiskOK
  BY <1>1 DEF DiskOK
<1>9. FoldersOK
  BY <1>1 DEF FoldersOK
<1>10. LateOK
  BY <1>1 DEF LateOK, Init
<1>. QED BY <1>3, <1>5, <1>6, <1>7, <1>8, <1>9, <1>10 DEF FilesInv

\* The invariant holds in every session of commands, with any number of guests that
\* stop as late as they like.
THEOREM FilesInductive == Spec => []FilesInv
<1>1. Init => FilesInv
  BY FilesInit
<1>2. FilesInv /\ [Next]_vars => FilesInv'
  <2> SUFFICES ASSUME FilesInv, [Next]_vars PROVE FilesInv'
    OBVIOUS
  <2>1. Placed /\ LinksOK /\ GuestsOK /\ LateOK /\ DataOK /\ DiskOK /\ FoldersOK
    BY DEF FilesInv
  <2>2. Placed'
    BY <2>1, PlacedNext
  <2>. QED BY <2>1, <2>2, LinksNext, GuestsNext, LateNext, DataNext, DiskNext, FoldersNext DEF FilesInv
<1>. QED BY <1>1, <1>2, PTL DEF Spec

\* A result folder holds measurements of its own experiment, made by one command, in
\* every session: although all experiments share data_collections, the guests and a
\* log that is appended to, and complete_mod.sh does not always empty the folder.
THEOREM FoldersOwn == Spec => []OwnReadings
<1>1. FilesInv => OwnReadings
  <2> SUFFICES ASSUME FilesInv, NEW k \in DOMAIN results
               PROVE  LET own == {r \in Measured(k) : ~LeftOver(k, r)} IN
                      /\ \A r \in own : r.key = k /\ r.of = k.bench
                      /\ Cardinality({r.cmd : r \in own}) <= 1
    BY DEF OwnReadings
  <2>1. PICK c \in Nat : \A f \in DOMAIN NoData : \A g \in Guests : \A r \in results[k][f][g] :
                            LeftOver(k, r) \/ Own(k, c, r)
    BY DEF FilesInv, FoldersOK
  <2> DEFINE own == {r \in Measured(k) : ~LeftOver(k, r)}
             cmds == {r.cmd : r \in own}
  <2>2. \A r \in own : Own(k, c, r)
    BY <2>1 DEF Measured
  <2>3. cmds \subseteq {c}
    BY <2>2 DEF Own
  <2> HIDE DEF cmds
  <2>4. Cardinality({c}) = 1 /\ IsFiniteSet({c})
    BY FS_Singleton
  <2>5. Cardinality(cmds) <= 1
    BY <2>3, <2>4, FS_Subset
  <2>. QED BY <2>2, <2>5 DEF Own, cmds
<1>. QED BY <1>1, FilesInductive, PTL

\* Every reading in a result folder was made with KSM as the folder is labelled and at
\* the priority it is numbered for, in every file and every session and however late
\* the guests of the experiment before are; only the log of perf and the counts made
\* of it may hold a reading of such a late guest at its old priority.  A driver that
\* inherits the link gets the state of KSM only if the last driver that makes the link
\* was not refused and not for KSM_OFF.
THEOREM LabelsHold == Spec => []ConditionsAsLabelled
<1>1. FilesInv => ConditionsAsLabelled
  <2> SUFFICES ASSUME FilesInv, NEW k \in DOMAIN results, NEW f \in DOMAIN NoData, NEW g \in Guests,
                      NEW r \in results[k][f][g], ~LeftOver(k, r)
               PROVE  /\ r.ksm = Label(k) \/ (k.driver \in Inherits /\ ~LeftOn(r.cmd))
                      /\ r.nice = Asked(k, g) \/ LateCount(f, r)
    BY DEF ConditionsAsLabelled
  <2>1. CASE f \in {"time", "run_op"}
    <3>1. Labelled(k, g, r)
      BY <2>1 DEF FilesInv, FoldersOK
    <3>. QED BY <3>1 DEF Labelled, KsmAsLabelled
  <2>2. CASE f \in {"log", "csv"}
    <3>1. Counted(k, g, r)
      BY <2>2 DEF FilesInv, FoldersOK
    <3>. QED BY <2>2, <3>1 DEF Counted, KsmAsLabelled, LateCount
  <2>. QED BY <2>1, <2>2, NoDataFields DEF Fields
<1>. QED BY <1>1, FilesInductive, PTL
=============================================================================

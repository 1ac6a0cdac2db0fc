------------------------- MODULE RandomAccessProofs -------------------------
(***************************************************************************)
(* The benchmark and its scripts for any number of phases, words and       *)
(* reads, any content of the uninitialised masks, with sleeps that are     *)
(* long enough or not and mappings that may fail: ReadsFilled, and what an *)
(* answer means, with filldata and access as scripts of their own and in   *)
(* mode complete, which sends two signals without waiting in between.      *)
(*                                                                         *)
(* ReadsFilled is not inductive: it needs that random_access never starts  *)
(* on top of filldata.  The masks do not see to that; the scripts do, since*)
(* each of them waits for its answer, so that at any time at most one      *)
(* signal is pending or being handled.                                     *)
(***************************************************************************)
EXTENDS RandomAccess, TLAPS

Frame == [handler : {"filldata", "random_access"}, sig : Signals,
          at : {"entry", "fill", "answer", "exit"}, caller : Nat]

Pending == \E sig \in Signals : pending[sig] # Nobody
Busy(f) == f # <<>> /\ f[1].at # "exit"
Filling(f) == f # <<>> /\ f[1].handler = "filldata" /\ f[1].at = "fill"

\* What the variables are, as far as the proof needs it.
Types ==
    /\ Len(Plan) \in Nat
    /\ pending \in [Signals -> Nat]
    /\ frames \in Seq(Frame)
    /\ step \in 0..Len(Plan)
    /\ script \in {"none", "open", "kill", "spin"}
    /\ script # "none" => step \in Scripts
    /\ answer \in BOOLEAN

\* Below the handler that runs there are only handlers about to exit, and only
\* random_access does.
Below == \A k \in 2..Len(frames) : frames[k].at = "exit"
ExitsOnly == \A k \in 1..Len(frames) : frames[k].at \in {"answer", "exit"} => frames[k].handler = "random_access"

\* At most one signal is pending or being handled, and its script waits for it.
OneAtATime ==
    /\ pending["SIGUSR1"] = Nobody \/ pending["SIGUSR2"] = Nobody
    /\ Pending => script = "spin" /\ ~answer /\ ~Busy(frames)
    /\ Busy(frames) => script = "spin" /\ ~answer
    /\ answer => script = "spin"

\* A mapping is filled, unless the handler that runs is filling it.
FilledOrFilling == addr = "mapped" => filled = Words \/ Filling(frames)

IInv == Types /\ Below /\ ExitsOnly /\ OneAtATime /\ FilledOrFilling

-----------------------------------------------------------------------------
\* A frame on top of the stack.
LEMMA Push ==
    ASSUME NEW f \in Seq(Frame), NEW x \in Frame
    PROVE  /\ <<x>> \o f \in Seq(Frame)
           /\ Len(<<x>> \o f) = Len(f) + 1
           /\ (<<x>> \o f)[1] = x
           /\ \A k \in 2..(Len(f) + 1) : (<<x>> \o f)[k] = f[k - 1]
           /\ <<x>> \o f # <<>>
  OBVIOUS

\* The stack without its top.
LEMMA Pop ==
    ASSUME NEW f \in Seq(Frame), f # <<>>
    PROVE  /\ Tail(f) \in Seq(Frame)
           /\ Len(f) \in Nat \ {0}
           /\ Len(Tail(f)) = Len(f) - 1
           /\ \A k \in 1..(Len(f) - 1) : Tail(f)[k] = f[k + 1]
           /\ Head(f) = f[1] /\ f[1] \in Frame
  OBVIOUS

\* Go(at) changes the top frame only.
LEMMA GoTop ==
    ASSUME Types, frames # <<>>, NEW at \in {"entry", "fill", "answer", "exit"}, Go(at)
    PROVE  /\ frames' \in Seq(Frame) /\ frames' # <<>>
           /\ Len(frames') = Len(frames)
           /\ frames'[1] = [frames[1] EXCEPT !.at = at]
           /\ \A k \in 2..Len(frames) : frames'[k] = frames[k]
  <1>1. /\ Tail(frames) \in Seq(Frame)
        /\ Len(frames) \in Nat \ {0}
        /\ Len(Tail(frames)) = Len(frames) - 1
        /\ \A k \in 1..(Len(frames) - 1) : Tail(frames)[k] = frames[k + 1]
        /\ Head(frames) = frames[1] /\ frames[1] \in Frame
    BY Pop DEF Types
  <1> DEFINE x == [frames[1] EXCEPT !.at = at]
  <1>2. x \in Frame
    BY <1>1 DEF Frame
  <1>3. frames' = <<x>> \o Tail(frames)
    BY <1>1 DEF Go
  <1> HIDE DEF x
  <1>4. /\ frames' \in Seq(Frame) /\ frames' # <<>>
        /\ Len(frames') = Len(Tail(frames)) + 1
        /\ frames'[1] = x
        /\ \A k \in 2..(Len(Tail(frames)) + 1) : frames'[k] = Tail(frames)[k - 1]
    BY <1>1, <1>2, <1>3, Push
  <1>5. \A k \in 2..Len(frames) : frames'[k] = frames[k]
    <2> SUFFICES ASSUME NEW k \in 2..Len(frames) PROVE frames'[k] = frames[k]
      OBVIOUS
    <2>1. frames'[k] = Tail(frames)[k - 1] /\ k - 1 \in 1..(Len(frames) - 1)
      BY <1>1, <1>4
    <2> QED
      BY <1>1, <2>1
  <1> QED
    BY <1>1, <1>4, <1>5 DEF x

\* The initial states satisfy the invariant.
LEMMA InitIInv == Init => IInv
  <1> SUFFICES ASSUME Init PROVE IInv
    OBVIOUS
  <1>1. Len(frames) = 0 /\ frames \in Seq(Frame)
    BY DEF Init
  <1>2. Types
    <2>1. Len(Plan) \in Nat
      BY PlansAssumption DEF Init, Plan
    <2>2. 0 \in 0..Len(Plan)
      BY <2>1
    <2>3. pending \in [Signals -> Nat]
      BY DEF Init, Nobody
    <2> QED
      BY <1>1, <2>1, <2>2, <2>3 DEF Init, Types
  <1>3. Below /\ ExitsOnly
    BY <1>1 DEF Below, ExitsOnly
  <1>4. OneAtATime /\ FilledOrFilling
    BY DEF Init, OneAtATime, FilledOrFilling, Pending, Busy, Signals
  <1> QED
    BY <1>2, <1>3, <1>4 DEF IInv

\* The setting does not change, and so neither do the plan and the scripts.
LEMMA SettingKept == [Next]_vars => UNCHANGED <<setting, Plan, Scripts>>
  <1> SUFFICES ASSUME [Next]_vars PROVE UNCHANGED setting
    BY DEF Plan, Scripts
  <1>1. CASE main
    BY <1>1 DEF main, prepare, fopen, fclose, sigaction
  <1>2. CASE filldata \/ random_access
    BY <1>2 DEF filldata, mmap, write, filldata_answer,
                random_access, read, unmap_all, random_access_answer, exit
  <1>3. CASE \E sig \in Signals : deliver(sig)
    BY <1>3 DEF deliver
  <1>4. CASE start_script \/ complete_script
    BY <1>4 DEF start_script, complete_script, read_pid, kill, wake, kill_second, sigusr1_handler
  <1>5. CASE rest \/ UNCHANGED vars
    BY <1>5 DEF rest, vars
  <1> QED
    BY <1>1, <1>2, <1>3, <1>4, <1>5 DEF Next

\* A process that dies leaves nothing on the stack and nothing pending.
LEMMA DieIInv ==
    ASSUME IInv, UNCHANGED <<setting, Plan, Scripts>>, NEW how, Die(how), addr # "mapped" \/ ~Filling(frames),
           UNCHANGED <<addr, filled, client>>
    PROVE  IInv'
  <1>1. Len(frames') = 0 /\ frames' \in Seq(Frame) /\ frames' = <<>>
    BY DEF Die
  <1>2. Types'
    BY <1>1 DEF IInv, Types, Die, client, Nobody, Signals
  <1>3. Below' /\ ExitsOnly'
    BY <1>1 DEF Below, ExitsOnly
  <1>4. OneAtATime'
    BY <1>1 DEF IInv, OneAtATime, Pending, Busy, Die, Signals, client
  <1>5. FilledOrFilling'
    BY <1>1 DEF IInv, FilledOrFilling
  <1> QED
    BY <1>2, <1>3, <1>4, <1>5 DEF IInv

\* A step that leaves the handlers, the signals and the memory alone, and the
\* script where it waits or does not.
LEMMA QuietIInv ==
    ASSUME IInv, UNCHANGED <<setting, Plan, Scripts>>,
           UNCHANGED <<pending, frames, addr, filled, step, script, answer>>
    PROVE  IInv'
  BY DEF IInv, Types, Below, ExitsOnly, OneAtATime, FilledOrFilling, Pending, Busy, Filling

-----------------------------------------------------------------------------
\* A signal is delivered when no handler is busy, and it is the only one pending.
LEMMA DeliverIInv ==
    ASSUME IInv, UNCHANGED <<setting, Plan, Scripts>>, NEW sig \in Signals, deliver(sig)
    PROVE  IInv'
  <1>1. pending[sig] # Nobody /\ Pending /\ ~Busy(frames) /\ script = "spin" /\ ~answer
    BY DEF deliver, IInv, OneAtATime, Pending
  <1>2. ~Filling(frames)
    BY <1>1 DEF Busy, Filling
  <1>3. CASE Installed(sig)
    <2> DEFINE x == [handler |-> Handler(sig), sig |-> sig, at |-> "entry", caller |-> pending[sig]]
    <2>1. /\ frames' = <<x>> \o frames
          /\ pending' = [pending EXCEPT ![sig] = Nobody]
          /\ UNCHANGED <<addr, filled, step, script, answer>>
      BY <1>3 DEF deliver, data, client
    <2>2. x \in Frame /\ x.at = "entry"
      BY DEF IInv, Types, Frame, Handler, Signals
    <2> HIDE DEF x
    <2>3. /\ frames' \in Seq(Frame) /\ frames' # <<>>
          /\ Len(frames') = Len(frames) + 1
          /\ frames'[1] = x
          /\ \A k \in 2..(Len(frames) + 1) : frames'[k] = frames[k - 1]
      BY <2>1, <2>2, Push DEF IInv, Types
    <2>4. Len(frames) \in Nat
      BY DEF IInv, Types
    <2>5. Types'
      BY <2>1, <2>3 DEF IInv, Types, Nobody
    <2>6. \A k \in 1..Len(frames) : frames[k].at = "exit"
      <3> SUFFICES ASSUME NEW k \in 1..Len(frames) PROVE frames[k].at = "exit"
        OBVIOUS
      <3>1. CASE k = 1
        <4>1. frames # <<>>
          BY <2>4, <3>1
        <4> QED
          BY <1>1, <3>1, <4>1 DEF Busy
      <3>2. CASE k # 1
        BY <2>4, <3>2 DEF IInv, Below
      <3> QED
        BY <3>1, <3>2
    <2>7. Below'
      <3> SUFFICES ASSUME NEW k \in 2..Len(frames') PROVE frames'[k].at = "exit"
        BY DEF Below
      <3>1. frames'[k] = frames[k - 1] /\ k - 1 \in 1..Len(frames)
        BY <2>3, <2>4
      <3> QED
        BY <2>6, <3>1
    <2>8. ExitsOnly'
      <3> SUFFICES ASSUME NEW k \in 1..Len(frames'), frames'[k].at \in {"answer", "exit"}
                   PROVE  frames'[k].handler = "random_access"
        BY DEF ExitsOnly
      <3>1. k # 1
        BY <2>2, <2>3
      <3>2. frames'[k] = frames[k - 1] /\ k - 1 \in 1..Len(frames)
        BY <2>3, <2>4, <3>1
      <3> QED
        BY <3>2 DEF IInv, ExitsOnly
    <2>9. OneAtATime'
      <3>1. \A s \in Signals : pending'[s] = Nobody
        BY <1>1, <2>1 DEF IInv, Types, OneAtATime, Signals
      <3> QED
        BY <1>1, <2>1, <3>1 DEF OneAtATime, Pending, Signals
    <2>10. FilledOrFilling'
      BY <1>2, <2>1 DEF IInv, FilledOrFilling
    <2> QED
      BY <2>5, <2>7, <2>8, <2>9, <2>10 DEF IInv
  <1>4. CASE ~Installed(sig)
    <2>1. Die("killed") /\ UNCHANGED <<addr, filled, client>>
      BY <1>4 DEF deliver, data
    <2> QED
      BY <1>2, <2>1, DieIInv
  <1> QED
    BY <1>3, <1>4

\* A step of the handler that runs, on its own frame.
LEMMA TopIInv ==
    ASSUME IInv, UNCHANGED <<setting, Plan, Scripts>>, Busy(frames),
           NEW at \in {"entry", "fill", "answer", "exit"}, Go(at),
           at \in {"answer", "exit"} => frames[1].handler = "random_access",
           UNCHANGED <<pending, step, script>>,
           answer' \in BOOLEAN, at = "exit" \/ answer' = answer,
           FilledOrFilling'
    PROVE  IInv'
  <1>1. /\ frames # <<>> /\ ~Pending /\ script = "spin" /\ ~answer
    BY DEF IInv, OneAtATime, Busy
  <1>2. /\ frames' \in Seq(Frame) /\ frames' # <<>>
        /\ Len(frames') = Len(frames)
        /\ frames'[1] = [frames[1] EXCEPT !.at = at]
        /\ \A k \in 2..Len(frames) : frames'[k] = frames[k]
    BY <1>1, GoTop DEF IInv
  <1>3. frames[1] \in Frame /\ Len(frames) \in Nat \ {0}
    BY <1>1, Pop DEF IInv, Types
  <1>4. frames'[1].at = at /\ frames'[1].handler = frames[1].handler
    BY <1>2, <1>3 DEF Frame
  <1>5. Types'
    BY <1>2 DEF IInv, Types
  <1>6. Below'
    BY <1>2 DEF IInv, Below
  <1>7. ExitsOnly'
    <2> SUFFICES ASSUME NEW k \in 1..Len(frames'), frames'[k].at \in {"answer", "exit"}
                 PROVE  frames'[k].handler = "random_access"
      BY DEF ExitsOnly
    <2>1. CASE k = 1
      BY <1>4, <2>1
    <2>2. CASE k # 1
      <3>1. frames'[k] = frames[k] /\ k \in 1..Len(frames)
        BY <1>2, <1>3, <2>2
      <3> QED
        BY <3>1 DEF IInv, ExitsOnly
    <2> QED
      BY <2>1, <2>2
  <1>8. ~Pending'
    BY <1>1 DEF Pending
  <1>9. at = "exit" => ~Busy(frames')
    BY <1>4 DEF Busy
  <1>10. OneAtATime'
    <2>1. (pending["SIGUSR1"] = Nobody \/ pending["SIGUSR2"] = Nobody)'
      BY DEF IInv, OneAtATime
    <2>2. Busy(frames') => script' = "spin" /\ ~answer'
      BY <1>1, <1>9
    <2>3. answer' => script' = "spin"
      BY <1>1
    <2> QED
      BY <1>8, <2>1, <2>2, <2>3 DEF OneAtATime
  <1> QED
    BY <1>5, <1>6, <1>7, <1>10 DEF IInv

\* The handler that runs is at its first frame.
LEMMA AtTop ==
    ASSUME IInv, NEW h, NEW at, Running(h, at)
    PROVE  frames # <<>> /\ frames[1] \in Frame /\ frames[1].handler = h /\ frames[1].at = at
  BY Pop DEF IInv, Types, Running

\* filldata maps, fills and answers; what it returns to is about to exit.
LEMMA FilldataIInv ==
    ASSUME IInv, UNCHANGED <<setting, Plan, Scripts>>, filldata
    PROVE  IInv'
  <1>1. CASE mmap
    <2>1. frames # <<>> /\ frames[1] \in Frame /\ frames[1].handler = "filldata" /\ frames[1].at = "entry"
      BY <1>1, AtTop DEF mmap
    <2>2. Busy(frames)
      BY <2>1 DEF Busy
    <2>3. /\ Go("fill") /\ UNCHANGED <<pending, step, script, answer>>
      BY <1>1 DEF mmap, client
    <2>4. frames' # <<>> /\ frames'[1] = [frames[1] EXCEPT !.at = "fill"]
      BY <2>1, <2>3, GoTop DEF IInv
    <2>5. Filling(frames')
      BY <2>1, <2>4 DEF Filling, Frame
    <2>6. FilledOrFilling'
      BY <2>5 DEF FilledOrFilling
    <2>7. answer' \in BOOLEAN
      BY <2>3 DEF IInv, Types
    <2> QED
      BY <2>2, <2>3, <2>6, <2>7, TopIInv
  <1>2. CASE write
    <2>1. frames # <<>> /\ frames[1] \in Frame /\ frames[1].handler = "filldata" /\ frames[1].at = "fill"
      BY <1>2, AtTop DEF write
    <2>2. CASE addr = "mapped"
      <3>1. UNCHANGED <<pending, frames, addr, step, script, answer>>
        BY <1>2, <2>2 DEF write, client
      <3>2. Filling(frames')
        BY <2>1, <3>1 DEF Filling
      <3> QED
        BY <3>1, <3>2 DEF IInv, Types, Below, ExitsOnly, OneAtATime, FilledOrFilling, Pending, Busy
    <2>3. CASE addr # "mapped"
      <3>1. Die("segv") /\ UNCHANGED <<addr, filled, client>>
        BY <1>2, <2>3 DEF write
      <3> QED
        BY <2>3, <3>1, DieIInv
    <2> QED
      BY <2>2, <2>3
  <1>3. CASE filldata_answer
    <2>1. frames # <<>> /\ frames[1] \in Frame /\ frames[1].handler = "filldata" /\ frames[1].at = "fill"
      BY <1>3, AtTop DEF filldata_answer
    <2>2. ~Pending /\ script = "spin" /\ ~answer
      BY <2>1 DEF IInv, OneAtATime, Busy
    <2>3. /\ frames' = Tail(frames) /\ filled = Words
          /\ UNCHANGED <<pending, addr, filled, step, script>>
      BY <1>3 DEF filldata_answer, data
    <2>4. answer' \in BOOLEAN
      BY <1>3 DEF filldata_answer, Answer
    <2>5. /\ frames' \in Seq(Frame)
          /\ Len(frames) \in Nat \ {0}
          /\ Len(frames') = Len(frames) - 1
          /\ \A k \in 1..(Len(frames) - 1) : frames'[k] = frames[k + 1]
      BY <2>1, <2>3, Pop DEF IInv, Types
    <2>6. Types'
      BY <2>3, <2>4, <2>5 DEF IInv, Types
    <2>7. \A k \in 1..Len(frames') : /\ frames'[k] = frames[k + 1]
                                     /\ k + 1 \in 2..Len(frames)
                                     /\ k + 1 \in 1..Len(frames)
      BY <2>5
    <2>8. \A k \in 1..Len(frames') : frames'[k].at = "exit"
      BY <2>7 DEF IInv, Below
    <2>9. Below'
      BY <2>5, <2>8 DEF Below
    <2>10. ExitsOnly'
      BY <2>7 DEF IInv, ExitsOnly
    <2>11. ~Busy(frames')
      <3> SUFFICES ASSUME frames' # <<>> PROVE frames'[1].at = "exit"
        BY DEF Busy
      <3>1. 1 \in 1..Len(frames')
        BY <2>5
      <3> QED
        BY <2>8, <3>1
    <2>12. OneAtATime'
      BY <2>2, <2>3, <2>11 DEF IInv, OneAtATime, Pending
    <2>13. FilledOrFilling'
      BY <2>3 DEF FilledOrFilling
    <2> QED
      BY <2>6, <2>9, <2>10, <2>12, <2>13 DEF IInv
  <1> QED
    BY <1>1, <1>2, <1>3 DEF filldata

\* random_access reads what is filled, gives it back, answers and exits.
LEMMA RandomAccessIInv ==
    ASSUME IInv, UNCHANGED <<setting, Plan, Scripts>>, random_access
    PROVE  IInv'
  <1>1. PICK at \in {"entry", "answer", "exit"} : Running("random_access", at)
    BY DEF random_access, read, unmap_all, random_access_answer, exit
  <1>2. frames # <<>> /\ frames[1] \in Frame /\ frames[1].handler = "random_access" /\ frames[1].at = at
    BY <1>1, AtTop
  <1>3. ~Filling(frames)
    BY <1>2 DEF Filling
  <1>4. at # "exit" => Busy(frames)
    BY <1>2 DEF Busy
  <1>5. addr = "mapped" => filled = Words
    BY <1>3 DEF IInv, FilledOrFilling
  <1>6. CASE read
    <2>1. CASE addr = "mapped"
      <3>1. UNCHANGED <<pending, frames, addr, filled, step, script, answer>>
        BY <1>6, <2>1 DEF read, client
      <3> QED
        BY <3>1, QuietIInv
    <2>2. CASE addr # "mapped"
      <3>1. Die("segv") /\ UNCHANGED <<addr, filled, client>>
        BY <1>6, <2>2 DEF read
      <3> QED
        BY <2>2, <3>1, DieIInv
    <2> QED
      BY <2>1, <2>2
  <1>7. CASE unmap_all
    <2>1. /\ Running("random_access", "entry") /\ Go("answer") /\ addr' = "unmapped"
          /\ UNCHANGED <<pending, step, script, answer>>
      BY <1>7 DEF unmap_all, client
    <2>2. Busy(frames)
      BY <2>1, AtTop DEF Busy
    <2>3. answer' \in BOOLEAN /\ FilledOrFilling'
      BY <2>1 DEF IInv, Types, FilledOrFilling
    <2> QED
      BY <1>2, <2>1, <2>2, <2>3, TopIInv
  <1>8. CASE random_access_answer
    <2>1. /\ Running("random_access", "answer") /\ Go("exit")
          /\ UNCHANGED <<pending, addr, filled, step, script>>
      BY <1>8 DEF random_access_answer, data
    <2>2. Busy(frames)
      BY <2>1, AtTop DEF Busy
    <2>3. answer' \in BOOLEAN
      BY <1>8 DEF random_access_answer, Answer
    <2>4. FilledOrFilling'
      BY <1>5, <2>1 DEF FilledOrFilling
    <2> QED
      BY <1>2, <2>1, <2>2, <2>3, <2>4, TopIInv
  <1>9. CASE exit
    <2>1. Die("exited") /\ UNCHANGED <<addr, filled, client>>
      BY <1>9 DEF exit, data
    <2> QED
      BY <1>3, <2>1, DieIInv
  <1> QED
    BY <1>6, <1>7, <1>8, <1>9 DEF random_access

-----------------------------------------------------------------------------
\* A step of run.sh or of a script that has no answer and leaves none.
LEMMA ClientIInv ==
    ASSUME IInv, UNCHANGED <<setting, Plan, Scripts>>, ~Busy(frames),
           UNCHANGED <<frames, addr, filled>>,
           answer' = FALSE, script' \in {"none", "open", "kill", "spin"},
           step' \in 0..Len(Plan), script' # "none" => step' \in Scripts,
           pending' \in [Signals -> Nat],
           (pending["SIGUSR1"] = Nobody \/ pending["SIGUSR2"] = Nobody)',
           script' = "spin" \/ ~Pending'
    PROVE  IInv'
  <1>1. Types'
    BY DEF IInv, Types
  <1>2. Below' /\ ExitsOnly' /\ FilledOrFilling'
    BY DEF IInv, Below, ExitsOnly, FilledOrFilling, Filling
  <1>3. ~Busy(frames')
    BY DEF Busy
  <1>4. OneAtATime'
    BY <1>3 DEF OneAtATime
  <1> QED
    BY <1>1, <1>2, <1>4 DEF IInv

\* A script sends one signal when nothing is pending or handled, and ends when it is
\* answered.
LEMMA ScriptIInv ==
    ASSUME Phased, IInv, UNCHANGED <<setting, Plan, Scripts>>,
           start_script \/ complete_script
    PROVE  IInv'
  <1>1. Len(Plan) \in Nat
    BY DEF IInv, Types
  <1>2. /\ pending \in [Signals -> Nat] /\ step \in 0..Len(Plan) /\ answer \in BOOLEAN
        /\ script \in {"none", "open", "kill", "spin"}
        /\ script # "none" => step \in Scripts
        /\ pending["SIGUSR1"] = Nobody \/ pending["SIGUSR2"] = Nobody
    BY DEF IInv, Types, OneAtATime
  <1>3. script # "spin" \/ answer => ~Pending /\ ~Busy(frames)
    BY DEF IInv, OneAtATime
  <1>4. script # "spin" => answer = FALSE
    BY <1>2 DEF IInv, OneAtATime
  <1>5. CASE start_script
    <2>1. /\ script = "none" /\ script' = "open" /\ answer' = FALSE
          /\ step < Len(Plan) /\ step' = step + 1
          /\ UNCHANGED <<pending, frames, addr, filled>>
      BY <1>5 DEF start_script, server
    <2>2. step' \in 0..Len(Plan) /\ step' \in Scripts
      BY <1>1, <1>2, <2>1 DEF Scripts
    <2>3. ~Pending'
      BY <1>3, <2>1 DEF Pending
    <2> QED
      BY <1>2, <1>3, <2>1, <2>2, <2>3, ClientIInv
  <1>6. CASE read_pid
    <2>1. /\ script = "open" /\ script' \in {"none", "kill"}
          /\ UNCHANGED <<pending, frames, addr, filled, step, answer>>
      BY <1>6 DEF read_pid, server, Ends
    <2>2. ~Pending' /\ answer' = FALSE
      BY <1>3, <1>4, <2>1 DEF Pending
    <2>3. step' \in Scripts
      BY <1>2, <2>1
    <2> QED
      BY <1>2, <1>3, <2>1, <2>2, <2>3, ClientIInv
  <1>7. CASE kill
    <2>1. script = "kill" /\ UNCHANGED <<frames, addr, filled, step, answer>>
      BY <1>7 DEF kill, data
    <2>2. step \in Scripts /\ ~Pending /\ ~Busy(frames) /\ answer' = FALSE
      BY <1>2, <1>3, <1>4, <2>1
    <2>3. Mode # "complete"
      BY <2>2 DEF Mode, Phased
    <2>4. \A s \in Signals : pending[s] = Nobody
      BY <2>2 DEF Pending
    <2>5. \/ script' = "spin" /\ \E s \in Signals : pending' = [pending EXCEPT ![s] = step]
          \/ script' = "spin" /\ pending' = pending
          \/ script' = "none" /\ pending' = pending
      <3> DEFINE sig == IF Mode = "access" THEN "SIGUSR2" ELSE "SIGUSR1"
      <3>1. sig \in Signals
        BY DEF Signals
      <3>2. Send(sig, script' = (IF Mode = "complete" THEN "sleep" ELSE "spin") /\ out' = out)
        BY <1>7 DEF kill
      <3> HIDE DEF sig
      <3> QED
        BY <2>3, <2>4, <3>1, <3>2 DEF Send, Ends
    <2>6. step \in Nat
      BY <2>2 DEF Scripts
    <2>7. /\ pending' \in [Signals -> Nat]
          /\ pending'["SIGUSR1"] = Nobody \/ pending'["SIGUSR2"] = Nobody
      BY <1>2, <2>4, <2>5, <2>6 DEF Signals
    <2>8. script' = "spin" \/ ~Pending'
      BY <2>2, <2>5 DEF Pending
    <2>9. step' \in 0..Len(Plan) /\ step' \in Scripts
      BY <1>2, <2>1, <2>2
    <2> QED
      BY <2>1, <2>2, <2>5, <2>7, <2>8, <2>9, ClientIInv
  <1>8. CASE sigusr1_handler
    <2>1. /\ answer /\ script' = "none" /\ answer' = FALSE
          /\ UNCHANGED <<pending, frames, addr, filled, step>>
      BY <1>8 DEF sigusr1_handler, server, Ends
    <2>2. ~Pending'
      BY <1>3, <2>1 DEF Pending
    <2>3. step' \in 0..Len(Plan)
      BY <1>2, <2>1
    <2> QED
      BY <1>2, <1>3, <2>1, <2>2, <2>3, ClientIInv
  <1>9. ~wake /\ ~kill_second
    BY <1>2 DEF wake, kill_second
  <1> QED
    BY <1>5, <1>6, <1>7, <1>8, <1>9 DEF complete_script

-----------------------------------------------------------------------------
\* Every step keeps the invariant.
LEMMA NextIInv ==
    ASSUME Phased, IInv, [Next]_vars
    PROVE  IInv'
  <1>0. UNCHANGED <<setting, Plan, Scripts>>
    BY SettingKept
  <1>1. CASE main
    <2>1. UNCHANGED <<pending, frames, addr, filled, step, script, answer>>
      BY <1>1 DEF main, prepare, fopen, fclose, sigaction, data, client
    <2> QED
      BY <1>0, <2>1, QuietIInv
  <1>2. CASE filldata \/ random_access
    BY <1>0, <1>2, FilldataIInv, RandomAccessIInv
  <1>3. CASE \E sig \in Signals : deliver(sig)
    BY <1>0, <1>3, DeliverIInv
  <1>4. CASE start_script \/ complete_script
    BY <1>0, <1>4, ScriptIInv
  <1>5. CASE rest \/ UNCHANGED vars
    <2>1. UNCHANGED <<pending, frames, addr, filled, step, script, answer>>
      BY <1>5 DEF rest, vars, server, client
    <2> QED
      BY <1>0, <2>1, QuietIInv
  <1> QED
    BY <1>1, <1>2, <1>3, <1>4, <1>5 DEF Next

\* When no phase is of mode complete, what random_access reads has been filled to
\* the last word: its handler is never started on top of filldata, whatever the
\* uninitialised masks hold, and its frame is never below one that fills (lines 28
\* to 33, 79 and 120 of wl-randomreads-inputpages.c).
THEOREM FilledFirst == Spec => []ReadsFilled
  <1> DEFINE Inv == Phased => IInv
  <1>1. Init => Inv
    BY InitIInv
  <1>2. Inv /\ [Next]_vars => Inv'
    <2> SUFFICES ASSUME Inv, [Next]_vars, Phased' PROVE IInv'
      OBVIOUS
    <2>1. Phased
      BY SettingKept DEF Phased
    <2> QED
      BY <2>1, NextIInv
  <1>3. Inv => ReadsFilled
    <2> SUFFICES ASSUME IInv, Running("random_access", "entry"), addr = "mapped"
                 PROVE  filled = Words
      BY DEF ReadsFilled
    <2>1. frames[1].handler = "random_access"
      BY AtTop
    <2>2. ~Filling(frames)
      BY <2>1 DEF Filling
    <2> QED
      BY <2>2 DEF IInv, FilledOrFilling
  <1> QED
    BY <1>1, <1>2, <1>3, PTL DEF Spec

-----------------------------------------------------------------------------
(***************************************************************************)
(* What an answer means.  A phase is done when its handler has done its    *)
(* work; the answer is sent then, and no later phase undoes it.            *)
(***************************************************************************)
\* The array is filled in the first phase only.
FilledOnce == \A k \in Scripts : k > 1 => Plan[k] = "access"

Done(k) == IF Plan[k] = "access" THEN reads = Reads /\ addr = "unmapped"
                                 ELSE filled = Words /\ addr \in {"mapped", "unmapped"}

\* The phase that runs asks for the handler h.
Asks(h) == Plan[step] = "access" <=> h = "random_access"

\* The scripts that were answered are over and their phases done.
Answered ==
    /\ \A k \in Scripts : out[k] = "answered" => k <= step /\ (k = step => script = "none") /\ Done(k)
    /\ answer => Done(step)

\* A signal is for the phase that runs, and so is the handler it starts.
Asked ==
    /\ \A sig \in Signals : pending[sig] # Nobody => Asks(Handler(sig))
    /\ Busy(frames) => Asks(frames[1].handler)

\* A mapping that is being filled can be written to; after unmap_all the reads
\* are over.
Handled ==
    /\ filled \in Nat
    /\ Filling(frames) /\ filled > 0 => addr = "mapped"
    /\ frames # <<>> /\ frames[1].at = "answer" => reads = Reads /\ addr = "unmapped"

\* How a script has ended, if it has.
Endings == {"none", "error", "done", "answered"}

AInv == out \in [Scripts -> Endings] /\ Answered /\ Asked /\ Handled

\* In the phase that asks for filldata nobody has been answered yet.
LEMMA FirstPhase ==
    ASSUME FilledOnce, IInv, AInv, Busy(frames), frames[1].handler = "filldata"
    PROVE  ~answer /\ \A k \in Scripts : out[k] # "answered"
  <1>1. script = "spin" /\ ~answer /\ step \in Scripts /\ Len(Plan) \in Nat
    BY DEF IInv, OneAtATime, Types
  <1>2. Plan[step] # "access"
    BY DEF AInv, Asked, Asks
  <1>3. step = 1
    BY <1>1, <1>2 DEF FilledOnce, Scripts
  <1>4. \A k \in Scripts : out[k] = "answered" => k <= 1 /\ k # 1
    BY <1>1, <1>3 DEF AInv, Answered
  <1>5. \A k \in Scripts : k <= 1 => k = 1
    BY <1>1 DEF Scripts
  <1> QED
    BY <1>1, <1>4, <1>5

\* A process that dies answers no more.
LEMMA DieAInv ==
    ASSUME AInv, UNCHANGED <<setting, Plan, Scripts>>, NEW how, Die(how),
           UNCHANGED <<addr, filled, reads, client>>
    PROVE  AInv'
  <1>1. frames' = <<>> /\ \A sig \in Signals : pending'[sig] = Nobody
    BY DEF Die
  <1>2. UNCHANGED <<step, script, answer, out>>
    BY DEF client
  <1>3. Answered'
    BY <1>2 DEF AInv, Answered, Done
  <1>4. Asked'
    BY <1>1 DEF Asked, Busy
  <1>5. Handled'
    BY <1>1 DEF AInv, Handled, Filling
  <1> QED
    BY <1>2, <1>3, <1>4, <1>5 DEF AInv

\* A signal starts the handler that its phase asks for.
LEMMA DeliverAInv ==
    ASSUME IInv, AInv, UNCHANGED <<setting, Plan, Scripts>>, NEW sig \in Signals, deliver(sig)
    PROVE  AInv'
  <1>1. CASE Installed(sig)
    <2> DEFINE x == [handler |-> Handler(sig), sig |-> sig, at |-> "entry", caller |-> pending[sig]]
    <2>1. /\ frames' = <<x>> \o frames
          /\ pending' = [pending EXCEPT ![sig] = Nobody]
          /\ UNCHANGED <<addr, filled, reads, step, script, answer, out>>
      BY <1>1 DEF deliver, data, client
    <2>2. x \in Frame /\ x.at = "entry" /\ x.handler = Handler(sig)
      BY DEF IInv, Types, Frame, Handler, Signals, deliver
    <2>3. pending[sig] # Nobody
      BY DEF deliver
    <2> HIDE DEF x
    <2>4. frames'[1] = x
      BY <2>1, <2>2, Push DEF IInv, Types
    <2>5. Asked'
      <3>1. Asks(Handler(sig))
        BY <2>3 DEF AInv, Asked
      <3>2. \A s \in Signals : pending'[s] # Nobody => pending[s] # Nobody
        BY <2>1 DEF IInv, Types
      <3>3. \A s \in Signals : pending'[s] # Nobody => Asks(Handler(s))
        BY <3>2 DEF AInv, Asked
      <3> QED
        BY <2>1, <2>2, <2>4, <3>1, <3>3 DEF Asked, Asks, Handler
    <2>6. Answered'
      BY <2>1 DEF AInv, Answered, Done
    <2>7. Handled'
      BY <2>1, <2>2, <2>4 DEF AInv, Handled, Filling
    <2> QED
      BY <2>1, <2>5, <2>6, <2>7 DEF AInv
  <1>2. CASE ~Installed(sig)
    <2>1. Die("killed") /\ UNCHANGED <<addr, filled, reads, client>>
      BY <1>2 DEF deliver, data
    <2> QED
      BY <2>1, DieAInv
  <1> QED
    BY <1>1, <1>2

\* filldata answers when the array is filled.
LEMMA FilldataAInv ==
    ASSUME FilledOnce, IInv, AInv, UNCHANGED <<setting, Plan, Scripts>>, filldata
    PROVE  AInv'
  <1>1. PICK at \in {"entry", "fill"} : Running("filldata", at)
    BY DEF filldata, mmap, write, filldata_answer
  <1>2. /\ frames # <<>> /\ frames[1] \in Frame /\ frames[1].handler = "filldata" /\ frames[1].at = at
        /\ frames \in Seq(Frame)
    BY <1>1, AtTop DEF IInv, Types
  <1>3. Busy(frames)
    BY <1>2 DEF Busy
  <1>4. ~Pending /\ ~answer /\ \A k \in Scripts : out[k] # "answered"
    BY <1>2, <1>3, FirstPhase DEF IInv, OneAtATime
  <1>5. Asks("filldata") /\ filled \in Nat
    BY <1>2, <1>3 DEF AInv, Asked, Handled
  <1>6. CASE mmap
    <2>1. Go("fill") /\ filled' = 0 /\ UNCHANGED <<pending, step, script, answer, out, reads>>
      BY <1>6 DEF mmap, client
    <2>2. frames'[1] = [frames[1] EXCEPT !.at = "fill"]
      BY <1>2, <2>1, GoTop DEF IInv
    <2>3. frames'[1].handler = "filldata" /\ frames'[1].at = "fill"
      BY <1>2, <2>2 DEF Frame
    <2>4. Asked'
      BY <1>4, <1>5, <2>1, <2>3 DEF Asked, Asks, Pending
    <2>5. Answered'
      BY <1>4, <2>1 DEF Answered
    <2>6. Handled'
      BY <2>1, <2>3 DEF Handled
    <2> QED
      BY <2>1, <2>4, <2>5, <2>6 DEF AInv
  <1>7. CASE write
    <2>1. CASE addr = "mapped"
      <3>1. UNCHANGED <<pending, frames, addr, reads, step, script, answer, out>> /\ filled' = filled + 1
        BY <1>7, <2>1 DEF write, client
      <3>2. frames[1].at = "fill"
        BY <1>2, <1>7, AtTop DEF write
      <3>3. Handled'
        BY <1>5, <2>1, <3>1, <3>2 DEF Handled
      <3>4. Answered'
        BY <1>4, <3>1 DEF Answered
      <3>5. Asked'
        BY <3>1 DEF AInv, Asked, Asks
      <3> QED
        BY <3>1, <3>3, <3>4, <3>5 DEF AInv
    <2>2. CASE addr # "mapped"
      <3>1. Die("segv") /\ UNCHANGED <<addr, filled, reads, client>>
        BY <1>7, <2>2 DEF write
      <3> QED
        BY <3>1, DieAInv
    <2> QED
      BY <2>1, <2>2
  <1>8. CASE filldata_answer
    <2>1. /\ frames[1].at = "fill" /\ frames' = Tail(frames) /\ filled = Words
          /\ UNCHANGED <<pending, addr, filled, reads, step, script, out>>
      BY <1>2, <1>8, AtTop DEF filldata_answer, data
    <2>2. addr = "mapped"
      BY <1>2, <2>1, WordsAssumption DEF AInv, Handled, Filling
    <2>3. Plan[step] # "access"
      BY <1>5 DEF Asks
    <2>4. Done(step)
      BY <2>1, <2>2, <2>3 DEF Done
    <2>5. Answered'
      BY <1>4, <2>1, <2>4 DEF Answered, Done
    <2>6. Len(frames') \in Nat /\ frames' \in Seq(Frame) /\ (frames' # <<>> => frames'[1].at = "exit")
      <3>1. /\ Tail(frames) \in Seq(Frame) /\ Len(frames) \in Nat \ {0} /\ Len(Tail(frames)) = Len(frames) - 1
            /\ \A k \in 1..(Len(frames) - 1) : Tail(frames)[k] = frames[k + 1]
        BY <1>2, Pop
      <3>2. ASSUME frames' # <<>> PROVE frames'[1].at = "exit"
        <4>1. 1 \in 1..(Len(frames) - 1) /\ 2 \in 2..Len(frames)
          BY <2>1, <3>1, <3>2
        <4> QED
          BY <2>1, <3>1, <4>1 DEF IInv, Below
      <3> QED
        BY <2>1, <3>1, <3>2
    <2>7. Asked'
      BY <1>4, <2>1, <2>6 DEF Asked, Pending, Busy
    <2>8. Handled'
      BY <1>5, <2>1, <2>6 DEF Handled, Filling
    <2> QED
      BY <2>1, <2>5, <2>7, <2>8 DEF AInv
  <1> QED
    BY <1>6, <1>7, <1>8 DEF filldata

\* random_access answers when the reads are over and the memory is given back.
LEMMA RandomAccessAInv ==
    ASSUME IInv, AInv, UNCHANGED <<setting, Plan, Scripts>>, random_access
    PROVE  AInv'
  <1>1. PICK at \in {"entry", "answer", "exit"} : Running("random_access", at)
    BY DEF random_access, read, unmap_all, random_access_answer, exit
  <1>2. frames # <<>> /\ frames[1] \in Frame /\ frames[1].handler = "random_access" /\ frames[1].at = at
    BY <1>1, AtTop
  <1>3. at # "exit" => Busy(frames) /\ ~answer /\ Asks("random_access")
    BY <1>2 DEF Busy, IInv, OneAtATime, AInv, Asked
  <1>4. \A k \in Scripts : out[k] = "answered" => k <= step /\ (k = step => script = "none") /\ Done(k)
    BY DEF AInv, Answered
  <1>5. CASE read
    <2>0. at = "entry"
      BY <1>2, <1>5, AtTop DEF read
    <2>1. CASE addr = "mapped"
      <3>1. UNCHANGED <<pending, frames, addr, filled, step, script, answer, out>>
        BY <1>5, <2>1 DEF read, client
      <3>2. Answered'
        BY <1>3, <1>4, <2>0, <2>1, <3>1 DEF Answered, Done
      <3>3. Asked'
        BY <3>1 DEF AInv, Asked, Asks
      <3>4. Handled'
        BY <1>2, <2>0, <3>1 DEF AInv, Handled
      <3> QED
        BY <3>1, <3>2, <3>3, <3>4 DEF AInv
    <2>2. CASE addr # "mapped"
      <3>1. Die("segv") /\ UNCHANGED <<addr, filled, reads, client>>
        BY <1>5, <2>2 DEF read
      <3> QED
        BY <3>1, DieAInv
    <2> QED
      BY <2>1, <2>2
  <1>6. CASE unmap_all
    <2>1. /\ Running("random_access", "entry") /\ Go("answer") /\ addr' = "unmapped" /\ reads = Reads
          /\ UNCHANGED <<pending, filled, reads, step, script, answer, out>>
      BY <1>6 DEF unmap_all, client
    <2>2. at = "entry"
      BY <1>2, <2>1, AtTop
    <2>3. frames' # <<>> /\ frames'[1].handler = "random_access" /\ frames'[1].at = "answer"
      BY <1>2, <2>1, GoTop DEF IInv, Frame
    <2>4. Answered'
      BY <1>3, <1>4, <2>1, <2>2 DEF Answered, Done
    <2>5. Asked'
      BY <1>3, <2>1, <2>2, <2>3 DEF AInv, Asked, Asks
    <2>6. Handled'
      BY <2>1, <2>3 DEF AInv, Handled, Filling
    <2> QED
      BY <2>1, <2>4, <2>5, <2>6 DEF AInv
  <1>7. CASE random_access_answer
    <2>1. /\ Running("random_access", "answer") /\ Go("exit")
          /\ UNCHANGED <<pending, addr, filled, reads, step, script, out>>
      BY <1>7 DEF random_access_answer, data
    <2>2. at = "answer"
      BY <1>2, <2>1, AtTop
    <2>3. frames' # <<>> /\ frames'[1].handler = "random_access" /\ frames'[1].at = "exit"
      BY <1>2, <2>1, GoTop DEF IInv, Frame
    <2>4. reads = Reads /\ addr = "unmapped"
      BY <1>2, <2>2 DEF AInv, Handled
    <2>5. Answered'
      BY <1>3, <1>4, <2>1, <2>2, <2>4 DEF Answered, Done, Asks
    <2>6. Asked'
      BY <2>1, <2>3 DEF AInv, Asked, Asks, Busy
    <2>7. Handled'
      BY <2>1, <2>3 DEF AInv, Handled, Filling
    <2> QED
      BY <2>1, <2>5, <2>6, <2>7 DEF AInv
  <1>8. CASE exit
    <2>1. Die("exited") /\ UNCHANGED <<addr, filled, reads, client>>
      BY <1>8 DEF exit, data
    <2> QED
      BY <2>1, DieAInv
  <1> QED
    BY <1>5, <1>6, <1>7, <1>8 DEF random_access

\* A step of run.sh or of a script that has had no answer: what it sends is for the
\* handler of its phase.
LEMMA ScriptAInv ==
    ASSUME Phased, IInv, AInv, UNCHANGED <<setting, Plan, Scripts>>, start_script \/ complete_script
    PROVE  AInv'
  <1>1. /\ Len(Plan) \in Nat /\ pending \in [Signals -> Nat] /\ step \in 0..Len(Plan)
        /\ script \in {"none", "open", "kill", "spin"}
        /\ script # "none" => step \in Scripts
        /\ answer \in BOOLEAN /\ out \in [Scripts -> Endings]
        /\ \A k \in Scripts : k \in Nat
    BY DEF IInv, Types, AInv, Scripts
  <1>2. script # "spin" \/ answer => ~Pending /\ ~Busy(frames)
    BY DEF IInv, OneAtATime
  <1>3. script # "spin" => ~answer
    BY <1>1 DEF IInv, OneAtATime
  <1>4. \A k \in Scripts : out[k] = "answered" => k <= step /\ (k = step => script = "none") /\ Done(k)
    BY DEF AInv, Answered
  <1>5. UNCHANGED <<frames, addr, filled, reads>>
    BY DEF start_script, complete_script, read_pid, kill, wake, kill_second, sigusr1_handler, server, data
  <1>6. Handled' /\ \A k : Done(k)' <=> Done(k)
    BY <1>5 DEF AInv, Handled, Filling, Done
  <1>7. CASE start_script
    <2>1. script = "none" /\ step' = step + 1 /\ ~answer' /\ UNCHANGED <<pending, out>>
      BY <1>7 DEF start_script, server
    <2>2. Answered'
      BY <1>1, <1>4, <1>6, <2>1 DEF Answered
    <2>3. Asked'
      BY <1>2, <1>5, <2>1 DEF Asked, Pending
    <2> QED
      BY <1>1, <1>6, <2>1, <2>2, <2>3 DEF AInv
  <1>8. CASE read_pid
    <2>1. /\ script = "open" /\ UNCHANGED <<pending, step, answer>>
          /\ out' = out \/ out' = [out EXCEPT ![step] = "error"]
      BY <1>8 DEF read_pid, server, Ends
    <2>2. out' \in [Scripts -> Endings] /\ \A k \in Scripts : out'[k] = "answered" => out[k] = "answered"
      BY <1>1, <2>1 DEF Endings
    <2>3. Answered'
      BY <1>3, <1>4, <1>6, <2>1, <2>2 DEF Answered
    <2>4. Asked'
      BY <1>2, <1>5, <2>1 DEF Asked, Pending
    <2> QED
      BY <1>6, <2>2, <2>3, <2>4 DEF AInv
  <1>9. CASE kill
    <2>1. script = "kill" /\ UNCHANGED <<step, answer>>
      BY <1>9 DEF kill
    <2>2. PICK sig \in Signals :
             /\ sig = IF Plan[step] = "access" THEN "SIGUSR2" ELSE "SIGUSR1"
             /\ Send(sig, script' = (IF Mode = "complete" THEN "sleep" ELSE "spin") /\ out' = out)
      BY <1>9 DEF kill, Signals, Mode
    <2>3. /\ pending' = pending \/ pending' = [pending EXCEPT ![sig] = step]
          /\ out' = out \/ out' = [out EXCEPT ![step] = "error"]
      BY <2>2 DEF Send, Ends
    <2>4. out' \in [Scripts -> Endings] /\ \A k \in Scripts : out'[k] = "answered" => out[k] = "answered"
      BY <1>1, <2>3 DEF Endings
    <2>5. Answered'
      BY <1>3, <1>4, <1>6, <2>1, <2>4 DEF Answered
    <2>6. \A s \in Signals : pending'[s] # Nobody => s = sig
      BY <1>1, <1>2, <2>1, <2>3 DEF Pending
    <2>7. Asks(Handler(sig))'
      BY <2>1, <2>2 DEF Asks, Handler
    <2>8. Asked'
      BY <1>2, <1>5, <2>1, <2>6, <2>7 DEF Asked, Handler
    <2> QED
      BY <1>6, <2>4, <2>5, <2>8 DEF AInv
  <1>10. CASE sigusr1_handler
    <2>1. /\ answer /\ script' = "none" /\ ~answer' /\ UNCHANGED <<pending, step>>
          /\ out' = [out EXCEPT ![step] = "answered"] /\ script # "none"
      BY <1>10 DEF sigusr1_handler, server, Ends
    <2>2. Done(step) /\ step \in Scripts
      BY <1>1, <2>1 DEF AInv, Answered
    <2>3. out' \in [Scripts -> Endings] /\ \A k \in Scripts : out'[k] = "answered" => k = step \/ out[k] = "answered"
      BY <1>1, <2>1 DEF Endings
    <2>4. Answered'
      BY <1>1, <1>4, <1>6, <2>1, <2>2, <2>3 DEF Answered
    <2>5. Asked'
      BY <1>2, <1>5, <2>1 DEF Asked, Pending
    <2> QED
      BY <1>6, <2>3, <2>4, <2>5 DEF AInv
  <1>11. ~wake /\ ~kill_second
    BY <1>1 DEF wake, kill_second
  <1> QED
    BY <1>7, <1>8, <1>9, <1>10, <1>11 DEF complete_script

\* Every step keeps what the answers mean.
LEMMA NextAInv ==
    ASSUME Phased, FilledOnce, IInv, AInv, [Next]_vars
    PROVE  AInv'
  <1>0. UNCHANGED <<setting, Plan, Scripts>>
    BY SettingKept
  <1>1. CASE main \/ rest \/ UNCHANGED vars
    <2>1. UNCHANGED <<pending, frames, addr, filled, reads, step, script, answer, out>>
      BY <1>1 DEF main, prepare, fopen, fclose, sigaction, rest, vars, server, data, client
    <2> QED
      BY <1>0, <2>1 DEF AInv, Answered, Asked, Handled, Done, Asks, Busy, Filling, Handler
  <1>2. CASE filldata
    BY <1>0, <1>2, FilldataAInv
  <1>3. CASE random_access
    BY <1>0, <1>3, RandomAccessAInv
  <1>4. CASE \E sig \in Signals : deliver(sig)
    BY <1>0, <1>4, DeliverAInv
  <1>5. CASE start_script \/ complete_script
    BY <1>0, <1>5, ScriptAInv
  <1> QED
    BY <1>1, <1>2, <1>3, <1>4, <1>5 DEF Next

\* When no phase but the first fills, a script that was answered can rely on it:
\* after filldata the array is filled to its last word, after access the reads are
\* over and the memory is given back, and it stays so (lines 33, 89 and 90 of
\* wl-randomreads-inputpages.c).
THEOREM AnswersHold == Spec => [](Phased /\ FilledOnce => AnswerMeansDone)
  <1> DEFINE Inv == Phased /\ FilledOnce => IInv /\ AInv
  <1>1. Init => Inv
    <2> SUFFICES ASSUME Init PROVE IInv /\ AInv
      OBVIOUS
    <2>1. AInv
      BY DEF Init, AInv, Answered, Asked, Handled, Busy, Filling, Endings
    <2> QED
      BY <2>1, InitIInv
  <1>2. Inv /\ [Next]_vars => Inv'
    <2> SUFFICES ASSUME Inv, [Next]_vars, Phased', FilledOnce' PROVE IInv' /\ AInv'
      OBVIOUS
    <2>1. Phased /\ FilledOnce
      BY SettingKept DEF Phased, FilledOnce
    <2> QED
      BY <2>1, NextIInv, NextAInv
  <1>3. Inv => (Phased /\ FilledOnce => AnswerMeansDone)
    BY DEF AInv, Answered, AnswerMeansDone, Done
  <1> QED
    BY <1>1, <1>2, <1>3, PTL DEF Spec

-----------------------------------------------------------------------------
(***************************************************************************)
(* To whom the signals go.                                                 *)
(***************************************************************************)
Unstarted == {"off", "main", "truncated"}

\* Once main has closed the file it holds the pid of this benchmark; the sleeps see
\* to it that no script reads the file before.
BInv ==
    /\ step \in Nat
    /\ wl \in {"written", "one", "loop"} => pid_file = "wl"
    /\ Settled =>
          /\ step > 0 => wl \notin Unstarted /\ pid_file = "wl"
          /\ step = 0 => script = "none"
          /\ target \in {"none", "wl"}
          /\ stranger = "alive"

\* The benchmark starts, and writes its pid, before the first script.
LEMMA MainBInv ==
    ASSUME BInv, UNCHANGED setting, main
    PROVE  BInv'
  <1>1. UNCHANGED <<step, script, target, stranger, Settled>>
    BY DEF main, prepare, fopen, fclose, sigaction, client, Settled
  <1>2. wl' \in {"written", "one", "loop"} => pid_file' = "wl"
    BY DEF BInv, main, prepare, fopen, fclose, sigaction
  <1>3. wl \notin Unstarted => wl' \notin Unstarted /\ pid_file' = pid_file
    BY DEF main, prepare, fopen, fclose, sigaction, Unstarted
  <1>4. wl \in Unstarted /\ Settled => ~(step > 0)
    BY DEF BInv
  <1> QED
    BY <1>1, <1>2, <1>3, <1>4 DEF BInv

\* With sleeps that are long enough no process but the benchmark is signalled: the
\* pid of an earlier run is no longer in pid_file when a script reads it (line 96).
THEOREM OnlyOurs == Spec => []OnlyBenchSignalled
  <1>1. Init => BInv
    BY DEF Init, BInv
  <1>2. BInv /\ [Next]_vars => BInv'
    <2> SUFFICES ASSUME BInv, [Next]_vars PROVE BInv'
      OBVIOUS
    <2>1. UNCHANGED <<setting, Plan, Settled>>
      BY SettingKept DEF Settled
    <2>2. CASE main
      BY <2>1, <2>2, MainBInv
    <2>3. CASE filldata \/ random_access \/ \E sig \in Signals : deliver(sig)
      <3>1. /\ UNCHANGED <<pid_file, client, stranger>> \/ UNCHANGED <<pid_file, step, script, target, stranger>>
            /\ wl' = wl \/ wl' \in Dead
        BY <2>3 DEF filldata, mmap, write, filldata_answer, random_access, read, unmap_all,
                    random_access_answer, exit, deliver, Die, Dead
      <3>2. UNCHANGED <<pid_file, step, script, target, stranger>>
        BY <3>1 DEF client
      <3> QED
        BY <2>1, <3>1, <3>2 DEF BInv, Dead, Unstarted
    <2>4. CASE start_script
      <3>1. /\ UNCHANGED <<wl, pid_file, stranger>> /\ step' = step + 1 /\ target' = "none"
            /\ Settled => step > 0 \/ wl = "loop"
        BY <2>4 DEF start_script, server, Ready
      <3> QED
        BY <2>1, <3>1 DEF BInv, Unstarted
    <2>5. CASE complete_script
      <3>1. UNCHANGED <<wl, pid_file, step>> /\ script # "none"
        BY <2>5 DEF complete_script, read_pid, kill, wake, kill_second, sigusr1_handler, server
      <3>2. target' = target \/ target' = pid_file
        BY <2>5 DEF complete_script, read_pid, kill, wake, kill_second, sigusr1_handler
      <3>3. target # "stranger" => stranger' = stranger
        BY <2>5 DEF complete_script, read_pid, kill, wake, kill_second, sigusr1_handler, Send
      <3> QED
        BY <2>1, <3>1, <3>2, <3>3 DEF BInv
    <2>6. CASE rest \/ UNCHANGED vars
      BY <2>1, <2>6 DEF rest, vars, server, client, BInv
    <2> QED
      BY <2>2, <2>3, <2>4, <2>5, <2>6 DEF Next
  <1>3. BInv => OnlyBenchSignalled
    BY DEF BInv, OnlyBenchSignalled
  <1> QED
    BY <1>1, <1>2, <1>3, PTL DEF Spec

-----------------------------------------------------------------------------
(***************************************************************************)
(* Mode complete, in a plan of its own: the script sends SIGUSR1, sleeps,  *)
(* and sends SIGUSR2 unless the answer to the first signal has ended it.   *)
(***************************************************************************)
Complete == Len(Plan) = 1 /\ Plan[1] = "complete"

Nothing == frames = <<>> /\ pending = [sig \in Signals |-> Nobody]

Waits == step = 1 /\ script \in {"sleep", "second"} /\ out[1] = "none"

\* One frame, of filldata, is on the stack.
OneFill(f) ==
    /\ f \in Frame /\ frames = <<f>> /\ f.handler = "filldata" /\ f.at \in {"entry", "fill"}
    /\ f.at = "fill" /\ filled > 0 => addr = "mapped"

\* Where the run is until the second signal is sent: nothing is sent yet, SIGUSR1
\* is pending, handled or lost with the benchmark, or filldata has answered.
Unsent ==
    /\ Nothing /\ ~answer
    /\ \/ step = 0 /\ script = "none" /\ out[1] = "none"
       \/ step = 1 /\ script \in {"open", "kill"} /\ out[1] = "none"
       \/ Waits
Sent ==
    /\ Waits /\ ~answer
    /\ frames = <<>> /\ \E k \in Nat : pending = [sig \in Signals |-> IF sig = "SIGUSR1" THEN k ELSE Nobody]
Handling ==
    /\ Waits /\ ~answer
    /\ pending = [sig \in Signals |-> Nobody] /\ \E f : OneFill(f)
AnswerSent ==
    /\ Nothing /\ filled = Words /\ addr = "mapped"
    /\ \/ Waits /\ answer
       \/ step = 1 /\ script = "none" /\ out[1] = "answered"

\* Later the script has ended without an answer, and nothing it could do is left.
Ended == step = 1 /\ script = "none" /\ out[1] # "answered"

CInv ==
    /\ out \in [Scripts -> Endings] /\ filled \in Nat
    /\ Ended \/ (wl # "exited" /\ (Unsent \/ Sent \/ Handling \/ AnswerSent))

\* Nothing pending and nothing on the stack: neither the kernel nor the handlers
\* have anything to do.
LEMMA NothingRuns ==
    ASSUME Nothing
    PROVE  ~filldata /\ ~random_access /\ \A sig \in Signals : ~deliver(sig)
  BY DEF Nothing, filldata, mmap, write, filldata_answer, random_access, read, unmap_all,
         random_access_answer, exit, Running, deliver, Signals

\* The benchmark while SIGUSR1 is pending or handled.
LEMMA ServerCInv ==
    ASSUME Complete, CInv, ~Ended, UNCHANGED <<setting, Plan, Scripts>>,
           filldata \/ random_access \/ \E sig \in Signals : deliver(sig)
    PROVE  CInv'
  <1>1. wl # "exited" /\ (Sent \/ Handling)
    BY NothingRuns DEF CInv, Unsent, AnswerSent
  <1>2. Waits /\ ~answer /\ out \in [Scripts -> Endings] /\ filled \in Nat
    BY <1>1 DEF Sent, Handling, CInv
  <1>3. ASSUME NEW how, Die(how), how # "exited", UNCHANGED <<filled, client>>
        PROVE  CInv'
    BY <1>2, <1>3 DEF Die, client, CInv, Unsent, Nothing, Waits
  <1>4. CASE Sent
    <2>1. PICK k \in Nat : pending = [sig \in Signals |-> IF sig = "SIGUSR1" THEN k ELSE Nobody]
      BY <1>4 DEF Sent
    <2>2. frames = <<>> /\ ~filldata /\ ~random_access
      BY <1>4 DEF Sent, filldata, mmap, write, filldata_answer, random_access, read, unmap_all,
                  random_access_answer, exit, Running
    <2>3. PICK sig \in Signals : deliver(sig)
      BY <2>2
    <2>4. sig = "SIGUSR1"
      BY <2>1, <2>3 DEF deliver
    <2>5. UNCHANGED <<addr, filled, step, script, answer, out>>
      BY <2>3 DEF deliver, data, client
    <2>6. CASE Installed(sig)
      <3> DEFINE f == [handler |-> "filldata", sig |-> sig, at |-> "entry", caller |-> k]
      <3>1. frames' = <<f>> \o frames /\ pending' = [pending EXCEPT ![sig] = Nobody] /\ wl' = wl
        BY <2>1, <2>3, <2>4, <2>6 DEF deliver, Handler
      <3>2. f \in Frame /\ f.handler = "filldata" /\ f.at = "entry"
        BY DEF Frame
      <3> HIDE DEF f
      <3>3. frames' = <<f>>
        BY <2>2, <3>1
      <3>4. OneFill(f)'
        BY <3>2, <3>3 DEF OneFill
      <3>5. pending' = [s \in Signals |-> Nobody]
        BY <2>1, <2>4, <3>1
      <3>6. Handling'
        BY <1>2, <2>5, <3>4, <3>5 DEF Handling, Waits
      <3> QED
        BY <1>1, <1>2, <2>5, <3>1, <3>6 DEF CInv
    <2>7. CASE ~Installed(sig)
      <3>1. Die("killed") /\ UNCHANGED <<filled, client>>
        BY <2>3, <2>7 DEF deliver, data
      <3> QED
        BY <1>3, <3>1
    <2> QED
      BY <2>6, <2>7
  <1>5. CASE Handling
    <2>1. PICK f : OneFill(f)
      BY <1>5 DEF Handling
    <2>2. frames = <<f>> /\ Head(frames) = f /\ Tail(frames) = <<>> /\ f \in Frame
      BY <2>1 DEF OneFill
    <2>3. pending = [sig \in Signals |-> Nobody] /\ \A sig \in Signals : ~deliver(sig)
      BY <1>5 DEF Handling, deliver
    <2>4. ~random_access
      BY <2>1, <2>2 DEF OneFill, random_access, read, unmap_all, random_access_answer, exit, Running
    <2>5. CASE mmap
      <3>1. /\ Go("fill") /\ filled' = 0 /\ UNCHANGED <<wl, pending, step, script, answer, out>>
        BY <2>5 DEF mmap, client
      <3>2. PICK g \in Frame : g = [f EXCEPT !.at = "fill"] /\ frames' = <<g>>
        <4>1. [f EXCEPT !.at = "fill"] \in Frame
          BY <2>2 DEF Frame
        <4>2. frames' = <<[f EXCEPT !.at = "fill"]>>
          BY <2>2, <3>1 DEF Go
        <4> QED
          BY <4>1, <4>2
      <3>3. g.handler = "filldata" /\ g.at = "fill"
        BY <2>1, <3>2 DEF OneFill, Frame
      <3>4. OneFill(g)'
        BY <3>1, <3>2, <3>3 DEF OneFill
      <3>5. Handling'
        BY <1>2, <2>3, <3>1, <3>4 DEF Handling, Waits
      <3> QED
        BY <1>1, <1>2, <3>1, <3>5 DEF CInv
    <2>6. CASE write
      <3>1. f.at = "fill"
        BY <2>2, <2>6 DEF write, Running
      <3>2. CASE addr = "mapped"
        <4>1. filled' = filled + 1 /\ UNCHANGED <<wl, frames, pending, addr, step, script, answer, out>>
          BY <2>6, <3>2 DEF write, client
        <4>2. OneFill(f)'
          BY <2>1, <3>2, <4>1 DEF OneFill
        <4>3. Handling'
          BY <1>2, <2>3, <4>1, <4>2 DEF Handling, Waits
        <4> QED
          BY <1>1, <1>2, <4>1, <4>3 DEF CInv
      <3>3. CASE addr # "mapped"
        <4>1. Die("segv") /\ UNCHANGED <<filled, client>>
          BY <2>6, <3>3 DEF write
        <4> QED
          BY <1>3, <4>1
      <3> QED
        BY <3>2, <3>3
    <2>7. CASE filldata_answer
      <3>1. /\ f.at = "fill" /\ filled = Words /\ frames' = <<>>
            /\ UNCHANGED <<wl, pending, addr, filled, step, script, out>>
            /\ Answer(Head(frames).caller)
        BY <2>2, <2>7 DEF filldata_answer, Running, data
      <3>2. addr = "mapped"
        BY <2>1, <3>1, WordsAssumption DEF OneFill
      <3>3. Nothing' /\ Waits'
        BY <1>2, <2>3, <3>1 DEF Nothing, Waits
      <3>4. AnswerSent' \/ Unsent'
        BY <3>1, <3>2, <3>3 DEF AnswerSent, Unsent
      <3> QED
        BY <1>1, <1>2, <3>1, <3>4 DEF CInv
    <2> QED
      BY <2>3, <2>4, <2>5, <2>6, <2>7 DEF filldata
  <1> QED
    BY <1>1, <1>4, <1>5

\* The script, until it ends.
LEMMA ScriptCInv ==
    ASSUME Complete, CInv, UNCHANGED <<setting, Plan, Scripts>>, start_script \/ complete_script
    PROVE  CInv'
  <1>1. Scripts = {1} /\ 1 \in Scripts
    BY DEF Complete, Scripts
  <1>2. out \in [Scripts -> Endings] /\ filled \in Nat
    BY DEF CInv
  <1>3. ~Ended /\ wl # "exited" /\ (Unsent \/ Sent \/ Handling \/ AnswerSent)
    BY DEF CInv, Ended, Complete, start_script, complete_script, read_pid, kill, wake, kill_second, sigusr1_handler
  <1>4. UNCHANGED <<wl, frames, addr, filled>>
    BY DEF start_script, complete_script, read_pid, kill, wake, kill_second, sigusr1_handler, server, data
  <1>5. ASSUME NEW how \in {"error", "done"}, Ends(how), step = 1, UNCHANGED step
        PROVE  CInv'
    <2>1. script' = "none" /\ out' = [out EXCEPT ![1] = how]
      BY <1>5 DEF Ends
    <2>2. out' \in [Scripts -> Endings] /\ out'[1] = how
      BY <1>1, <1>2, <2>1 DEF Endings
    <2> QED
      BY <1>2, <1>4, <1>5, <2>1, <2>2 DEF CInv, Ended
  <1>6. CASE start_script
    <2>1. /\ script = "none" /\ step < 1 /\ step' = step + 1 /\ script' = "open" /\ answer' = FALSE
          /\ UNCHANGED <<pending, out>>
      BY <1>6 DEF start_script, server, Complete
    <2>2. Nothing /\ step = 0 /\ out[1] = "none"
      BY <1>3, <2>1 DEF Unsent, Sent, Handling, AnswerSent, Waits
    <2>3. Unsent'
      BY <1>4, <2>1, <2>2 DEF Unsent, Nothing
    <2> QED
      BY <1>2, <1>3, <1>4, <2>1, <2>3 DEF CInv
  <1>7. CASE read_pid
    <2>1. script = "open" /\ UNCHANGED <<pending, step, answer>>
      BY <1>7 DEF read_pid, server
    <2>2. Nothing /\ ~answer /\ step = 1 /\ out[1] = "none"
      BY <1>3, <2>1 DEF Unsent, Sent, Handling, AnswerSent, Waits
    <2>3. Ends("error") \/ (script' = "kill" /\ out' = out)
      BY <1>7 DEF read_pid
    <2>4. CASE script' = "kill" /\ out' = out
      <3>1. Unsent'
        BY <1>4, <2>1, <2>2, <2>4 DEF Unsent, Nothing
      <3> QED
        BY <1>2, <1>3, <1>4, <2>4, <3>1 DEF CInv
    <2> QED
      BY <1>5, <2>1, <2>2, <2>3, <2>4
  <1>8. CASE kill
    <2>1. script = "kill" /\ UNCHANGED <<step, answer>>
      BY <1>8 DEF kill
    <2>2. Nothing /\ ~answer /\ step = 1 /\ out[1] = "none"
      BY <1>3, <2>1 DEF Unsent, Sent, Handling, AnswerSent, Waits
    <2>3. Mode = "complete"
      BY <2>2 DEF Mode, Complete
    <2>4. \/ script' = "sleep" /\ out' = out /\ pending' = [pending EXCEPT !["SIGUSR1"] = 1]
          \/ script' = "sleep" /\ out' = out /\ pending' = pending
          \/ Ends("error")
      BY <1>8, <2>2, <2>3 DEF kill, Send
    <2>5. CASE script' = "sleep" /\ out' = out /\ pending' = [pending EXCEPT !["SIGUSR1"] = 1]
      <3>1. pending' = [sig \in Signals |-> IF sig = "SIGUSR1" THEN 1 ELSE Nobody]
        BY <2>2, <2>5 DEF Nothing
      <3>2. Sent'
        BY <1>4, <2>1, <2>2, <2>5, <3>1 DEF Sent, Waits, Nothing
      <3> QED
        BY <1>2, <1>3, <1>4, <2>5, <3>2 DEF CInv
    <2>6. CASE script' = "sleep" /\ out' = out /\ pending' = pending
      <3>1. Unsent'
        BY <1>4, <2>1, <2>2, <2>6 DEF Unsent, Waits, Nothing
      <3> QED
        BY <1>2, <1>3, <1>4, <2>6, <3>1 DEF CInv
    <2> QED
      BY <1>5, <2>1, <2>2, <2>4, <2>5, <2>6
  <1>9. CASE wake
    <2>1. script = "sleep" /\ script' = "second" /\ UNCHANGED <<pending, step, answer, out>>
      BY <1>9 DEF wake, server
    <2>2. Waits /\ Waits'
      BY <1>3, <2>1 DEF Unsent, Sent, Handling, AnswerSent, Waits
    <2>3. (Unsent \/ Sent \/ Handling \/ AnswerSent)'
      <3>1. ASSUME NEW f, OneFill(f) PROVE OneFill(f)'
        BY <1>4, <3>1 DEF OneFill
      <3> QED
        BY <1>3, <1>4, <2>1, <2>2, <3>1 DEF Unsent, Sent, Handling, AnswerSent, Nothing
    <2> QED
      BY <1>2, <1>3, <1>4, <2>1, <2>3 DEF CInv
  <1>10. CASE kill_second
    <2>1. script = "second" /\ UNCHANGED step /\ (Ends("done") \/ Ends("error"))
      BY <1>10 DEF kill_second, Send
    <2>2. step = 1
      BY <1>3, <2>1 DEF Unsent, Sent, Handling, AnswerSent, Waits
    <2> QED
      BY <1>5, <2>1, <2>2
  <1>11. CASE sigusr1_handler
    <2>1. answer /\ script # "none" /\ Ends("answered") /\ UNCHANGED <<pending, step>>
      BY <1>11 DEF sigusr1_handler, server
    <2>2. AnswerSent /\ Nothing /\ step = 1
      BY <1>3, <2>1 DEF Unsent, Sent, Handling, AnswerSent, Waits
    <2>3. script' = "none" /\ out' \in [Scripts -> Endings] /\ out'[1] = "answered"
      BY <1>1, <1>2, <2>1, <2>2 DEF Ends, Endings
    <2>4. AnswerSent'
      BY <1>4, <2>1, <2>2, <2>3 DEF AnswerSent, Nothing
    <2> QED
      BY <1>2, <1>3, <1>4, <2>3, <2>4 DEF CInv
  <1> QED
    BY <1>6, <1>7, <1>8, <1>9, <1>10, <1>11 DEF complete_script

\* Every step.
LEMMA NextCInv ==
    ASSUME Complete, CInv, [Next]_vars
    PROVE  CInv'
  <1>0. UNCHANGED <<setting, Plan, Scripts>>
    BY SettingKept
  <1>1. CASE start_script \/ complete_script
    BY <1>0, <1>1, ScriptCInv
  <1>2. CASE Ended /\ (main \/ filldata \/ random_access \/ \E sig \in Signals : deliver(sig))
    <2>1. UNCHANGED <<step, script, out>>
      BY <1>2 DEF main, prepare, fopen, fclose, sigaction, filldata, mmap, write, filldata_answer,
                  random_access, read, unmap_all, random_access_answer, exit, deliver, client
    <2>2. filled' \in {filled, filled + 1, 0}
      <3>1. CASE main \/ random_access \/ \E sig \in Signals : deliver(sig)
        BY <3>1 DEF main, prepare, fopen, fclose, sigaction, random_access, read, unmap_all,
                    random_access_answer, exit, deliver, data
      <3>2. CASE filldata
        BY <3>2 DEF filldata, mmap, write, filldata_answer, data
      <3> QED
        BY <1>2, <3>1, <3>2
    <2> QED
      BY <1>0, <1>2, <2>1, <2>2 DEF CInv, Ended
  <1>3. CASE ~Ended /\ (filldata \/ random_access \/ \E sig \in Signals : deliver(sig))
    BY <1>0, <1>3, ServerCInv
  <1>4. CASE ~Ended /\ main
    <2>1. wl' # "exited" /\ UNCHANGED <<pending, frames, addr, filled, step, script, answer, out>>
      BY <1>4 DEF main, prepare, fopen, fclose, sigaction, data, client
    <2> QED
      BY <1>0, <1>4, <2>1 DEF CInv, Unsent, Sent, Handling, AnswerSent, Nothing, Waits, OneFill
  <1>5. CASE rest \/ UNCHANGED vars
    <2>1. UNCHANGED <<wl, pending, frames, addr, filled, step, script, answer, out>>
      BY <1>5 DEF rest, vars, server, client
    <2> QED
      BY <1>0, <2>1 DEF CInv, Ended, Unsent, Sent, Handling, AnswerSent, Nothing, Waits, OneFill
  <1> QED
    BY <1>1, <1>2, <1>3, <1>4, <1>5 DEF Next

\* The initial states.
LEMMA InitCInv == Complete /\ Init => CInv
  <1> SUFFICES ASSUME Complete, Init PROVE CInv
    OBVIOUS
  <1>1. Scripts = {1}
    BY DEF Complete, Scripts
  <1>2. Nothing /\ ~answer /\ step = 0 /\ script = "none" /\ out[1] = "none" /\ wl # "exited"
    BY <1>1 DEF Init, Nothing
  <1> QED
    BY <1>2 DEF Init, CInv, Unsent, Endings

\* When a script of mode complete is the only one, an answer to its first signal
\* means that the array is filled.
THEOREM CompleteAnswer == Spec => [](Complete => AnswerMeansDone)
  <1>1. Init => (Complete => CInv)
    BY InitCInv
  <1>2. (Complete => CInv) /\ [Next]_vars => (Complete => CInv)'
    BY NextCInv, SettingKept DEF Complete
  <1>3. (Complete => CInv) => (Complete => AnswerMeansDone)
    <2> SUFFICES ASSUME Complete, CInv, NEW k \in Scripts, out[k] = "answered"
                 PROVE  IF Plan[k] = "access" THEN reads = Reads /\ addr = "unmapped"
                                              ELSE filled = Words /\ addr \in {"mapped", "unmapped"}
      BY DEF AnswerMeansDone
    <2>1. k = 1 /\ Plan[k] # "access"
      BY DEF Complete, Scripts
    <2> QED
      BY <2>1 DEF CInv, Ended, Unsent, Sent, Handling, AnswerSent, Waits
  <1> QED
    BY <1>1, <1>2, <1>3, PTL DEF Spec

-----------------------------------------------------------------------------
(***************************************************************************)
(* Signals that miss their handler.                                        *)
(***************************************************************************)
\* No signal has reached the benchmark.
Untouched ==
    /\ Nothing /\ addr = "null" /\ ~answer
    /\ \A k \in Scripts : out[k] # "answered"

\* Until pid_file holds the pid of the benchmark nothing reaches it, and neither does
\* anything once a script has read another pid: that script never ends.
SInv ==
    /\ stranger \in {"alive", "killed"}
    /\ wl \in Unstarted => pid_file # "wl"
    /\ pid_file # "wl" => target # "wl" /\ Untouched
    /\ target = "stranger" => script \in {"kill", "spin"} /\ Untouched
    /\ stranger = "killed" => target = "stranger" /\ script = "spin"

\* Where nothing has reached the benchmark only its main and the scripts go on.
LEMMA UntouchedKept ==
    ASSUME Untouched, out \in [Scripts -> Endings], UNCHANGED <<setting, Plan, Scripts>>,
           UNCHANGED <<pending, frames, addr, answer>>,
           out' = out \/ \E k \in Scripts : out' = [out EXCEPT ![k] = "error"]
    PROVE  Untouched'
  <1>1. \A k \in Scripts : out'[k] # "answered"
    BY DEF Untouched
  <1> QED
    BY <1>1 DEF Untouched, Nothing

\* A script: it signals what it read, and only an answer lets it end well.
LEMMA ScriptSInv ==
    ASSUME Phased, IInv, SInv, out \in [Scripts -> Endings],
           UNCHANGED <<setting, Plan, Scripts>>, complete_script
    PROVE  SInv'
  <1>1. script \in {"none", "open", "kill", "spin"} /\ (script # "none" => step \in Scripts)
    BY DEF IInv, Types
  <1>2. CASE read_pid
    <2>1. script = "open" /\ stranger # "killed" /\ target # "stranger"
      BY <1>2 DEF read_pid, SInv
    <2>2. /\ UNCHANGED <<pending, frames, addr, answer, pid_file, stranger>>
          /\ out' = out \/ \E k \in Scripts : out' = [out EXCEPT ![k] = "error"]
          /\ wl' = wl
      BY <1>1, <1>2, <2>1 DEF read_pid, server, Ends
    <2>3. /\ target' = target \/ (target' = pid_file /\ script' = "kill")
      BY <1>2 DEF read_pid
    <2>4. pid_file # "wl" => Untouched'
      BY <2>2, UntouchedKept DEF SInv
    <2> QED
      BY <2>1, <2>2, <2>3, <2>4 DEF SInv
  <1>3. CASE kill
    <2>1. /\ script = "kill" /\ stranger # "killed" /\ step \in Scripts /\ Mode # "complete"
          /\ UNCHANGED <<wl, frames, addr, answer, pid_file, target>>
      BY <1>1, <1>3 DEF kill, SInv, data, Phased, Mode
    <2>2. CASE target = "wl"
      <3>1. stranger' = stranger /\ pid_file = "wl"
        BY <1>3, <2>2 DEF kill, Send, SInv
      <3> QED
        BY <2>1, <2>2, <3>1 DEF SInv
    <2>3. CASE target # "wl" /\ target # "stranger"
      <3>1. UNCHANGED <<pending, stranger>> /\ out' = [out EXCEPT ![step] = "error"]
        BY <1>3, <2>3 DEF kill, Send, Ends
      <3>2. pid_file # "wl" => Untouched'
        BY <2>1, <3>1, UntouchedKept DEF SInv
      <3> QED
        BY <2>1, <2>3, <3>1, <3>2 DEF SInv
    <2>4. CASE target = "stranger"
      <3>1. /\ pending' = pending
            /\ \/ script' = "spin" /\ stranger' = "killed" /\ out' = out
               \/ stranger # "alive" /\ stranger' = stranger /\ out' = [out EXCEPT ![step] = "error"]
        BY <1>3, <2>1, <2>4 DEF kill, Send, Ends
      <3>2. Untouched'
        BY <2>1, <2>4, <3>1, UntouchedKept DEF SInv
      <3> QED
        BY <2>1, <2>4, <3>1, <3>2 DEF SInv
    <2> QED
      BY <2>2, <2>3, <2>4
  <1>4. CASE sigusr1_handler
    <2>1. answer /\ UNCHANGED <<wl, pid_file, target, stranger>>
      BY <1>4 DEF sigusr1_handler, server
    <2>2. pid_file = "wl" /\ target # "stranger" /\ stranger # "killed"
      BY <2>1 DEF SInv, Untouched
    <2> QED
      BY <2>1, <2>2 DEF SInv
  <1>5. CASE wake \/ kill_second
    BY <1>1, <1>5 DEF wake, kill_second
  <1> QED
    BY <1>2, <1>3, <1>4, <1>5 DEF complete_script

\* Every step keeps it.
LEMMA NextSInv ==
    ASSUME Phased, IInv, SInv, out \in [Scripts -> Endings], [Next]_vars
    PROVE  SInv'
  <1>0. UNCHANGED <<setting, Plan, Scripts>>
    BY SettingKept
  <1>1. CASE main
    <2>1. /\ UNCHANGED <<pending, frames, addr, answer, out, target, script, stranger>>
          /\ wl' \in Unstarted => pid_file' = pid_file \/ pid_file' # "wl"
          /\ pid_file = "wl" /\ wl \notin Unstarted => pid_file' = "wl"
          /\ wl' \in Unstarted => wl \in Unstarted
      BY <1>1 DEF main, prepare, fopen, fclose, sigaction, data, client, Unstarted
    <2>2. Untouched => Untouched'
      BY <1>0, <2>1, UntouchedKept
    <2> QED
      BY <2>1, <2>2 DEF SInv
  <1>2. CASE filldata \/ random_access \/ \E sig \in Signals : deliver(sig)
    <2>1. pid_file = "wl" /\ target # "stranger" /\ stranger # "killed"
      BY <1>2, NothingRuns DEF SInv, Untouched
    <2>2. UNCHANGED <<pid_file, target, stranger>> /\ (wl' = wl \/ wl' \in Dead)
      BY <1>2 DEF filldata, mmap, write, filldata_answer, random_access, read, unmap_all,
                  random_access_answer, exit, deliver, Die, Dead, client
    <2> QED
      BY <2>1, <2>2 DEF SInv, Dead, Unstarted
  <1>3. CASE start_script
    <2>1. /\ script = "none" /\ target' = "none" /\ answer' = FALSE
          /\ UNCHANGED <<wl, pid_file, pending, frames, addr, out, stranger>>
      BY <1>3 DEF start_script, server
    <2>2. Untouched => Untouched'
      BY <1>0, <2>1 DEF Untouched, Nothing
    <2> QED
      BY <2>1, <2>2 DEF SInv
  <1>4. CASE complete_script
    BY <1>0, <1>4, ScriptSInv
  <1>5. CASE rest \/ UNCHANGED vars
    <2>1. UNCHANGED <<wl, pid_file, pending, frames, addr, answer, out, target, script, stranger>>
      BY <1>5 DEF rest, vars, server, client
    <2>2. Untouched => Untouched'
      BY <1>0, <2>1, UntouchedKept
    <2> QED
      BY <2>1, <2>2 DEF SInv
  <1> QED
    BY <1>1, <1>2, <1>3, <1>4, <1>5 DEF Next

\* Before it has both handlers the benchmark has read nothing, and a benchmark that has
\* both is not killed by a signal.
NoReader == \A k \in 1..Len(frames) : frames[k].handler # "random_access"

KInv == wl \in {"loop", "exited", "segv"} \/ (reads = 0 /\ NoReader)

\* Every step keeps that.
LEMMA NextKInv ==
    ASSUME IInv, KInv, [Next]_vars
    PROVE  KInv'
  <1>1. CASE wl \in {"loop", "exited", "segv"}
    <2>1. ASSUME NEW sig \in Signals, deliver(sig) PROVE wl' = wl
      BY <1>1, <2>1 DEF deliver, Installed, Alive, Dead, Signals
    <2>2. CASE filldata \/ random_access
      BY <1>1, <2>2 DEF filldata, mmap, write, filldata_answer, random_access, read, unmap_all,
                        random_access_answer, exit, Die, KInv
    <2>3. CASE main \/ start_script \/ complete_script \/ rest \/ UNCHANGED vars
      BY <1>1, <2>3 DEF main, prepare, fopen, fclose, sigaction, start_script, complete_script, read_pid,
                        kill, wake, kill_second, sigusr1_handler, rest, vars, server, KInv
    <2> QED
      BY <1>1, <2>1, <2>2, <2>3 DEF Next, KInv
  <1>2. CASE wl \notin {"loop", "exited", "segv"} /\ reads = 0 /\ NoReader
    <2>0. frames \in Seq(Frame) /\ Len(frames) \in Nat
      BY DEF IInv, Types
    <2>1. ASSUME NEW sig \in Signals, deliver(sig) PROVE KInv'
      <3>1. CASE Installed(sig)
        <4>1. Handler(sig) = "filldata" /\ reads' = reads
          BY <1>2, <2>1, <3>1 DEF Installed, Handler, deliver, data
        <4> DEFINE x == [handler |-> Handler(sig), sig |-> sig, at |-> "entry", caller |-> pending[sig]]
        <4>2. frames' = <<x>> \o frames
          BY <2>1, <3>1 DEF deliver
        <4>3. x \in Frame /\ x.handler = "filldata"
          BY <4>1 DEF IInv, Types, Frame
        <4> HIDE DEF x
        <4>4. /\ Len(frames') = Len(frames) + 1 /\ frames'[1] = x
              /\ \A k \in 2..(Len(frames) + 1) : frames'[k] = frames[k - 1]
          BY <2>0, <4>2, <4>3, Push
        <4>5. ASSUME NEW k \in 1..Len(frames') PROVE frames'[k].handler # "random_access"
          <5>1. CASE k = 1
            BY <4>3, <4>4, <5>1
          <5>2. CASE k # 1
            <6>1. frames'[k] = frames[k - 1] /\ k - 1 \in 1..Len(frames)
              BY <2>0, <4>4, <5>2
            <6> QED
              BY <1>2, <6>1 DEF NoReader
          <5> QED
            BY <5>1, <5>2
        <4> QED
          BY <1>2, <4>1, <4>5 DEF KInv, NoReader
      <3>2. CASE ~Installed(sig)
        <4>1. frames' = <<>> /\ reads' = reads
          BY <2>1, <3>2 DEF deliver, Die, data
        <4> QED
          BY <1>2, <4>1 DEF KInv, NoReader
      <3> QED
        BY <3>1, <3>2
    <2>2. CASE filldata
      <3>1. frames # <<>> /\ reads' = reads
        BY <2>2 DEF filldata, mmap, write, filldata_answer, Running, data
      <3>2. frames' = frames \/ frames' = <<>> \/ frames' = Tail(frames) \/ Go("fill")
        BY <2>2 DEF filldata, mmap, write, filldata_answer, Die
      <3>3. CASE frames' = Tail(frames)
        <4>1. Len(frames') = Len(frames) - 1 /\ \A k \in 1..(Len(frames) - 1) : frames'[k] = frames[k + 1]
          BY <2>0, <3>1, <3>3, Pop
        <4>2. \A k \in 1..(Len(frames) - 1) : k + 1 \in 1..Len(frames)
          BY <2>0
        <4> QED
          BY <1>2, <3>1, <4>1, <4>2 DEF KInv, NoReader
      <3>4. CASE Go("fill")
        <4>1. /\ Len(frames') = Len(frames) /\ frames'[1] = [frames[1] EXCEPT !.at = "fill"]
              /\ \A k \in 2..Len(frames) : frames'[k] = frames[k]
          BY <3>1, <3>4, GoTop DEF IInv
        <4>2. frames[1] \in Frame /\ 1 \in 1..Len(frames)
          BY <2>0, <3>1
        <4>3. frames'[1].handler = frames[1].handler
          BY <4>1, <4>2 DEF Frame
        <4>4. \A k \in 1..Len(frames) : k = 1 \/ k \in 2..Len(frames)
          BY <2>0
        <4> QED
          BY <1>2, <3>1, <4>1, <4>2, <4>3, <4>4 DEF KInv, NoReader
      <3>5. CASE frames' = frames \/ frames' = <<>>
        BY <1>2, <3>1, <3>5 DEF KInv, NoReader
      <3> QED
        BY <3>2, <3>3, <3>4, <3>5
    <2>3. CASE random_access
      <3>1. \E at : Running("random_access", at)
        BY <2>3 DEF random_access, read, unmap_all, random_access_answer, exit
      <3>2. frames # <<>> /\ Head(frames).handler = "random_access"
        BY <3>1 DEF Running
      <3>3. Head(frames) = frames[1] /\ 1 \in 1..Len(frames)
        BY <2>0, <3>2
      <3> QED
        BY <1>2, <3>2, <3>3 DEF NoReader
    <2>4. CASE main \/ start_script \/ complete_script \/ rest \/ UNCHANGED vars
      <3>1. UNCHANGED <<frames, reads>>
        BY <2>4 DEF main, prepare, fopen, fclose, sigaction, start_script, complete_script, read_pid,
                    kill, wake, kill_second, sigusr1_handler, rest, vars, server, data
      <3> QED
        BY <1>2, <3>1 DEF KInv, NoReader
    <2> QED
      BY <2>1, <2>2, <2>3, <2>4 DEF Next
  <1> QED
    BY <1>1, <1>2 DEF KInv

\* When no phase but the first fills, a signal that misses its handler is never taken for
\* an experiment that was made, however the scripts race with the start of the benchmark:
\* a script that signalled another process is not answered, nor is any other one, and
\* the accesses of a benchmark that was killed by a signal are not.
THEOREM StraysShow == Spec => [](FilledOnce => StrayUnanswered)
  <1> DEFINE Inv == Phased /\ FilledOnce => IInv /\ AInv /\ SInv /\ KInv
  <1>1. Init => Inv
    <2> SUFFICES ASSUME Init PROVE IInv /\ AInv /\ SInv /\ KInv
      OBVIOUS
    <2>1. AInv
      BY DEF Init, AInv, Answered, Asked, Handled, Busy, Filling, Endings
    <2>2. SInv /\ KInv
      BY DEF Init, SInv, KInv, NoReader, Untouched, Nothing
    <2> QED
      BY <2>1, <2>2, InitIInv
  <1>2. Inv /\ [Next]_vars => Inv'
    <2> SUFFICES ASSUME Inv, [Next]_vars, Phased', FilledOnce' PROVE IInv' /\ AInv' /\ SInv' /\ KInv'
      OBVIOUS
    <2>1. Phased /\ FilledOnce
      BY SettingKept DEF Phased, FilledOnce
    <2> QED
      BY <2>1, NextIInv, NextAInv, NextSInv, NextKInv DEF AInv
  <1>3. Inv => (FilledOnce => StrayUnanswered)
    <2> SUFFICES ASSUME IInv, AInv, SInv, KInv
                 PROVE  /\ stranger = "killed" => addr = "null" /\ \A k \in Scripts : out[k] # "answered"
                        /\ wl = "killed" => \A k \in Scripts : Plan[k] = "access" => out[k] # "answered"
      BY DEF StrayUnanswered
    <2>1. stranger = "killed" => addr = "null" /\ \A k \in Scripts : out[k] # "answered"
      BY DEF SInv, Untouched
    <2>2. ASSUME wl = "killed", NEW k \in Scripts, Plan[k] = "access", out[k] = "answered" PROVE FALSE
      <3>1. reads = Reads
        BY <2>2 DEF AInv, Answered, Done
      <3> QED
        BY <2>2, <3>1, WordsAssumption DEF KInv
    <2> QED
      BY <2>1, <2>2
  <1> QED
    BY <1>1, <1>2, <1>3, PTL DEF Spec
=============================================================================

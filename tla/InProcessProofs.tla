-------------------------- MODULE InProcessProofs --------------------------
(***************************************************************************)
(* Proofs about InProcess, for every timeout and any number of runs and    *)
(* ticks: a report is true, and a run is reported once, whoever comes      *)
(* first of the alarm, the crash handler, the panic hook and the timer's   *)
(* thread; and a target that hangs is found.                               *)
(***************************************************************************)
EXTENDS InProcess, SequenceTheorems, TLAPS

MainPcs ==
    {"idle", "arm", "stamp", "in_target", "set_timer", "enter", "pointers", "target", "leave",
     "out_of_target", "reset", "batch", "count", "exited"}

MainTypes == [pc : MainPcs, run : Nat, began : Nat, covered : BOOLEAN]

TeTypes ==
    [executions : Nat, avg_mul_k : Nat, avg_exec_time : Seq(Int), signalled : BOOLEAN,
     start_time : Nat, tmout_start_time : Nat, elapsed : Int]

GlobalTypes ==
    [current_input : Nat, ptrs : Nat, in_target : {0, 1}, timeout_input : BOOLEAN,
     tp_timer : BOOLEAN]

HandlerTypes ==
    [by : {"nobody", "signal", "hook", "callback"},
     pc : {"none", "observe", "save", "saved", "quit"}, kind : {"none", "Timeout", "Crash"},
     input : Int, ptrs : Nat, run : Nat, lasted : Int]

\* Types of what the argument is about
Types ==
    /\ mode \in {"linux", "batch", "windows"}
    /\ now \in Nat /\ timer \in Nat /\ alarm \in BOOLEAN
    /\ main \in MainTypes
    /\ te \in TeTypes
    /\ critical \in {"free", "callback"}
    /\ global \in GlobalTypes
    /\ handler \in HandlerTypes
    /\ reports \in Seq(HandlerTypes)
    /\ nested \in BOOLEAN

\* Positions of the main thread that only one platform has, or that are in a run
Positions ==
    /\ main.pc \in {"stamp", "batch", "count"} => mode = "batch"
    /\ main.pc \in {"in_target", "set_timer", "out_of_target"} => mode = "windows"
    /\ main.pc = "arm" => mode # "windows"
    /\ main.pc = "exited" => handler.pc \in {"saved", "quit"}
    /\ main.pc \notin {"idle", "exited"} => main.run > 0

\* Whose time it is: on Linux an alarm is never older than the run, since none is armed
\* between two runs; in batch mode start_time is that of the run.
Clock ==
    /\ main.began <= now
    /\ Entering => now - main.began < ExecTmout
    /\ mode = "linux" /\ main.pc \in {"idle", "arm"} => timer = 0
    /\ mode = "linux" /\ timer # 0 => timer >= main.began + ExecTmout
    /\ mode = "linux" /\ alarm => now - main.began >= ExecTmout
    /\ mode = "batch" /\ main.pc \in {"enter", "pointers", "target", "leave"} =>
          te.start_time >= main.began
    /\ mode = "windows" => ~alarm

InTarget == {"set_timer", "enter", "pointers", "target", "leave", "out_of_target", "exited"}

\* Whose input it is: it is there exactly while the target can run and nobody has taken
\* it; only the timer's thread leaves it, and holds the critical section meanwhile, which
\* keeps the main thread from ending the run.
Ownership ==
    /\ handler.pc = "none" <=> handler.by = "nobody"
    /\ handler.by = "nobody" =>
          global.current_input =
              IF main.pc \in {"pointers", "target", "leave"} THEN main.run ELSE 0
    /\ handler.by \in {"signal", "hook"} => global.current_input = 0
    /\ main.pc \in {"target", "leave"} => global.ptrs = main.run
    /\ global.in_target = 1 => mode = "windows" /\ main.pc \in InTarget
    /\ handler.by = "callback" =>
          mode = "windows" /\ critical = "callback" /\ main.pc \in InTarget

\* What a report says
IsTrue(r) ==
    mode # "windows" \/ r.by # "callback" =>
        /\ r.ptrs = r.run /\ r.input = r.run
        /\ r.kind = "Timeout" => r.lasted >= ExecTmout

\* The handler at work, and what was reported
Reporting ==
    /\ handler.pc = "observe" => IsTrue(handler)
    /\ \A i \in DOMAIN reports : IsTrue(reports[i])
    /\ handler.pc = "quit" => nested
    /\ ~nested => Len(reports) = IF handler.pc \in {"none", "observe"} THEN 0 ELSE 1
    /\ handler.pc # "none" => handler.run = main.run

\* The calls of the timer's thread wait for each other; the first may hold the critical
\* section.
Calls ==
    /\ callback \in Seq({"called", "inside"})
    /\ mode # "windows" => callback = <<>>
    /\ critical = "callback" => callback # <<>>

\* Windows means to watch the run from the moment the timer is set until an exception
\* that is no crash
Watched ==
    main.pc \in {"enter", "pointers"} \/ (main.pc = "target" /\ global.tp_timer)

\* While in_target and timeout_input are set a call of the timer's thread reports, and
\* does not leave: a watched run has a timer, or a call that will report.
WindowsCover ==
    mode = "windows" /\ handler.pc = "none" =>
        /\ main.pc \in {"in_target", "set_timer", "enter", "pointers"} => global.tp_timer
        /\ main.pc \in {"in_target", "set_timer", "enter", "pointers", "target"} =>
              global.timeout_input
        /\ main.pc = "set_timer" \/ Watched => global.in_target = 1
        /\ Watched => Armed \/ callback # <<>>
        /\ main.pc = "target" => main.covered

\* Linux: the timer that was armed for the run goes on, or its alarm is pending
PosixCover ==
    handler.pc = "none" =>
        /\ mode = "linux" /\ main.pc \in {"enter", "pointers", "target"} => Armed \/ alarm
        /\ mode = "linux" /\ main.pc = "target" => main.covered
        /\ mode = "batch" /\ main.pc = "target" /\ main.covered => Armed \/ alarm

\* A run of a batch without a timer: what is left of the batch's time was used up when it
\* entered the target, so that post_run_reset will not count it, and the next run arms
\* the timer, which cannot go off before that run is in the target.
BareCover ==
    /\ bare \in {0, 1}
    /\ bare = 1 =>
        /\ mode = "batch" /\ ~alarm /\ main.pc # "count"
        /\ main.pc \in {"stamp", "enter", "pointers"} => timer >= main.began + ExecTmout
        /\ main.pc \in {"target", "leave", "reset", "batch", "idle", "arm"} => timer = 0
        /\ main.pc \in {"target", "leave", "reset"} => now - te.tmout_start_time > ExecTmout
        /\ main.pc = "batch" => te.elapsed > ExecTmout
        /\ main.pc \in {"idle", "arm"} => te.executions = 0

IInv ==
    /\ Types /\ Positions /\ Clock /\ Ownership /\ Reporting
    /\ Calls /\ WindowsCover /\ PosixCover /\ BareCover

-----------------------------------------------------------------------------
\* What avg_exec_time is set to
LEMMA AveragedType ==
  ASSUME te \in TeTypes, NEW e \in Int
  PROVE  Averaged(e) \in TeTypes /\ Averaged(e).start_time = te.start_time
<1> DEFINE q == <<e, te.executions>>
<1>1. q \in Seq(Int)
  <2>1. te.executions \in Int
    BY DEF TeTypes
  <2> QED BY <2>1
<1>2. CASE te.executions > 0
  <2>1. Averaged(e) = [te EXCEPT !.avg_exec_time = q, !.executions = 0]
    BY <1>2 DEF Averaged
  <2> HIDE DEF q
  <2> DEFINE t == [te EXCEPT !.avg_exec_time = q]
  <2>2. t \in TeTypes /\ t.start_time = te.start_time
    BY <1>1 DEF TeTypes
  <2>3. Averaged(e) = [t EXCEPT !.executions = 0]
    BY <2>1 DEF TeTypes
  <2> HIDE DEF t
  <2>4. [t EXCEPT !.executions = 0] \in TeTypes
    BY <2>2 DEF TeTypes
  <2>5. [t EXCEPT !.executions = 0].start_time = t.start_time
    BY <2>2 DEF TeTypes
  <2> QED BY <2>2, <2>3, <2>4, <2>5
<1>3. CASE ~(te.executions > 0)
  BY <1>3 DEF Averaged
<1> QED BY <1>2, <1>3

\* What handle_timeout leaves in batch mode.
LEMMA RestartedType ==
  ASSUME te \in TeTypes, now \in Nat
  PROVE  Restarted \in TeTypes /\ Restarted.start_time = te.start_time
<1> DEFINE a == Averaged(now - te.tmout_start_time)
<1>0. now - te.tmout_start_time \in Int
  BY DEF TeTypes
<1>1. a \in TeTypes /\ a.start_time = te.start_time
  BY <1>0, AveragedType
<1>2. Restarted = [a EXCEPT !.avg_mul_k = a.avg_mul_k + 1, !.signalled = TRUE]
  BY DEF Restarted
<1>3. a.avg_mul_k + 1 \in Nat
  BY <1>1 DEF TeTypes
<1> HIDE DEF a
<1> QED BY <1>1, <1>2, <1>3 DEF TeTypes

\* The invariant holds at first.
LEMMA InitIInv == Init => IInv
<1> SUFFICES ASSUME Init PROVE IInv
  OBVIOUS
<1> USE InProcessAssumption DEF Init
<1>1. main \in MainTypes /\ global \in GlobalTypes
  BY DEF MainTypes, MainPcs, GlobalTypes
<1>2. te \in TeTypes
  BY DEF TeTypes
<1>3. handler \in HandlerTypes
  BY DEF HandlerTypes, NoHandler
<1>4. alarm \in BOOLEAN /\ nested \in BOOLEAN
  BY Zenon
<1>7. reports \in Seq(HandlerTypes)
  OBVIOUS
<1>5. Types
  BY <1>1, <1>2, <1>3, <1>4, <1>7 DEF Types
<1>6. Positions /\ Clock /\ Ownership /\ Reporting
  BY DEF Positions, Clock, Ownership, Reporting, Entering, InTarget, NoHandler
<1>8. Calls /\ WindowsCover /\ PosixCover /\ BareCover
  BY DEF Calls, WindowsCover, Watched, PosixCover, BareCover, NoHandler
<1> QED BY <1>5, <1>6, <1>8 DEF IInv

\* Types are kept by every step, of the main thread, the alarm, the handlers and the timer's thread.
LEMMA StepTypes == IInv /\ [Next]_vars => Types'
<1> SUFFICES ASSUME IInv, [Next]_vars PROVE Types'
  OBVIOUS
<1> USE InProcessAssumption DEF IInv, Types
<1>1. CASE Tick
  <2>1. now' \in Nat
    BY <1>1 DEF Tick, Armed, Prompt
  <2>2. timer' \in Nat
    BY <1>1 DEF Tick, Armed, Prompt
  <2>3. alarm' \in BOOLEAN
    BY <1>1 DEF Tick, Armed, Prompt
  <2> QED
    BY <1>1, <2>1, <2>2, <2>3 DEF Tick
<1>2. CASE RunTarget
  <2>1. main' \in MainTypes
    <3> DEFINE p == IF mode = "windows" THEN "in_target" ELSE "arm"
               n == main.run + 1
    <3>1. p \in MainPcs /\ n \in Nat
      BY DEF MainPcs, MainTypes
    <3>2. main' = [main EXCEPT !.run = n, !.began = now, !.pc = p]
      BY <1>2 DEF RunTarget
    <3> HIDE DEF p, n
    <3> QED BY <3>1, <3>2 DEF MainTypes
  <2>2. global' \in GlobalTypes
    BY <1>2 DEF RunTarget, Runs, GlobalTypes
  <2> QED
    BY <1>2, <2>1, <2>2 DEF RunTarget
<1>3. CASE ArmTimer
  <2>1. timer' \in Nat
    BY <1>3 DEF ArmTimer, Runs, Arm, Go
  <2>2. te' \in TeTypes
    BY <1>3 DEF ArmTimer, Runs, Arm, Go, TeTypes
  <2>3. main' \in MainTypes
    BY <1>3 DEF ArmTimer, Runs, Arm, Go, MainTypes, MainPcs
  <2> QED
    BY <1>3, <2>1, <2>2, <2>3 DEF ArmTimer
<1>4. CASE StampStart
  <2>1. te' \in TeTypes
    BY <1>4 DEF StampStart, Runs, Go, TeTypes
  <2>2. main' \in MainTypes
    BY <1>4 DEF StampStart, Runs, Go, MainTypes, MainPcs
  <2> QED
    BY <1>4, <2>1, <2>2 DEF StampStart
<1>5. CASE SetInTarget("in_target", 1, "set_timer")
  <2>1. global' \in GlobalTypes
    BY <1>5 DEF SetInTarget, Runs, Go, GlobalTypes
  <2>2. main' \in MainTypes
    BY <1>5 DEF SetInTarget, Runs, Go, MainTypes, MainPcs
  <2> QED
    BY <1>5, <2>1, <2>2 DEF SetInTarget
<1>6. CASE SetThreadpoolTimer
  <2>1. timer' \in Nat
    BY <1>6 DEF SetThreadpoolTimer, Runs, Arm, Go
  <2>2. main' \in MainTypes
    BY <1>6 DEF SetThreadpoolTimer, Runs, Arm, Go, MainTypes, MainPcs
  <2> QED
    BY <1>6, <2>1, <2>2 DEF SetThreadpoolTimer
<1>7. CASE StoreInput
  <2>1. global' \in GlobalTypes
    BY <1>7 DEF StoreInput, GlobalTypes, MainTypes
  <2>2. main' \in MainTypes
    BY <1>7 DEF StoreInput, Runs, Go, MainTypes, MainPcs
  <2> QED
    BY <1>7, <2>1, <2>2 DEF StoreInput
<1>8. CASE StorePointers
  <2>1. global' \in GlobalTypes
    BY <1>8 DEF StorePointers, GlobalTypes, MainTypes
  <2>2. main' \in MainTypes
    BY <1>8 DEF StorePointers, Runs, MainTypes, MainPcs
  <2> QED
    BY <1>8, <2>1, <2>2 DEF StorePointers
<1>9. CASE HarnessReturns
  <2>1. main' \in MainTypes
    BY <1>9 DEF HarnessReturns, Runs, Go, MainTypes, MainPcs
  <2> QED
    BY <1>9, <2>1 DEF HarnessReturns
<1>10. CASE ForgetInput
  <2>1. global' \in GlobalTypes
    BY <1>10 DEF ForgetInput, Runs, Go, GlobalTypes
  <2>2. main' \in MainTypes
    BY <1>10 DEF ForgetInput, Runs, Go, MainTypes, MainPcs
  <2> QED
    BY <1>10, <2>1, <2>2 DEF ForgetInput
<1>11. CASE SetInTarget("out_of_target", 0, "reset")
  <2>1. global' \in GlobalTypes
    BY <1>11 DEF SetInTarget, Runs, Go, GlobalTypes
  <2>2. main' \in MainTypes
    BY <1>11 DEF SetInTarget, Runs, Go, MainTypes, MainPcs
  <2> QED
    BY <1>11, <2>1, <2>2 DEF SetInTarget
<1>12. CASE DisarmTimer
  <2>1. timer' \in Nat
    BY <1>12 DEF DisarmTimer, Runs, Disarm, Go
  <2>2. main' \in MainTypes
    BY <1>12 DEF DisarmTimer, Runs, Disarm, Go, MainTypes, MainPcs
  <2>3. global' \in GlobalTypes
    BY <1>12 DEF DisarmTimer, Runs, Disarm, Go, GlobalTypes
  <2> QED
    BY <1>12, <2>1, <2>2, <2>3 DEF DisarmTimer
<1>13. CASE BatchElapsed
  <2>1. te' \in TeTypes
    <3> DEFINE d == now - te.tmout_start_time
    <3>1. d \in Int
      BY DEF TeTypes
    <3>2. te' = [te EXCEPT !.elapsed = d]
      BY <1>13 DEF BatchElapsed
    <3> HIDE DEF d
    <3> QED BY <3>1, <3>2 DEF TeTypes
  <2>2. main' \in MainTypes
    BY <1>13 DEF BatchElapsed, Runs, Go, MainTypes, MainPcs
  <2> QED
    BY <1>13, <2>1, <2>2 DEF BatchElapsed
<1>14. CASE BatchReset
  <2>1. timer' \in Nat
    BY <1>14 DEF BatchReset, Runs, Disarm, Go, Averaged
  <2>2. te' \in TeTypes
    <3> DEFINE a == Averaged(te.elapsed)
               k == IF te.signalled /\ a.avg_mul_k > 1 THEN a.avg_mul_k - 1 ELSE a.avg_mul_k
    <3>1. a \in TeTypes
      BY AveragedType DEF TeTypes
    <3>2. k \in Nat
      <4>1. a.avg_mul_k \in Nat
        BY <3>1 DEF TeTypes
      <4> QED BY <4>1
    <3>3. te' = [a EXCEPT !.avg_mul_k = k]
      BY <1>14 DEF BatchReset
    <3> HIDE DEF a, k
    <3> QED BY <3>1, <3>2, <3>3 DEF TeTypes
  <2>3. main' \in MainTypes
    BY <1>14 DEF BatchReset, Runs, Disarm, Go, Averaged, MainTypes, MainPcs
  <2> QED
    BY <1>14, <2>1, <2>2, <2>3 DEF BatchReset
<1>15. CASE BatchKeep
  <2>1. main' \in MainTypes
    BY <1>15 DEF BatchKeep, Runs, Go, MainTypes, MainPcs
  <2> QED
    BY <1>15, <2>1 DEF BatchKeep
<1>16. CASE BatchCount
  <2>1. te' \in TeTypes
    <3> DEFINE n == te.executions + 1
    <3>1. n \in Nat
      BY DEF TeTypes
    <3>2. te' = [te EXCEPT !.executions = n]
      BY <1>16 DEF BatchCount
    <3> HIDE DEF n
    <3> QED BY <3>1, <3>2 DEF TeTypes
  <2>2. main' \in MainTypes
    BY <1>16 DEF BatchCount, Runs, Go, MainTypes, MainPcs
  <2> QED
    BY <1>16, <2>1, <2>2 DEF BatchCount
<1>17. CASE AlarmOutside
  <2>1. timer' \in Nat
    BY <1>17 DEF AlarmOutside, Disarm, Restarted, Averaged
  <2>2. te' \in TeTypes
    BY <1>17, RestartedType DEF AlarmOutside
  <2>3. alarm' \in BOOLEAN
    BY <1>17 DEF AlarmOutside, Disarm, Restarted, Averaged
  <2> QED
    BY <1>17, <2>1, <2>2, <2>3 DEF AlarmOutside
<1>18. CASE AlarmTooEarly
  <2>1. timer' \in Nat
    BY <1>18 DEF AlarmTooEarly, Arm, Restarted, Averaged
  <2>2. te' \in TeTypes
    BY <1>18, RestartedType DEF AlarmTooEarly, TeTypes
  <2>3. alarm' \in BOOLEAN
    BY <1>18 DEF AlarmTooEarly, Arm, Restarted, Averaged
  <2> QED
    BY <1>18, <2>1, <2>2, <2>3 DEF AlarmTooEarly
<1>19. CASE AlarmIgnored
  <2>1. alarm' \in BOOLEAN
    BY <1>19 DEF AlarmIgnored
  <2> QED
    BY <1>19, <2>1 DEF AlarmIgnored
<1>20. CASE Timeout
  <2>1. alarm' \in BOOLEAN
    BY <1>20 DEF Timeout, TakeInput
  <2>2. handler' \in HandlerTypes
    BY <1>20 DEF Timeout, TakeInput, HandlerTypes, MainTypes, GlobalTypes
  <2>3. global' \in GlobalTypes
    BY <1>20 DEF Timeout, TakeInput, GlobalTypes
  <2> QED
    BY <1>20, <2>1, <2>2, <2>3 DEF Timeout
<1>21. CASE \E by \in {"signal", "hook"} : Crash(by)
  <2>1. handler' \in HandlerTypes
    BY <1>21 DEF Crash, Runs, TakeInput, HandlerTypes, MainTypes, GlobalTypes
  <2>2. global' \in GlobalTypes
    <3>1. PICK by \in {"signal", "hook"} : Crash(by)
      BY <1>21
    <3> DEFINE b == global.tp_timer /\ by = "hook"
    <3>2. b \in BOOLEAN
      OBVIOUS
    <3>3. global' = [global EXCEPT !.current_input = 0, !.in_target = 0, !.tp_timer = b]
      BY <3>1 DEF Crash
    <3> HIDE DEF b
    <3> QED BY <3>2, <3>3 DEF GlobalTypes
  <2> QED
    BY <1>21, <2>1, <2>2 DEF Crash
<1>22. CASE Exception
  <2>1. global' \in GlobalTypes
    BY <1>22 DEF Exception, Runs, GlobalTypes
  <2> QED
    BY <1>22, <2>1 DEF Exception
<1>23. CASE CallbackEnters
  <2>1. critical' \in {"free", "callback"}
    BY <1>23 DEF CallbackEnters
  <2> QED
    BY <1>23, <2>1 DEF CallbackEnters
<1>24. CASE CallbackReports
  <2>1. handler' \in HandlerTypes
    BY <1>24 DEF CallbackReports, TakeInput, TimeoutTaken, HandlerTypes, MainTypes, GlobalTypes
  <2>2. global' \in GlobalTypes
    BY <1>24 DEF CallbackReports, TakeInput, TimeoutTaken, GlobalTypes
  <2> QED
    BY <1>24, <2>1, <2>2 DEF CallbackReports
<1>25. CASE CallbackLeaves
  <2>1. critical' \in {"free", "callback"}
    BY <1>25 DEF CallbackLeaves
  <2> QED
    BY <1>25, <2>1 DEF CallbackLeaves
<1>26. CASE RunObservers
  <2>1. reports' \in Seq(HandlerTypes)
    BY <1>26 DEF RunObservers, HandlerIs
  <2>2. handler' \in HandlerTypes
    BY <1>26 DEF RunObservers, HandlerIs, HandlerTypes, MainTypes, GlobalTypes
  <2> QED
    BY <1>26, <2>1, <2>2 DEF RunObservers
<1>27. CASE SaveState
  <2>1. handler' \in HandlerTypes
    BY <1>27 DEF SaveState, HandlerIs, HandlerTypes, MainTypes, GlobalTypes
  <2> QED
    BY <1>27, <2>1 DEF SaveState
<1>28. CASE Exit
  <2>1. main' \in MainTypes
    BY <1>28 DEF Exit, HandlerIs, MainTypes, MainPcs
  <2> QED
    BY <1>28, <2>1 DEF Exit
<1>29. CASE HandlerCrashes
  <2>1. nested' \in BOOLEAN
    BY <1>29 DEF HandlerCrashes, HandlerIs, TakeInput
  <2>2. handler' \in HandlerTypes /\ global' \in GlobalTypes
    <3>1. CASE IsValid
      <4>1. /\ global.current_input \in Nat /\ global.ptrs \in Nat /\ main.run \in Nat
            /\ now - main.began \in Int
        BY DEF MainTypes, GlobalTypes
      <4>2. handler' \in HandlerTypes
        BY <1>29, <3>1, <4>1, SMTT(30) DEF HandlerCrashes, TakeInput, HandlerTypes
      <4>3. global' = [global EXCEPT !.current_input = 0, !.in_target = 0, !.tp_timer = FALSE]
        BY <1>29, <3>1 DEF HandlerCrashes
      <4>4. global' \in GlobalTypes
        BY <4>3 DEF GlobalTypes
      <4> QED BY <4>2, <4>4
    <3>2. CASE ~IsValid
      BY <1>29, <3>2 DEF HandlerCrashes, HandlerTypes
    <3> QED BY <3>1, <3>2
  <2> QED
    BY <1>29, <2>1, <2>2 DEF HandlerCrashes
<1>30. CASE UNCHANGED vars
  BY <1>30 DEF vars
<1> QED
  BY <1>1, <1>2, <1>3, <1>4, <1>5, <1>6, <1>7, <1>8, <1>9, <1>10, <1>11, <1>12, <1>13,
       <1>14, <1>15, <1>16, <1>17, <1>18, <1>19, <1>20, <1>21, <1>22, <1>23, <1>24, <1>25,
       <1>26, <1>27, <1>28, <1>29, <1>30
     DEF Next, Main, Handlers, Over

\* No step leads to a position that the platform does not have.
LEMMA StepPositions == IInv /\ [Next]_vars => Positions'
<1> SUFFICES ASSUME IInv, [Next]_vars PROVE Positions'
  OBVIOUS
<1> USE InProcessAssumption DEF IInv, Types, MainTypes, TeTypes, GlobalTypes, MainPcs,
      Preempted, Ended, Positions, HandlerTypes, Ownership, InTarget
<1>1. CASE Tick
  BY <1>1 DEF Tick, Armed, Prompt
<1>2. CASE RunTarget
  <2>1. main'.pc = (IF mode = "windows" THEN "in_target" ELSE "arm") /\ main'.run = main.run + 1
    BY <1>2 DEF RunTarget
  <2>2. UNCHANGED <<mode, handler>>
    BY <1>2 DEF RunTarget
  <2> QED BY <2>1, <2>2
<1>3. CASE ArmTimer
  <2>1. main.pc = "arm" /\ UNCHANGED <<mode, handler>>
    BY <1>3 DEF ArmTimer, Runs
  <2>2. main' = [main EXCEPT !.pc = IF mode = "linux" THEN "enter" ELSE "stamp"]
    BY <1>3 DEF ArmTimer, Go
  <2>3. main'.pc = (IF mode = "linux" THEN "enter" ELSE "stamp") /\ main'.run = main.run
    BY <2>2
  <2>4. mode # "windows"
    BY <2>1
  <2> QED BY <2>1, <2>3, <2>4
<1>4. CASE StampStart
  BY <1>4 DEF StampStart, Runs, Go
<1>5. CASE SetInTarget("in_target", 1, "set_timer")
  BY <1>5 DEF SetInTarget, Runs, Go
<1>6. CASE SetThreadpoolTimer
  BY <1>6 DEF SetThreadpoolTimer, Runs, Arm, Go
<1>7. CASE StoreInput
  BY <1>7 DEF StoreInput, Runs, Go
<1>8. CASE StorePointers
  BY <1>8 DEF StorePointers, Runs
<1>9. CASE HarnessReturns
  BY <1>9 DEF HarnessReturns, Runs, Go
<1>10. CASE ForgetInput
  BY <1>10 DEF ForgetInput, Runs, Go
<1>11. CASE SetInTarget("out_of_target", 0, "reset")
  BY <1>11 DEF SetInTarget, Runs, Go
<1>12. CASE DisarmTimer
  BY <1>12 DEF DisarmTimer, Runs, Disarm, Go
<1>13. CASE BatchElapsed
  BY <1>13 DEF BatchElapsed, Runs, Go
<1>14. CASE BatchReset
  BY <1>14 DEF BatchReset, Runs, Disarm, Go, Averaged
<1>15. CASE BatchKeep
  BY <1>15 DEF BatchKeep, Runs, Go
<1>16. CASE BatchCount
  BY <1>16 DEF BatchCount, Runs, Go
<1>17. CASE AlarmOutside
  BY <1>17 DEF AlarmOutside, Disarm, Restarted, Averaged
<1>18. CASE AlarmTooEarly
  BY <1>18 DEF AlarmTooEarly, Arm, Restarted, Averaged
<1>19. CASE AlarmIgnored
  BY <1>19 DEF AlarmIgnored
<1>20. CASE Timeout
  BY <1>20 DEF Timeout, TakeInput
<1>21. CASE \E by \in {"signal", "hook"} : Crash(by)
  BY <1>21 DEF Crash, Runs, TakeInput
<1>22. CASE Exception
  BY <1>22 DEF Exception, Runs
<1>23. CASE CallbackEnters
  BY <1>23 DEF CallbackEnters
<1>24. CASE CallbackReports
  BY <1>24 DEF CallbackReports, TakeInput, TimeoutTaken
<1>25. CASE CallbackLeaves
  BY <1>25 DEF CallbackLeaves
<1>26. CASE RunObservers
  BY <1>26 DEF RunObservers, HandlerIs
<1>27. CASE SaveState
  BY <1>27 DEF SaveState, HandlerIs
<1>28. CASE Exit
  BY <1>28 DEF Exit, HandlerIs
<1>29. CASE HandlerCrashes
  BY <1>29 DEF HandlerCrashes, HandlerIs, TakeInput
<1>30. CASE UNCHANGED vars
  BY <1>30 DEF vars
<1> QED
  BY <1>1, <1>2, <1>3, <1>4, <1>5, <1>6, <1>7, <1>8, <1>9, <1>10, <1>11, <1>12, <1>13,
       <1>14, <1>15, <1>16, <1>17, <1>18, <1>19, <1>20, <1>21, <1>22, <1>23, <1>24, <1>25,
       <1>26, <1>27, <1>28, <1>29, <1>30
     DEF Next, Main, Handlers, Over

\* No step makes an alarm, or a start_time, one of another run.
LEMMA StepClock == IInv /\ [Next]_vars => Clock'
<1> SUFFICES ASSUME IInv, [Next]_vars PROVE Clock'
  OBVIOUS
<1> USE InProcessAssumption DEF IInv, Types, MainTypes, TeTypes, GlobalTypes, MainPcs,
      Preempted, Ended, Positions, Clock, Entering, Ownership, InTarget, IsValid
<1>1. CASE Tick
  <2>1. /\ now' = now + 1 /\ main' = main /\ te' = te /\ mode' = mode /\ handler' = handler
        /\ Entering => now + 1 - main.began < ExecTmout
    BY <1>1 DEF Tick, Prompt
  <2>2. /\ timer' = IF timer # 0 /\ now + 1 >= timer THEN 0 ELSE timer
        /\ alarm' => alarm \/ (timer # 0 /\ now + 1 >= timer /\ mode # "windows")
    BY <1>1 DEF Tick, Armed
  <2>3. mode = "linux" /\ timer' # 0 => timer' = timer /\ timer # 0
    BY <2>2
  <2>4. mode = "linux" /\ alarm' => now + 1 - main.began >= ExecTmout
    <3>1. CASE alarm
      BY <3>1
    <3>2. CASE timer # 0 /\ now + 1 >= timer
      BY <3>2, SMTT(30)
    <3> QED BY <2>2, <3>1, <3>2
  <2>5. mode = "windows" => ~alarm'
    BY <2>2
  <2>6. mode = "linux" /\ main.pc \in {"idle", "arm"} => timer' = 0
    BY <2>2
  <2> HIDE DEF Positions, Ownership
  <2> QED BY <2>1, <2>3, <2>4, <2>5, <2>6, SMTT(30)
<1>2. CASE RunTarget
  BY <1>2 DEF RunTarget, Runs
<1>3. CASE ArmTimer
  <2>1. main.pc = "arm" /\ UNCHANGED <<mode, now, alarm>>
    BY <1>3 DEF ArmTimer, Runs
  <2>2. main' = [main EXCEPT !.pc = IF mode = "linux" THEN "enter" ELSE "stamp"]
    BY <1>3 DEF ArmTimer, Go
  <2>3. main'.pc = (IF mode = "linux" THEN "enter" ELSE "stamp") /\ main'.began = main.began
    BY <2>2
  <2>4. mode = "linux" => timer' = now + ExecTmout
    BY <1>3 DEF ArmTimer, Arm
  <2> QED BY <2>1, <2>3, <2>4
<1>4. CASE StampStart
  BY <1>4 DEF StampStart, Runs, Go
<1>5. CASE SetInTarget("in_target", 1, "set_timer")
  BY <1>5 DEF SetInTarget, Runs, Go
<1>6. CASE SetThreadpoolTimer
  BY <1>6 DEF SetThreadpoolTimer, Runs, Arm, Go
<1>7. CASE StoreInput
  BY <1>7 DEF StoreInput, Runs, Go
<1>8. CASE StorePointers
  BY <1>8 DEF StorePointers, Runs
<1>9. CASE HarnessReturns
  BY <1>9 DEF HarnessReturns, Runs, Go
<1>10. CASE ForgetInput
  BY <1>10 DEF ForgetInput, Runs, Go
<1>11. CASE SetInTarget("out_of_target", 0, "reset")
  BY <1>11 DEF SetInTarget, Runs, Go
<1>12. CASE DisarmTimer
  BY <1>12 DEF DisarmTimer, Runs, Disarm, Go
<1>13. CASE BatchElapsed
  BY <1>13 DEF BatchElapsed, Runs, Go
<1>14. CASE BatchReset
  BY <1>14 DEF BatchReset, Runs, Disarm, Go, Averaged
<1>15. CASE BatchKeep
  BY <1>15 DEF BatchKeep, Runs, Go
<1>16. CASE BatchCount
  BY <1>16 DEF BatchCount, Runs, Go
<1>17. CASE AlarmOutside
  BY <1>17 DEF AlarmOutside, Disarm, Restarted, Averaged
<1>18. CASE AlarmTooEarly
  BY <1>18 DEF AlarmTooEarly, Arm, Restarted, Averaged
<1>19. CASE AlarmIgnored
  BY <1>19 DEF AlarmIgnored
<1>20. CASE Timeout
  BY <1>20 DEF Timeout, TakeInput
<1>21. CASE \E by \in {"signal", "hook"} : Crash(by)
  BY <1>21, SMTT(30) DEF Crash, Runs
<1>22. CASE Exception
  BY <1>22 DEF Exception, Runs
<1>23. CASE CallbackEnters
  BY <1>23 DEF CallbackEnters
<1>24. CASE CallbackReports
  BY <1>24 DEF CallbackReports, TakeInput, TimeoutTaken
<1>25. CASE CallbackLeaves
  BY <1>25 DEF CallbackLeaves
<1>26. CASE RunObservers
  BY <1>26 DEF RunObservers, HandlerIs
<1>27. CASE SaveState
  BY <1>27 DEF SaveState, HandlerIs
<1>28. CASE Exit
  BY <1>28 DEF Exit, HandlerIs
<1>29. CASE HandlerCrashes
  BY <1>29 DEF HandlerCrashes, HandlerIs, TakeInput
<1>30. CASE UNCHANGED vars
  BY <1>30 DEF vars
<1> QED
  BY <1>1, <1>2, <1>3, <1>4, <1>5, <1>6, <1>7, <1>8, <1>9, <1>10, <1>11, <1>12, <1>13,
       <1>14, <1>15, <1>16, <1>17, <1>18, <1>19, <1>20, <1>21, <1>22, <1>23, <1>24, <1>25,
       <1>26, <1>27, <1>28, <1>29, <1>30
     DEF Next, Main, Handlers, Over

\* No step leaves an input to two parties, or to none.
LEMMA StepOwnership == IInv /\ [Next]_vars => Ownership'
<1> SUFFICES ASSUME IInv, [Next]_vars PROVE Ownership'
  OBVIOUS
<1> USE InProcessAssumption DEF IInv, Types, MainTypes, TeTypes, GlobalTypes, MainPcs,
      Preempted, Ended, Positions, Clock, Entering, Ownership, InTarget, HandlerTypes,
      IsValid
<1>1. CASE Tick
  BY <1>1 DEF Tick, Armed, Prompt
<1>2. CASE RunTarget
  BY <1>2 DEF RunTarget, Runs
<1>3. CASE ArmTimer
  BY <1>3, SMTT(30) DEF ArmTimer, Runs, Arm, Go
<1>4. CASE StampStart
  BY <1>4 DEF StampStart, Runs, Go
<1>5. CASE SetInTarget("in_target", 1, "set_timer")
  BY <1>5 DEF SetInTarget, Runs, Go
<1>6. CASE SetThreadpoolTimer
  BY <1>6 DEF SetThreadpoolTimer, Runs, Arm, Go
<1>7. CASE StoreInput
  BY <1>7 DEF StoreInput, Runs, Go
<1>8. CASE StorePointers
  BY <1>8 DEF StorePointers, Runs
<1>9. CASE HarnessReturns
  BY <1>9 DEF HarnessReturns, Runs, Go
<1>10. CASE ForgetInput
  BY <1>10 DEF ForgetInput, Runs, Go
<1>11. CASE SetInTarget("out_of_target", 0, "reset")
  BY <1>11 DEF SetInTarget, Runs, Go
<1>12. CASE DisarmTimer
  BY <1>12 DEF DisarmTimer, Runs, Disarm, Go
<1>13. CASE BatchElapsed
  BY <1>13 DEF BatchElapsed, Runs, Go
<1>14. CASE BatchReset
  BY <1>14 DEF BatchReset, Runs, Disarm, Go, Averaged
<1>15. CASE BatchKeep
  BY <1>15 DEF BatchKeep, Runs, Go
<1>16. CASE BatchCount
  BY <1>16 DEF BatchCount, Runs, Go
<1>17. CASE AlarmOutside
  BY <1>17 DEF AlarmOutside, Disarm, Restarted, Averaged
<1>18. CASE AlarmTooEarly
  BY <1>18 DEF AlarmTooEarly, Arm, Restarted, Averaged
<1>19. CASE AlarmIgnored
  BY <1>19 DEF AlarmIgnored
<1>20. CASE Timeout
  BY <1>20 DEF Timeout, TakeInput
<1>21. CASE \E by \in {"signal", "hook"} : Crash(by)
  <2>1. PICK by \in {"signal", "hook"} : Crash(by)
    BY <1>21
  <2>2. handler'.by = by /\ handler'.pc = "observe" /\ UNCHANGED <<main, mode, critical>>
    BY <2>1 DEF Crash, TakeInput
  <2>3. global'.current_input = 0 /\ global'.in_target = 0 /\ global'.ptrs = global.ptrs
    BY <2>1 DEF Crash
  <2> QED BY <2>2, <2>3
<1>22. CASE Exception
  BY <1>22 DEF Exception, Runs
<1>23. CASE CallbackEnters
  BY <1>23 DEF CallbackEnters
<1>24. CASE CallbackReports
  BY <1>24 DEF CallbackReports, TakeInput, TimeoutTaken
<1>25. CASE CallbackLeaves
  BY <1>25 DEF CallbackLeaves
<1>26. CASE RunObservers
  BY <1>26 DEF RunObservers, HandlerIs
<1>27. CASE SaveState
  BY <1>27 DEF SaveState, HandlerIs
<1>28. CASE Exit
  BY <1>28 DEF Exit, HandlerIs
<1>29. CASE HandlerCrashes
  <2>0. UNCHANGED <<main, mode, critical>> /\ handler.pc \in {"observe", "save"}
    BY <1>29 DEF HandlerCrashes, HandlerIs
  <2>1. CASE IsValid
    <3>1. handler'.by = "callback" /\ handler'.pc = "observe"
      BY <1>29, <2>1 DEF HandlerCrashes, TakeInput
    <3>2. global'.current_input = 0 /\ global'.in_target = 0 /\ global'.ptrs = global.ptrs
      BY <1>29, <2>1, ZenonT(60) DEF HandlerCrashes
    <3>3. handler.by = "callback"
      BY <2>0, <2>1
    <3> QED BY <2>0, <3>1, <3>2, <3>3
  <2>2. CASE ~IsValid
    <3>1. handler'.by = "signal" /\ handler'.pc = "quit" /\ global' = global
      BY <1>29, <2>2 DEF HandlerCrashes
    <3> QED BY <2>0, <2>2, <3>1
  <2> QED BY <2>1, <2>2
<1>30. CASE UNCHANGED vars
  BY <1>30 DEF vars
<1> QED
  BY <1>1, <1>2, <1>3, <1>4, <1>5, <1>6, <1>7, <1>8, <1>9, <1>10, <1>11, <1>12, <1>13,
       <1>14, <1>15, <1>16, <1>17, <1>18, <1>19, <1>20, <1>21, <1>22, <1>23, <1>24, <1>25,
       <1>26, <1>27, <1>28, <1>29, <1>30
     DEF Next, Main, Handlers, Over

\* The elements of a sequence to which one was appended
LEMMA Appended ==
  ASSUME NEW S, NEW s \in Seq(S), NEW x \in S
  PROVE  /\ Len(Append(s, x)) = Len(s) + 1
         /\ \A i \in DOMAIN Append(s, x) :
               Append(s, x)[i] = x \/ (i \in DOMAIN s /\ Append(s, x)[i] = s[i])
OBVIOUS

\* No step makes a report that is untrue or a second one.
LEMMA StepReporting == IInv /\ [Next]_vars => Reporting'
<1> SUFFICES ASSUME IInv, [Next]_vars PROVE Reporting'
  OBVIOUS
<1>0. /\ Len(Append(reports, handler)) = Len(reports) + 1
      /\ \A i \in DOMAIN Append(reports, handler) :
            \/ Append(reports, handler)[i] = handler
            \/ i \in DOMAIN reports /\ Append(reports, handler)[i] = reports[i]
  <2>1. handler \in HandlerTypes /\ reports \in Seq(HandlerTypes)
    BY DEF IInv, Types
  <2> QED BY <2>1, Appended
<1> USE InProcessAssumption DEF IInv, Types, MainTypes, TeTypes, GlobalTypes, MainPcs,
      Preempted, Ended, Positions, Clock, Entering, Ownership, InTarget, HandlerTypes,
      IsValid, Reporting, IsTrue
<1>1. CASE Tick
  BY <1>1 DEF Tick, Armed, Prompt
<1>2. CASE RunTarget
  BY <1>2 DEF RunTarget, Runs
<1>3. CASE ArmTimer
  BY <1>3, SMTT(30) DEF ArmTimer, Runs, Arm, Go
<1>4. CASE StampStart
  BY <1>4 DEF StampStart, Runs, Go
<1>5. CASE SetInTarget("in_target", 1, "set_timer")
  BY <1>5 DEF SetInTarget, Runs, Go
<1>6. CASE SetThreadpoolTimer
  BY <1>6 DEF SetThreadpoolTimer, Runs, Arm, Go
<1>7. CASE StoreInput
  BY <1>7 DEF StoreInput, Runs, Go
<1>8. CASE StorePointers
  BY <1>8 DEF StorePointers, Runs
<1>9. CASE HarnessReturns
  BY <1>9 DEF HarnessReturns, Runs, Go
<1>10. CASE ForgetInput
  BY <1>10 DEF ForgetInput, Runs, Go
<1>11. CASE SetInTarget("out_of_target", 0, "reset")
  BY <1>11 DEF SetInTarget, Runs, Go
<1>12. CASE DisarmTimer
  BY <1>12 DEF DisarmTimer, Runs, Disarm, Go
<1>13. CASE BatchElapsed
  BY <1>13 DEF BatchElapsed, Runs, Go
<1>14. CASE BatchReset
  BY <1>14 DEF BatchReset, Runs, Disarm, Go, Averaged
<1>15. CASE BatchKeep
  BY <1>15 DEF BatchKeep, Runs, Go
<1>16. CASE BatchCount
  BY <1>16 DEF BatchCount, Runs, Go
<1>17. CASE AlarmOutside
  BY <1>17 DEF AlarmOutside, Disarm, Restarted, Averaged
<1>18. CASE AlarmTooEarly
  BY <1>18 DEF AlarmTooEarly, Arm, Restarted, Averaged
<1>19. CASE AlarmIgnored
  BY <1>19 DEF AlarmIgnored
<1>20. CASE Timeout
  <2>1. /\ alarm /\ handler.by # "signal" /\ global.current_input # 0
        /\ mode = "batch" => now - te.start_time >= ExecTmout
        /\ UNCHANGED <<mode, main, reports, nested>>
    BY <1>20 DEF Timeout
  <2>2. handler' = [by |-> "signal", pc |-> "observe", kind |-> "Timeout",
                    input |-> global.current_input, ptrs |-> global.ptrs, run |-> main.run,
                    lasted |-> now - main.began]
    BY <1>20 DEF Timeout, TakeInput
  <2>3. mode # "windows" /\ handler.by = "nobody"
    BY <2>1
  <2>4. main.pc \in {"pointers", "target", "leave"} /\ global.current_input = main.run
    BY <2>1, <2>3
  <2>5. now - main.began >= ExecTmout
    <3>1. CASE mode = "linux"
      BY <2>1, <3>1
    <3>2. CASE mode = "batch"
      <4>1. main.pc \in {"enter", "pointers", "target", "leave"}
        BY <2>4
      <4>2. te.start_time >= main.began /\ te.start_time \in Nat /\ main.began \in Nat
        BY <3>2, <4>1
      <4> QED BY <2>1, <3>2, <4>2, SMTT(30)
    <3> QED BY <2>3, <3>1, <3>2
  <2>6. global.ptrs = main.run
    BY <2>4, <2>5, SMTT(30)
  <2>7. IsTrue(handler')
    BY <2>2, <2>4, <2>5, <2>6
  <2> QED BY <2>1, <2>2, <2>3, <2>7
<1>21. CASE \E by \in {"signal", "hook"} : Crash(by)
  BY <1>21 DEF Crash, Runs, TakeInput
<1>22. CASE Exception
  BY <1>22 DEF Exception, Runs
<1>23. CASE CallbackEnters
  BY <1>23 DEF CallbackEnters
<1>24. CASE CallbackReports
  BY <1>24 DEF CallbackReports, TakeInput, TimeoutTaken
<1>25. CASE CallbackLeaves
  BY <1>25 DEF CallbackLeaves
<1>26. CASE RunObservers
  <2>1. /\ handler.pc = "observe" /\ UNCHANGED <<mode, main, nested>>
        /\ reports' = Append(reports, handler)
        /\ handler' = [handler EXCEPT !.pc = "save"]
    BY <1>26 DEF RunObservers, HandlerIs
  <2>2. handler'.pc = "save" /\ handler'.run = handler.run
    BY <2>1
  <2>3. /\ Len(reports') = Len(reports) + 1
        /\ \A i \in DOMAIN reports' :
              reports'[i] = handler \/ (i \in DOMAIN reports /\ reports'[i] = reports[i])
    BY <1>0, <2>1, Zenon
  <2>4. ASSUME NEW i \in DOMAIN reports'
        PROVE  IsTrue(reports'[i])
    <3>1. CASE reports'[i] = handler
      BY <2>1, <3>1
    <3>2. CASE i \in DOMAIN reports /\ reports'[i] = reports[i]
      BY <3>2, ZenonT(60)
    <3> QED BY <2>3, <3>1, <3>2
  <2>5. \A i \in DOMAIN reports' : IsTrue(reports[i])'
    BY <2>1, <2>4
  <2>6. ~nested => Len(reports) = 0
    BY <2>1
  <2>7. ~nested' => Len(reports') = 1
    BY <2>1, <2>3, <2>6
  <2>8. handler'.pc # "none" => handler'.run = main'.run
    BY <2>1, <2>2
  <2> HIDE DEF IsTrue
  <2> QED BY <2>2, <2>5, <2>7, <2>8
<1>27. CASE SaveState
  BY <1>27 DEF SaveState, HandlerIs
<1>28. CASE Exit
  BY <1>28 DEF Exit, HandlerIs
<1>29. CASE HandlerCrashes
  <2>0. UNCHANGED <<main, mode, reports>> /\ nested' /\ handler.pc \in {"observe", "save"}
    BY <1>29 DEF HandlerCrashes, HandlerIs
  <2>1. CASE IsValid
    <3>1. handler'.by = "callback" /\ handler'.run = main.run /\ handler'.pc = "observe"
      BY <1>29, <2>1 DEF HandlerCrashes, TakeInput
    <3>2. mode = "windows"
      BY <2>0, <2>1
    <3> QED BY <2>0, <3>1, <3>2
  <2>2. CASE ~IsValid
    <3>0. handler' = [handler EXCEPT !.pc = "quit", !.by = "signal"]
      BY <1>29, <2>2 DEF HandlerCrashes
    <3>1. handler'.pc = "quit" /\ handler'.run = handler.run
      BY <3>0
    <3> QED BY <2>0, <3>1
  <2> QED BY <2>1, <2>2
<1>30. CASE UNCHANGED vars
  BY <1>30 DEF vars
<1> QED
  BY <1>1, <1>2, <1>3, <1>4, <1>5, <1>6, <1>7, <1>8, <1>9, <1>10, <1>11, <1>12, <1>13,
       <1>14, <1>15, <1>16, <1>17, <1>18, <1>19, <1>20, <1>21, <1>22, <1>23, <1>24, <1>25,
       <1>26, <1>27, <1>28, <1>29, <1>30
     DEF Next, Main, Handlers, Over

\* The calls of the timer's thread are added, entered and left in turn.
LEMMA StepCalls == IInv /\ [Next]_vars => Calls'
<1> SUFFICES ASSUME IInv, [Next]_vars PROVE Calls'
  OBVIOUS
<1> USE InProcessAssumption DEF IInv, Types, Calls
<1>1. CASE Tick
  BY <1>1 DEF Tick, Armed, Prompt
<1>2. CASE RunTarget
  BY <1>2 DEF RunTarget, Runs
<1>3. CASE ArmTimer
  BY <1>3, SMTT(30) DEF ArmTimer, Runs, Arm, Go
<1>4. CASE StampStart
  BY <1>4 DEF StampStart, Runs, Go
<1>5. CASE SetInTarget("in_target", 1, "set_timer")
  BY <1>5 DEF SetInTarget, Runs, Go
<1>6. CASE SetThreadpoolTimer
  BY <1>6 DEF SetThreadpoolTimer, Runs, Arm, Go
<1>7. CASE StoreInput
  BY <1>7 DEF StoreInput, Runs, Go
<1>8. CASE StorePointers
  BY <1>8 DEF StorePointers, Runs
<1>9. CASE HarnessReturns
  BY <1>9 DEF HarnessReturns, Runs, Go
<1>10. CASE ForgetInput
  BY <1>10 DEF ForgetInput, Runs, Go
<1>11. CASE SetInTarget("out_of_target", 0, "reset")
  BY <1>11 DEF SetInTarget, Runs, Go
<1>12. CASE DisarmTimer
  BY <1>12 DEF DisarmTimer, Runs, Disarm, Go
<1>13. CASE BatchElapsed
  BY <1>13 DEF BatchElapsed, Runs, Go
<1>14. CASE BatchReset
  BY <1>14 DEF BatchReset, Runs, Disarm, Go, Averaged
<1>15. CASE BatchKeep
  BY <1>15 DEF BatchKeep, Runs, Go
<1>16. CASE BatchCount
  BY <1>16 DEF BatchCount, Runs, Go
<1>17. CASE AlarmOutside
  BY <1>17 DEF AlarmOutside, Disarm, Restarted, Averaged
<1>18. CASE AlarmTooEarly
  BY <1>18 DEF AlarmTooEarly, Arm, Restarted, Averaged
<1>19. CASE AlarmIgnored
  BY <1>19 DEF AlarmIgnored
<1>20. CASE Timeout
  BY <1>20 DEF Timeout, TakeInput
<1>21. CASE \E by \in {"signal", "hook"} : Crash(by)
  BY <1>21 DEF Crash, Runs, TakeInput
<1>22. CASE Exception
  BY <1>22 DEF Exception, Runs
<1>23. CASE CallbackEnters
  BY <1>23 DEF CallbackEnters
<1>24. CASE CallbackReports
  BY <1>24 DEF CallbackReports, TakeInput, TimeoutTaken
<1>25. CASE CallbackLeaves
  BY <1>25 DEF CallbackLeaves, TimeoutTaken
<1>26. CASE RunObservers
  BY <1>26 DEF RunObservers, HandlerIs
<1>27. CASE SaveState
  BY <1>27 DEF SaveState, HandlerIs
<1>28. CASE Exit
  BY <1>28 DEF Exit, HandlerIs
<1>29. CASE HandlerCrashes
  BY <1>29 DEF HandlerCrashes, HandlerIs, TakeInput
<1>30. CASE UNCHANGED vars
  BY <1>30 DEF vars
<1> QED
  BY <1>1, <1>2, <1>3, <1>4, <1>5, <1>6, <1>7, <1>8, <1>9, <1>10, <1>11, <1>12, <1>13,
       <1>14, <1>15, <1>16, <1>17, <1>18, <1>19, <1>20, <1>21, <1>22, <1>23, <1>24, <1>25,
       <1>26, <1>27, <1>28, <1>29, <1>30
     DEF Next, Main, Handlers, Over

\* No step of Windows leaves a target that an exception has not freed without its timer.
LEMMA StepWindowsCover == IInv /\ [Next]_vars => WindowsCover'
<1> SUFFICES ASSUME IInv, [Next]_vars PROVE WindowsCover'
  OBVIOUS
<1> USE InProcessAssumption DEF IInv, Types, MainTypes, MainPcs, GlobalTypes, Preempted, Ended,
      Positions, Ownership, InTarget, HandlerTypes, IsValid,
      Calls, WindowsCover, Watched, Armed
<1>1. CASE Tick
  <2>1. UNCHANGED <<mode, main, global, handler>>
    BY <1>1 DEF Tick
  <2>2. mode = "windows" => timer' = timer \/ callback' = Append(callback, "called")
    BY <1>1 DEF Tick
  <2>3. Append(callback, "called") # <<>>
    <3>1. Len(Append(callback, "called")) = Len(callback) + 1 /\ Len(callback) \in Nat
      BY Appended
    <3>2. Len(<<>>) = 0
      OBVIOUS
    <3>3. Len(Append(callback, "called")) # Len(<<>>)
      BY <3>1, <3>2
    <3> QED BY <3>3, Zenon
  <2>4. callback' = callback \/ callback' # <<>>
    BY <1>1, <2>3 DEF Tick
  <2> QED BY <2>1, <2>2, <2>3, <2>4
<1>2. CASE RunTarget
  BY <1>2 DEF RunTarget, Runs
<1>3. CASE ArmTimer
  BY <1>3, SMTT(30) DEF ArmTimer, Runs, Arm, Go
<1>4. CASE StampStart
  BY <1>4 DEF StampStart, Runs, Go
<1>5. CASE SetInTarget("in_target", 1, "set_timer")
  BY <1>5 DEF SetInTarget, Runs, Go
<1>6. CASE SetThreadpoolTimer
  BY <1>6 DEF SetThreadpoolTimer, Runs, Arm, Go
<1>7. CASE StoreInput
  BY <1>7 DEF StoreInput, Runs, Go
<1>8. CASE StorePointers
  BY <1>8 DEF StorePointers, Runs
<1>9. CASE HarnessReturns
  BY <1>9 DEF HarnessReturns, Runs, Go
<1>10. CASE ForgetInput
  BY <1>10 DEF ForgetInput, Runs, Go
<1>11. CASE SetInTarget("out_of_target", 0, "reset")
  BY <1>11 DEF SetInTarget, Runs, Go
<1>12. CASE DisarmTimer
  BY <1>12 DEF DisarmTimer, Runs, Disarm, Go
<1>13. CASE BatchElapsed
  BY <1>13 DEF BatchElapsed, Runs, Go
<1>14. CASE BatchReset
  BY <1>14 DEF BatchReset, Runs, Disarm, Go, Averaged
<1>15. CASE BatchKeep
  BY <1>15 DEF BatchKeep, Runs, Go
<1>16. CASE BatchCount
  BY <1>16 DEF BatchCount, Runs, Go
<1>17. CASE AlarmOutside
  BY <1>17 DEF AlarmOutside, Disarm, Restarted, Averaged
<1>18. CASE AlarmTooEarly
  BY <1>18 DEF AlarmTooEarly, Arm, Restarted, Averaged
<1>19. CASE AlarmIgnored
  BY <1>19 DEF AlarmIgnored
<1>20. CASE Timeout
  BY <1>20 DEF Timeout, TakeInput
<1>21. CASE \E by \in {"signal", "hook"} : Crash(by)
  BY <1>21 DEF Crash, Runs, TakeInput
<1>22. CASE Exception
  BY <1>22 DEF Exception, Runs
<1>23. CASE CallbackEnters
  BY <1>23 DEF CallbackEnters
<1>24. CASE CallbackReports
  BY <1>24 DEF CallbackReports, TakeInput, TimeoutTaken
<1>25. CASE CallbackLeaves
  BY <1>25 DEF CallbackLeaves, TimeoutTaken
<1>26. CASE RunObservers
  BY <1>26 DEF RunObservers, HandlerIs
<1>27. CASE SaveState
  BY <1>27 DEF SaveState, HandlerIs
<1>28. CASE Exit
  BY <1>28 DEF Exit, HandlerIs
<1>29. CASE HandlerCrashes
  <2>1. handler'.pc # "none"
    <3>1. CASE IsValid
      BY <1>29, <3>1 DEF HandlerCrashes, TakeInput
    <3>2. CASE ~IsValid
      <4>1. handler' = [handler EXCEPT !.pc = "quit", !.by = "signal"]
        BY <1>29, <3>2 DEF HandlerCrashes
      <4> QED BY <4>1
    <3> QED BY <3>1, <3>2
  <2> QED BY <2>1
<1>30. CASE UNCHANGED vars
  BY <1>30 DEF vars
<1> QED
  BY <1>1, <1>2, <1>3, <1>4, <1>5, <1>6, <1>7, <1>8, <1>9, <1>10, <1>11, <1>12, <1>13,
       <1>14, <1>15, <1>16, <1>17, <1>18, <1>19, <1>20, <1>21, <1>22, <1>23, <1>24, <1>25,
       <1>26, <1>27, <1>28, <1>29, <1>30
     DEF Next, Main, Handlers, Over

\* No step of Linux, or of a batch, loses the timer that ran when the target was entered.
LEMMA StepPosixCover == IInv /\ [Next]_vars => PosixCover'
<1> SUFFICES ASSUME IInv, [Next]_vars PROVE PosixCover'
  OBVIOUS
<1> USE InProcessAssumption DEF IInv, Types, MainTypes, MainPcs, GlobalTypes, Preempted, Ended,
      Positions, Ownership, InTarget, HandlerTypes, IsValid,
      Calls, Clock, Entering, PosixCover, Armed
<1>1. CASE Tick
  BY <1>1 DEF Tick, Armed, Prompt
<1>2. CASE RunTarget
  BY <1>2 DEF RunTarget, Runs
<1>3. CASE ArmTimer
  BY <1>3, SMTT(30) DEF ArmTimer, Runs, Arm, Go
<1>4. CASE StampStart
  BY <1>4 DEF StampStart, Runs, Go
<1>5. CASE SetInTarget("in_target", 1, "set_timer")
  BY <1>5 DEF SetInTarget, Runs, Go
<1>6. CASE SetThreadpoolTimer
  BY <1>6 DEF SetThreadpoolTimer, Runs, Arm, Go
<1>7. CASE StoreInput
  BY <1>7 DEF StoreInput, Runs, Go
<1>8. CASE StorePointers
  BY <1>8 DEF StorePointers, Runs
<1>9. CASE HarnessReturns
  BY <1>9 DEF HarnessReturns, Runs, Go
<1>10. CASE ForgetInput
  BY <1>10 DEF ForgetInput, Runs, Go
<1>11. CASE SetInTarget("out_of_target", 0, "reset")
  BY <1>11 DEF SetInTarget, Runs, Go
<1>12. CASE DisarmTimer
  BY <1>12 DEF DisarmTimer, Runs, Disarm, Go
<1>13. CASE BatchElapsed
  BY <1>13 DEF BatchElapsed, Runs, Go
<1>14. CASE BatchReset
  BY <1>14 DEF BatchReset, Runs, Disarm, Go, Averaged
<1>15. CASE BatchKeep
  BY <1>15 DEF BatchKeep, Runs, Go
<1>16. CASE BatchCount
  BY <1>16 DEF BatchCount, Runs, Go
<1>17. CASE AlarmOutside
  <2>1. handler' = handler /\ main' = main /\ mode' = mode
    BY <1>17 DEF AlarmOutside
  <2>2. mode = "batch" /\ global.current_input = 0 /\ alarm
    BY <1>17 DEF AlarmOutside
  <2>3. handler.pc = "none" => main.pc # "target"
    BY <2>2
  <2> QED BY <2>1, <2>2, <2>3
<1>18. CASE AlarmTooEarly
  BY <1>18 DEF AlarmTooEarly, Arm, Restarted, Averaged
<1>19. CASE AlarmIgnored
  <2>1. UNCHANGED <<mode, main, handler>>
    BY <1>19 DEF AlarmIgnored
  <2>2. mode = "linux" /\ global.current_input = 0 /\ alarm
    BY <1>19 DEF AlarmIgnored
  <2>3. main.pc \notin {"enter", "pointers"}
    BY <2>2
  <2>4. handler.pc = "none" => main.pc # "target"
    BY <2>2
  <2> QED BY <2>1, <2>2, <2>3, <2>4
<1>20. CASE Timeout
  BY <1>20 DEF Timeout, TakeInput
<1>21. CASE \E by \in {"signal", "hook"} : Crash(by)
  BY <1>21 DEF Crash, Runs, TakeInput
<1>22. CASE Exception
  BY <1>22 DEF Exception, Runs
<1>23. CASE CallbackEnters
  BY <1>23 DEF CallbackEnters
<1>24. CASE CallbackReports
  BY <1>24 DEF CallbackReports, TakeInput, TimeoutTaken
<1>25. CASE CallbackLeaves
  BY <1>25 DEF CallbackLeaves, TimeoutTaken
<1>26. CASE RunObservers
  BY <1>26 DEF RunObservers, HandlerIs
<1>27. CASE SaveState
  BY <1>27 DEF SaveState, HandlerIs
<1>28. CASE Exit
  BY <1>28 DEF Exit, HandlerIs
<1>29. CASE HandlerCrashes
  <2>1. handler'.pc # "none"
    <3>1. CASE IsValid
      BY <1>29, <3>1 DEF HandlerCrashes, TakeInput
    <3>2. CASE ~IsValid
      <4>1. handler' = [handler EXCEPT !.pc = "quit", !.by = "signal"]
        BY <1>29, <3>2 DEF HandlerCrashes
      <4> QED BY <4>1
    <3> QED BY <3>1, <3>2
  <2> QED BY <2>1
<1>30. CASE UNCHANGED vars
  BY <1>30 DEF vars
<1> QED
  BY <1>1, <1>2, <1>3, <1>4, <1>5, <1>6, <1>7, <1>8, <1>9, <1>10, <1>11, <1>12, <1>13,
       <1>14, <1>15, <1>16, <1>17, <1>18, <1>19, <1>20, <1>21, <1>22, <1>23, <1>24, <1>25,
       <1>26, <1>27, <1>28, <1>29, <1>30
     DEF Next, Main, Handlers, Over

\* After a run without a timer the batch ends, and the next run arms one.
LEMMA StepBareCover == IInv /\ [Next]_vars => BareCover'
<1> SUFFICES ASSUME IInv, [Next]_vars PROVE BareCover'
  OBVIOUS
<1> USE InProcessAssumption DEF IInv, Types, MainTypes, MainPcs, GlobalTypes, Preempted, Ended,
      Positions, Ownership, InTarget, HandlerTypes, IsValid,
      Calls, Clock, Entering, PosixCover, WindowsCover, Watched, BareCover, Armed, TeTypes
<1>1. CASE Tick
  <2> SUFFICES ASSUME bare = 1
              PROVE  BareCover'
    BY <1>1 DEF Tick
  <2>1. UNCHANGED <<mode, main, te, bare>> /\ now' = now + 1
    BY <1>1 DEF Tick
  <2>2. Entering => now + 1 - main.began < ExecTmout
    BY <1>1 DEF Tick, Prompt
  <2>3. ASSUME main.pc \in {"stamp", "enter", "pointers"}
        PROVE  timer # 0 /\ ~(now + 1 >= timer)
    <3>1. timer >= main.began + ExecTmout /\ now + 1 - main.began < ExecTmout
      BY <2>2, <2>3
    <3>2. timer \in Nat /\ main.began \in Nat /\ now \in Nat /\ ExecTmout \in Nat \ {0}
      OBVIOUS
    <3> HIDE DEF IInv
    <3> QED BY <3>1, <3>2
  <2>4. main.pc \notin {"stamp", "enter", "pointers"} => timer = 0 \/ main.pc = "exited"
    BY DEF MainPcs
  <2>5. main.pc # "exited"
    BY <1>1 DEF Tick
  <2>6. timer' = timer /\ ~alarm'
    BY <1>1, <2>3, <2>4, <2>5 DEF Tick
  <2>7. main.pc \in {"target", "leave", "reset"} => now + 1 - te.tmout_start_time > ExecTmout
    <3>1. main.pc \in {"target", "leave", "reset"} => now - te.tmout_start_time > ExecTmout
      BY DEF BareCover
    <3>2. now \in Nat /\ te.tmout_start_time \in Nat /\ ExecTmout \in Nat
      OBVIOUS
    <3> HIDE DEF IInv
    <3> QED BY <3>1, <3>2
  <2> QED BY <2>1, <2>6, <2>7, SMTT(30)
<1>2. CASE RunTarget
  BY <1>2 DEF RunTarget, Runs
<1>3. CASE ArmTimer
  BY <1>3, SMTT(30) DEF ArmTimer, Runs, Arm, Go
<1>4. CASE StampStart
  BY <1>4 DEF StampStart, Runs, Go
<1>5. CASE SetInTarget("in_target", 1, "set_timer")
  BY <1>5 DEF SetInTarget, Runs, Go
<1>6. CASE SetThreadpoolTimer
  BY <1>6 DEF SetThreadpoolTimer, Runs, Arm, Go
<1>7. CASE StoreInput
  BY <1>7 DEF StoreInput, Runs, Go
<1>8. CASE StorePointers
  <2>1. /\ main.pc = "pointers" /\ ~alarm /\ handler.by \notin {"signal", "hook"}
        /\ UNCHANGED <<mode, now, te, timer, alarm>>
    BY <1>8 DEF StorePointers, Runs
  <2>2. main'.pc = "target"
    BY <1>8 DEF StorePointers
  <2>3. mode # "batch" => Armed \/ callback # <<>>
    <3>1. CASE handler.by = "callback"
      BY <3>1
    <3>2. CASE handler.by = "nobody"
      BY <2>1, <3>2
    <3> QED BY <2>1, <3>1, <3>2
  <2>4. bare = 1 => Armed
    BY <2>1, SMTT(30)
  <2>5. bare' \in {0, 1}
    BY <1>8, <2>4 DEF StorePointers
  <2>6. bare' = 1 => ~Armed /\ callback = <<>> /\ now - te.tmout_start_time > ExecTmout
    BY <1>8, <2>4 DEF StorePointers
  <2> QED BY <2>1, <2>2, <2>3, <2>5, <2>6
<1>9. CASE HarnessReturns
  BY <1>9 DEF HarnessReturns, Runs, Go
<1>10. CASE ForgetInput
  BY <1>10 DEF ForgetInput, Runs, Go
<1>11. CASE SetInTarget("out_of_target", 0, "reset")
  BY <1>11 DEF SetInTarget, Runs, Go
<1>12. CASE DisarmTimer
  BY <1>12 DEF DisarmTimer, Runs, Disarm, Go
<1>13. CASE BatchElapsed
  BY <1>13 DEF BatchElapsed, Runs, Go
<1>14. CASE BatchReset
  BY <1>14 DEF BatchReset, Runs, Disarm, Go, Averaged
<1>15. CASE BatchKeep
  BY <1>15 DEF BatchKeep, Runs, Go, LittleTimeLeft
<1>16. CASE BatchCount
  BY <1>16 DEF BatchCount, Runs, Go
<1>17. CASE AlarmOutside
  BY <1>17 DEF AlarmOutside, Disarm, Restarted, Averaged
<1>18. CASE AlarmTooEarly
  BY <1>18 DEF AlarmTooEarly, Arm, Restarted, Averaged
<1>19. CASE AlarmIgnored
  BY <1>19 DEF AlarmIgnored
<1>20. CASE Timeout
  BY <1>20 DEF Timeout, TakeInput
<1>21. CASE \E by \in {"signal", "hook"} : Crash(by)
  <2>1. UNCHANGED <<mode, now, main, te, timer, alarm, bare>>
    BY <1>21 DEF Crash
  <2> QED BY <2>1
<1>22. CASE Exception
  BY <1>22 DEF Exception, Runs
<1>23. CASE CallbackEnters
  BY <1>23 DEF CallbackEnters
<1>24. CASE CallbackReports
  BY <1>24 DEF CallbackReports, TakeInput, TimeoutTaken
<1>25. CASE CallbackLeaves
  BY <1>25 DEF CallbackLeaves, TimeoutTaken
<1>26. CASE RunObservers
  BY <1>26 DEF RunObservers, HandlerIs
<1>27. CASE SaveState
  BY <1>27 DEF SaveState, HandlerIs
<1>28. CASE Exit
  BY <1>28 DEF Exit, HandlerIs
<1>29. CASE HandlerCrashes
  BY <1>29 DEF HandlerCrashes, HandlerIs, TakeInput
<1>30. CASE UNCHANGED vars
  BY <1>30 DEF vars
<1> QED
  BY <1>1, <1>2, <1>3, <1>4, <1>5, <1>6, <1>7, <1>8, <1>9, <1>10, <1>11, <1>12, <1>13,
       <1>14, <1>15, <1>16, <1>17, <1>18, <1>19, <1>20, <1>21, <1>22, <1>23, <1>24, <1>25,
       <1>26, <1>27, <1>28, <1>29, <1>30
     DEF Next, Main, Handlers, Over

-----------------------------------------------------------------------------
\* The invariant holds in every execution.
LEMMA AlwaysIInv == Spec => []IInv
<1>1. Init => IInv
  BY InitIInv
<1>2. IInv /\ [Next]_vars => IInv'
  BY StepTypes, StepPositions, StepClock, StepOwnership, StepReporting, StepCalls,
     StepWindowsCover, StepPosixCover, StepBareCover DEF IInv
<1> QED
  BY <1>1, <1>2, PTL DEF Spec

\* What a handler gives to the objective is the input in the target, with the pointers of
\* this very run, and a timeout has had all its time.
THEOREM ReportsTrue == Spec => []ReportIsTrue
<1>1. IInv => ReportIsTrue
  BY DEF IInv, Reporting, IsTrue, ReportIsTrue
<1> QED
  BY <1>1, AlwaysIInv, PTL

\* A run ends in at most one report, and the process exits only after the state was saved.
THEOREM ReportedOnceOnly == Spec => []ReportedOnce
<1>1. IInv => ReportedOnce
  <2> SUFFICES ASSUME IInv PROVE ReportedOnce
    OBVIOUS
  <2> USE DEF IInv, Types, Positions, Reporting
  <2>1. ~nested => Len(reports) <= 1
    OBVIOUS
  <2>2. Ended => nested \/ handler.pc = "saved"
    BY DEF Ended
  <2>3. handler.pc # "none" => main.run = handler.run
    OBVIOUS
  <2> QED BY <2>1, <2>2, <2>3, Zenon DEF ReportedOnce
<1> QED
  BY <1>1, AlwaysIInv, PTL

\* A target that hangs is found: a timer runs or has just fired while the target runs; a
\* batch that has had its time lets one run go without, never two in a row.
THEOREM HangsAreFound == Spec => []TimerCoversRun
<1>1. IInv => TimerCoversRun
  BY DEF IInv, WindowsCover, Watched, PosixCover, BareCover, TimerCoversRun, Types, Armed
<1> QED
  BY <1>1, AlwaysIInv, PTL
=============================================================================

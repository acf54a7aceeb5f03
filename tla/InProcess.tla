----------------------------- MODULE InProcess -----------------------------
(***************************************************************************)
(* The in-process executor and its timeouts: TimeoutExecutor of            *)
(* libafl/src/executors/timeout.rs around GenericInProcessExecutor of      *)
(* libafl/src/executors/inprocess.rs, with the crash and timeout handlers. *)
(*                                                                         *)
(* mode "linux": a timer is armed before and disarmed after each run; it   *)
(* raises SIGALRM, which interrupts the one thread between any two steps.  *)
(* mode "batch": the same, with one timer for many short runs.             *)
(* mode "windows": the timer calls the handler on a thread of its own; a   *)
(* critical section and in_target keep it and the main thread apart.       *)
(***************************************************************************)
EXTENDS Integers, Sequences

CONSTANTS
    Modes,      \* the modes considered
    ExecTmout,  \* exec_tmout, in ticks of the clock
    MaxRuns,    \* bound: calls of run_target
    MaxTime     \* bound: ticks

ASSUME InProcessAssumption ==
    /\ Modes \subseteq {"linux", "batch", "windows"}
    /\ ExecTmout \in Nat \ {0} /\ MaxRuns \in Nat /\ MaxTime \in Nat

VARIABLES
    mode,      \* constant
    now,       \* current_time, and the timer's clock
    main,      \* the main thread: where it is, its run, when run_target began, and whether
               \* a timer ran when it entered the target
    te,        \* fields of TimeoutExecutor
    timer,     \* when the timer will go off, 0 if it is disarmed
    alarm,     \* SIGALRM is pending (linux, batch)
    callback,  \* where the timer's thread is; a second call waits for the first (windows)
    critical,  \* who is inside the critical section (windows)
    global,    \* GLOBAL_STATE; pointers are the runs they were stored for, 0 is null
    handler,   \* the handler that saves: where it is, for what and whose
    reports,   \* history: what handlers gave to the objective
    nested,    \* history: a handler crashed itself
    bare       \* history: the runs in a row, up to this one, that entered the target without
               \* a timer, later than exec_tmout after the last one was armed

vars == <<mode, now, main, te, timer, alarm, callback, critical, global, handler,
          reports, nested, bare>>

NoHandler ==
    [by |-> "nobody", pc |-> "none", kind |-> "none", input |-> 0, ptrs |-> 0, run |-> 0,
     lasted |-> 0]

Init ==
    /\ mode \in Modes
    /\ now = 1
    /\ main = [pc |-> "idle", run |-> 0, began |-> 0, covered |-> FALSE]
    /\ te = [executions |-> 0, avg_mul_k |-> 1, avg_exec_time |-> <<0, 1>>,
             signalled |-> FALSE, start_time |-> 0, tmout_start_time |-> 0,
             elapsed |-> 0]
    /\ timer = 0 /\ alarm = FALSE /\ callback = <<>> /\ critical = "free"
    /\ global = [current_input |-> 0, ptrs |-> 0, in_target |-> 0,
                 timeout_input |-> FALSE, tp_timer |-> FALSE]
    /\ handler = NoHandler
    /\ reports = <<>> /\ nested = FALSE
    /\ bare = 0

-----------------------------------------------------------------------------
(* Time. The timer fires once. SIGALRM is delivered before the thread does *)
(* anything else; while a handler runs it is blocked.                      *)

Armed     == timer # 0
Ended     == main.pc = "exited"
Preempted == alarm /\ handler.by # "signal" /\ ~Ended

\* Between the start of run_target and the target the process is not held up for as
\* long as a whole timeout.
Entering  == main.pc \in {"arm", "stamp", "in_target", "set_timer", "enter", "pointers"}
Prompt    == Entering => now + 1 - main.began < ExecTmout

Tick ==
    /\ now < MaxTime /\ ~Ended /\ ~Preempted /\ Prompt
    /\ now' = now + 1
    /\ LET fires == Armed /\ now + 1 >= timer
       IN  /\ timer' = IF fires THEN 0 ELSE timer
           /\ alarm' = (alarm \/ (fires /\ mode # "windows"))
           /\ callback' = IF fires /\ mode = "windows" THEN Append(callback, "called") ELSE callback
    /\ UNCHANGED <<mode, main, te, critical, global, handler, reports, nested, bare>>

-----------------------------------------------------------------------------
(* TimeoutExecutor::run_target, and the run_target of the executor in it.  *)

Runs(pc) == main.pc = pc /\ ~Preempted /\ handler.by \notin {"signal", "hook"}
Go(pc)   == main' = [main EXCEPT !.pc = pc]
Disarm   == timer' = 0
Arm      == timer' = now + ExecTmout

RunTarget ==
    /\ Runs("idle") /\ main.run < MaxRuns
    /\ main' = [main EXCEPT !.run = @ + 1, !.began = now,
                  !.pc = IF mode = "windows" THEN "in_target" ELSE "arm"]
    /\ global' = IF mode = "windows"
                 THEN [global EXCEPT !.tp_timer = TRUE, !.timeout_input = TRUE] ELSE global
    /\ UNCHANGED <<mode, now, te, timer, alarm, callback, critical, handler, reports, nested, bare>>

\* timer_settime; in batch mode only if no timer runs already
ArmTimer ==
    /\ Runs("arm")
    /\ IF mode = "linux" THEN Arm /\ te' = te
       ELSE IF te.executions = 0
            THEN Arm /\ te' = [te EXCEPT !.tmout_start_time = now]
            ELSE UNCHANGED <<timer, te>>
    /\ Go(IF mode = "linux" THEN "enter" ELSE "stamp")
    /\ UNCHANGED <<mode, now, alarm, callback, critical, global, handler, reports, nested, bare>>

StampStart ==
    /\ Runs("stamp")
    /\ te' = [te EXCEPT !.start_time = now]
    /\ Go("enter")
    /\ UNCHANGED <<mode, now, timer, alarm, callback, critical, global, handler, reports, nested, bare>>

\* The critical section about in_target holds nothing else.
SetInTarget(from, v, to) ==
    /\ Runs(from) /\ critical = "free"
    /\ global' = [global EXCEPT !.in_target = v]
    /\ Go(to)
    /\ UNCHANGED <<mode, now, te, timer, alarm, callback, critical, handler, reports, nested, bare>>

SetThreadpoolTimer ==
    /\ Runs("set_timer") /\ Arm /\ Go("enter")
    /\ UNCHANGED <<mode, now, te, alarm, callback, critical, global, handler, reports, nested, bare>>

\* InProcessHandlers::pre_run_target: first the input, then the other pointers
StoreInput ==
    /\ Runs("enter")
    /\ global' = [global EXCEPT !.current_input = main.run]
    /\ Go("pointers")
    /\ UNCHANGED <<mode, now, te, timer, alarm, callback, critical, handler, reports, nested, bare>>

StorePointers ==
    /\ Runs("pointers")
    /\ global' = [global EXCEPT !.ptrs = main.run]
    /\ main' = [main EXCEPT !.pc = "target", !.covered = Armed \/ callback # <<>>]
    /\ bare' = IF Armed \/ callback # <<>> THEN 0
               ELSE IF now - te.tmout_start_time > ExecTmout THEN bare + 1 ELSE bare
    /\ UNCHANGED <<mode, now, te, timer, alarm, callback, critical, handler, reports, nested>>

\* The harness returns. It need not.
HarnessReturns ==
    /\ Runs("target") /\ Go("leave")
    /\ UNCHANGED <<mode, now, te, timer, alarm, callback, critical, global, handler, reports, nested, bare>>

\* post_run_target
ForgetInput ==
    /\ Runs("leave")
    /\ global' = [global EXCEPT !.current_input = 0]
    /\ Go(IF mode = "windows" THEN "out_of_target" ELSE "reset")
    /\ UNCHANGED <<mode, now, te, timer, alarm, callback, critical, handler, reports, nested, bare>>

\* post_run_reset. A callback that was called already is not called back.
DisarmTimer ==
    /\ Runs("reset") /\ mode # "batch"
    /\ Disarm /\ Go("idle")
    /\ global' = [global EXCEPT !.timeout_input = FALSE]
    /\ UNCHANGED <<mode, now, te, alarm, callback, critical, handler, reports, nested, bare>>

BatchElapsed ==
    /\ Runs("reset") /\ mode = "batch"
    /\ te' = [te EXCEPT !.elapsed = now - te.tmout_start_time]
    /\ Go("batch")
    /\ UNCHANGED <<mode, now, timer, alarm, callback, critical, global, handler, reports, nested, bare>>

\* avg_exec_time is the quotient of the two numbers.
LittleTimeLeft ==
    \/ te.elapsed > ExecTmout
    \/ (ExecTmout - te.elapsed) * te.avg_exec_time[2] < te.avg_exec_time[1] * te.avg_mul_k

Averaged(elapsed) ==
    IF te.executions > 0
    THEN [te EXCEPT !.avg_exec_time = <<elapsed, te.executions>>, !.executions = 0]
    ELSE te

\* mutant: disarms the timer, and the next run takes it for armed
BatchResetKeepsCount ==
    /\ Runs("batch") /\ LittleTimeLeft
    /\ Disarm
    /\ te' = [te EXCEPT !.avg_mul_k = IF te.signalled /\ @ > 1 THEN @ - 1 ELSE @]
    /\ Go("idle")
    /\ UNCHANGED <<mode, now, alarm, callback, critical, global, handler, reports, nested, bare>>

\* last_signal_time is a date, so it exceeds any number of timeouts once it is set.
BatchReset ==
    /\ Runs("batch") /\ LittleTimeLeft
    /\ Disarm
    /\ te' = [Averaged(te.elapsed) EXCEPT
                !.avg_mul_k = IF te.signalled /\ @ > 1 THEN @ - 1 ELSE @]
    /\ Go("idle")
    /\ UNCHANGED <<mode, now, alarm, callback, critical, global, handler, reports, nested, bare>>

\* The timer is not near its end: the comparison and the addition are two steps.
BatchKeep ==
    /\ Runs("batch") /\ ~LittleTimeLeft /\ Go("count")
    /\ UNCHANGED <<mode, now, te, timer, alarm, callback, critical, global, handler, reports, nested, bare>>

BatchCount ==
    /\ Runs("count")
    /\ te' = [te EXCEPT !.executions = @ + 1]
    /\ Go("idle")
    /\ UNCHANGED <<mode, now, timer, alarm, callback, critical, global, handler, reports, nested, bare>>

Main ==
    \/ RunTarget \/ ArmTimer \/ StampStart \/ SetInTarget("in_target", 1, "set_timer")
    \/ SetThreadpoolTimer \/ StoreInput \/ StorePointers \/ HarnessReturns \/ ForgetInput
    \/ SetInTarget("out_of_target", 0, "reset") \/ DisarmTimer
    \/ BatchElapsed \/ BatchReset \/ BatchKeep \/ BatchCount

-----------------------------------------------------------------------------
(* Handlers.                                                               *)

IsValid == global.current_input # 0

\* The input is taken: current_input_ptr is null from here on.
TakeInput(by, kind, input) ==
    handler' = [by |-> by, pc |-> "observe", kind |-> kind, input |-> input,
                ptrs |-> global.ptrs, run |-> main.run, lasted |-> now - main.began]

Restarted == [Averaged(now - te.tmout_start_time) EXCEPT !.avg_mul_k = @ + 1, !.signalled = TRUE]

\* handle_timeout outside of the target: the timer is to be set by the next run.
AlarmOutside ==
    /\ Preempted /\ mode = "batch" /\ ~IsValid
    /\ Disarm /\ te' = Restarted /\ alarm' = FALSE
    /\ UNCHANGED <<mode, now, main, callback, critical, global, handler, reports, nested, bare>>

\* handle_timeout in a run that is younger than the timer: the timer starts again.
AlarmTooEarly ==
    /\ Preempted /\ mode = "batch" /\ IsValid /\ now - te.start_time < ExecTmout
    /\ Arm /\ te' = [Restarted EXCEPT !.tmout_start_time = now] /\ alarm' = FALSE
    /\ UNCHANGED <<mode, now, main, callback, critical, global, handler, reports, nested, bare>>

\* "TIMEOUT or SIGUSR2 happened, but currently not fuzzing."
AlarmIgnored ==
    /\ Preempted /\ mode = "linux" /\ ~IsValid
    /\ alarm' = FALSE
    /\ UNCHANGED <<mode, now, main, te, timer, callback, critical, global, handler, reports,
                   nested, bare>>

\* mutant: takes the batch's alarm for this run's
TimeoutOfBatch ==
    /\ Preempted /\ IsValid
    /\ alarm' = FALSE
    /\ TakeInput("signal", "Timeout", global.current_input)
    /\ global' = [global EXCEPT !.current_input = 0]
    /\ UNCHANGED <<mode, now, main, te, timer, callback, critical, reports, nested, bare>>

\* inproc_timeout_handler
Timeout ==
    /\ Preempted /\ IsValid
    /\ mode = "batch" => now - te.start_time >= ExecTmout
    /\ alarm' = FALSE
    /\ TakeInput("signal", "Timeout", global.current_input)
    /\ global' = [global EXCEPT !.current_input = 0]
    /\ UNCHANGED <<mode, now, main, te, timer, callback, critical, reports, nested, bare>>

\* mutant: reads the input and leaves it for the next handler
CrashKeepsInput(by) ==
    /\ Runs("target") /\ critical = "free"
    /\ TakeInput(by, "Crash", global.current_input)
    /\ global' = [global EXCEPT !.in_target = 0, !.tp_timer = @ /\ by = "hook"]
    /\ UNCHANGED <<mode, now, main, te, timer, alarm, callback, critical, reports, nested, bare>>

\* inproc_crash_handler ("signal"), or the panic hook, which SIGALRM can interrupt. Windows
\* first takes in_target back from the timer. post_run_reset is called on the inner
\* executor, which has no timer to disarm.
Crash(by) ==
    /\ Runs("target") /\ critical = "free"
    /\ TakeInput(by, "Crash", global.current_input)
    /\ global' = [global EXCEPT !.current_input = 0, !.in_target = 0,
                                !.tp_timer = @ /\ by = "hook"]
    /\ UNCHANGED <<mode, now, main, te, timer, alarm, callback, critical, reports, nested, bare>>

\* inproc_crash_handler of Windows for an exception that is no crash: the target goes on,
\* but in_target is 0 and its timer can do nothing any more.
Exception ==
    /\ mode = "windows" /\ Runs("target") /\ (global.tp_timer => critical = "free")
    /\ global' = [global EXCEPT !.in_target = 0, !.tp_timer = FALSE]
    /\ UNCHANGED <<mode, now, main, te, timer, alarm, callback, critical, handler, reports,
                   nested, bare>>

\* inproc_timeout_handler of Windows, on the timer's thread
CallbackEnters ==
    /\ ~Ended /\ callback # <<>> /\ Head(callback) = "called" /\ critical = "free"
    /\ callback' = [callback EXCEPT ![1] = "inside"] /\ critical' = "callback"
    /\ UNCHANGED <<mode, now, main, te, timer, alarm, global, handler, reports, nested, bare>>

TimeoutTaken == global.in_target = 1 /\ global.timeout_input

\* timeout_input_ptr is the address of current_input_ptr, and is read as an input.
CallbackReports ==
    /\ ~Ended /\ critical = "callback" /\ handler.pc = "none" /\ TimeoutTaken
    /\ TakeInput("callback", "Timeout", -1)
    /\ global' = [global EXCEPT !.timeout_input = FALSE]
    /\ UNCHANGED <<mode, now, main, te, timer, alarm, callback, critical, reports, nested, bare>>

CallbackLeaves ==
    /\ ~Ended /\ critical = "callback" /\ handler.by # "callback" /\ ~TimeoutTaken
    /\ callback' = Tail(callback) /\ critical' = "free"
    /\ UNCHANGED <<mode, now, main, te, timer, alarm, global, handler, reports, nested, bare>>

\* run_observers_and_save_state: observers, objective and solution; then on_restart;
\* then the process exits.
HandlerIs(pc) == handler.pc = pc /\ ~Ended /\ (handler.by = "hook" => ~Preempted)

RunObservers ==
    /\ HandlerIs("observe")
    /\ reports' = Append(reports, handler)
    /\ handler' = [handler EXCEPT !.pc = "save"]
    /\ UNCHANGED <<mode, now, main, te, timer, alarm, callback, critical, global, nested, bare>>

SaveState ==
    /\ HandlerIs("save")
    /\ handler' = [handler EXCEPT !.pc = "saved"]
    /\ UNCHANGED <<mode, now, main, te, timer, alarm, callback, critical, global, reports,
                   nested, bare>>

Exit ==
    /\ HandlerIs("saved") \/ HandlerIs("quit")
    /\ main' = [main EXCEPT !.pc = "exited"]
    /\ UNCHANGED <<mode, now, te, timer, alarm, callback, critical, global, handler, reports,
                   nested, bare>>

\* The handler crashes. With the input taken it is a "Double crash" that waits for
\* someone to type QUIT; the timer's thread has not taken it, and reports it again.
HandlerCrashes ==
    /\ HandlerIs("observe") \/ HandlerIs("save")
    /\ nested' = TRUE /\ ~nested
    /\ IF IsValid
       THEN /\ TakeInput("callback", "Crash", global.current_input)
            /\ global' = [global EXCEPT !.current_input = 0, !.in_target = 0, !.tp_timer = FALSE]
       ELSE /\ handler' = [handler EXCEPT !.pc = "quit", !.by = "signal"]
            /\ UNCHANGED global
    /\ UNCHANGED <<mode, now, main, te, timer, alarm, callback, critical, reports, bare>>

Handlers ==
    \/ AlarmOutside \/ AlarmTooEarly \/ AlarmIgnored \/ Timeout
    \/ \E by \in {"signal", "hook"} : Crash(by)
    \/ Exception
    \/ CallbackEnters \/ CallbackReports \/ CallbackLeaves
    \/ RunObservers \/ SaveState \/ Exit \/ HandlerCrashes

\* The process is over, or has had its runs.
Over == (Ended \/ (main.pc = "idle" /\ main.run = MaxRuns)) /\ UNCHANGED vars

Next == Tick \/ Main \/ Handlers \/ Over

Spec == Init /\ [][Next]_vars

-----------------------------------------------------------------------------
(* Properties.                                                             *)

\* A handler reports the input that is in the target, with the pointers stored for this
\* very run, and as a timeout only if it has had all its time: an alarm that belongs to
\* an earlier run, or to the batch, never counts against the present one. Windows is held
\* to this for the crashes of its main thread only: its timer's thread reads no input,
\* and a call of it that is late ends the next run.
ReportIsTrue ==
    \A i \in DOMAIN reports : LET r == reports[i] IN
        mode # "windows" \/ r.by # "callback" =>
            /\ r.ptrs = r.run /\ r.input = r.run
            /\ r.kind = "Timeout" => r.lasted >= ExecTmout

\* A run ends in at most one report, whoever is first of the crash handler, the panic
\* hook, the alarm and the timer's thread; the process exits only after the state was
\* saved; and while a handler works the main thread starts no other run.
ReportedOnce ==
    /\ ~nested => Len(reports) <= 1
    /\ Ended => nested \/ handler.pc = "saved"
    /\ handler.pc # "none" => main.run = handler.run

\* A target that hangs is found: a timer runs, or has just fired, while the target runs.
\* In batch mode, once the batch has had its time, one run may do without, but never two
\* in a row; on Windows a run may do without after an exception that is no crash.
TimerCoversRun ==
    /\ bare <= 1
    /\ main.pc = "target" /\ handler.pc = "none" =>
         /\ mode # "batch" => main.covered
         /\ mode # "windows" /\ main.covered => Armed \/ alarm
         /\ mode = "windows" /\ global.tp_timer =>
              global.in_target = 1 /\ (Armed \/ callback # <<>>)
=============================================================================

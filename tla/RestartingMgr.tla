--------------------------- MODULE RestartingMgr ---------------------------
(***************************************************************************)
(* The respawner of a fuzzing client and the runner it forks: launch and   *)
(* on_restart of libafl/src/events/llmp.rs (LlmpRestartingEventManager)    *)
(* and of libafl/src/events/simple.rs (SimpleRestartingEventManager), and  *)
(* the crash and timeout handlers that call on_restart.                    *)
(*                                                                         *)
(* A fuzzer's state is the number of testcases it has found. The manager's *)
(* description is the page of its out map it writes to (see LlmpChannel):  *)
(* messages written to an earlier page than `out` reach nobody.            *)
(***************************************************************************)
EXTENDS StateRestorer

CONSTANTS
    Llmp,            \* TRUE: events/llmp.rs, FALSE: events/simple.rs
    Forking,         \* the build has the feature "fork"
    MaxFinds,        \* bound: testcases found
    MaxFaults        \* bound: failures of the surroundings

\* A saved value: the state, -1 for None, and the description of the manager
Saved(s, p) == [state |-> s, desc |-> p]

ASSUME RestartAssumption ==
    /\ Llmp \in BOOLEAN /\ Forking \in BOOLEAN
    /\ MaxFinds \in Nat /\ MaxFaults \in Nat
    /\ Contents = [state : -1..MaxFinds, desc : 0..MaxFinds]

VARIABLES
    parent,   \* the respawner: where it is in its loop
    child,    \* the runner: where it is, what it returns to, its state and manager
    end,      \* how the last runner ended: exit code or signal
    out,      \* the page the client's out map has reached
    finds,    \* testcases found by all runners together
    exited,   \* a runner completed send_exiting
    faults,   \* failures so far
    serialize_state  \* RestartingMgr::serialize_state, set by the builder and never again

restorer == <<content, tmpfiles>>
history  == <<finds, exited>>
vars     == <<restorer, parent, child, end, out, history, faults, serialize_state>>

Exit(n)   == [by |-> "exit", n |-> n]
Signal(n) == [by |-> "signal", n |-> n]

\* launch in the parent: the description of the first manager goes to the
\* environment, the map is created, the loop starts.
Init ==
    /\ InitRestorer
    /\ parent = "spawn"
    /\ child = [pc |-> "dead", ret |-> "run", state |-> 0, desc |-> 0]
    /\ end = Exit(0)
    /\ out = 0
    /\ finds = 0 /\ exited = FALSE
    /\ faults = 0
    /\ serialize_state \in BOOLEAN /\ (~Llmp => serialize_state)

-----------------------------------------------------------------------------
(* The parent.                                                             *)

Fork ==
    /\ parent = "spawn"
    /\ parent' = "wait"
    /\ child' = [pc |-> "restore", ret |-> "run", state |-> 0, desc |-> 0]
    /\ UNCHANGED <<restorer, end, out, history, faults, serialize_state>>

\* ChildHandle::status is the raw value of waitpid; without fork it is
\* code().unwrap_or_default() of the ExitStatus.
ChildStatus ==
    IF Forking
    THEN IF end.by = "exit" THEN 256 * end.n ELSE end.n
    ELSE IF end.by = "exit" THEN end.n ELSE 0

\* Mutant of StoredNothing: only a status of 137 ends the loop.
StoredNothingButOom == ~has_content /\ serialize_state /\ ChildStatus = 137

StoredNothing == ~has_content /\ serialize_state

\* The runner ended without leaving a state: panic, and say so.
ParentPanics ==
    /\ parent = "wait" /\ child.pc = "dead"
    /\ StoredNothing
    /\ parent' = IF ChildStatus = 137 THEN "oom_panic" ELSE "panic"
    /\ UNCHANGED <<restorer, child, end, out, history, faults, serialize_state>>

\* Err(ShuttingDown) of launch, in events/llmp.rs only
ParentReturns ==
    /\ parent = "wait" /\ child.pc = "dead"
    /\ ~StoredNothing
    /\ Llmp /\ wants_to_exit
    /\ parent' = "returned"
    /\ UNCHANGED <<restorer, child, end, out, history, faults, serialize_state>>

ParentLoops ==
    /\ parent = "wait" /\ child.pc = "dead"
    /\ ~StoredNothing
    /\ ~(Llmp /\ wants_to_exit)
    /\ parent' = "spawn"
    /\ UNCHANGED <<restorer, child, end, out, history, faults, serialize_state>>

\* SIGINT, SIGTERM or SIGQUIT in the parent: shutdown_handler drops the map
\* and exits; a runner that is alive keeps its own mapping.
ParentInterrupted ==
    /\ faults < MaxFaults
    /\ parent \in {"spawn", "wait"}
    /\ parent' = "gone"
    /\ faults' = faults + 1
    /\ UNCHANGED <<restorer, child, end, out, history, serialize_state>>

ParentStep == Fork \/ ParentPanics \/ ParentReturns \/ ParentLoops

-----------------------------------------------------------------------------
(* The runner starts: restore, reattach, reset.                            *)

Go(pc) == child' = [child EXCEPT !.pc = pc]

Ends(how) == Go("dead") /\ end' = how

\* The first run: the manager comes from the environment, on page 0.
RestoreNone ==
    /\ child.pc = "restore"
    /\ RestoresNone
    /\ Go("attach")
    /\ UNCHANGED <<restorer, parent, end, out, history, faults, serialize_state>>

\* A later run: state (None if it was not serialized) and manager description
RestoreSome ==
    /\ child.pc = "restore"
    /\ RestoresSome
    /\ child' = [child EXCEPT !.pc = "attach",
                              !.state = IF content.buf.of.state = -1 THEN 0 ELSE content.buf.of.state,
                              !.desc = content.buf.of.desc]
    /\ UNCHANGED <<restorer, parent, end, out, history, faults, serialize_state>>

\* launch returns the error in the runner, which ends; the map is left as it is.
RestoreErr ==
    /\ child.pc = "restore"
    /\ RestoresErr
    /\ Ends(Exit(1))
    /\ UNCHANGED <<restorer, parent, out, history, faults, serialize_state>>

\* The manager is set up; then the map is reset (in simple.rs only if there was content).
Attach ==
    /\ child.pc = "attach"
    /\ IF Llmp \/ has_content
       THEN child' = [child EXCEPT !.pc = "unlink", !.ret = "run"]
       ELSE Go("run")
    /\ UNCHANGED <<restorer, parent, end, out, history, faults, serialize_state>>

\* existing_client_from_description or _from_env cannot map the pages.
AttachFails ==
    /\ faults < MaxFaults
    /\ Llmp
    /\ child.pc = "attach"
    /\ Ends(Exit(1))
    /\ faults' = faults + 1
    /\ UNCHANGED <<restorer, parent, out, history, serialize_state>>

\* reset, store by store; it returns to child.ret.
ResetFile ==
    /\ child.pc = "unlink"
    /\ RemoveFile
    /\ Go("undisk")
    /\ UNCHANGED <<content, parent, end, out, history, faults, serialize_state>>

ResetDisk ==
    /\ child.pc = "undisk"
    /\ SetDisk(FALSE)
    /\ Go("unlen")
    /\ UNCHANGED <<tmpfiles, parent, end, out, history, faults, serialize_state>>

ResetLen ==
    /\ child.pc = "unlen"
    /\ SetLen(0)
    /\ Go(child.ret)
    /\ UNCHANGED <<tmpfiles, parent, end, out, history, faults, serialize_state>>

-----------------------------------------------------------------------------
(* The runner fuzzes, and leaves.                                          *)

\* A new testcase is added and its event fired; the message may need a new page.
FindTestcase ==
    /\ finds < MaxFinds
    /\ child.pc = "run"
    /\ finds' = finds + 1
    /\ \/ /\ child' = [child EXCEPT !.state = @ + 1]
          /\ UNCHANGED out
       \/ /\ Llmp /\ child.desc = out
          /\ child' = [child EXCEPT !.state = @ + 1, !.desc = @ + 1]
          /\ out' = out + 1
    /\ UNCHANGED <<restorer, parent, end, exited, faults, serialize_state>>

\* The target crashes, times out or panics, or the fuzzer has run its iterations:
\* run_observers_and_save_state calls on_restart, which begins with reset.
OnRestart ==
    /\ child.pc = "run"
    /\ child' = [child EXCEPT !.pc = "unlink", !.ret = "save"]
    /\ UNCHANGED <<restorer, parent, end, out, history, faults, serialize_state>>

\* Mutant of Described: the description of the first manager is saved.
DescribedInitially == Saved(IF serialize_state THEN child.state ELSE -1, 0)

\* What on_restart saves
Described == Saved(IF serialize_state THEN child.state ELSE -1, child.desc)

\* save refuses a map that has content: on_restart(..).unwrap() panics.
SaveBegin ==
    /\ child.pc = "save"
    /\ IF has_content
       THEN Ends(Exit(134))
       ELSE Go(IF FitsMap(Described) THEN "copy" ELSE "create") /\ UNCHANGED end
    /\ UNCHANGED <<restorer, parent, out, history, faults, serialize_state>>

SaveCreate ==
    /\ child.pc = "create"
    /\ PutFile(Described, "empty")
    /\ Go("write")
    /\ UNCHANGED <<content, parent, end, out, history, faults, serialize_state>>

\* After the file, the name has to fit; if it does not, save returns an error.
SaveWrite ==
    /\ child.pc = "write"
    /\ PutFile(Described, "full")
    /\ IF NameFitsMap THEN Go("copy") /\ UNCHANGED end ELSE Ends(Exit(134))
    /\ UNCHANGED <<content, parent, out, history, faults, serialize_state>>

\* File::create or write_all returns an error; unwrap panics.
SaveFails ==
    /\ faults < MaxFaults
    /\ child.pc \in {"create", "write"}
    /\ Ends(Exit(134))
    /\ faults' = faults + 1
    /\ UNCHANGED <<restorer, parent, out, history, serialize_state>>

SaveBuf ==
    /\ child.pc = "copy"
    /\ CopyBuf(SavedBuf(Described))
    /\ Go("len")
    /\ UNCHANGED <<tmpfiles, parent, end, out, history, faults, serialize_state>>

SaveLen ==
    /\ child.pc = "len"
    /\ SetLen(SavedLen(Described))
    /\ Go("disk")
    /\ UNCHANGED <<tmpfiles, parent, end, out, history, faults, serialize_state>>

SaveDisk ==
    /\ child.pc = "disk"
    /\ SetDisk(~FitsMap(Described))
    /\ Go("saved")
    /\ UNCHANGED <<tmpfiles, parent, end, out, history, faults, serialize_state>>

\* await_restart_safe, then _exit(128 + SIGABRT), which stands for all codes
ExitSaved ==
    /\ child.pc = "saved"
    /\ Ends(Exit(134))
    /\ UNCHANGED <<restorer, parent, out, history, faults, serialize_state>>

\* The fuzzer is done for good: send_exiting resets the map, then writes the magic.
SendExiting ==
    /\ child.pc = "run"
    /\ child' = [child EXCEPT !.pc = "unlink", !.ret = "magic"]
    /\ UNCHANGED <<restorer, parent, end, out, history, faults, serialize_state>>

ExitingBuf ==
    /\ child.pc = "magic"
    /\ CopyBuf(Magic)
    /\ Go("magic_len")
    /\ UNCHANGED <<tmpfiles, parent, end, out, history, faults, serialize_state>>

ExitingLen ==
    /\ child.pc = "magic_len"
    /\ SetLen(MAGIC_LEN)
    /\ Go("leaving")
    /\ exited' = TRUE
    /\ UNCHANGED <<tmpfiles, parent, end, out, finds, faults, serialize_state>>

ExitCleanly ==
    /\ child.pc = "leaving"
    /\ Ends(Exit(0))
    /\ UNCHANGED <<restorer, parent, out, history, faults, serialize_state>>

\* The runner is killed (SIGKILL, for instance when memory runs out), or leaves
\* at once: exit() in the target, SIGTERM, a crash in the crash handler.
Die(how) ==
    /\ faults < MaxFaults
    /\ child.pc # "dead"
    /\ Ends(how)
    /\ faults' = faults + 1
    /\ UNCHANGED <<restorer, parent, out, history, serialize_state>>

\* The steps the runner takes by itself once it is started, crashed or done
ChildStep ==
    \/ RestoreNone \/ RestoreSome \/ RestoreErr \/ Attach
    \/ ResetFile \/ ResetDisk \/ ResetLen
    \/ SaveBegin \/ SaveCreate \/ SaveWrite \/ SaveBuf \/ SaveLen \/ SaveDisk \/ ExitSaved
    \/ ExitingBuf \/ ExitingLen \/ ExitCleanly

Faults ==
    \/ ParentInterrupted \/ AttachFails \/ SaveFails
    \/ \E how \in {Signal(9), Exit(0)} : Die(how)

Terminated ==
    /\ parent \notin {"spawn", "wait"}
    /\ child.pc = "dead"
    /\ UNCHANGED vars

Next ==
    ParentStep \/ ChildStep \/ FindTestcase \/ OnRestart \/ SendExiting \/ Faults \/ Terminated

Spec == Init /\ [][Next]_vars

\* Both processes are scheduled. A runner may fuzz forever, and the
\* surroundings need not fail.
FairSpec == Spec /\ WF_vars(ParentStep) /\ WF_vars(ChildStep)

-----------------------------------------------------------------------------
(* Properties.                                                             *)

InReset == child.pc \in {"unlink", "undisk", "unlen"}
InSave  == child.pc \in {"create", "write", "copy", "len", "disk"}

Maps ==
    [is_disk : BOOLEAN, buf_len : 0..MapSize,
     buf : [kind : {"state", "name"}, of : Contents] \cup {Blank, Magic}]

Runners ==
    [pc : {"dead", "restore", "attach", "unlink", "undisk", "unlen", "run", "save", "create",
           "write", "copy", "len", "disk", "saved", "magic", "magic_len", "leaving"},
     ret : {"run", "save", "magic"}, state : 0..MaxFinds, desc : 0..MaxFinds]

\* Type invariant of the map, the files and the two processes.
TypeOK ==
    /\ content \in Maps
    /\ tmpfiles \in [Contents -> {"absent", "empty", "full"}]
    /\ parent \in {"spawn", "wait", "panic", "oom_panic", "returned", "gone"}
    /\ child \in Runners
    /\ end \in {Exit(0), Exit(1), Exit(134), Signal(9)}
    /\ out \in 0..MaxFinds /\ finds \in 0..MaxFinds /\ exited \in BOOLEAN
    /\ faults \in 0..MaxFaults
    /\ serialize_state \in BOOLEAN

\* launch and on_restart together lose nothing: wherever runners were killed or
\* failed, one that fuzzes has the state all earlier ones reached and writes to
\* the page the client's out map has reached. Otherwise the parent has given up.
ProgressKept ==
    serialize_state /\ child.pc = "run" => child.state = finds /\ child.desc = out

\* Without serialize_state the manager alone is handed on: unless something
\* failed, a respawned runner writes to the page the out map has reached.
DescriptionKept ==
    faults = 0 /\ child.pc = "run" => child.desc = out

\* send_exiting: "informs the restarter/parent process that it should no longer
\* respawn the child"; whenever the runner dies after it, no other follows.
NoRespawnAfterExiting ==
    exited => parent # "spawn" /\ child.pc \in {"leaving", "dead"}

\* reset and save keep the temporary directory tidy: without failures there is
\* exactly the file the map names, complete, and none when it names none.
FilesMatchMap ==
    faults = 0 /\ ~InReset /\ ~InSave =>
        \A c \in Contents :
            tmpfiles[c] = IF content.is_disk /\ content.buf = Buf("name", c)
                          THEN "full" ELSE "absent"

\* A runner that saved its state before it ended is replaced by one that fuzzes,
\* unless the respawner is gone or something fails in between.
RecoversAfterCrash ==
    \A f \in 0..MaxFaults :
        child.pc = "saved" /\ parent = "wait" /\ faults = f ~> child.pc = "run" \/ faults > f

\* A runner that called send_exiting ends the respawner too.
ExitEnds == exited ~> parent \in {"returned", "panic", "oom_panic", "gone"}
=============================================================================

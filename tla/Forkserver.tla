----------------------------- MODULE Forkserver -----------------------------
(***************************************************************************)
(* The fork server protocol, both ends of it: the fuzzer's executors       *)
(* (ForkserverExecutor and TimeoutForkserverExecutor of                    *)
(* libafl/src/executors/forkserver.rs) and the fork server linked into the *)
(* target (libafl_targets/src/forkserver.c), with the processes it forks.  *)
(*                                                                         *)
(* The two talk over two pipes in words of four bytes that say nothing of  *)
(* their kind: hello, options, dictionary, request, pid and status follow  *)
(* from the order alone. A word of the model carries its kind for the      *)
(* properties; the fuzzer and the fork server never look at it.            *)
(***************************************************************************)
EXTENDS Integers, Sequences, FiniteSets

CONSTANTS
    Confs,      \* the set-ups of fuzzer and target that are considered
    MaxRuns,    \* bound: calls of run_target
    PipeSize    \* capacity of a pipe, in the units in which dictionaries are measured

Settings ==
    [persistent : BOOLEAN,   \* the target runs many inputs in one process
     sharedmem  : BOOLEAN,   \* the target has __afl_sharedmem_fuzzing
     dict       : Nat,       \* size of the target's token section, 0 for none
     mapsize    : Nat \ {0}, \* __afl_map_size of the target; mmap wants more than 0
     map        : BOOLEAN,   \* the builder has a shmem_provider
     tokens     : BOOLEAN,   \* the builder has autotokens
     limit      : Nat,       \* the map_size given to the builder, 0 for none
     timed      : BOOLEAN,   \* TimeoutForkserverExecutor, else ForkserverExecutor
     signal     : {"KILL", "TERM"}]  \* what it sends to a child that is too slow

ASSUME ForkserverAssumption ==
    /\ Confs \subseteq Settings
    /\ MaxRuns \in Nat /\ PipeSize \in Nat

VARIABLES
    conf,      \* the set-up, constant
    ctl_pipe,  \* words from the fuzzer to the fork server
    st_pipe,   \* words from the fork server to the fuzzer
    fz,        \* the fuzzer: where it is, the fields of Forkserver and of the builder
    srv,       \* the fork server: where it is, and its locals
    child,     \* the processes it forked, by pid
    ran,       \* history: how the child ended run n
    result,    \* history: what run_target returned for run n
    confused,  \* history: a word was taken for one of another kind
    fault      \* history: the fork server was killed, or a call of it failed

history == <<ran, result, confused, fault>>
vars    == <<conf, ctl_pipe, st_pipe, fz, srv, child, history>>

Runs == 0..MaxRuns   \* 0: no input was written yet
Pids == 1..MaxRuns + 1

Word(k, v) == [kind |-> k, val |-> v]

-----------------------------------------------------------------------------
(* The status word that the fork server starts with.                       *)

FS_OPT_MAX_MAPSIZE == 8388608

FS_OPT_SET_MAPSIZE(x) ==
    IF x <= 1 \/ x > FS_OPT_MAX_MAPSIZE THEN 0 ELSE (x - 1) * 2

fs_opt_get_mapsize(x) == x \div 2 + 1

Hello ==
    LET opts == {o \in {"MAPSIZE", "AUTODICT", "SHDMEM_FUZZ"} :
                   \/ o = "MAPSIZE" /\ conf.mapsize <= FS_OPT_MAX_MAPSIZE
                   \/ o = "AUTODICT" /\ conf.dict # 0
                   \/ o = "SHDMEM_FUZZ" /\ conf.sharedmem}
    IN  Word("hello",
             [opts |-> IF opts = {} THEN {} ELSE opts \cup {"ENABLED"},
              size |-> FS_OPT_SET_MAPSIZE(conf.mapsize)])

\* FS_OPT_ERROR has the bits of these options, and 0x8f and the error's number
\* where a hello has the map size. FS_ERROR_SHM_OPEN, 4, is the error.
ErrorWord ==
    Word("error", [opts |-> {"ENABLED", "MAPSIZE", "AUTODICT"}, size |-> 4 * 256 + 142])

\* What the fuzzer makes of the word it has read as the pid
PositivePid(w) == w.kind # "error" /\ ~(w.kind = "status" /\ w.val = "exited")

-----------------------------------------------------------------------------
Init ==
    /\ conf \in Confs
    /\ ctl_pipe = <<>> /\ st_pipe = <<>>
    /\ fz = [pc |-> "hello", last_run_timed_out |-> 0, child_pid |-> 0,
             uses_shmem_testcase |-> FALSE, map_size |-> conf.limit,
             has_tokens |-> FALSE, run |-> 0, built |-> FALSE]
    /\ srv = [pc |-> "map_shm", was_killed |-> FALSE, opts |-> {}, fuzz_ptr |-> FALSE,
              already_read_first |-> FALSE, child_stopped |-> FALSE, child_pid |-> 0,
              left |-> 0, status |-> "none"]
    /\ child = [p \in Pids |-> [st |-> "none", run |-> 0]]
    /\ ran = [n \in Runs |-> "none"]
    /\ result = [n \in Runs |-> "none"]
    /\ confused = FALSE /\ fault = FALSE

Gone       == {"done", "error", "panic"}    \* the fuzzer has closed its pipes
SrvDead    == srv.pc = "dead"
Zombie     == {"exited", "crashed", "killed"}
SrvUnchg   == UNCHANGED <<srv, child, ran, fault>>
FzUnchg    == UNCHANGED <<fz, result, confused>>

\* mutant: Forkserver::new keeps the write end of st_pipe
EndOfFileNever == FALSE

\* read_st finds a word, or the end of a pipe that nobody writes to any more.
\* The fuzzer has closed its own write end in Forkserver::new.
CanRead    == st_pipe # <<>>
EndOfFile  == st_pipe = <<>> /\ SrvDead
Take       == st_pipe' = Tail(st_pipe)

\* An error is returned all the way up; the fuzzer ends, and its pipes with it.
FzFails    == fz' = [fz EXCEPT !.pc = "error"]

\* The word is not of the kind that the position in the protocol stands for.
Takes(k)   == confused' = (confused \/ Head(st_pipe).kind \notin {k, "error"})

-----------------------------------------------------------------------------
(* ForkserverExecutorBuilder::build_helper.                                *)

RoundUp(n) == IF n % 64 # 0 THEN ((n + 63) \div 64) * 64 ELSE n

SendStatus(opts) ==
    {"ENABLED"} \cup (IF "SHDMEM_FUZZ" \in opts /\ conf.map THEN {"SHDMEM_FUZZ"} ELSE {})
                \cup (IF "AUTODICT" \in opts /\ conf.tokens THEN {"AUTODICT"} ELSE {})

\* The options in the word read as hello, and what the fuzzer concludes from them
Sized(hello)   == {"ENABLED", "MAPSIZE"} \subseteq hello.opts
MapSize(hello) == RoundUp(fs_opt_get_mapsize(hello.size))
Fits(hello)    == ~Sized(hello) \/ fz.map_size = 0 \/ MapSize(hello) <= fz.map_size
Wanted(hello)  ==
    IF "ENABLED" \in hello.opts /\ hello.opts \cap {"SHDMEM_FUZZ", "AUTODICT"} # {}
    THEN SendStatus(hello.opts) ELSE {"ENABLED"}

\* The map size is taken over, and the options are sent if any is wanted.
BuildReadHello ==
    /\ fz.pc = "hello" /\ CanRead /\ Take /\ Takes("hello")
    /\ LET hello == Head(st_pipe).val
           send  == Wanted(hello)
           next  == [fz EXCEPT
                       !.map_size = IF Sized(hello) THEN MapSize(hello) ELSE @,
                       !.uses_shmem_testcase = "SHDMEM_FUZZ" \in send]
       IN  /\ Fits(hello)
           /\ \/ /\ send = {"ENABLED"}
                 /\ fz' = [next EXCEPT !.pc = "idle", !.built = TRUE]
                 /\ UNCHANGED ctl_pipe
              \/ /\ send # {"ENABLED"} /\ ~SrvDead
                 /\ fz' = [next EXCEPT !.pc = IF "AUTODICT" \in send THEN "dict_size" ELSE "sent"]
                 /\ ctl_pipe' = Append(ctl_pipe, Word("options", send))
              \/ /\ send # {"ENABLED"} /\ SrvDead
                 /\ fz' = [next EXCEPT !.pc = "error"]
                 /\ UNCHANGED ctl_pipe
    /\ SrvUnchg /\ UNCHANGED <<conf, result>>

\* assert!: the map of the target is larger than the builder was told.
BuildMapTooSmall ==
    /\ fz.pc = "hello" /\ CanRead /\ Take /\ Takes("hello")
    /\ ~Fits(Head(st_pipe).val)
    /\ fz' = [fz EXCEPT !.pc = "panic"]
    /\ SrvUnchg /\ UNCHANGED <<conf, ctl_pipe, result>>

\* Without a dictionary to come the options were the last word.
BuildEnds ==
    /\ fz.pc = "sent"
    /\ fz' = [fz EXCEPT !.pc = "idle", !.built = TRUE]
    /\ SrvUnchg /\ UNCHANGED <<conf, ctl_pipe, st_pipe, result, confused>>

MaxDict == 16777215   \* 0xffffff

\* mutant: off by one
LegalDictLonger(n) == n \in 3..MaxDict

LegalDict(n) == n \in 2..MaxDict

BuildReadDictSize ==
    /\ fz.pc = "dict_size" /\ CanRead /\ Take /\ Takes("dict_size")
    /\ fz' = [fz EXCEPT !.pc =
                IF Head(st_pipe).kind = "dict_size" /\ LegalDict(Head(st_pipe).val)
                THEN "dict" ELSE "error"]
    /\ SrvUnchg /\ UNCHANGED <<conf, ctl_pipe, result>>

\* One read of all the bytes: it returns what is there. The dictionary has the
\* pipe for itself until it has been read.
BuildReadDict ==
    /\ fz.pc = "dict" /\ CanRead
    /\ confused' = (confused \/ \E i \in DOMAIN st_pipe : st_pipe[i].kind # "dict")
    /\ st_pipe' = <<>>
    /\ IF Len(st_pipe) = conf.dict
       THEN fz' = [fz EXCEPT !.pc = "idle", !.built = TRUE, !.has_tokens = TRUE]
       ELSE FzFails
    /\ SrvUnchg /\ UNCHANGED <<conf, ctl_pipe, result>>

-----------------------------------------------------------------------------
(* run_target of the two executors.                                        *)

\* The input goes to the shared map or to the file, then a process is asked for.
\* Writing to a pipe that nobody reads is an error.
RunTarget ==
    /\ fz.pc = "idle" /\ fz.run < MaxRuns
    /\ IF SrvDead
       THEN /\ fz' = [fz EXCEPT !.pc = "error", !.run = @ + 1]
            /\ UNCHANGED ctl_pipe
       ELSE /\ fz' = [fz EXCEPT !.pc = "pid", !.run = @ + 1,
                        !.last_run_timed_out = IF conf.timed THEN 0 ELSE @]
            /\ ctl_pipe' = Append(ctl_pipe, Word("request", fz.last_run_timed_out))
    /\ SrvUnchg /\ UNCHANGED <<conf, st_pipe, result, confused>>

\* An input of more than MAX_FILE bytes: the slices copied in the shared map differ
\* in length (ForkserverExecutor) or end outside of it (TimeoutForkserverExecutor).
RunTargetTooLong ==
    /\ fz.pc = "idle" /\ fz.run < MaxRuns /\ fz.uses_shmem_testcase
    /\ fz' = [fz EXCEPT !.pc = "panic", !.run = @ + 1]
    /\ SrvUnchg /\ UNCHANGED <<conf, ctl_pipe, st_pipe, result, confused>>

ReadPid ==
    /\ fz.pc = "pid" /\ CanRead /\ Take /\ Takes("pid")
    /\ IF PositivePid(Head(st_pipe))
       THEN fz' = [fz EXCEPT !.pc = "status",
                     !.child_pid = IF Head(st_pipe).kind = "pid" THEN Head(st_pipe).val ELSE 0]
       ELSE FzFails
    /\ SrvUnchg /\ UNCHANGED <<conf, ctl_pipe, result>>

Returns(kind) ==
    /\ fz' = [fz EXCEPT !.pc = "idle", !.child_pid = 0]
    /\ result' = [result EXCEPT ![fz.run] = kind]

\* WIFSIGNALED of the status: a child that exited or stopped was fine.
ReadStatus ==
    /\ fz.pc = "status" /\ CanRead /\ Take /\ Takes("status")
    /\ Returns(IF Head(st_pipe).val \in {"crashed", "killed"} THEN "Crash" ELSE "Ok")
    /\ SrvUnchg /\ UNCHANGED <<conf, ctl_pipe>>

\* read_st_timed: pselect came back with nothing to read.
TimesOut ==
    /\ fz.pc = "status" /\ conf.timed /\ ~CanRead /\ ~SrvDead
    /\ fz' = [fz EXCEPT !.pc = "kill", !.last_run_timed_out = 1]
    /\ SrvUnchg /\ UNCHANGED <<conf, ctl_pipe, st_pipe, result, confused>>

\* A stopped process dies of SIGKILL alone; another signal waits until it continues.
Kill ==
    /\ fz.pc = "kill"
    /\ fz' = [fz EXCEPT !.pc = "killed"]
    /\ LET p == fz.child_pid
           dies == p \in Pids /\ (\/ child[p].st = "running"
                                  \/ child[p].st = "stopped" /\ conf.signal = "KILL")
       IN  /\ child' = IF dies THEN [child EXCEPT ![p].st = "killed"] ELSE child
           /\ ran' = IF dies /\ child[p].st = "running"
                     THEN [ran EXCEPT ![child[p].run] = "killed"] ELSE ran
    /\ UNCHANGED <<conf, ctl_pipe, st_pipe, srv, result, confused, fault>>

\* mutant: the status is judged as after any other run
ReadKilledAsStatus ==
    /\ fz.pc = "killed" /\ CanRead /\ Take /\ Takes("status")
    /\ Returns(IF Head(st_pipe).val \in {"crashed", "killed"} THEN "Crash" ELSE "Timeout")
    /\ SrvUnchg /\ UNCHANGED <<conf, ctl_pipe>>

\* mutant: the status is left in the pipe
ReadKilledLater ==
    /\ fz.pc = "killed" /\ Returns("Timeout")
    /\ SrvUnchg /\ UNCHANGED <<conf, ctl_pipe, st_pipe, confused>>

ReadKilled ==
    /\ fz.pc = "killed" /\ CanRead /\ Take /\ Takes("status")
    /\ Returns("Timeout")
    /\ SrvUnchg /\ UNCHANGED <<conf, ctl_pipe>>

\* A read of fewer than four bytes
ReadFails ==
    /\ fz.pc \in {"hello", "dict_size", "dict", "pid", "status", "killed"} /\ EndOfFile
    /\ FzFails
    /\ SrvUnchg /\ UNCHANGED <<conf, ctl_pipe, st_pipe, result, confused>>

\* The fuzzer has had enough, and drops the executor and its pipes.
DropExecutor ==
    /\ fz.pc = "idle"
    /\ fz' = [fz EXCEPT !.pc = "done"]
    /\ SrvUnchg /\ UNCHANGED <<conf, ctl_pipe, st_pipe, result, confused>>

Fuzzer ==
    \/ BuildReadHello \/ BuildMapTooSmall \/ BuildEnds \/ BuildReadDictSize
    \/ BuildReadDict \/ RunTarget \/ RunTargetTooLong \/ ReadPid \/ ReadStatus \/ TimesOut \/ Kill
    \/ ReadKilled \/ ReadFails \/ DropExecutor

-----------------------------------------------------------------------------
(* The fork server.                                                        *)

Goto(pc)      == srv' = [srv EXCEPT !.pc = pc]
\* A word for the fuzzer; the fork server dies of writing to a closed pipe.
Tell(w, next) ==
    IF fz.pc \in Gone
    THEN srv' = [next EXCEPT !.pc = "dead"] /\ UNCHANGED st_pipe
    ELSE srv' = next /\ st_pipe' = Append(st_pipe, w)
ChildUnchg    == UNCHANGED <<child, ran>>

\* __afl_map_shm
MapShm ==
    /\ srv.pc = "map_shm" /\ Goto("start")
    /\ ChildUnchg /\ FzUnchg /\ UNCHANGED <<conf, ctl_pipe, st_pipe, fault>>

\* send_forkserver_error, exit(1)
Fails ==
    /\ Tell(ErrorWord, [srv EXCEPT !.pc = "dead"])
    /\ fault' = TRUE
    /\ ChildUnchg /\ FzUnchg /\ UNCHANGED <<conf, ctl_pipe>>

MapShmFails == srv.pc = "map_shm" /\ Fails

StartForkserver ==
    /\ srv.pc = "start"
    /\ Tell(Hello, [srv EXCEPT !.pc =
                      IF conf.sharedmem \/ conf.dict # 0 THEN "options" ELSE "loop"])
    /\ ChildUnchg /\ FzUnchg /\ UNCHANGED <<conf, ctl_pipe, fault>>

\* The options a word asks for; a request has none of these bits
Asked(w) == IF w.kind = "options" THEN w.val ELSE {}
\* was_killed is the word last read, as a truth value
Nonzero(w) == w.kind = "options" \/ w.val # 0

ReadOptions ==
    /\ srv.pc = "options" /\ ctl_pipe # <<>>
    /\ ctl_pipe' = Tail(ctl_pipe)
    /\ LET w == Head(ctl_pipe)
       IN  srv' = [srv EXCEPT !.was_killed = Nonzero(w), !.opts = Asked(w),
                     !.pc = IF {"ENABLED", "SHDMEM_FUZZ"} \subseteq Asked(w)
                            THEN "map_input" ELSE "send_dict"]
    /\ ChildUnchg /\ FzUnchg /\ UNCHANGED <<conf, st_pipe, fault>>

\* map_input_shared_memory
MapInput ==
    /\ srv.pc = "map_input"
    /\ srv' = [srv EXCEPT !.fuzz_ptr = TRUE, !.pc = "send_dict"]
    /\ ChildUnchg /\ FzUnchg /\ UNCHANGED <<conf, ctl_pipe, st_pipe, fault>>

MapInputFails == srv.pc = "map_input" /\ Fails

\* The length of the dictionary, if it was asked for. If not, the word that was
\* read may have been the first request.
SendDictSize ==
    /\ srv.pc = "send_dict"
    /\ IF {"ENABLED", "AUTODICT"} \subseteq srv.opts /\ conf.dict # 0
       THEN Tell(Word("dict_size", conf.dict), [srv EXCEPT !.pc = "dict", !.left = conf.dict])
       ELSE /\ srv' = [srv EXCEPT !.pc = "loop", !.already_read_first = ~srv.fuzz_ptr]
            /\ UNCHANGED st_pipe
    /\ ChildUnchg /\ FzUnchg /\ UNCHANGED <<conf, ctl_pipe, fault>>

\* Each write takes what fits in the pipe.
SendDict ==
    /\ srv.pc = "dict"
    /\ LET Least(a, b) == IF a < b THEN a ELSE b
           n == Least(srv.left, PipeSize - Len(st_pipe))
       IN  /\ n > 0 \/ fz.pc \in Gone
           /\ IF fz.pc \in Gone
              THEN Goto("dead") /\ UNCHANGED st_pipe
              ELSE /\ st_pipe' = st_pipe \o [i \in 1..n |-> Word("dict", i)]
                   /\ srv' = [srv EXCEPT !.left = @ - n,
                                !.pc = IF srv.left = n THEN "loop" ELSE "dict"]
    /\ ChildUnchg /\ FzUnchg /\ UNCHANGED <<conf, ctl_pipe, fault>>

ReadRequest ==
    /\ srv.pc = "loop"
    /\ IF srv.already_read_first
       THEN srv' = [srv EXCEPT !.already_read_first = FALSE, !.pc = "requested"] /\ UNCHANGED ctl_pipe
       ELSE /\ ctl_pipe # <<>>
            /\ srv' = [srv EXCEPT !.was_killed = Nonzero(Head(ctl_pipe)), !.pc = "requested"]
            /\ ctl_pipe' = Tail(ctl_pipe)
    /\ ChildUnchg /\ FzUnchg /\ UNCHANGED <<conf, st_pipe, fault>>

\* read returns 0: the fuzzer is gone.
SrvExits ==
    /\ srv.pc \in {"options", "loop"} /\ ~srv.already_read_first
    /\ ctl_pipe = <<>> /\ fz.pc \in Gone
    /\ Goto("dead")
    /\ ChildUnchg /\ FzUnchg /\ UNCHANGED <<conf, ctl_pipe, st_pipe, fault>>

\* A stopped child that was killed since is written off.
WriteOff ==
    /\ srv.pc = "requested" /\ srv.child_stopped /\ srv.was_killed
    /\ child[srv.child_pid].st \in Zombie
    /\ child' = [child EXCEPT ![srv.child_pid].st = "reaped"]
    /\ srv' = [srv EXCEPT !.child_stopped = FALSE]
    /\ FzUnchg /\ UNCHANGED <<conf, ctl_pipe, st_pipe, ran, fault>>

\* fork(): the child runs the input it finds.
Fork ==
    /\ srv.pc = "requested" /\ ~srv.child_stopped
    /\ \E p \in Pids :
         /\ child[p].st = "none" /\ \A q \in Pids : q < p => child[q].st # "none"
         /\ child' = [child EXCEPT ![p] = [st |-> "running", run |-> fz.run]]
         /\ srv' = [srv EXCEPT !.pc = "write_pid", !.child_pid = p]
    /\ FzUnchg /\ UNCHANGED <<conf, ctl_pipe, st_pipe, ran, fault>>

ForkFails ==
    /\ srv.pc = "requested" /\ ~srv.child_stopped
    /\ Goto("dead") /\ fault' = TRUE
    /\ ChildUnchg /\ FzUnchg /\ UNCHANGED <<conf, ctl_pipe, st_pipe>>

\* mutant: a stopped child is continued, killed or not
ContinueKilled ==
    /\ srv.pc = "requested" /\ srv.child_stopped
    /\ child' = IF child[srv.child_pid].st = "stopped"
                THEN [child EXCEPT ![srv.child_pid] = [st |-> "running", run |-> fz.run]]
                ELSE child
    /\ srv' = [srv EXCEPT !.pc = "write_pid", !.child_stopped = FALSE]
    /\ FzUnchg /\ UNCHANGED <<conf, ctl_pipe, st_pipe, ran, fault>>

\* SIGCONT to a stopped child
Continue ==
    /\ srv.pc = "requested" /\ srv.child_stopped /\ ~srv.was_killed
    /\ child' = IF child[srv.child_pid].st = "stopped"
                THEN [child EXCEPT ![srv.child_pid] = [st |-> "running", run |-> fz.run]]
                ELSE child
    /\ srv' = [srv EXCEPT !.pc = "write_pid", !.child_stopped = FALSE]
    /\ FzUnchg /\ UNCHANGED <<conf, ctl_pipe, st_pipe, ran, fault>>

WritePid ==
    /\ srv.pc = "write_pid"
    /\ Tell(Word("pid", srv.child_pid), [srv EXCEPT !.pc = "wait"])
    /\ ChildUnchg /\ FzUnchg /\ UNCHANGED <<conf, ctl_pipe, fault>>

\* waitpid, with WUNTRACED for a persistent target
WaitChild ==
    /\ srv.pc = "wait"
    /\ LET p == srv.child_pid
           s == child[p].st
       IN  /\ s \in Zombie \/ (s = "stopped" /\ conf.persistent)
           /\ srv' = [srv EXCEPT !.pc = "write_status", !.status = s,
                        !.child_stopped = (s = "stopped") \/ @]
           /\ child' = IF s \in Zombie THEN [child EXCEPT ![p].st = "reaped"] ELSE child
    /\ FzUnchg /\ UNCHANGED <<conf, ctl_pipe, st_pipe, ran, fault>>

WriteStatus ==
    /\ srv.pc = "write_status"
    /\ Tell(Word("status", srv.status), [srv EXCEPT !.pc = "loop"])
    /\ ChildUnchg /\ FzUnchg /\ UNCHANGED <<conf, ctl_pipe, fault>>

\* at_exit on SIGTERM takes the child along; SIGKILL does not.
SrvTerminated(takes) ==
    /\ srv.pc \notin {"map_shm", "start", "dead"} /\ ~fault
    /\ Goto("dead") /\ fault' = TRUE
    /\ LET p == srv.child_pid
           kills == takes /\ p # 0 /\ child[p].st \in {"running", "stopped"}
       IN  /\ child' = IF kills THEN [child EXCEPT ![p].st = "killed"] ELSE child
           /\ ran' = IF kills /\ child[p].st = "running"
                     THEN [ran EXCEPT ![child[p].run] = "killed"] ELSE ran
    /\ FzUnchg /\ UNCHANGED <<conf, ctl_pipe, st_pipe>>

Server ==
    \/ MapShm \/ StartForkserver \/ ReadOptions \/ MapInput \/ SendDictSize \/ SendDict
    \/ ReadRequest \/ SrvExits \/ WriteOff \/ Fork \/ Continue \/ WritePid \/ WaitChild
    \/ WriteStatus
ServerFaults ==
    \/ MapShmFails \/ MapInputFails \/ ForkFails
    \/ \E takes \in BOOLEAN : SrvTerminated(takes)

-----------------------------------------------------------------------------
(* The child runs the target: external. It ends, crashes, stops itself at  *)
(* the end of a run if it is persistent, or never ends.                    *)
ChildEnds(p, st) ==
    /\ child[p].st = "running"
    /\ st = "stopped" => conf.persistent
    /\ child' = [child EXCEPT ![p].st = st]
    /\ ran' = [ran EXCEPT ![child[p].run] = IF st = "crashed" THEN "crash" ELSE "ok"]
    /\ FzUnchg /\ UNCHANGED <<conf, ctl_pipe, st_pipe, srv, fault>>

Child == \E p \in Pids, st \in {"exited", "crashed", "stopped"} : ChildEnds(p, st)

\* Nobody is left to do anything.
Over == fz.pc \in Gone /\ SrvDead /\ UNCHANGED vars

Next == Fuzzer \/ Server \/ ServerFaults \/ Child \/ Over

Spec == Init /\ [][Next]_vars

\* The fuzzer and the fork server are processes that run when they can, and
\* pselect comes back when its time is over. The child owes nothing, the fuzzer
\* need not start a run.
FzProceeds == Fuzzer /\ fz.pc # "idle"
FairSpec == Spec /\ WF_vars(FzProceeds) /\ WF_vars(Server)

-----------------------------------------------------------------------------
(* Properties.                                                             *)

\* No word is ever taken for one of another kind, whatever options the two sides have
\* in common, whatever is killed and whenever it times out: read_st gets a pid
\* after a request, then the status of that process, and the fork server never takes
\* options for a request.
WordsInPlace ==
    /\ ~confused
    /\ srv.pc = "loop" => \A i \in DOMAIN ctl_pipe : ctl_pipe[i].kind = "request"

\* What run_target returns is what became of this very input: Ok if the child finished
\* it, Crash if the child died of it by itself, Timeout only once its run is over. The
\* signal sent to a slow child is never reported as a crash, of this or of the next
\* input.
ResultsAreTrue ==
    \A n \in Runs :
        /\ result[n] = "Ok" => ran[n] = "ok"
        /\ result[n] = "Crash" => ran[n] = "crash"
        /\ result[n] = "Timeout" => ran[n] # "none"

\* The child runs the input that run_target wrote and no other: between two calls no
\* child runs, under whose eyes the next input would be written; the process that
\* run_target waits for and kills is the one that has the present input, not one that
\* was killed or reaped before; and it looks for the input where the fuzzer writes it.
ChildHasThisInput ==
    /\ fz.pc \in {"idle", "done"} => \A p \in Pids : child[p].st # "running"
    /\ fz.pc \in {"status", "kill"} =>
         fz.child_pid = srv.child_pid /\ child[fz.child_pid].run = fz.run
    /\ \A p \in Pids : child[p].st = "running" => srv.fuzz_ptr = fz.uses_shmem_testcase

\* build fails only for a reason: a fault, a dictionary that is too short, too long or
\* needs more than one read, a map that in whole cache lines is larger than was
\* announced. If it succeeds, the fuzzer's idea of the coverage map covers the target's,
\* in whole cache lines, unless the map is larger than an option word can say.
BuildAgrees ==
    /\ ~fz.built /\ fz.pc \in Gone =>
        \/ fault
        \/ /\ fz.pc = "error" /\ conf.tokens
           /\ conf.dict = 1 \/ conf.dict >= PipeSize \/ conf.dict > MaxDict
        \/ fz.pc = "panic" /\ conf.limit \in 1..64 * ((conf.mapsize + 63) \div 64) - 1
    /\ fz.built /\ ~fault /\ conf.mapsize \in 1..FS_OPT_MAX_MAPSIZE =>
        fz.map_size % 64 = 0 /\ fz.map_size - conf.mapsize \in 0..63

\* Every call of the fuzzer comes back, also if the target hangs, a call of the fork
\* server fails or it is told to end after its hello (SrvTerminated): build in any case,
\* run_target if it has a timeout. And the fork server does not outlive a fuzzer that drops
\* its executor.
CallsReturn ==
    /\ (fz.pc # "idle" /\ (fz.built => conf.timed)) ~> (fz.pc \in {"idle"} \cup Gone)
    /\ (fz.pc \in Gone) ~> SrvDead
=============================================================================

-------------------------- MODULE ForkserverProofs --------------------------
(***************************************************************************)
(* Proofs about Forkserver, for every set-up of fuzzer and target, any     *)
(* capacity of the pipes and any number of runs: the two ends agree on what *)
(* each word is, results are true, a child has the input it is asked to    *)
(* run, and build fails only for a reason.                                 *)
(***************************************************************************)
EXTENDS Forkserver, SequenceTheorems, TLAPS

AllOpts == {"ENABLED", "MAPSIZE", "AUTODICT", "SHDMEM_FUZZ"}
Statuses == Zombie \cup {"stopped"}

Words ==
    [kind : {"hello", "error"}, val : [opts : SUBSET AllOpts, size : Nat]]
        \cup [kind : {"options"}, val : SUBSET AllOpts]
        \cup [kind : {"request"}, val : {0, 1}]
        \cup [kind : {"pid"}, val : Pids]
        \cup [kind : {"status"}, val : Statuses]
        \cup [kind : {"dict_size", "dict"}, val : Nat]

FzPcs ==
    {"hello", "dict_size", "dict", "sent", "idle", "pid", "status", "kill", "killed"} \cup Gone

SrvPcs ==
    {"map_shm", "start", "options", "map_input", "send_dict", "dict", "loop", "requested",
     "write_pid", "wait", "write_status", "dead"}

FzTypes ==
    [pc : FzPcs, last_run_timed_out : {0, 1}, child_pid : Pids \cup {0},
     uses_shmem_testcase : BOOLEAN, map_size : Nat, has_tokens : BOOLEAN, run : Runs,
     built : BOOLEAN]

SrvTypes ==
    [pc : SrvPcs, was_killed : BOOLEAN, opts : SUBSET AllOpts, fuzz_ptr : BOOLEAN,
     already_read_first : BOOLEAN, child_stopped : BOOLEAN, child_pid : Pids \cup {0},
     left : Nat, status : Statuses \cup {"none"}]

ChildTypes == [st : {"none", "running", "reaped"} \cup Statuses, run : Runs]

PipeTypes == ctl_pipe \in Seq(Words) /\ st_pipe \in Seq(Words)

HistoryTypes ==
    /\ ran \in [Runs -> {"none", "ok", "crash", "killed"}]
    /\ result \in [Runs -> {"none", "Ok", "Crash", "Timeout"}]
    /\ confused \in BOOLEAN /\ fault \in BOOLEAN

Types ==
    /\ conf \in Settings
    /\ PipeTypes
    /\ fz \in FzTypes
    /\ srv \in SrvTypes
    /\ child \in [Pids -> ChildTypes]
    /\ HistoryTypes

-----------------------------------------------------------------------------
\* What the fuzzer will ask for, and the word it does so with
WantsMap  == conf.sharedmem /\ conf.map
WantsDict == conf.dict # 0 /\ conf.tokens
OptionsWord == Word("options", Wanted(Hello.val))

One(pipe, w) == Len(pipe) = 1 /\ pipe[1] = w
None(pipe)   == Len(pipe) = 0

\* The words from some position on are of the dictionary
DictFrom(i) == \A k \in DOMAIN st_pipe : k >= i => st_pipe[k].kind = "dict"

\* What is on its way to the fuzzer, by what the fuzzer waits for
Incoming ==
    LET Failed == One(st_pipe, ErrorWord) /\ SrvDead
    IN  /\ fz.pc = "hello" => None(st_pipe) \/ One(st_pipe, Hello) \/ Failed
        /\ fz.pc = "dict_size" =>
              \/ None(st_pipe) \/ Failed
              \/ st_pipe[1] = Word("dict_size", conf.dict) /\ DictFrom(2)
        /\ fz.pc = "dict" => DictFrom(1)
        /\ fz.pc \in {"sent", "idle"} => None(st_pipe) \/ Failed
        /\ fz.pc = "pid" =>
              \/ None(st_pipe) \/ Failed
              \/ /\ Len(st_pipe) \in 1..2 /\ srv.child_pid # 0
                 /\ st_pipe[1] = Word("pid", srv.child_pid)
                 /\ child[srv.child_pid].run = fz.run
                 /\ Len(st_pipe) = 2 => st_pipe[2].kind = "status"
        /\ fz.pc \in {"status", "kill", "killed"} =>
              \/ None(st_pipe)
              \/ Len(st_pipe) = 1 /\ st_pipe[1].kind = "status"

\* The request of the present run is on its way to the fork server.
Requesting == fz.pc = "pid" /\ Len(ctl_pipe) = 1 /\ ctl_pipe[1].kind = "request"

\* Where the fuzzer can be, and what is in the pipes, at every position of the fork server
AtStart ==
    srv.pc \in {"map_shm", "start"} => fz.pc = "hello" /\ None(st_pipe) /\ None(ctl_pipe)

AtOptions ==
    srv.pc = "options" =>
        /\ conf.sharedmem \/ conf.dict # 0
        /\ fz.pc \in {"hello", "dict_size", "sent", "idle", "pid"} \cup Gone
        /\ fz.pc = "hello" => One(st_pipe, Hello) /\ None(ctl_pipe)
        /\ fz.pc \in {"dict_size", "sent", "idle", "pid"} => None(st_pipe)
        /\ fz.pc \in {"dict_size", "sent"} => One(ctl_pipe, OptionsWord)
        /\ fz.pc \in {"sent", "idle", "pid"} => ~WantsDict
        /\ fz.pc = "idle" => IF WantsMap THEN One(ctl_pipe, OptionsWord) ELSE None(ctl_pipe)
        /\ fz.pc = "pid" =>
              IF WantsMap
              THEN /\ Len(ctl_pipe) = 2 /\ ctl_pipe[1] = OptionsWord
                   /\ ctl_pipe[2].kind = "request"
              ELSE Requesting
        /\ fz.pc \in Gone =>
              None(ctl_pipe) \/ (One(ctl_pipe, OptionsWord) /\ (WantsMap \/ WantsDict))

AtMapInput ==
    srv.pc \in {"map_input", "send_dict"} =>
        /\ fz.pc \in {"dict_size", "sent", "idle", "pid"} \cup Gone
        /\ fz.pc \notin Gone => None(st_pipe)
        /\ fz.pc \in {"sent", "idle", "pid"} => ~WantsDict
        /\ fz.pc # "pid" => None(ctl_pipe)
        /\ srv.pc = "map_input" => WantsMap
        /\ \/ /\ srv.opts = Wanted(Hello.val) /\ (WantsMap \/ WantsDict)
              /\ fz.pc = "pid" => Requesting
           \/ /\ srv.opts = {} /\ ~WantsMap /\ ~WantsDict
              /\ fz.pc = "pid" /\ None(ctl_pipe)

AtDict ==
    srv.pc = "dict" =>
        /\ fz.pc \in {"dict_size", "dict"} \cup Gone /\ None(ctl_pipe)
        /\ srv.left \in 1..conf.dict
        /\ fz.pc = "dict_size" => Len(st_pipe) = 1 + conf.dict - srv.left
        /\ fz.pc = "dict" => Len(st_pipe) = conf.dict - srv.left
        /\ fz.pc \notin Gone /\ conf.dict < PipeSize => srv.left = conf.dict

AtLoop ==
    srv.pc = "loop" =>
        IF srv.already_read_first
        THEN fz.pc = "pid" /\ None(st_pipe) /\ None(ctl_pipe) /\ srv.child_pid = 0
        ELSE /\ fz.pc = "hello" => One(st_pipe, Hello) /\ ~conf.sharedmem /\ conf.dict = 0
             /\ fz.pc = "dict_size" => Len(st_pipe) = 1 + conf.dict
             /\ fz.pc = "dict" => Len(st_pipe) = conf.dict
             /\ fz.pc \in {"sent", "idle"} => None(st_pipe)
             /\ fz.pc = "pid" => \/ None(st_pipe) /\ Requesting
                                 \/ Len(st_pipe) = 2 /\ None(ctl_pipe)
             /\ fz.pc \in {"status", "kill", "killed"} => Len(st_pipe) = 1
             /\ fz.pc # "pid" => None(ctl_pipe)

AtRun ==
    /\ srv.pc \in {"requested", "write_pid"} =>
          fz.pc = "pid" /\ None(st_pipe) /\ None(ctl_pipe)
    /\ srv.pc \in {"wait", "write_status"} =>
          /\ fz.pc \in {"pid", "status", "kill", "killed"} /\ None(ctl_pipe)
          /\ IF fz.pc = "pid" THEN Len(st_pipe) = 1 ELSE None(st_pipe)

\* The rest of what the two agree on: where the input is, and why one of them is gone
Agreement ==
    /\ fz.pc \in {"dict_size", "dict"} => WantsDict
    /\ fz.pc = "sent" => WantsMap /\ ~WantsDict
    /\ srv.pc \in {"map_shm", "start", "options", "map_input"} => ~srv.fuzz_ptr
    /\ srv.pc \in {"send_dict", "dict", "loop", "requested", "write_pid", "wait", "write_status"} =>
          srv.fuzz_ptr = WantsMap
    /\ srv.pc \notin {"loop", "dead"} => ~srv.already_read_first
    /\ ~SrvDead /\ fz.pc \notin {"hello", "panic"} => fz.uses_shmem_testcase = WantsMap
    /\ srv.child_pid # 0 => srv.fuzz_ptr = fz.uses_shmem_testcase /\ fz.pc # "hello"
    /\ SrvDead => fz.pc \in Gone \/ fault

Positions ==
    AtStart /\ AtOptions /\ AtMapInput /\ AtDict /\ AtLoop /\ AtRun /\ Agreement

-----------------------------------------------------------------------------
\* Only the last child is not reaped, and the fork server knows how it is
Children ==
    LET p == srv.child_pid
    IN  /\ \A q \in Pids : q # p => child[q].st \in {"none", "reaped"}
        /\ srv.pc \in {"map_shm", "start", "options", "map_input", "send_dict", "dict"} =>
              p = 0 /\ ~srv.child_stopped
        /\ p = 0 => ~srv.child_stopped
        /\ srv.pc \in {"loop", "requested", "write_status"} /\ p # 0 =>
              child[p].st \in IF srv.child_stopped THEN {"stopped", "killed"} ELSE {"reaped"}
        /\ srv.pc \in {"write_pid", "wait"} => ~srv.child_stopped
        /\ srv.pc \in {"write_pid", "wait", "write_status"} =>
              p # 0 /\ child[p].run = fz.run /\ child[p].st # "none"
        /\ srv.pc \in {"write_pid", "wait"} => child[p].st # "reaped"
        /\ fz.pc \in {"status", "kill", "killed"} =>
              p # 0 /\ fz.child_pid = p /\ child[p].run = fz.run
        /\ fz.pc \in {"kill", "killed"} => fz.last_run_timed_out = 1
        /\ p # 0 /\ child[p].st = "running" =>
              /\ fz.pc \in {"pid", "status", "kill", "killed", "error"}
              /\ fz.pc = "pid" => Len(st_pipe) < 2
              /\ fz.pc \in {"status", "kill", "killed"} => None(st_pipe)
        \* a stopped child that was killed will be written off
        /\ srv.child_stopped /\ child[p].st = "killed" /\ ~SrvDead =>
              \/ fz.pc \in Gone \cup {"killed"}
              \/ fz.pc = "idle" /\ fz.last_run_timed_out = 1
              \/ fz.pc = "pid" /\ Len(ctl_pipe) = 1 /\ ctl_pipe[1].val = 1
              \/ srv.pc = "requested" /\ srv.was_killed

\* What a status says about the present run
Tells(status) ==
    /\ status \in {"exited", "stopped"} => ran[fz.run] = "ok"
    /\ status = "crashed" => ran[fz.run] = "crash"
    /\ status = "killed" => ran[fz.run] # "none" /\ fz.pc = "killed"
    /\ status # "none"

Outcomes ==
    /\ \A p \in Pids : child[p].run <= fz.run
    /\ \A n \in Runs : n > fz.run => ran[n] = "none"
    /\ \A p \in Pids : child[p].st = "running" => ran[child[p].run] = "none"
    /\ fz.pc = "pid" /\ None(st_pipe)
          /\ srv.pc \notin {"write_pid", "wait", "write_status", "dead"} =>
          ran[fz.run] = "none"
    /\ srv.pc \in {"write_pid", "wait"} =>
          child[srv.child_pid].st = "running" \/ Tells(child[srv.child_pid].st)
    /\ srv.pc = "write_status" => Tells(srv.status)
    /\ fz.pc \in {"pid", "status", "kill", "killed"} =>
          \A i \in DOMAIN st_pipe : st_pipe[i].kind = "status" => Tells(st_pipe[i].val)

-----------------------------------------------------------------------------
\* How far build is, and why it ended
BuildSteps ==
    /\ fz.pc \in {"hello", "dict_size", "dict", "sent"} => ~fz.built
    /\ fz.pc \in {"idle", "pid", "status", "kill", "killed", "done"} => fz.built
    /\ fz.pc = "hello" => fz.map_size = conf.limit
    /\ fz.pc # "hello" /\ (fz.pc \in Gone => fz.built) /\ ~fault
          /\ conf.mapsize \in 1..FS_OPT_MAX_MAPSIZE =>
             fz.map_size % 64 = 0 /\ fz.map_size - conf.mapsize \in 0..63

IInv ==
    /\ Types /\ Incoming /\ Positions /\ Children /\ Outcomes /\ ResultsAreTrue
    /\ BuildSteps /\ BuildAgrees /\ ~confused

-----------------------------------------------------------------------------
(* Pipes.                                                                  *)

\* Reading a word, and writing one
Popped(p, q) ==
    /\ p \in Seq(Words) /\ q \in Seq(Words)
    /\ Len(p) \in Nat \ {0} /\ DOMAIN p = 1..Len(p)
    /\ Head(p) = p[1] /\ p[1] \in Words
    /\ Len(q) = Len(p) - 1 /\ DOMAIN q = 1..Len(q)
    /\ \A i \in 1..Len(q) : q[i] = p[i + 1]

Pushed(p, w, q) ==
    /\ w \in Words /\ q \in Seq(Words)
    /\ Len(p) \in Nat /\ DOMAIN p = 1..Len(p)
    /\ Len(q) = Len(p) + 1 /\ DOMAIN q = 1..Len(q)
    /\ \A i \in 1..Len(p) : q[i] = p[i]
    /\ q[Len(q)] = w

\* Reading a word takes the first one off the pipe.
LEMMA TailPops ==
  ASSUME NEW s \in Seq(Words), s # <<>>
  PROVE  Popped(s, Tail(s))
  BY HeadTailProperties, LenProperties, ElementOfSeq, EmptySeq DEF Popped

\* Writing a word puts it at the end of the pipe.
LEMMA AppendPushes ==
  ASSUME NEW s \in Seq(Words), NEW w \in Words
  PROVE  Pushed(s, w, Append(s, w))
<1>1. Append(s, w) \in Seq(Words)
  BY AppendProperties
<1> QED
  BY <1>1, AppendProperties, LenProperties DEF Pushed

\* A pipe as a sequence: its length, its positions, its words
LEMMA PipeFacts ==
  ASSUME NEW s \in Seq(Words)
  PROVE  /\ Len(s) \in Nat
         /\ DOMAIN s = 1..Len(s)
         /\ s = <<>> <=> Len(s) = 0
         /\ \A i \in 1..Len(s) : s[i] \in Words
  BY EmptySeq, LenProperties, ElementOfSeq

\* What a word of each kind carries
LEMMA WordValues ==
  ASSUME NEW w \in Words
  PROVE  /\ w.kind \in {"hello", "error"} => w.val.opts \in SUBSET AllOpts /\ w.val.size \in Nat
         /\ w.kind = "options" => w.val \in SUBSET AllOpts
         /\ w.kind = "request" => w.val \in {0, 1}
         /\ w.kind = "pid" => w.val \in Pids
         /\ w.kind = "status" => w.val \in Statuses
         /\ w.kind \in {"dict_size", "dict"} => w.val \in Nat
  BY DEF Words

\* Whatever either side writes is a word of the protocol.
LEMMA SentWords ==
  ASSUME Types
  PROVE  /\ Hello \in Words /\ ErrorWord \in Words
         /\ \A opts \in SUBSET AllOpts : Word("options", opts) \in Words
         /\ \A v \in {0, 1} : Word("request", v) \in Words
         /\ \A p \in Pids : Word("pid", p) \in Words
         /\ \A s \in Statuses : Word("status", s) \in Words
         /\ \A n \in Nat : Word("dict_size", n) \in Words /\ Word("dict", n) \in Words
<1>1. Hello.val \in [opts : SUBSET AllOpts, size : Nat] /\ Hello.kind = "hello"
  BY DEF Types, Settings, Hello, Word, FS_OPT_SET_MAPSIZE, AllOpts
<1>2. Hello \in Words
  BY <1>1 DEF Hello, Word, Words
<1> QED
  BY <1>2 DEF Word, Words, ErrorWord, AllOpts

\* What the fuzzer asks for, if it has read the hello
LEMMA WantedHello ==
  ASSUME Types
  PROVE  /\ Wanted(Hello.val) \in SUBSET AllOpts
         /\ "ENABLED" \in Wanted(Hello.val)
         /\ "SHDMEM_FUZZ" \in Wanted(Hello.val) <=> WantsMap
         /\ "AUTODICT" \in Wanted(Hello.val) <=> WantsDict
         /\ Wanted(Hello.val) = {"ENABLED"} <=> ~WantsMap /\ ~WantsDict
<1> DEFINE O == Hello.val.opts
<1>1. /\ O \subseteq AllOpts
      /\ "SHDMEM_FUZZ" \in O <=> conf.sharedmem
      /\ "AUTODICT" \in O <=> conf.dict # 0
      /\ "SHDMEM_FUZZ" \in O \/ "AUTODICT" \in O => "ENABLED" \in O
  BY DEF Types, Settings, Hello, Word, AllOpts
<1> HIDE DEF O
<1>2. Wanted(Hello.val) = IF "ENABLED" \in O /\ O \cap {"SHDMEM_FUZZ", "AUTODICT"} # {}
                          THEN SendStatus(O) ELSE {"ENABLED"}
  BY DEF Wanted, O
<1>3. /\ SendStatus(O) \subseteq AllOpts
      /\ "ENABLED" \in SendStatus(O)
      /\ "SHDMEM_FUZZ" \in SendStatus(O) <=> "SHDMEM_FUZZ" \in O /\ conf.map
      /\ "AUTODICT" \in SendStatus(O) <=> "AUTODICT" \in O /\ conf.tokens
      /\ SendStatus(O) = {"ENABLED"} <=>
            ~("SHDMEM_FUZZ" \in O /\ conf.map) /\ ~("AUTODICT" \in O /\ conf.tokens)
  BY DEF SendStatus, AllOpts
<1> QED
  BY <1>1, <1>2, <1>3 DEF WantsMap, WantsDict, AllOpts

\* The words that the fuzzer takes from its pipe and puts into the other
LEMMA FuzzerReads ==
  ASSUME Types,
         BuildReadHello \/ BuildMapTooSmall \/ BuildReadDictSize \/ ReadPid \/ ReadStatus
            \/ ReadKilled
  PROVE  Popped(st_pipe, st_pipe')
  BY TailPops DEF Types, PipeTypes, BuildReadHello, BuildMapTooSmall, BuildReadDictSize,
     ReadPid, ReadStatus, ReadKilled, CanRead, Take

\* BuildReadDict empties a pipe that had something in it.
LEMMA DictRead ==
  ASSUME Types, BuildReadDict
  PROVE  st_pipe' \in Seq(Words) /\ Len(st_pipe') = 0 /\ Len(st_pipe) \in Nat \ {0}
  BY PipeFacts, EmptySeq DEF Types, PipeTypes, BuildReadDict, CanRead

\* After the true hello, the fuzzer writes what that hello calls for, or nothing.
LEMMA OptionsSent ==
  ASSUME Types, BuildReadHello, One(st_pipe, Hello)
  PROVE  \/ ctl_pipe' = ctl_pipe
         \/ Pushed(ctl_pipe, OptionsWord, ctl_pipe')
<1>1. Head(st_pipe) = Hello
  BY FuzzerReads DEF One, Popped
<1>2. OptionsWord \in Words
  BY SentWords, WantedHello DEF OptionsWord
<1>3. ctl_pipe' = ctl_pipe \/ ctl_pipe' = Append(ctl_pipe, OptionsWord)
  BY <1>1 DEF BuildReadHello, OptionsWord
<1> QED
  BY <1>2, <1>3, AppendPushes DEF Types, PipeTypes

\* RunTarget writes a request that says whether the last run timed out.
LEMMA RequestSent ==
  ASSUME Types, RunTarget, ~SrvDead
  PROVE  Pushed(ctl_pipe, Word("request", fz.last_run_timed_out), ctl_pipe')
<1>1. Word("request", fz.last_run_timed_out) \in Words
  BY SentWords DEF Types, FzTypes
<1>2. ctl_pipe' = Append(ctl_pipe, Word("request", fz.last_run_timed_out))
  BY DEF RunTarget
<1> QED
  BY <1>1, <1>2, AppendPushes DEF Types, PipeTypes

\* The words that the fork server reads
LEMMA ServerReads ==
  ASSUME Types, ReadOptions \/ (ReadRequest /\ ~srv.already_read_first)
  PROVE  Popped(ctl_pipe, ctl_pipe')
  BY TailPops DEF Types, PipeTypes, ReadOptions, ReadRequest

\* What Tell does, for a word of the protocol
LEMMA TellSends ==
  ASSUME Types, NEW w \in Words, NEW next, Tell(w, next)
  PROVE  IF fz.pc \in Gone
         THEN srv' = [next EXCEPT !.pc = "dead"] /\ st_pipe' = st_pipe
         ELSE srv' = next /\ Pushed(st_pipe, w, st_pipe')
  BY AppendPushes DEF Types, PipeTypes, Tell

\* The dictionary, or a part of it
LEMMA DictSent ==
  ASSUME Types, SendDict, fz.pc \notin Gone
  PROVE  LET n == Len(st_pipe') - Len(st_pipe) IN
         /\ st_pipe' \in Seq(Words)
         /\ Len(st_pipe) \in Nat /\ Len(st_pipe') \in Nat
         /\ n > 0 /\ n <= srv.left
         /\ srv.left <= PipeSize - Len(st_pipe) => n = srv.left
         /\ srv' = [srv EXCEPT !.left = @ - n, !.pc = IF srv.left = n THEN "loop" ELSE "dict"]
         /\ \A i \in 1..Len(st_pipe) : st_pipe'[i] = st_pipe[i]
         /\ \A i \in Len(st_pipe) + 1..Len(st_pipe') : st_pipe'[i].kind = "dict"
<1> DEFINE m == IF srv.left < PipeSize - Len(st_pipe) THEN srv.left
                ELSE PipeSize - Len(st_pipe)
           d == [i \in 1..m |-> Word("dict", i)]
<1>1. /\ st_pipe \in Seq(Words) /\ Len(st_pipe) \in Nat /\ srv.left \in Nat
  BY PipeFacts DEF Types, PipeTypes, SrvTypes
<1>2. m \in Nat /\ m > 0
  BY <1>1, ForkserverAssumption DEF SendDict
<1>3. /\ st_pipe' = st_pipe \o d
      /\ srv' = [srv EXCEPT !.left = @ - m, !.pc = IF srv.left = m THEN "loop" ELSE "dict"]
  BY DEF SendDict
<1>4. \A i \in 1..m : Word("dict", i) \in Words
  BY <1>2, SentWords
<1>5. d \in Seq(Words) /\ Len(d) = m /\ \A i \in 1..m : d[i].kind = "dict"
  <2>1. d \in [1..m -> Words] /\ DOMAIN d = 1..m
    BY <1>4
  <2>2. d \in Seq(Words)
    BY <1>2, <2>1
  <2>3. Len(d) = m
    BY <1>2, <2>1, <2>2, LenProperties
  <2> QED
    BY <2>2, <2>3 DEF Word
<1> HIDE DEF m, d
<1>6. /\ st_pipe' \in Seq(Words) /\ Len(st_pipe') = Len(st_pipe) + m
      /\ \A i \in 1..Len(st_pipe) + m :
            st_pipe'[i] = IF i <= Len(st_pipe) THEN st_pipe[i] ELSE d[i - Len(st_pipe)]
  BY <1>1, <1>3, <1>5, ConcatProperties
<1>7. m <= srv.left /\ (srv.left <= PipeSize - Len(st_pipe) => m = srv.left)
  BY <1>1, ForkserverAssumption DEF m
<1>8. m = Len(st_pipe') - Len(st_pipe)
  BY <1>1, <1>2, <1>6
<1>9. \A i \in Len(st_pipe) + 1..Len(st_pipe') : st_pipe'[i].kind = "dict"
  BY <1>1, <1>2, <1>5, <1>6
<1>10. \A i \in 1..Len(st_pipe) : st_pipe'[i] = st_pipe[i]
  BY <1>1, <1>2, <1>6
<1>11. Len(st_pipe') \in Nat
  BY <1>1, <1>2, <1>6
<1> QED
  BY <1>1, <1>2, <1>3, <1>6, <1>7, <1>8, <1>9, <1>10, <1>11

-----------------------------------------------------------------------------
(* Types.                                                                  *)

\* Which end a step leaves alone
LEMMA FuzzerOnly ==
  ASSUME Fuzzer
  PROVE  UNCHANGED <<srv, fault, conf>> /\ (~Kill => UNCHANGED <<child, ran>>)
  BY DEF Fuzzer, BuildReadHello, BuildMapTooSmall, BuildEnds, BuildReadDictSize,
     BuildReadDict, RunTarget, RunTargetTooLong, ReadPid, ReadStatus, TimesOut, Kill,
     ReadKilled, ReadFails, DropExecutor, SrvUnchg

\* The fork server and the target never touch the fuzzer.
LEMMA ServerOnly ==
  ASSUME Server \/ ServerFaults \/ Child
  PROVE  UNCHANGED <<fz, result, confused, conf>>
  BY DEF Server, ServerFaults, Child, MapShm, StartForkserver, ReadOptions, MapInput,
     SendDictSize, SendDict, ReadRequest, SrvExits, WriteOff, Fork, Continue, WritePid,
     WaitChild, WriteStatus, MapShmFails, MapInputFails, ForkFails, SrvTerminated, Fails,
     ChildEnds, FzUnchg

\* The pipes hold words of the protocol.
LEMMA StepPipeTypes == IInv /\ [Next]_vars => PipeTypes'
<1> SUFFICES ASSUME IInv, [Next]_vars PROVE PipeTypes'
  OBVIOUS
<1> USE DEF IInv, Types
<1>1. CASE BuildReadHello
  <2>1. st_pipe' \in Seq(Words)
    BY <1>1, FuzzerReads DEF Popped
  <2>2. CASE One(st_pipe, Hello)
    BY <1>1, <2>1, <2>2, OptionsSent DEF PipeTypes, Pushed
  <2>3. CASE ~One(st_pipe, Hello)
    <3>1. SrvDead
      BY <1>1, <2>3, FuzzerReads DEF BuildReadHello, Incoming, Popped, None
    <3> QED
      BY <1>1, <2>1, <3>1 DEF BuildReadHello, PipeTypes
  <2> QED
    BY <2>2, <2>3
<1>2. CASE BuildMapTooSmall \/ BuildReadDictSize \/ ReadPid \/ ReadStatus \/ ReadKilled
  BY <1>2, FuzzerReads DEF BuildMapTooSmall, BuildReadDictSize, ReadPid, ReadStatus,
     ReadKilled, PipeTypes, Popped
<1>3. CASE BuildReadDict
  BY <1>3, DictRead DEF BuildReadDict, PipeTypes
<1>4. CASE RunTarget
  BY <1>4, RequestSent DEF RunTarget, PipeTypes, Pushed
<1>5. CASE BuildEnds \/ RunTargetTooLong \/ TimesOut \/ Kill \/ ReadFails
              \/ DropExecutor
  BY <1>5 DEF BuildEnds, RunTargetTooLong, TimesOut, Kill, ReadFails, DropExecutor, PipeTypes
<1>6. CASE ReadOptions \/ ReadRequest
  BY <1>6, ServerReads DEF ReadOptions, ReadRequest, PipeTypes, Popped
<1>7. ASSUME NEW w \in Words, NEW next, Tell(w, next), ctl_pipe' = ctl_pipe PROVE PipeTypes'
  BY <1>7, TellSends DEF PipeTypes, Pushed
<1>8. CASE StartForkserver \/ MapShmFails \/ MapInputFails
  BY <1>8, <1>7, SentWords DEF StartForkserver, MapShmFails, MapInputFails, Fails
<1>9. CASE SendDictSize
  <2>1. Word("dict_size", conf.dict) \in Words
    BY SentWords DEF Settings
  <2> QED
    BY <1>9, <1>7, <2>1 DEF SendDictSize, PipeTypes
<1>10. CASE WritePid
  <2>1. Word("pid", srv.child_pid) \in Words
    BY <1>10, SentWords DEF WritePid, SrvTypes, Children
  <2> QED
    BY <1>10, <1>7, <2>1 DEF WritePid
<1>11. CASE WriteStatus
  <2>1. Word("status", srv.status) \in Words
    BY <1>11, SentWords DEF WriteStatus, SrvTypes, Outcomes, Tells
  <2> QED
    BY <1>11, <1>7, <2>1 DEF WriteStatus
<1>12. CASE SendDict
  BY <1>12, DictSent DEF SendDict, PipeTypes
<1>13. CASE MapShm \/ MapInput \/ SrvExits \/ WriteOff \/ Fork \/ Continue \/ WaitChild
               \/ ForkFails \/ (\E takes \in BOOLEAN : SrvTerminated(takes)) \/ Child
  BY <1>13 DEF MapShm, MapInput, SrvExits, WriteOff, Fork, Continue, WaitChild, ForkFails,
     SrvTerminated, Child, ChildEnds, PipeTypes
<1>14. CASE UNCHANGED vars
  BY <1>14 DEF vars, PipeTypes
<1> QED
  BY <1>1, <1>2, <1>3, <1>4, <1>5, <1>6, <1>8, <1>9, <1>10, <1>11, <1>12, <1>13, <1>14
     DEF Next, Fuzzer, Server, ServerFaults, Over

\* The fields of the fuzzer keep their types.
LEMMA StepFzTypes == IInv /\ [Next]_vars => fz' \in FzTypes
<1> SUFFICES ASSUME IInv, [Next]_vars PROVE fz' \in FzTypes
  OBVIOUS
<1> USE DEF IInv, Types, FzTypes, FzPcs, Gone
<1>1. CASE BuildReadHello
  <2> DEFINE h == Head(st_pipe).val
  <2>1. h.opts \in SUBSET AllOpts /\ h.size \in Nat
    BY <1>1, FuzzerReads, WordValues DEF BuildReadHello, Incoming, Popped, None, One, Hello,
       ErrorWord, Word
  <2>2. MapSize(h) \in Nat
    BY <2>1 DEF MapSize, RoundUp, fs_opt_get_mapsize
  <2> DEFINE next == [fz EXCEPT
                        !.map_size = IF Sized(h) THEN MapSize(h) ELSE @,
                        !.uses_shmem_testcase = "SHDMEM_FUZZ" \in Wanted(h)]
  <2>3. next \in FzTypes
    <3>1. ASSUME NEW b \in BOOLEAN, NEW s \in Nat
          PROVE  [fz EXCEPT !.map_size = s, !.uses_shmem_testcase = b] \in FzTypes
      OBVIOUS
    <3>2. ("SHDMEM_FUZZ" \in Wanted(h)) \in BOOLEAN
      OBVIOUS
    <3>3. (IF Sized(h) THEN MapSize(h) ELSE fz.map_size) \in Nat
      BY <2>2
    <3> QED
      BY <3>1, <3>2, <3>3, ZenonT(30)
  <2>4. \/ fz' = [next EXCEPT !.pc = "idle", !.built = TRUE]
        \/ \E pc \in {"dict_size", "sent", "error"} : fz' = [next EXCEPT !.pc = pc]
    BY <1>1 DEF BuildReadHello
  <2> HIDE DEF next
  <2> QED
    BY <2>3, <2>4
<1>2. CASE BuildMapTooSmall \/ BuildReadDictSize \/ BuildReadDict \/ BuildEnds \/ ReadFails
              \/ DropExecutor \/ TimesOut \/ Kill
  BY <1>2, ZenonT(60) DEF BuildMapTooSmall, BuildReadDictSize, BuildReadDict, BuildEnds, ReadFails,
     DropExecutor, TimesOut, Kill, FzFails
<1>3. CASE RunTarget \/ RunTargetTooLong
  <2>1. fz.run + 1 \in Runs
    BY <1>3, ForkserverAssumption DEF RunTarget, RunTargetTooLong, Runs
  <2> QED
    BY <1>3, <2>1, ZenonT(60) DEF RunTarget, RunTargetTooLong
<1>4. CASE ReadPid
  <2>1. Head(st_pipe).kind = "pid" => Head(st_pipe).val \in Pids
    BY <1>4, FuzzerReads, WordValues DEF Popped
  <2> QED
    BY <1>4, <2>1, ZenonT(60) DEF ReadPid, FzFails
<1>5. CASE ReadStatus \/ ReadKilled
  BY <1>5 DEF ReadStatus, ReadKilled, Returns
<1>6. CASE Server \/ ServerFaults \/ Child \/ UNCHANGED vars
  BY <1>6, ServerOnly DEF vars
<1> QED
  BY <1>1, <1>2, <1>3, <1>4, <1>5, <1>6 DEF Next, Fuzzer, Over

\* The locals of the fork server keep their types.
LEMMA StepSrvTypes == IInv /\ [Next]_vars => srv' \in SrvTypes
<1> SUFFICES ASSUME IInv, [Next]_vars PROVE srv' \in SrvTypes
  OBVIOUS
<1> USE DEF IInv, Types, SrvTypes, SrvPcs
<1>1. CASE Fuzzer \/ Child \/ UNCHANGED vars
  BY <1>1, FuzzerOnly DEF vars, Child, ChildEnds
<1>2. ASSUME NEW w, NEW next \in SrvTypes, Tell(w, next) PROVE srv' \in SrvTypes
  BY <1>2 DEF Tell
<1>3. CASE StartForkserver \/ MapShmFails \/ MapInputFails \/ WritePid \/ WriteStatus
  <2>1. /\ [srv EXCEPT !.pc = "options"] \in SrvTypes /\ [srv EXCEPT !.pc = "loop"] \in SrvTypes
        /\ [srv EXCEPT !.pc = "dead"] \in SrvTypes /\ [srv EXCEPT !.pc = "wait"] \in SrvTypes
    OBVIOUS
  <2> HIDE DEF SrvTypes
  <2> QED
    BY <1>3, <1>2, <2>1 DEF StartForkserver, MapShmFails, MapInputFails, WritePid,
       WriteStatus, Fails
<1>4. CASE SendDictSize
  <2>1. [srv EXCEPT !.pc = "dict", !.left = conf.dict] \in SrvTypes
    BY DEF Settings
  <2>2. [srv EXCEPT !.pc = "loop", !.already_read_first = ~srv.fuzz_ptr] \in SrvTypes
    OBVIOUS
  <2> HIDE DEF SrvTypes
  <2> QED
    BY <1>4, <1>2, <2>1, <2>2 DEF SendDictSize
<1>5. CASE ReadOptions
  <2>1. Asked(Head(ctl_pipe)) \in SUBSET AllOpts
    BY <1>5, ServerReads, WordValues DEF Popped, Asked
  <2>2. Nonzero(Head(ctl_pipe)) \in BOOLEAN
    BY DEF Nonzero
  <2> QED
    BY <1>5, <2>1, <2>2 DEF ReadOptions
<1>6. CASE ReadRequest
  <2>2. Nonzero(Head(ctl_pipe)) \in BOOLEAN
    BY DEF Nonzero
  <2> QED
    BY <1>6, <2>2, ZenonT(60) DEF ReadRequest
<1>7. CASE SendDict
  <2>1. CASE fz.pc \in Gone
    BY <1>7, <2>1 DEF SendDict, Goto
  <2>2. CASE fz.pc \notin Gone
    <3> DEFINE n == Len(st_pipe') - Len(st_pipe)
    <3>1. srv.left - n \in Nat
      BY <1>7, <2>2, DictSent
    <3>2. srv' = [srv EXCEPT !.left = @ - n, !.pc = IF srv.left = n THEN "loop" ELSE "dict"]
      BY <1>7, <2>2, DictSent
    <3> HIDE DEF n
    <3> QED
      BY <3>1, <3>2
  <2> QED
    BY <2>1, <2>2
<1>8. CASE MapShm \/ MapInput \/ SrvExits \/ WriteOff \/ Continue \/ ForkFails
              \/ (\E takes \in BOOLEAN : SrvTerminated(takes))
  BY <1>8, ZenonT(60) DEF MapShm, MapInput, SrvExits, WriteOff, Continue, ForkFails,
     SrvTerminated, Goto
<1>10. CASE Fork
  BY <1>10 DEF Fork
<1>9. CASE WaitChild
  BY <1>9 DEF WaitChild, Zombie, Statuses
<1> QED
  BY <1>1, <1>3, <1>4, <1>5, <1>6, <1>7, <1>8, <1>9, <1>10
     DEF Next, Server, ServerFaults, Over

\* The processes keep their types.
LEMMA StepChildTypes == IInv /\ [Next]_vars => (child \in [Pids -> ChildTypes])'
<1> SUFFICES ASSUME IInv, [Next]_vars PROVE (child \in [Pids -> ChildTypes])'
  OBVIOUS
<1> USE DEF IInv, Types, ChildTypes, Statuses, Zombie
<1>1. CASE (Fuzzer /\ ~Kill) \/ UNCHANGED vars
  BY <1>1, FuzzerOnly DEF vars
<1>2. CASE Kill
  BY <1>2 DEF Kill
<1>3. CASE Fork
  BY <1>3 DEF Fork, FzTypes
<1>4. CASE Continue \/ WriteOff \/ WaitChild
  BY <1>4 DEF Continue, WriteOff, WaitChild, FzTypes
<1>5. ASSUME NEW takes \in BOOLEAN, SrvTerminated(takes) PROVE (child \in [Pids -> ChildTypes])'
  BY <1>5 DEF SrvTerminated
<1>6. CASE Child
  BY <1>6 DEF Child, ChildEnds
<1>7. CASE MapShm \/ StartForkserver \/ ReadOptions \/ MapInput \/ SendDictSize \/ SendDict
              \/ ReadRequest \/ SrvExits \/ WritePid \/ WriteStatus \/ MapShmFails
              \/ MapInputFails \/ ForkFails
  BY <1>7 DEF MapShm, StartForkserver, ReadOptions, MapInput, SendDictSize, SendDict,
     ReadRequest, SrvExits, WritePid, WriteStatus, MapShmFails, MapInputFails, ForkFails,
     Fails, ChildUnchg
<1> QED
  BY <1>1, <1>2, <1>3, <1>4, <1>5, <1>6, <1>7 DEF Next, Server, ServerFaults, Over

\* The history variables keep their types.
LEMMA StepHistoryTypes == IInv /\ [Next]_vars => HistoryTypes'
<1> SUFFICES ASSUME IInv, [Next]_vars PROVE HistoryTypes'
  OBVIOUS
<1> USE DEF IInv, Types, HistoryTypes
<1>1. ran' \in [Runs -> {"none", "ok", "crash", "killed"}]
  <2>1. CASE Fuzzer \/ UNCHANGED vars
    BY <2>1, FuzzerOnly DEF vars, history, Kill
  <2>2. CASE Server \/ MapShmFails \/ MapInputFails \/ ForkFails
    BY <2>2 DEF Server, MapShm, StartForkserver, ReadOptions, MapInput, SendDictSize, SendDict,
       ReadRequest, SrvExits, WriteOff, Fork, Continue, WritePid, WaitChild, WriteStatus,
       MapShmFails, MapInputFails, ForkFails, Fails, ChildUnchg
  <2>3. CASE Child \/ \E takes \in BOOLEAN : SrvTerminated(takes)
    BY <2>3 DEF Child, ChildEnds, SrvTerminated
  <2> QED
    BY <2>1, <2>2, <2>3 DEF Next, ServerFaults, Over
<1>2. result' \in [Runs -> {"none", "Ok", "Crash", "Timeout"}]
  <2>1. CASE Fuzzer
    BY <2>1 DEF Fuzzer, BuildReadHello, BuildMapTooSmall, BuildEnds, BuildReadDictSize,
       BuildReadDict, RunTarget, RunTargetTooLong, ReadPid, ReadStatus, TimesOut, Kill,
       ReadKilled, ReadFails, DropExecutor, Returns
  <2> QED
    BY <2>1, ServerOnly DEF Next, Over, vars, history
<1>3. confused' \in BOOLEAN
  <2>1. CASE Fuzzer
    BY <2>1 DEF Fuzzer, BuildReadHello, BuildMapTooSmall, BuildEnds, BuildReadDictSize,
       BuildReadDict, RunTarget, RunTargetTooLong, ReadPid, ReadStatus, TimesOut, Kill,
       ReadKilled, ReadFails, DropExecutor, Takes
  <2> QED
    BY <2>1, ServerOnly DEF Next, Over, vars, history
<1>4. fault' \in BOOLEAN
  <2>1. CASE Server \/ ServerFaults \/ Child
    BY <2>1 DEF Server, MapShm, StartForkserver, ReadOptions, MapInput, SendDictSize, SendDict,
       ReadRequest, SrvExits, WriteOff, Fork, Continue, WritePid, WaitChild, WriteStatus,
       ServerFaults, MapShmFails, MapInputFails, ForkFails, Fails, SrvTerminated, Child, ChildEnds
  <2> QED
    BY <2>1, FuzzerOnly DEF Next, Over, vars, history
<1> QED
  BY <1>1, <1>2, <1>3, <1>4

\* Every step keeps the types.
LEMMA StepTypes == IInv /\ [Next]_vars => Types'
<1> SUFFICES ASSUME IInv, [Next]_vars PROVE Types'
  OBVIOUS
<1>1. conf' = conf
  BY FuzzerOnly, ServerOnly DEF Next, Over, vars
<1> QED
  BY <1>1, StepPipeTypes, StepFzTypes, StepSrvTypes, StepChildTypes, StepHistoryTypes
     DEF Types, IInv

-----------------------------------------------------------------------------
(* The protocol.                                                           *)

\* The set-up never changes, nor what follows from it.
LEMMA SetUpRigid ==
  ASSUME [Next]_vars
  PROVE  /\ conf' = conf
         /\ Hello' = Hello /\ OptionsWord' = OptionsWord
         /\ (Wanted(Hello.val))' = Wanted(Hello.val)
         /\ WantsMap' = WantsMap /\ WantsDict' = WantsDict
<1>1. conf' = conf
  BY FuzzerOnly, ServerOnly DEF Next, Over, vars
<1>2. Hello' = Hello
  BY <1>1 DEF Hello, FS_OPT_SET_MAPSIZE
<1>3. (Wanted(Hello.val))' = Wanted(Hello.val)
  BY <1>1, <1>2 DEF Wanted, SendStatus
<1> QED
  BY <1>1, <1>2, <1>3 DEF OptionsWord, WantsMap, WantsDict

\* Lengths, now and after a step
LEMMA Lengths ==
  ASSUME IInv, [Next]_vars
  PROVE  /\ Len(st_pipe) \in Nat /\ DOMAIN st_pipe = 1..Len(st_pipe)
         /\ Len(ctl_pipe) \in Nat /\ DOMAIN ctl_pipe = 1..Len(ctl_pipe)
         /\ Len(st_pipe') \in Nat /\ DOMAIN st_pipe' = 1..Len(st_pipe')
         /\ Len(ctl_pipe') \in Nat /\ DOMAIN ctl_pipe' = 1..Len(ctl_pipe')
         /\ st_pipe = <<>> <=> Len(st_pipe) = 0
         /\ ctl_pipe = <<>> <=> Len(ctl_pipe) = 0
  BY StepPipeTypes, PipeFacts DEF IInv, Types, PipeTypes

\* The fork server's words, as they reach the pipe
LEMMA ServerWrites ==
  ASSUME IInv
  PROVE  /\ StartForkserver /\ fz.pc \notin Gone => Pushed(st_pipe, Hello, st_pipe')
         /\ MapShmFails \/ MapInputFails =>
               srv'.pc = "dead" /\ (fz.pc \notin Gone => Pushed(st_pipe, ErrorWord, st_pipe'))
         /\ WritePid =>
               /\ fz.pc \notin Gone /\ srv' = [srv EXCEPT !.pc = "wait"]
               /\ Pushed(st_pipe, Word("pid", srv.child_pid), st_pipe')
         /\ WriteStatus =>
               /\ fz.pc \notin Gone /\ srv' = [srv EXCEPT !.pc = "loop"]
               /\ Pushed(st_pipe, Word("status", srv.status), st_pipe')
<1> USE DEF IInv, Types
<1>1. StartForkserver /\ fz.pc \notin Gone => Pushed(st_pipe, Hello, st_pipe')
  BY TellSends, SentWords DEF StartForkserver
<1>2. MapShmFails \/ MapInputFails =>
        srv'.pc = "dead" /\ (fz.pc \notin Gone => Pushed(st_pipe, ErrorWord, st_pipe'))
  <2>1. SUFFICES ASSUME Fails
                 PROVE  /\ srv'.pc = "dead"
                        /\ fz.pc \notin Gone => Pushed(st_pipe, ErrorWord, st_pipe')
    BY DEF MapShmFails, MapInputFails
  <2>2. Tell(ErrorWord, [srv EXCEPT !.pc = "dead"])
    BY <2>1 DEF Fails
  <2>3. IF fz.pc \in Gone
        THEN srv' = [[srv EXCEPT !.pc = "dead"] EXCEPT !.pc = "dead"] /\ st_pipe' = st_pipe
        ELSE srv' = [srv EXCEPT !.pc = "dead"] /\ Pushed(st_pipe, ErrorWord, st_pipe')
    BY <2>2, TellSends, SentWords
  <2> QED
    BY <2>3 DEF SrvTypes
<1>3. WritePid =>
         /\ fz.pc \notin Gone /\ srv' = [srv EXCEPT !.pc = "wait"]
         /\ Pushed(st_pipe, Word("pid", srv.child_pid), st_pipe')
  <2> SUFFICES ASSUME WritePid
               PROVE  /\ fz.pc \notin Gone /\ srv' = [srv EXCEPT !.pc = "wait"]
                      /\ Pushed(st_pipe, Word("pid", srv.child_pid), st_pipe')
    OBVIOUS
  <2>1. Word("pid", srv.child_pid) \in Words
    BY SentWords DEF WritePid, SrvTypes, Children
  <2>2. fz.pc \notin Gone
    BY DEF WritePid, Positions, AtRun, Gone
  <2> QED
    BY <2>1, <2>2, TellSends DEF WritePid
<1>4. WriteStatus =>
         /\ fz.pc \notin Gone /\ srv' = [srv EXCEPT !.pc = "loop"]
         /\ Pushed(st_pipe, Word("status", srv.status), st_pipe')
  <2> SUFFICES ASSUME WriteStatus
               PROVE  /\ fz.pc \notin Gone /\ srv' = [srv EXCEPT !.pc = "loop"]
                      /\ Pushed(st_pipe, Word("status", srv.status), st_pipe')
    OBVIOUS
  <2>1. Word("status", srv.status) \in Words
    BY SentWords DEF WriteStatus, SrvTypes, Outcomes, Tells
  <2>2. fz.pc \notin Gone
    BY DEF WriteStatus, Positions, AtRun, Gone
  <2> QED
    BY <2>1, <2>2, TellSends DEF WriteStatus
<1> QED
  BY <1>1, <1>2, <1>3, <1>4

\* SendDictSize, with its two outcomes
LEMMA DictSizeSent ==
  ASSUME IInv, SendDictSize
  PROVE  IF WantsDict
         THEN IF fz.pc \in Gone
              THEN srv'.pc = "dead" /\ st_pipe' = st_pipe
              ELSE /\ fz.pc = "dict_size"
                   /\ srv' = [srv EXCEPT !.pc = "dict", !.left = conf.dict]
                   /\ Pushed(st_pipe, Word("dict_size", conf.dict), st_pipe')
         ELSE /\ srv' = [srv EXCEPT !.pc = "loop", !.already_read_first = ~srv.fuzz_ptr]
              /\ st_pipe' = st_pipe
<1> USE DEF IInv, Types
<1>1. Word("dict_size", conf.dict) \in Words
  BY SentWords DEF Settings
<1>2. {"ENABLED", "AUTODICT"} \subseteq srv.opts /\ conf.dict # 0 <=> WantsDict
  BY WantedHello DEF SendDictSize, Positions, AtMapInput, WantsDict
<1>3. WantsDict /\ fz.pc \notin Gone => fz.pc = "dict_size"
  BY DEF SendDictSize, Positions, AtMapInput
<1>4. ASSUME WantsDict
      PROVE  IF fz.pc \in Gone
             THEN /\ srv' = [[srv EXCEPT !.pc = "dict", !.left = conf.dict] EXCEPT !.pc = "dead"]
                  /\ st_pipe' = st_pipe
             ELSE /\ srv' = [srv EXCEPT !.pc = "dict", !.left = conf.dict]
                  /\ Pushed(st_pipe, Word("dict_size", conf.dict), st_pipe')
  BY <1>1, <1>2, <1>4, TellSends DEF SendDictSize
<1>5. ~WantsDict => /\ srv' = [srv EXCEPT !.pc = "loop", !.already_read_first = ~srv.fuzz_ptr]
                    /\ st_pipe' = st_pipe
  BY <1>2 DEF SendDictSize
<1> QED
  BY <1>3, <1>4, <1>5 DEF SrvTypes

-----------------------------------------------------------------------------
(* build.                                                                  *)

\* The two limits, without their digits: provers write them out in unary
LEMMA Limits == MaxDict \in Nat /\ FS_OPT_MAX_MAPSIZE \in Nat
  BY SMT DEF MaxDict, FS_OPT_MAX_MAPSIZE

\* The map size that the fuzzer finds in the hello
LEMMA MapSizeOfHello ==
  ASSUME Types
  PROVE  /\ conf.mapsize \in 1..FS_OPT_MAX_MAPSIZE <=> Sized(Hello.val)
         /\ Sized(Hello.val) =>
              LET s == MapSize(Hello.val) IN
              s = 64 * ((conf.mapsize + 63) \div 64) /\ s % 64 = 0 /\ s - conf.mapsize \in 0..63
<1> DEFINE x == conf.mapsize
<1>1. x \in Nat \ {0}
  BY DEF Types, Settings
<1>2. x \in 1..FS_OPT_MAX_MAPSIZE <=> Sized(Hello.val)
  BY <1>1, Limits DEF Sized, Hello, Word
<1>3. Hello.val.size = FS_OPT_SET_MAPSIZE(x)
  BY DEF Hello, Word
<1> HIDE DEF x
<1>4. x \in 1..FS_OPT_MAX_MAPSIZE => fs_opt_get_mapsize(FS_OPT_SET_MAPSIZE(x)) = x
  BY <1>1, Limits DEF fs_opt_get_mapsize, FS_OPT_SET_MAPSIZE
<1>5. RoundUp(x) = 64 * ((x + 63) \div 64)
  BY <1>1 DEF RoundUp
<1>6. RoundUp(x) % 64 = 0 /\ RoundUp(x) - x \in 0..63
  BY <1>1 DEF RoundUp
<1>7. Sized(Hello.val) => MapSize(Hello.val) = RoundUp(x)
  BY <1>2, <1>3, <1>4 DEF MapSize
<1> QED
  BY <1>2, <1>5, <1>6, <1>7 DEF x

\* The fuzzer has read what the fork server says first, and what it does then.
LEMMA HelloRead ==
  ASSUME IInv, [Next]_vars, BuildReadHello
  PROVE  /\ fz.pc = "hello" /\ Len(st_pipe) = 1 /\ Len(st_pipe') = 0
         /\ fz'.run = fz.run /\ fz'.child_pid = fz.child_pid
         /\ fz'.last_run_timed_out = fz.last_run_timed_out
         /\ st_pipe[1] = Hello =>
              /\ fz'.uses_shmem_testcase = WantsMap
              /\ fz'.map_size = IF Sized(Hello.val) THEN MapSize(Hello.val) ELSE fz.map_size
         /\ \/ /\ st_pipe[1] = Hello /\ ~WantsMap /\ ~WantsDict
               /\ fz'.pc = "idle" /\ fz'.built /\ ctl_pipe' = ctl_pipe
            \/ /\ st_pipe[1] = Hello /\ (WantsMap \/ WantsDict) /\ ~SrvDead
               /\ fz'.pc = IF WantsDict THEN "dict_size" ELSE "sent"
               /\ fz'.built = fz.built /\ Pushed(ctl_pipe, OptionsWord, ctl_pipe')
            \/ /\ st_pipe[1] = Hello /\ SrvDead
               /\ fz'.pc = "error" /\ fz'.built = fz.built /\ ctl_pipe' = ctl_pipe
            \/ /\ st_pipe[1] = ErrorWord /\ SrvDead /\ ctl_pipe' = ctl_pipe
               /\ \/ fz'.pc = "error" /\ fz'.built = fz.built
                  \/ fz'.pc = "idle" /\ fz'.built
<1> USE DEF IInv, Types
<1> DEFINE h == Head(st_pipe).val
           send == Wanted(h)
           next == [fz EXCEPT
                      !.map_size = IF Sized(h) THEN MapSize(h) ELSE @,
                      !.uses_shmem_testcase = "SHDMEM_FUZZ" \in send]
<1>1. /\ fz.pc = "hello" /\ Len(st_pipe) = 1 /\ Len(st_pipe') = 0 /\ Head(st_pipe) = st_pipe[1]
      /\ st_pipe[1] = Hello \/ (st_pipe[1] = ErrorWord /\ SrvDead)
  <2>1. fz.pc = "hello"
    BY DEF BuildReadHello
  <2>2. Popped(st_pipe, st_pipe')
    BY FuzzerReads
  <2>3. Len(st_pipe) \in Nat \ {0} /\ Head(st_pipe) = st_pipe[1] /\ Len(st_pipe') = Len(st_pipe) - 1
    BY <2>2 DEF Popped
  <2>4. Len(st_pipe) = 1 /\ (st_pipe[1] = Hello \/ (st_pipe[1] = ErrorWord /\ SrvDead))
    BY <2>1, <2>3 DEF Incoming, None, One
  <2> QED
    BY <2>1, <2>3, <2>4
<1>2. /\ DOMAIN next = DOMAIN fz
      /\ next.map_size = IF Sized(h) THEN MapSize(h) ELSE fz.map_size
      /\ next.uses_shmem_testcase = ("SHDMEM_FUZZ" \in send)
      /\ next.run = fz.run /\ next.child_pid = fz.child_pid /\ next.built = fz.built
      /\ next.last_run_timed_out = fz.last_run_timed_out
      /\ DOMAIN fz = {"pc", "last_run_timed_out", "child_pid", "uses_shmem_testcase",
                      "map_size", "has_tokens", "run", "built"}
  BY DEF FzTypes
<1>3. \/ /\ send = {"ENABLED"}
         /\ fz' = [next EXCEPT !.pc = "idle", !.built = TRUE] /\ ctl_pipe' = ctl_pipe
      \/ /\ send # {"ENABLED"} /\ ~SrvDead
         /\ fz' = [next EXCEPT !.pc = IF "AUTODICT" \in send THEN "dict_size" ELSE "sent"]
         /\ ctl_pipe' = Append(ctl_pipe, Word("options", send))
      \/ /\ send # {"ENABLED"} /\ SrvDead
         /\ fz' = [next EXCEPT !.pc = "error"] /\ ctl_pipe' = ctl_pipe
  BY DEF BuildReadHello
<1> HIDE DEF next
<1>4. /\ fz'.run = fz.run /\ fz'.child_pid = fz.child_pid
      /\ fz'.last_run_timed_out = fz.last_run_timed_out
      /\ fz'.map_size = next.map_size /\ fz'.uses_shmem_testcase = next.uses_shmem_testcase
      /\ \/ /\ send = {"ENABLED"} /\ fz'.pc = "idle" /\ fz'.built /\ ctl_pipe' = ctl_pipe
         \/ /\ send # {"ENABLED"} /\ ~SrvDead
            /\ fz'.pc = IF "AUTODICT" \in send THEN "dict_size" ELSE "sent"
            /\ fz'.built = fz.built
            /\ ctl_pipe' = Append(ctl_pipe, Word("options", send))
         \/ /\ send # {"ENABLED"} /\ SrvDead
            /\ fz'.pc = "error" /\ fz'.built = fz.built /\ ctl_pipe' = ctl_pipe
  BY <1>2, <1>3
<1> HIDE DEF send, h
<1>5. st_pipe[1] = Hello => h = Hello.val /\ send = Wanted(Hello.val)
  BY <1>1 DEF h, send
<1>6. st_pipe[1] = Hello =>
        /\ fz'.uses_shmem_testcase = WantsMap
        /\ fz'.map_size = IF Sized(Hello.val) THEN MapSize(Hello.val) ELSE fz.map_size
  <2>1. WantsMap \in BOOLEAN /\ ("SHDMEM_FUZZ" \in send) \in BOOLEAN
    BY DEF WantsMap, Settings
  <2>2. st_pipe[1] = Hello => ("SHDMEM_FUZZ" \in send <=> WantsMap)
    BY <1>5, WantedHello, Zenon
  <2> QED
    BY <1>2, <1>4, <1>5, <2>1, <2>2
<1>7. st_pipe[1] = Hello =>
        /\ send = {"ENABLED"} <=> ~WantsMap /\ ~WantsDict
        /\ "AUTODICT" \in send <=> WantsDict
        /\ Word("options", send) = OptionsWord
  BY <1>5, WantedHello DEF OptionsWord
<1>8. OptionsWord \in Words
  BY SentWords, WantedHello DEF OptionsWord
<1>9. ctl_pipe' = Append(ctl_pipe, OptionsWord) => Pushed(ctl_pipe, OptionsWord, ctl_pipe')
  BY <1>8, AppendPushes DEF PipeTypes
<1> QED
  BY <1>1, <1>4, <1>6, <1>7, <1>9

\* build knows why it failed, and the size of the map if it did not.
LEMMA StepBuild == IInv /\ [Next]_vars => (BuildSteps /\ BuildAgrees)'
<1> SUFFICES ASSUME IInv, [Next]_vars PROVE (BuildSteps /\ BuildAgrees)'
  OBVIOUS
<1> USE DEF IInv, Types
<1>0. conf' = conf
  BY SetUpRigid
<1>1. CASE BuildReadHello
  <2>1. fault' = fault
    BY <1>1, FuzzerOnly DEF Fuzzer
  <2>2. SrvDead => fault
    BY <1>1, HelloRead DEF Positions, Agreement, Gone
  <2> QED
    BY <1>0, <1>1, <2>1, <2>2, HelloRead, MapSizeOfHello DEF BuildSteps, BuildAgrees, Gone
<1>2. CASE BuildMapTooSmall
  <2>1. fault' = fault
    BY <1>2, FuzzerOnly DEF Fuzzer
  <2>2. SrvDead => fault
    BY <1>2 DEF BuildMapTooSmall, Positions, Agreement, Gone
  <2>3. Head(st_pipe) = Hello \/ SrvDead
    BY <1>2, FuzzerReads DEF BuildMapTooSmall, Incoming, Popped, None, One
  <2>4. fz'.pc = "panic" /\ fz'.built = fz.built /\ ~fz.built /\ fz.map_size = conf.limit
    BY <1>2 DEF BuildMapTooSmall, BuildSteps, FzTypes
  <2>5. ~Fits(Head(st_pipe).val)
    BY <1>2 DEF BuildMapTooSmall
  <2>6. Head(st_pipe) = Hello => conf.limit \in 1..64 * ((conf.mapsize + 63) \div 64) - 1
    <3>1. conf.limit \in Nat /\ conf.mapsize \in Nat
      BY DEF Settings
    <3>2. 64 * ((conf.mapsize + 63) \div 64) \in Nat
      BY <3>1
    <3> QED
      BY <2>4, <2>5, <3>1, <3>2, MapSizeOfHello DEF Fits
  <2> QED
    BY <1>0, <2>1, <2>2, <2>3, <2>4, <2>6 DEF BuildSteps, BuildAgrees, Gone
<1>3. CASE BuildReadDictSize
  <2>1. fault' = fault
    BY <1>3, FuzzerOnly DEF Fuzzer
  <2>2. SrvDead => fault
    BY <1>3 DEF BuildReadDictSize, Positions, Agreement, Gone
  <2>3. conf.tokens /\ conf.dict \in Nat \ {0}
    BY <1>3 DEF BuildReadDictSize, Positions, Agreement, WantsDict, Settings
  <2>4. Head(st_pipe) = Word("dict_size", conf.dict) \/ SrvDead
    BY <1>3, FuzzerReads DEF BuildReadDictSize, Incoming, Popped, None, One
  <2>5. \/ fz'.pc = "dict"
        \/ /\ fz'.pc = "error"
           /\ Head(st_pipe) = Word("dict_size", conf.dict) => ~LegalDict(conf.dict)
    BY <1>3 DEF BuildReadDictSize, FzTypes, Word
  <2>6. fz'.built = fz.built /\ fz'.map_size = fz.map_size /\ ~fz.built
    BY <1>3 DEF BuildReadDictSize, FzTypes, BuildSteps
  <2>7. fz.pc = "dict_size"
    BY <1>3 DEF BuildReadDictSize
  <2>8. ~LegalDict(conf.dict) => conf.dict = 1 \/ conf.dict > MaxDict
    BY <2>3, Limits DEF LegalDict
  <2> QED
    BY <1>0, <2>1, <2>2, <2>3, <2>4, <2>5, <2>6, <2>7, <2>8 DEF BuildSteps, BuildAgrees, Gone
<1>4. CASE BuildReadDict
  <2>1. fault' = fault
    BY <1>4, FuzzerOnly DEF Fuzzer
  <2>2. SrvDead => fault
    BY <1>4 DEF BuildReadDict, Positions, Agreement, Gone
  <2>3. conf.tokens /\ conf.dict \in Nat \ {0} /\ fz.pc = "dict" /\ ~fz.built
    BY <1>4 DEF BuildReadDict, Positions, Agreement, WantsDict, Settings, BuildSteps
  <2>4. \/ fz'.pc = "idle" /\ fz'.built
        \/ fz'.pc = "error" /\ ~fz'.built /\ Len(st_pipe) # conf.dict
    BY <1>4, <2>3 DEF BuildReadDict, FzTypes, FzFails
  <2>5. fz'.map_size = fz.map_size
    BY <1>4 DEF BuildReadDict, FzTypes, FzFails
  <2>6. Len(st_pipe) # conf.dict => fault \/ conf.dict >= PipeSize
    <3>1. srv.pc \in {"dict", "loop", "dead"}
      BY <2>3 DEF SrvTypes, SrvPcs, Positions, AtStart, AtOptions, AtMapInput, AtRun, Gone
    <3>2. CASE srv.pc = "dict"
      BY <1>4, <2>3, <3>2, DictRead, ForkserverAssumption DEF Positions, AtDict, Gone
    <3>3. CASE srv.pc = "loop"
      BY <2>3, <3>3 DEF Positions, AtLoop
    <3> QED
      BY <2>2, <3>1, <3>2, <3>3 DEF SrvDead
  <2> QED
    BY <1>0, <2>1, <2>2, <2>3, <2>4, <2>5, <2>6 DEF BuildSteps, BuildAgrees, Gone
<1>5. CASE ReadFails
  <2>1. fault' = fault /\ fault
    BY <1>5, FuzzerOnly DEF Fuzzer, ReadFails, EndOfFile, Positions, Agreement, Gone
  <2> QED
    BY <1>0, <1>5, <2>1 DEF ReadFails, FzFails, BuildSteps, BuildAgrees, Gone, FzTypes
<1>6. CASE BuildEnds \/ RunTarget \/ RunTargetTooLong \/ ReadPid \/ ReadStatus \/ TimesOut
              \/ Kill \/ ReadKilled \/ DropExecutor
  <2>1. fault' = fault
    BY <1>6, FuzzerOnly DEF Fuzzer
  <2>2. /\ fz.pc \in {"sent", "idle", "pid", "status", "kill", "killed"}
        /\ fz'.pc \in {"idle", "pid", "status", "kill", "killed", "error", "panic", "done"}
        /\ fz'.built /\ fz'.map_size = fz.map_size
    BY <1>6 DEF BuildEnds, RunTarget, RunTargetTooLong, ReadPid, ReadStatus, TimesOut,
       Kill, ReadKilled, DropExecutor, Returns, FzFails, FzTypes, BuildSteps
  <2> QED
    BY <1>0, <2>1, <2>2 DEF BuildSteps, BuildAgrees, Gone
<1>7. CASE Server \/ ServerFaults \/ Child \/ UNCHANGED vars
  <2>1. fz' = fz
    BY <1>7, ServerOnly DEF vars
  <2>2. fault => fault'
    BY <1>7 DEF vars, history, Server, ServerFaults, Child, MapShm, StartForkserver, ReadOptions,
       MapInput, SendDictSize, SendDict, ReadRequest, SrvExits, WriteOff, Fork, Continue,
       WritePid, WaitChild, WriteStatus, MapShmFails, MapInputFails, ForkFails, SrvTerminated,
       Fails, ChildEnds
  <2> QED
    BY <1>0, <2>1, <2>2 DEF BuildSteps, BuildAgrees
<1> QED
  BY <1>1, <1>2, <1>3, <1>4, <1>5, <1>6, <1>7 DEF Next, Fuzzer, Over

-----------------------------------------------------------------------------
(* The steps of the fuzzer and of the fork server, as the invariant sees    *)
(* them.                                                                   *)

\* What the fuzzer reads is of the kind that it waits for, or the error.
LEMMA FuzzerFinds ==
  ASSUME IInv, [Next]_vars
  PROVE  /\ BuildReadDictSize =>
              /\ fz.pc = "dict_size" /\ Popped(st_pipe, st_pipe') /\ ctl_pipe' = ctl_pipe
              /\ \/ st_pipe[1] = Word("dict_size", conf.dict) /\ DictFrom(2)
                 \/ st_pipe[1] = ErrorWord /\ SrvDead
         /\ ReadPid =>
              /\ fz.pc = "pid" /\ Popped(st_pipe, st_pipe') /\ ctl_pipe' = ctl_pipe
              /\ \/ /\ st_pipe[1] = Word("pid", srv.child_pid) /\ srv.child_pid # 0
                    /\ Len(st_pipe) \in 1..2 /\ child[srv.child_pid].run = fz.run
                    /\ Len(st_pipe) = 2 => st_pipe[2].kind = "status"
                 \/ st_pipe[1] = ErrorWord /\ SrvDead
         /\ ReadStatus \/ ReadKilled =>
              /\ Len(st_pipe) = 1 /\ Len(st_pipe') = 0 /\ ctl_pipe' = ctl_pipe
              /\ st_pipe[1].kind = "status"
<1> USE DEF IInv, Types
<1>1. ASSUME BuildReadDictSize
      PROVE  /\ fz.pc = "dict_size" /\ Popped(st_pipe, st_pipe') /\ ctl_pipe' = ctl_pipe
             /\ \/ st_pipe[1] = Word("dict_size", conf.dict) /\ DictFrom(2)
                \/ st_pipe[1] = ErrorWord /\ SrvDead
  <2>1. fz.pc = "dict_size" /\ Popped(st_pipe, st_pipe') /\ ctl_pipe' = ctl_pipe
    BY <1>1, FuzzerReads DEF BuildReadDictSize
  <2> QED
    BY <2>1 DEF Incoming, Popped, None, One
<1>2. ASSUME ReadPid
      PROVE  /\ fz.pc = "pid" /\ Popped(st_pipe, st_pipe') /\ ctl_pipe' = ctl_pipe
             /\ \/ /\ st_pipe[1] = Word("pid", srv.child_pid) /\ srv.child_pid # 0
                   /\ Len(st_pipe) \in 1..2 /\ child[srv.child_pid].run = fz.run
                   /\ Len(st_pipe) = 2 => st_pipe[2].kind = "status"
                \/ st_pipe[1] = ErrorWord /\ SrvDead
  <2>1. fz.pc = "pid" /\ Popped(st_pipe, st_pipe') /\ ctl_pipe' = ctl_pipe
    BY <1>2, FuzzerReads DEF ReadPid
  <2> QED
    BY <2>1 DEF Incoming, Popped, None, One
<1>3. ASSUME ReadStatus \/ ReadKilled
      PROVE  /\ Len(st_pipe) = 1 /\ Len(st_pipe') = 0 /\ ctl_pipe' = ctl_pipe
             /\ st_pipe[1].kind = "status"
  <2>1. fz.pc \in {"status", "killed"} /\ Popped(st_pipe, st_pipe') /\ ctl_pipe' = ctl_pipe
    BY <1>3, FuzzerReads DEF ReadStatus, ReadKilled
  <2> QED
    BY <2>1 DEF Incoming, Popped, None
<1> QED
  BY <1>1, <1>2, <1>3

\* No step takes a word for one of another kind.
LEMMA StepConfused == IInv /\ [Next]_vars => ~confused'
<1> SUFFICES ASSUME IInv, [Next]_vars PROVE ~confused'
  OBVIOUS
<1> USE DEF IInv, Types
<1>1. CASE BuildReadHello \/ BuildMapTooSmall
  <2>1. fz.pc = "hello" /\ Popped(st_pipe, st_pipe') /\ Takes("hello")
    BY <1>1, FuzzerReads DEF BuildReadHello, BuildMapTooSmall
  <2>2. st_pipe[1] = Hello \/ st_pipe[1] = ErrorWord
    BY <2>1 DEF Incoming, Popped, None, One
  <2>3. Head(st_pipe).kind \in {"hello", "error"}
    BY <2>1, <2>2 DEF Popped, Hello, ErrorWord, Word
  <2> QED
    BY <2>1, <2>3 DEF Takes
<1>2. CASE BuildReadDictSize
  <2>1. Head(st_pipe).kind \in {"dict_size", "error"}
    BY <1>2, FuzzerFinds DEF Popped, ErrorWord, Word
  <2> QED
    BY <1>2, <2>1 DEF BuildReadDictSize, Takes
<1>3. CASE ReadPid
  <2>1. Head(st_pipe).kind \in {"pid", "error"}
    BY <1>3, FuzzerFinds DEF Popped, ErrorWord, Word
  <2> QED
    BY <1>3, <2>1 DEF ReadPid, Takes
<1>4. CASE ReadStatus \/ ReadKilled
  <2>1. Popped(st_pipe, st_pipe')
    BY <1>4, FuzzerReads
  <2> QED
    BY <1>4, <2>1, FuzzerFinds DEF ReadStatus, ReadKilled, Takes, Popped
<1>5. CASE BuildReadDict
  <2>1. \A i \in DOMAIN st_pipe : st_pipe[i].kind = "dict"
    BY <1>5, Lengths DEF BuildReadDict, Incoming, DictFrom
  <2> QED
    BY <1>5, <2>1 DEF BuildReadDict
<1>6. CASE BuildEnds \/ RunTarget \/ RunTargetTooLong \/ TimesOut \/ Kill \/ ReadFails
              \/ DropExecutor
  BY <1>6 DEF BuildEnds, RunTarget, RunTargetTooLong, TimesOut, Kill, ReadFails, DropExecutor
<1>7. CASE Server \/ ServerFaults \/ Child \/ UNCHANGED vars
  BY <1>7, ServerOnly DEF vars, history
<1> QED
  BY <1>1, <1>2, <1>3, <1>4, <1>5, <1>6, <1>7 DEF Next, Fuzzer, Over

\* From where to where the fuzzer goes, and what it does to the pipes
LEMMA FuzzerMoves ==
  ASSUME IInv, [Next]_vars
  PROVE  /\ BuildMapTooSmall =>
              /\ fz.pc = "hello" /\ fz'.pc = "panic" /\ Len(st_pipe) = 1 /\ Len(st_pipe') = 0
              /\ ctl_pipe' = ctl_pipe
         /\ BuildEnds => fz.pc = "sent" /\ fz'.pc = "idle" /\ UNCHANGED <<st_pipe, ctl_pipe>>
         /\ BuildReadDictSize =>
              fz'.pc \in {"dict", "error"} /\ (fz'.pc = "dict" => st_pipe[1].kind = "dict_size")
         /\ BuildReadDict =>
              /\ fz.pc = "dict" /\ fz'.pc \in {"idle", "error"} /\ Len(st_pipe) > 0
              /\ Len(st_pipe') = 0 /\ ctl_pipe' = ctl_pipe
              /\ fz'.pc = "idle" => Len(st_pipe) = conf.dict
         /\ RunTarget =>
              /\ fz.pc = "idle" /\ st_pipe' = st_pipe
              /\ IF SrvDead
                 THEN fz'.pc = "error" /\ ctl_pipe' = ctl_pipe
                 ELSE /\ fz'.pc = "pid"
                      /\ Pushed(ctl_pipe, Word("request", fz.last_run_timed_out), ctl_pipe')
         /\ RunTargetTooLong =>
              fz.pc = "idle" /\ fz'.pc = "panic" /\ UNCHANGED <<st_pipe, ctl_pipe>>
         /\ ReadPid =>
              \/ fz'.pc = "status" /\ fz'.child_pid = srv.child_pid
                    /\ st_pipe[1] = Word("pid", srv.child_pid)
              \/ fz'.pc = "error"
         /\ ReadStatus => fz.pc = "status" /\ fz'.pc = "idle"
         /\ TimesOut =>
              fz.pc = "status" /\ fz'.pc = "kill" /\ UNCHANGED <<st_pipe, ctl_pipe>>
         /\ Kill => fz.pc = "kill" /\ fz'.pc = "killed" /\ UNCHANGED <<st_pipe, ctl_pipe>>
         /\ ReadKilled => fz.pc = "killed" /\ fz'.pc = "idle"
         /\ ReadFails =>
              /\ fz.pc \in {"hello", "dict_size", "dict", "pid", "status", "killed"}
              /\ SrvDead /\ fz'.pc = "error" /\ UNCHANGED <<st_pipe, ctl_pipe>>
         /\ DropExecutor => fz.pc = "idle" /\ fz'.pc = "done" /\ UNCHANGED <<st_pipe, ctl_pipe>>
<1> USE DEF IInv, Types, FzTypes
<1>1. BuildMapTooSmall =>
         /\ fz.pc = "hello" /\ fz'.pc = "panic" /\ Len(st_pipe) = 1 /\ Len(st_pipe') = 0
         /\ ctl_pipe' = ctl_pipe
  <2> SUFFICES ASSUME BuildMapTooSmall
               PROVE  /\ fz.pc = "hello" /\ fz'.pc = "panic" /\ Len(st_pipe) = 1
                      /\ Len(st_pipe') = 0 /\ ctl_pipe' = ctl_pipe
    OBVIOUS
  <2>1. fz.pc = "hello" /\ Popped(st_pipe, st_pipe') /\ fz'.pc = "panic" /\ ctl_pipe' = ctl_pipe
    BY FuzzerReads DEF BuildMapTooSmall
  <2> QED
    BY <2>1 DEF Incoming, Popped, None, One
<1>2. BuildEnds => fz.pc = "sent" /\ fz'.pc = "idle" /\ UNCHANGED <<st_pipe, ctl_pipe>>
  BY DEF BuildEnds
<1>3. BuildReadDictSize =>
         fz'.pc \in {"dict", "error"} /\ (fz'.pc = "dict" => st_pipe[1].kind = "dict_size")
  BY FuzzerFinds DEF BuildReadDictSize, Popped
<1>4. BuildReadDict =>
         /\ fz.pc = "dict" /\ fz'.pc \in {"idle", "error"} /\ Len(st_pipe) > 0
         /\ Len(st_pipe') = 0 /\ ctl_pipe' = ctl_pipe
         /\ fz'.pc = "idle" => Len(st_pipe) = conf.dict
  <2> SUFFICES ASSUME BuildReadDict
               PROVE  /\ fz.pc = "dict" /\ fz'.pc \in {"idle", "error"} /\ Len(st_pipe) > 0
                      /\ Len(st_pipe') = 0 /\ ctl_pipe' = ctl_pipe
                      /\ fz'.pc = "idle" => Len(st_pipe) = conf.dict
    OBVIOUS
  <2>1. Len(st_pipe) > 0 /\ Len(st_pipe') = 0
    BY DictRead
  <2> QED
    BY <2>1 DEF BuildReadDict, FzFails
<1>5. RunTarget =>
         /\ fz.pc = "idle" /\ st_pipe' = st_pipe
         /\ IF SrvDead
            THEN fz'.pc = "error" /\ ctl_pipe' = ctl_pipe
            ELSE /\ fz'.pc = "pid"
                 /\ Pushed(ctl_pipe, Word("request", fz.last_run_timed_out), ctl_pipe')
  BY RequestSent DEF RunTarget
<1>6. RunTargetTooLong => fz.pc = "idle" /\ fz'.pc = "panic" /\ UNCHANGED <<st_pipe, ctl_pipe>>
  BY DEF RunTargetTooLong
<1>7. ReadPid =>
         \/ fz'.pc = "status" /\ fz'.child_pid = srv.child_pid
               /\ st_pipe[1] = Word("pid", srv.child_pid)
         \/ fz'.pc = "error"
  <2> SUFFICES ASSUME ReadPid
               PROVE  \/ fz'.pc = "status" /\ fz'.child_pid = srv.child_pid
                            /\ st_pipe[1] = Word("pid", srv.child_pid)
                      \/ fz'.pc = "error"
    OBVIOUS
  <2>1. /\ Head(st_pipe) = st_pipe[1]
        /\ st_pipe[1] = Word("pid", srv.child_pid) \/ st_pipe[1] = ErrorWord
    BY FuzzerFinds DEF Popped
  <2>2. st_pipe[1] = ErrorWord => ~PositivePid(Head(st_pipe))
    BY <2>1 DEF PositivePid, ErrorWord, Word
  <2>3. st_pipe[1] = Word("pid", srv.child_pid) =>
           Head(st_pipe).kind = "pid" /\ Head(st_pipe).val = srv.child_pid
    BY <2>1 DEF Word
  <2> QED
    BY <2>1, <2>2, <2>3 DEF ReadPid, FzFails
<1>8. /\ ReadStatus => fz.pc = "status" /\ fz'.pc = "idle"
      /\ ReadKilled => fz.pc = "killed" /\ fz'.pc = "idle"
  BY DEF ReadStatus, ReadKilled, Returns
<1>9. /\ TimesOut => fz.pc = "status" /\ fz'.pc = "kill" /\ UNCHANGED <<st_pipe, ctl_pipe>>
      /\ Kill => fz.pc = "kill" /\ fz'.pc = "killed" /\ UNCHANGED <<st_pipe, ctl_pipe>>
      /\ DropExecutor => fz.pc = "idle" /\ fz'.pc = "done" /\ UNCHANGED <<st_pipe, ctl_pipe>>
  BY DEF TimesOut, Kill, DropExecutor
<1>10. ReadFails =>
         /\ fz.pc \in {"hello", "dict_size", "dict", "pid", "status", "killed"}
         /\ SrvDead /\ fz'.pc = "error" /\ UNCHANGED <<st_pipe, ctl_pipe>>
  BY DEF ReadFails, EndOfFile, FzFails
<1> QED
  BY <1>1, <1>2, <1>3, <1>4, <1>5, <1>6, <1>7, <1>8, <1>9, <1>10

\* With nothing to read from a live fork server, few steps are left to the fuzzer.
LEMMA FuzzerWaits ==
  ASSUME IInv, Fuzzer, ~SrvDead, None(st_pipe)
  PROVE  BuildEnds \/ RunTarget \/ RunTargetTooLong \/ TimesOut \/ Kill \/ DropExecutor
<1>1. ~CanRead /\ ~EndOfFile
  BY PipeFacts DEF IInv, Types, PipeTypes, None, CanRead, EndOfFile
<1> QED
  BY <1>1 DEF Fuzzer, BuildReadHello, BuildMapTooSmall, BuildReadDictSize, BuildReadDict,
     ReadPid, ReadStatus, ReadKilled, ReadFails

\* By which step the fork server comes to a position
LEMMA ServerMoves ==
  ASSUME IInv, Server \/ ServerFaults
  PROVE  /\ srv'.pc # "map_shm"
         /\ srv'.pc = "start" => MapShm
         /\ srv'.pc = "options" => StartForkserver
         /\ srv'.pc = "map_input" => ReadOptions
         /\ srv'.pc = "send_dict" => ReadOptions \/ MapInput
         /\ srv'.pc = "dict" => SendDictSize \/ SendDict
         /\ srv'.pc = "loop" => StartForkserver \/ SendDictSize \/ SendDict \/ WriteStatus
         /\ srv'.pc = "requested" => ReadRequest \/ WriteOff
         /\ srv'.pc = "write_pid" => Fork \/ Continue
         /\ srv'.pc = "wait" => WritePid
         /\ srv'.pc = "write_status" => WaitChild
<1> USE DEF IInv, Types, SrvTypes
<1>1. MapShm => srv'.pc = "start"
  BY DEF MapShm, Goto
<1>2. StartForkserver => srv'.pc \in {"options", "loop", "dead"}
  BY DEF StartForkserver, Tell
<1>3. ReadOptions => srv'.pc \in {"map_input", "send_dict"}
  BY DEF ReadOptions
<1>4. MapInput => srv'.pc = "send_dict"
  BY DEF MapInput
<1>5. SendDictSize => srv'.pc \in {"dict", "loop", "dead"}
  BY DEF SendDictSize, Tell
<1>6. SendDict => srv'.pc \in {"dict", "loop", "dead"}
  BY DEF SendDict, Goto
<1>7. (ReadRequest => srv'.pc = "requested") /\ (SrvExits => srv'.pc = "dead")
  BY DEF ReadRequest, SrvExits, Goto
<1>8. /\ WriteOff => srv'.pc = "requested"
      /\ Fork => srv'.pc = "write_pid"
      /\ Continue => srv'.pc = "write_pid"
  BY DEF WriteOff, Fork, Continue
<1>9. /\ WritePid => srv'.pc \in {"wait", "dead"}
      /\ WriteStatus => srv'.pc \in {"loop", "dead"}
  BY DEF WritePid, WriteStatus, Tell
<1>10. WaitChild => srv'.pc = "write_status"
  BY DEF WaitChild
<1>11. ServerFaults => srv'.pc = "dead"
  BY DEF ServerFaults, MapShmFails, MapInputFails, Fails, Tell, ForkFails, SrvTerminated, Goto
<1> QED
  BY <1>1, <1>2, <1>3, <1>4, <1>5, <1>6, <1>7, <1>8, <1>9, <1>10, <1>11 DEF Server

-----------------------------------------------------------------------------
(* The positions of the two.                                               *)

\* The steps of the target, and none, leave both alone.
LEMMA TargetOnly ==
  ASSUME Child \/ UNCHANGED vars
  PROVE  UNCHANGED <<conf, fz, srv, st_pipe, ctl_pipe, result, confused, fault>>
  BY ServerOnly DEF Child, ChildEnds, vars, history

\* Before the hello, nothing is on its way.
LEMMA StepAtStart == IInv /\ [Next]_vars => AtStart'
<1> SUFFICES ASSUME IInv, [Next]_vars PROVE AtStart'
  OBVIOUS
<1> USE DEF IInv, Types, Positions
<1>1. CASE Fuzzer
  <2>1. srv' = srv
    BY <1>1, FuzzerOnly
  <2>2. ~(srv.pc \in {"map_shm", "start"})
    BY <1>1, FuzzerWaits, FuzzerMoves DEF AtStart, SrvDead
  <2> QED
    BY <2>1, <2>2 DEF AtStart
<1>2. CASE MapShm
  BY <1>2, ServerOnly DEF MapShm, Goto, AtStart, Server, None
<1>3. CASE (Server \/ ServerFaults) /\ ~MapShm
  BY <1>3, ServerMoves DEF AtStart
<1>4. CASE Child \/ UNCHANGED vars
  BY <1>4, TargetOnly DEF AtStart, None
<1> QED
  BY <1>1, <1>2, <1>3, <1>4 DEF Next, Over

\* While the fork server waits for options, the next word is what it should be.
LEMMA StepAtOptions == IInv /\ [Next]_vars => AtOptions'
<1> SUFFICES ASSUME IInv, [Next]_vars PROVE AtOptions'
  OBVIOUS
<1> USE DEF IInv, Types, Positions
<1>1. CASE Fuzzer
  <2> SUFFICES ASSUME srv.pc = "options" PROVE AtOptions'
    BY <1>1, FuzzerOnly DEF AtOptions
  <2>0. srv' = srv /\ ~SrvDead
    BY <1>1, FuzzerOnly DEF SrvDead
  <2>1. CASE BuildReadHello
    <3>1. /\ fz.pc = "hello" /\ Len(st_pipe) = 1 /\ st_pipe[1] = Hello /\ Len(ctl_pipe) = 0
          /\ conf.sharedmem \/ conf.dict # 0
      BY <2>1, HelloRead DEF AtOptions, One, None
    <3>2. Len(st_pipe') = 0
      BY <2>1, HelloRead
    <3>3. CASE ~WantsMap /\ ~WantsDict /\ fz'.pc = "idle" /\ ctl_pipe' = ctl_pipe
      BY <3>1, <3>2, <3>3, SetUpRigid DEF AtOptions, One, None, Gone
    <3>4. CASE /\ (WantsMap \/ WantsDict) /\ Pushed(ctl_pipe, OptionsWord, ctl_pipe')
               /\ fz'.pc = IF WantsDict THEN "dict_size" ELSE "sent"
      <4>1. Len(ctl_pipe') = 1 /\ ctl_pipe'[1] = OptionsWord
        BY <3>1, <3>4 DEF Pushed
      <4> QED
        BY <3>1, <3>2, <3>4, <4>1, SetUpRigid DEF AtOptions, One, None, Gone
    <3> QED
      BY <2>0, <2>1, <3>3, <3>4, HelloRead
  <2>2. CASE BuildMapTooSmall
    BY <2>2, SetUpRigid, FuzzerMoves DEF AtOptions, One, None, Gone
  <2>3. CASE BuildEnds
    BY <2>3, SetUpRigid, FuzzerMoves DEF AtOptions, One, None, Gone, Agreement
  <2>4. CASE RunTarget
    <3>1. /\ fz.pc = "idle" /\ fz'.pc = "pid" /\ st_pipe' = st_pipe
          /\ Pushed(ctl_pipe, Word("request", fz.last_run_timed_out), ctl_pipe')
      BY <2>0, <2>4, FuzzerMoves
    <3>2. /\ Len(ctl_pipe') = Len(ctl_pipe) + 1
          /\ ctl_pipe'[Len(ctl_pipe')].kind = "request"
          /\ Len(ctl_pipe) = 1 => ctl_pipe'[1] = ctl_pipe[1]
      BY <3>1 DEF Pushed, Word
    <3>3. /\ Len(st_pipe) = 0 /\ ~WantsDict
          /\ IF WantsMap THEN Len(ctl_pipe) = 1 /\ ctl_pipe[1] = OptionsWord ELSE Len(ctl_pipe) = 0
      BY <3>1 DEF AtOptions, One, None
    <3>4. IF WantsMap
          THEN Len(ctl_pipe') = 2 /\ ctl_pipe'[1] = OptionsWord /\ ctl_pipe'[2].kind = "request"
          ELSE Len(ctl_pipe') = 1 /\ ctl_pipe'[1].kind = "request"
      <4>1. WantsMap => Len(ctl_pipe') = 2
        <5>1. ASSUME WantsMap PROVE Len(ctl_pipe) = 1
          BY <3>3, <5>1
        <5>2. Len(ctl_pipe) = 1 => Len(ctl_pipe') = 2
          BY <3>2
        <5> QED
          BY <5>1, <5>2
      <4>2. ~WantsMap => Len(ctl_pipe') = 1
        BY <3>2, <3>3, Lengths
      <4> QED
        BY <3>2, <3>3, <4>1, <4>2
    <3> QED
      BY <3>1, <3>3, <3>4, SetUpRigid DEF AtOptions, One, None, Gone, Requesting
  <2>5. CASE RunTargetTooLong \/ DropExecutor
    BY <2>5, SetUpRigid, FuzzerMoves DEF AtOptions, One, None, Gone
  <2> QED
    BY <1>1, <2>0, <2>1, <2>2, <2>3, <2>4, <2>5, FuzzerWaits, FuzzerMoves, FuzzerFinds
       DEF AtOptions, Fuzzer, One, None, Gone
<1>2. CASE StartForkserver
  <2>1. fz.pc = "hello" /\ Len(st_pipe) = 0 /\ Len(ctl_pipe) = 0 /\ fz.pc \notin Gone
    BY <1>2 DEF StartForkserver, AtStart, None, Gone
  <2>2. fz' = fz /\ ctl_pipe' = ctl_pipe
    BY <1>2, ServerOnly DEF StartForkserver, Server
  <2>3. Len(st_pipe') = 1 /\ st_pipe'[1] = Hello
    BY <1>2, <2>1, ServerWrites DEF Pushed
  <2>4. srv'.pc = "options" => conf.sharedmem \/ conf.dict # 0
    BY <1>2, <2>1 DEF StartForkserver, Tell, SrvTypes
  <2> QED
    BY <2>1, <2>2, <2>3, <2>4, SetUpRigid DEF AtOptions, One, None, Gone
<1>3. CASE (Server \/ ServerFaults) /\ ~StartForkserver
  BY <1>3, ServerMoves DEF AtOptions
<1>4. CASE Child \/ UNCHANGED vars
  BY <1>4, TargetOnly, SetUpRigid DEF AtOptions, One, None, Requesting
<1> QED
  BY <1>1, <1>2, <1>3, <1>4 DEF Next, Over

\* The options the fork server has read are the ones that the fuzzer sent, or it
\* has read the first request.
LEMMA StepAtMapInput == IInv /\ [Next]_vars => AtMapInput'
<1> SUFFICES ASSUME IInv, [Next]_vars PROVE AtMapInput'
  OBVIOUS
<1> USE DEF IInv, Types, Positions
<1>1. CASE Fuzzer
  <2> SUFFICES ASSUME srv.pc \in {"map_input", "send_dict"} PROVE AtMapInput'
    BY <1>1, FuzzerOnly DEF AtMapInput
  <2>0. srv' = srv /\ ~SrvDead
    BY <1>1, FuzzerOnly DEF SrvDead
  <2>1. fz.pc \notin Gone
    BY <1>1, FuzzerMoves, FuzzerFinds, HelloRead DEF Fuzzer, Gone
  <2>2. BuildEnds \/ RunTarget \/ RunTargetTooLong \/ DropExecutor
    BY <1>1, <2>0, <2>1, FuzzerWaits, FuzzerMoves DEF AtMapInput, Gone
  <2>3. CASE BuildEnds \/ RunTargetTooLong \/ DropExecutor
    BY <2>0, <2>3, SetUpRigid, FuzzerMoves DEF AtMapInput, None, Gone, Requesting
  <2>4. CASE RunTarget
    <3>1. /\ fz.pc = "idle" /\ fz'.pc = "pid" /\ st_pipe' = st_pipe
          /\ Pushed(ctl_pipe, Word("request", fz.last_run_timed_out), ctl_pipe')
      BY <2>0, <2>4, FuzzerMoves
    <3>2. Len(ctl_pipe) = 0
      BY <3>1 DEF AtMapInput, None
    <3>3. Len(ctl_pipe') = 1 /\ ctl_pipe'[1].kind = "request"
      BY <3>1, <3>2 DEF Pushed, Word
    <3> QED
      BY <2>0, <3>1, <3>3, SetUpRigid DEF AtMapInput, None, Gone, Requesting
  <2> QED
    BY <2>2, <2>3, <2>4
<1>2. CASE ReadOptions
  <2>0. fz' = fz /\ st_pipe' = st_pipe /\ srv.pc = "options" /\ Popped(ctl_pipe, ctl_pipe')
    BY <1>2, ServerOnly, ServerReads DEF ReadOptions, Server
  <2>1. /\ srv'.opts = Asked(Head(ctl_pipe))
        /\ srv'.pc = IF {"ENABLED", "SHDMEM_FUZZ"} \subseteq Asked(Head(ctl_pipe))
                     THEN "map_input" ELSE "send_dict"
    BY <1>2 DEF ReadOptions, SrvTypes
  <2>2. Head(ctl_pipe) = ctl_pipe[1] /\ Len(ctl_pipe) > 0 /\ Len(ctl_pipe') = Len(ctl_pipe) - 1
    BY <2>0 DEF Popped
  <2>3. \/ ctl_pipe[1] = OptionsWord /\ (WantsMap \/ WantsDict)
        \/ ctl_pipe[1].kind = "request" /\ fz.pc = "pid" /\ Len(ctl_pipe) = 1
              /\ ~WantsMap /\ ~WantsDict
    BY <2>0, <2>2 DEF AtOptions, Agreement, None, One, Requesting, Gone
  <2>4. CASE ctl_pipe[1] = OptionsWord /\ (WantsMap \/ WantsDict)
    <3>1. srv'.opts = Wanted(Hello.val) /\ (srv'.pc = "map_input" <=> WantsMap)
      BY <2>1, <2>2, <2>4, WantedHello DEF Asked, OptionsWord, Word
    <3>2. fz.pc # "pid" => Len(ctl_pipe) = 1
      BY <2>0, <2>2 DEF AtOptions, None, One, Gone
    <3>3. fz.pc = "pid" => Len(ctl_pipe) = 2 /\ ctl_pipe[2].kind = "request"
      BY <2>0, <2>2, <2>4 DEF AtOptions, Requesting, OptionsWord, Word
    <3>4. fz.pc = "pid" => Len(ctl_pipe') = 1 /\ ctl_pipe'[1].kind = "request"
      <4>1. ASSUME fz.pc = "pid" PROVE Len(ctl_pipe') = 1 /\ ctl_pipe'[1] = ctl_pipe[1 + 1]
        <5>1. Len(ctl_pipe') = 1
          <6>1. Len(ctl_pipe) = 2
            BY <3>3, <4>1
          <6>2. Len(ctl_pipe') = Len(ctl_pipe) - 1
            BY <2>2
          <6> QED
            BY <6>1, <6>2
        <5>2. 1 \in 1..Len(ctl_pipe')
          BY <5>1
        <5> QED
          BY <2>0, <5>1, <5>2 DEF Popped
      <4> QED
        BY <3>3, <4>1
    <3> QED
      BY <2>0, <2>2, <2>4, <3>1, <3>2, <3>4, SetUpRigid
         DEF AtMapInput, AtOptions, None, Requesting, Gone
  <2>5. CASE ctl_pipe[1].kind = "request" /\ fz.pc = "pid" /\ Len(ctl_pipe) = 1
               /\ ~WantsMap /\ ~WantsDict
    <3>1. srv'.opts = {} /\ srv'.pc = "send_dict"
      BY <2>1, <2>2, <2>5 DEF Asked
    <3> QED
      BY <2>0, <2>2, <2>5, <3>1, SetUpRigid DEF AtMapInput, AtOptions, None, Gone
  <2> QED
    BY <2>3, <2>4, <2>5
<1>3. CASE MapInput
  <2>1. UNCHANGED <<fz, st_pipe, ctl_pipe>> /\ srv.pc = "map_input"
    BY <1>3, ServerOnly DEF MapInput, Server
  <2>2. srv'.opts = srv.opts /\ srv'.pc = "send_dict"
    BY <1>3 DEF MapInput, SrvTypes
  <2> QED
    BY <2>1, <2>2, SetUpRigid DEF AtMapInput, None, Requesting
<1>4. CASE (Server \/ ServerFaults) /\ ~ReadOptions /\ ~MapInput
  BY <1>4, ServerMoves DEF AtMapInput
<1>5. CASE Child \/ UNCHANGED vars
  BY <1>5, TargetOnly, SetUpRigid DEF AtMapInput, None, Requesting
<1> QED
  BY <1>1, <1>2, <1>3, <1>4, <1>5 DEF Next, Over

\* How much of the dictionary is in the pipe, and how much is left
LEMMA StepAtDict == IInv /\ [Next]_vars => AtDict'
<1> SUFFICES ASSUME IInv, [Next]_vars PROVE AtDict'
  OBVIOUS
<1> USE DEF IInv, Types, Positions
<1>0. Len(st_pipe) \in Nat /\ Len(ctl_pipe) \in Nat /\ conf.dict \in Nat
  BY Lengths DEF Settings
<1>1. CASE Fuzzer
  <2> SUFFICES ASSUME srv.pc = "dict" PROVE AtDict'
    BY <1>1, FuzzerOnly DEF AtDict
  <2>0. srv' = srv /\ ~SrvDead /\ conf' = conf
    BY <1>1, FuzzerOnly DEF SrvDead
  <2>1. fz.pc \in {"dict_size", "dict"}
    BY <1>1, FuzzerMoves, FuzzerFinds, HelloRead DEF Fuzzer, Gone, AtDict
  <2>2. BuildReadDictSize \/ BuildReadDict
    BY <1>1, <2>0, <2>1, FuzzerMoves, FuzzerFinds, HelloRead DEF Fuzzer
  <2>3. CASE BuildReadDictSize
    <3>1. Len(st_pipe') = Len(st_pipe) - 1 /\ ctl_pipe' = ctl_pipe /\ fz.pc = "dict_size"
      BY <2>3, FuzzerFinds DEF Popped
    <3>2. fz'.pc \in {"dict", "error"}
      BY <2>3, FuzzerMoves
    <3> QED
      BY <1>0, <2>0, <3>1, <3>2 DEF AtDict, None, Gone, SrvTypes
  <2>4. CASE BuildReadDict
    <3>1. /\ fz.pc = "dict" /\ ctl_pipe' = ctl_pipe /\ fz'.pc \in {"idle", "error"}
          /\ fz'.pc = "idle" => Len(st_pipe) = conf.dict
      BY <2>4, FuzzerMoves
    <3>2. fz'.pc = "error"
      BY <1>0, <3>1 DEF AtDict, SrvTypes
    <3> QED
      BY <2>0, <3>1, <3>2 DEF AtDict, None, Gone
  <2> QED
    BY <2>2, <2>3, <2>4
<1>2. CASE SendDictSize
  <2> SUFFICES ASSUME srv'.pc = "dict" PROVE AtDict'
    BY DEF AtDict
  <2>1. /\ WantsDict /\ fz.pc = "dict_size" /\ srv'.left = conf.dict
        /\ Len(st_pipe') = Len(st_pipe) + 1
    BY <1>2, DictSizeSent DEF SrvTypes, Pushed
  <2>2. UNCHANGED <<fz, ctl_pipe, conf>> /\ srv.pc = "send_dict"
    BY <1>2, ServerOnly DEF SendDictSize, Server
  <2> QED
    BY <1>0, <2>1, <2>2 DEF AtDict, AtMapInput, None, Gone, WantsDict
<1>3. CASE SendDict
  <2> SUFFICES ASSUME srv'.pc = "dict" PROVE AtDict'
    BY DEF AtDict
  <2> DEFINE n == Len(st_pipe') - Len(st_pipe)
  <2>1. UNCHANGED <<fz, ctl_pipe, conf>> /\ srv.pc = "dict" /\ fz.pc \notin Gone
    BY <1>3, ServerOnly DEF SendDict, Server, Goto, SrvTypes
  <2>2. /\ n > 0 /\ n <= srv.left /\ (srv.left <= PipeSize - Len(st_pipe) => n = srv.left)
        /\ srv' = [srv EXCEPT !.left = @ - n, !.pc = IF srv.left = n THEN "loop" ELSE "dict"]
        /\ Len(st_pipe') \in Nat
    BY <1>3, <2>1, DictSent
  <2>3. srv'.left = srv.left - n /\ srv.left # n /\ srv.left \in Nat
    BY <2>2 DEF SrvTypes
  <2>4. conf.dict >= PipeSize
    BY <1>0, <2>1, <2>2, <2>3, ForkserverAssumption DEF AtDict, Gone
  <2>5. srv'.left \in 1..conf.dict
    BY <1>0, <2>1, <2>2, <2>3 DEF AtDict
  <2>6. /\ fz.pc = "dict_size" => Len(st_pipe') = 1 + conf.dict - srv'.left
        /\ fz.pc = "dict" => Len(st_pipe') = conf.dict - srv'.left
    BY <1>0, <2>1, <2>2, <2>3, SMTT(30) DEF AtDict
  <2>7. fz.pc \in {"dict_size", "dict"} /\ Len(ctl_pipe') = 0
    BY <2>1 DEF AtDict, None
  <2> QED
    BY <1>0, <2>1, <2>4, <2>5, <2>6, <2>7, ForkserverAssumption DEF AtDict, None, Gone
<1>4. CASE (Server \/ ServerFaults) /\ ~SendDictSize /\ ~SendDict
  BY <1>4, ServerMoves DEF AtDict
<1>5. CASE Child \/ UNCHANGED vars
  BY <1>5, TargetOnly DEF AtDict, None
<1> QED
  BY <1>1, <1>2, <1>3, <1>4, <1>5 DEF Next, Over

\* When the fork server waits for a request, the pipes say how far the run is.
LEMMA StepAtLoop == IInv /\ [Next]_vars => AtLoop'
<1> SUFFICES ASSUME IInv, [Next]_vars PROVE AtLoop'
  OBVIOUS
<1> USE DEF IInv, Types, Positions
<1>0. /\ Len(st_pipe) \in Nat /\ Len(ctl_pipe) \in Nat /\ conf.dict \in Nat
      /\ Len(st_pipe') \in Nat /\ Len(ctl_pipe') \in Nat
  BY Lengths DEF Settings
<1>1. CASE Fuzzer
  <2> SUFFICES ASSUME srv.pc = "loop" PROVE AtLoop'
    BY <1>1, FuzzerOnly DEF AtLoop
  <2>0. srv' = srv /\ ~SrvDead /\ conf' = conf
    BY <1>1, FuzzerOnly DEF SrvDead
  <2>1. ~srv.already_read_first
    <3>1. SUFFICES ASSUME fz.pc = "pid", None(st_pipe) PROVE FALSE
      BY DEF AtLoop
    <3> QED
      BY <1>1, <2>0, <3>1, FuzzerWaits, FuzzerMoves
  <2>2. CASE BuildReadHello
    <3>1. st_pipe[1] = Hello /\ ~WantsMap /\ ~WantsDict /\ Len(ctl_pipe) = 0
      BY <2>1, <2>2, HelloRead DEF AtLoop, One, None, WantsMap, WantsDict
    <3>2. fz'.pc = "idle" /\ ctl_pipe' = ctl_pipe /\ Len(st_pipe') = 0
      BY <2>0, <2>2, <3>1, HelloRead
    <3> QED
      BY <2>0, <2>1, <3>1, <3>2 DEF AtLoop, None
  <2>3. CASE BuildReadDictSize
    <3>1. Len(st_pipe') = Len(st_pipe) - 1 /\ ctl_pipe' = ctl_pipe /\ fz.pc = "dict_size"
      BY <2>3, FuzzerFinds DEF Popped
    <3>2. fz'.pc \in {"dict", "error"}
      BY <2>3, FuzzerMoves
    <3> QED
      BY <1>0, <2>0, <2>1, <3>1, <3>2 DEF AtLoop, None
  <2>4. CASE RunTarget
    <3>1. /\ fz.pc = "idle" /\ fz'.pc = "pid" /\ st_pipe' = st_pipe
          /\ Pushed(ctl_pipe, Word("request", fz.last_run_timed_out), ctl_pipe')
      BY <2>0, <2>4, FuzzerMoves
    <3>2. Len(ctl_pipe) = 0 /\ Len(st_pipe) = 0
      BY <2>1, <3>1 DEF AtLoop, None
    <3>3. Len(ctl_pipe') = 1 /\ ctl_pipe'[1].kind = "request"
      BY <3>1, <3>2 DEF Pushed, Word
    <3> QED
      BY <2>0, <2>1, <3>1, <3>2, <3>3 DEF AtLoop, None, Requesting
  <2>5. CASE ReadPid
    <3>1. /\ fz.pc = "pid" /\ ctl_pipe' = ctl_pipe /\ Len(st_pipe) # 0
          /\ Len(st_pipe') = Len(st_pipe) - 1
      BY <2>5, FuzzerFinds DEF Popped
    <3>2. fz'.pc \in {"status", "error"}
      BY <2>5, FuzzerMoves
    <3>3. Len(st_pipe) = 2 /\ Len(ctl_pipe) = 0
      BY <2>1, <3>1 DEF AtLoop, None
    <3> QED
      BY <1>0, <2>0, <2>1, <3>1, <3>2, <3>3 DEF AtLoop, None
  <2>6. CASE BuildMapTooSmall \/ BuildEnds \/ BuildReadDict \/ RunTargetTooLong \/ TimesOut
               \/ Kill \/ DropExecutor
    BY <2>0, <2>1, <2>6, FuzzerMoves DEF AtLoop, None
  <2>7. CASE ReadStatus \/ ReadKilled
    BY <2>0, <2>1, <2>7, FuzzerMoves, FuzzerFinds DEF AtLoop, None
  <2>8. ~ReadFails
    BY <2>0, FuzzerMoves
  <2> QED
    BY <1>1, <2>2, <2>3, <2>4, <2>5, <2>6, <2>7, <2>8 DEF Fuzzer
<1>2. CASE StartForkserver
  <2> SUFFICES ASSUME srv'.pc = "loop" PROVE AtLoop'
    BY DEF AtLoop
  <2>1. fz.pc = "hello" /\ Len(st_pipe) = 0 /\ Len(ctl_pipe) = 0 /\ fz.pc \notin Gone
    BY <1>2 DEF StartForkserver, AtStart, None, Gone
  <2>2. fz' = fz /\ ctl_pipe' = ctl_pipe
    BY <1>2, ServerOnly DEF StartForkserver, Server
  <2>3. Len(st_pipe') = 1 /\ st_pipe'[1] = Hello
    BY <1>2, <2>1, ServerWrites DEF Pushed
  <2>4. srv'.already_read_first = srv.already_read_first /\ ~conf.sharedmem /\ conf.dict = 0
    BY <1>2, <2>1 DEF StartForkserver, Tell, SrvTypes
  <2>5. ~srv.already_read_first
    BY <1>2 DEF StartForkserver, Agreement
  <2> QED
    BY <2>1, <2>2, <2>3, <2>4, <2>5, SetUpRigid DEF AtLoop, One, None
<1>3. CASE SendDictSize
  <2> SUFFICES ASSUME srv'.pc = "loop" PROVE AtLoop'
    BY DEF AtLoop
  <2>1. UNCHANGED <<fz, ctl_pipe, conf>> /\ srv.pc = "send_dict"
    BY <1>3, ServerOnly DEF SendDictSize, Server
  <2>2. /\ ~WantsDict /\ st_pipe' = st_pipe
        /\ srv' = [srv EXCEPT !.pc = "loop", !.already_read_first = ~srv.fuzz_ptr]
    BY <1>3, DictSizeSent DEF SrvTypes
  <2>3. srv'.already_read_first = ~srv.fuzz_ptr /\ srv'.child_pid = srv.child_pid
    BY <2>2 DEF SrvTypes
  <2>4. srv.child_pid = 0 /\ srv.fuzz_ptr = WantsMap
    BY <2>1 DEF Children, Agreement
  <2>5. fz.pc \in {"sent", "idle", "pid"} \cup Gone
    BY <2>1, <2>2 DEF AtMapInput, Agreement
  <2>6. CASE WantsMap
    BY <2>1, <2>2, <2>3, <2>4, <2>5, <2>6 DEF AtLoop, AtMapInput, None, Gone, Requesting
  <2>7. CASE ~WantsMap
    BY <2>1, <2>2, <2>3, <2>4, <2>7 DEF AtLoop, AtMapInput, None, Gone
  <2> QED
    BY <2>6, <2>7
<1>4. CASE SendDict
  <2> SUFFICES ASSUME srv'.pc = "loop" PROVE AtLoop'
    BY DEF AtLoop
  <2> DEFINE n == Len(st_pipe') - Len(st_pipe)
  <2>1. UNCHANGED <<fz, ctl_pipe, conf>> /\ srv.pc = "dict" /\ fz.pc \notin Gone
    BY <1>4, ServerOnly DEF SendDict, Server, Goto, SrvTypes
  <2>2. /\ n > 0 /\ n <= srv.left
        /\ srv' = [srv EXCEPT !.left = @ - n, !.pc = IF srv.left = n THEN "loop" ELSE "dict"]
    BY <1>4, <2>1, DictSent
  <2>3. srv.left = n /\ srv.left \in Nat /\ srv'.already_read_first = srv.already_read_first
    BY <2>2 DEF SrvTypes
  <2>4. ~srv.already_read_first /\ fz.pc \in {"dict_size", "dict"} /\ Len(ctl_pipe) = 0
    BY <2>1 DEF AtDict, Agreement, None
  <2>5. /\ fz.pc = "dict_size" => Len(st_pipe') = 1 + conf.dict
        /\ fz.pc = "dict" => Len(st_pipe') = conf.dict
    BY <1>0, <2>1, <2>3 DEF AtDict
  <2> QED
    BY <2>1, <2>3, <2>4, <2>5 DEF AtLoop, None
<1>5. CASE WriteStatus
  <2>1. UNCHANGED <<fz, ctl_pipe, conf>> /\ srv.pc = "write_status"
    BY <1>5, ServerOnly DEF WriteStatus, Server
  <2>2. srv' = [srv EXCEPT !.pc = "loop"] /\ Len(st_pipe') = Len(st_pipe) + 1
    BY <1>5, ServerWrites DEF Pushed
  <2>3. ~srv'.already_read_first
    BY <2>1, <2>2 DEF SrvTypes, Agreement
  <2>4. /\ fz.pc \in {"pid", "status", "kill", "killed"} /\ Len(ctl_pipe) = 0
        /\ Len(st_pipe) = IF fz.pc = "pid" THEN 1 ELSE 0
    BY <2>1 DEF AtRun, None
  <2>5. Len(st_pipe') = IF fz.pc = "pid" THEN 2 ELSE 1
    BY <2>2, <2>4
  <2> QED
    BY <2>1, <2>3, <2>4, <2>5 DEF AtLoop, None
<1>6. CASE (Server \/ ServerFaults) /\ ~StartForkserver /\ ~SendDictSize /\ ~SendDict
              /\ ~WriteStatus
  BY <1>6, ServerMoves DEF AtLoop
<1>7. CASE Child \/ UNCHANGED vars
  BY <1>7, TargetOnly, SetUpRigid DEF AtLoop, One, None, Requesting
<1> QED
  BY <1>1, <1>2, <1>3, <1>4, <1>5, <1>6, <1>7 DEF Next, Over

\* During a run, the fuzzer waits for the pid, then for the status.
LEMMA StepAtRun == IInv /\ [Next]_vars => AtRun'
<1> SUFFICES ASSUME IInv, [Next]_vars PROVE AtRun'
  OBVIOUS
<1> USE DEF IInv, Types, Positions
<1>0. /\ Len(st_pipe) \in Nat /\ Len(ctl_pipe) \in Nat
      /\ Len(st_pipe') \in Nat /\ Len(ctl_pipe') \in Nat
  BY Lengths DEF Settings
<1>1. CASE Fuzzer
  <2>0. srv' = srv
    BY <1>1, FuzzerOnly
  <2>1. CASE srv.pc \in {"requested", "write_pid"}
    BY <1>1, <2>1, FuzzerWaits, FuzzerMoves DEF AtRun, SrvDead
  <2>2. CASE srv.pc \in {"wait", "write_status"}
    <3>1. ~SrvDead /\ fz.pc \in {"pid", "status", "kill", "killed"} /\ Len(ctl_pipe) = 0
      BY <2>2 DEF SrvDead, AtRun, None
    <3>2. CASE fz.pc = "pid"
      <4>1. ReadPid /\ Len(st_pipe) = 1
        BY <1>1, <2>2, <3>1, <3>2, FuzzerMoves, FuzzerFinds, HelloRead DEF Fuzzer, AtRun
      <4>2. Len(st_pipe') = Len(st_pipe) - 1 /\ ctl_pipe' = ctl_pipe
        BY <4>1, FuzzerFinds DEF Popped
      <4>3. fz'.pc = "status"
        <5>1. Head(st_pipe).kind = "pid"
          BY <3>1, <4>1, FuzzerFinds DEF Popped, Word
        <5> QED
          BY <4>1, <5>1 DEF ReadPid, PositivePid, FzTypes
      <4> QED
        BY <2>0, <2>2, <3>1, <4>1, <4>2, <4>3 DEF AtRun, None
    <3>3. CASE fz.pc # "pid"
      <4>1. TimesOut \/ Kill
        BY <1>1, <2>2, <3>1, <3>3, FuzzerWaits, FuzzerMoves DEF AtRun
      <4> QED
        BY <2>0, <2>2, <3>1, <3>3, <4>1, FuzzerMoves DEF AtRun, None
    <3> QED
      BY <3>2, <3>3
  <2> QED
    BY <2>0, <2>1, <2>2 DEF AtRun
<1>2. CASE ReadRequest
  <2>1. fz' = fz /\ st_pipe' = st_pipe /\ srv.pc = "loop" /\ srv'.pc = "requested"
    BY <1>2, ServerOnly DEF ReadRequest, Server, SrvTypes
  <2>2. CASE srv.already_read_first
    BY <1>2, <2>1, <2>2 DEF ReadRequest, AtLoop, AtRun, None
  <2>3. CASE ~srv.already_read_first
    <3>1. Len(ctl_pipe) # 0 /\ Len(ctl_pipe') = Len(ctl_pipe) - 1
      BY <1>2, <2>3, ServerReads DEF Popped
    <3>2. fz.pc = "pid" /\ Len(st_pipe) = 0 /\ Len(ctl_pipe) = 1
      BY <2>1, <2>3, <3>1 DEF AtLoop, None, Requesting
    <3> QED
      BY <2>1, <3>1, <3>2 DEF AtRun, None
  <2> QED
    BY <2>2, <2>3
<1>3. CASE WriteOff \/ Fork \/ Continue \/ WaitChild
  <2>1. /\ UNCHANGED <<fz, st_pipe, ctl_pipe>>
        /\ \/ srv.pc = "requested" /\ srv'.pc \in {"requested", "write_pid"}
           \/ srv.pc = "wait" /\ srv'.pc = "write_status"
    BY <1>3, ServerOnly DEF WriteOff, Fork, Continue, WaitChild, Server, SrvTypes
  <2> QED
    BY <2>1 DEF AtRun, None
<1>4. CASE WritePid
  <2>1. UNCHANGED <<fz, ctl_pipe>> /\ srv.pc = "write_pid"
    BY <1>4, ServerOnly DEF WritePid, Server
  <2>2. srv' = [srv EXCEPT !.pc = "wait"] /\ Len(st_pipe') = Len(st_pipe) + 1
    BY <1>4, ServerWrites DEF Pushed
  <2> QED
    BY <2>1, <2>2 DEF AtRun, None, SrvTypes
<1>5. CASE (Server \/ ServerFaults) /\ ~ReadRequest /\ ~WriteOff /\ ~Fork /\ ~Continue
              /\ ~WaitChild /\ ~WritePid
  BY <1>5, ServerMoves DEF AtRun
<1>6. CASE Child \/ UNCHANGED vars
  BY <1>6, TargetOnly DEF AtRun, None
<1> QED
  BY <1>1, <1>2, <1>3, <1>4, <1>5, <1>6 DEF Next, Over

\* Both sides agree where the input is, and neither is gone without a reason.
LEMMA StepAgreement == IInv /\ [Next]_vars => Agreement'
<1> SUFFICES ASSUME IInv, [Next]_vars PROVE Agreement'
  OBVIOUS
<1> USE DEF IInv, Types, Positions
<1>1. CASE Fuzzer
  <2>0. srv' = srv /\ fault' = fault /\ SrvDead' = SrvDead
    BY <1>1, FuzzerOnly DEF SrvDead
  <2>1. CASE BuildReadHello
    <3>1. fz.pc = "hello" /\ srv.child_pid = 0
      BY <2>1, HelloRead DEF Agreement
    <3>2. /\ ~SrvDead => fz'.uses_shmem_testcase = WantsMap
          /\ fz'.pc = "dict_size" => WantsDict
          /\ fz'.pc = "sent" => WantsMap /\ ~WantsDict
          /\ fz'.pc \in {"dict_size", "sent", "idle", "error"}
      BY <2>1, HelloRead
    <3>3. SrvDead => fault
      BY <3>1 DEF Agreement, Gone
    <3> QED
      BY <2>0, <3>1, <3>2, <3>3, SetUpRigid DEF Agreement, Gone
  <2>2. CASE BuildReadDictSize
    <3>1. fz'.uses_shmem_testcase = fz.uses_shmem_testcase
      BY <2>2 DEF BuildReadDictSize, FzTypes
    <3> QED
      BY <2>0, <2>2, <3>1, SetUpRigid, FuzzerMoves, FuzzerFinds DEF Agreement, Gone
  <2>3. CASE BuildMapTooSmall
    BY <2>0, <2>3, SetUpRigid, FuzzerMoves DEF BuildMapTooSmall, FzTypes, Agreement, Gone
  <2>4. CASE BuildReadDict \/ BuildEnds \/ RunTarget \/ RunTargetTooLong \/ ReadPid
               \/ ReadStatus \/ TimesOut \/ Kill \/ ReadKilled \/ ReadFails \/ DropExecutor
    <3>1. fz'.uses_shmem_testcase = fz.uses_shmem_testcase
      BY <2>4 DEF BuildReadDict, BuildEnds, RunTarget, RunTargetTooLong, ReadPid, ReadStatus,
         TimesOut, Kill, ReadKilled, ReadFails, DropExecutor, FzTypes, Returns, FzFails
    <3>2. /\ fz'.pc \in {"idle", "pid", "status", "kill", "killed"} \cup Gone
          /\ fz.pc \notin Gone
      BY <2>4, FuzzerMoves, FuzzerFinds DEF Gone
    <3>3. fz.pc = "hello" => SrvDead
      BY <2>4, FuzzerMoves, FuzzerFinds
    <3>4. SrvDead => fault
      BY <3>2 DEF Agreement
    <3> QED
      BY <2>0, <3>1, <3>2, <3>3, <3>4, SetUpRigid DEF Agreement, Gone, SrvDead
  <2> QED
    BY <1>1, <2>1, <2>2, <2>3, <2>4 DEF Fuzzer
<1>2. CASE Child \/ UNCHANGED vars
  BY <1>2, TargetOnly, SetUpRigid DEF Agreement, SrvDead
<1>3. CASE Server \/ ServerFaults
  <2>0. fz' = fz
    BY <1>3, ServerOnly
  <2>1. CASE MapShm
    BY <2>0, <2>1, SetUpRigid DEF MapShm, Goto, SrvTypes, Agreement, SrvDead, Gone
  <2>2. CASE StartForkserver
    <3>1. /\ srv.pc = "start" /\ fault' = fault /\ fz.pc = "hello"
          /\ srv'.pc \in {"options", "loop"}
          /\ UNCHANGED <<srv.fuzz_ptr, srv.already_read_first, srv.child_pid>>
          /\ srv'.pc = "loop" => ~conf.sharedmem
      BY <2>2 DEF StartForkserver, Tell, SrvTypes, AtStart, Gone
    <3>2. srv.child_pid = 0 /\ ~srv.fuzz_ptr
      BY <3>1 DEF Children, Agreement
    <3>3. srv'.pc = "loop" => srv'.fuzz_ptr = WantsMap
      <4>1. WantsMap \in BOOLEAN /\ srv.fuzz_ptr \in BOOLEAN
        BY DEF WantsMap, Settings, SrvTypes
      <4>2. srv'.pc = "loop" => ~WantsMap
        BY <3>1 DEF WantsMap
      <4> QED
        BY <3>1, <3>2, <4>1, <4>2
    <3> QED
      BY <2>0, <3>1, <3>2, <3>3, SetUpRigid DEF Agreement, SrvDead, Gone
  <2>3. CASE ReadOptions
    <3>1. /\ srv.pc = "options" /\ fault' = fault
          /\ UNCHANGED <<srv.fuzz_ptr, srv.already_read_first, srv.child_pid>>
          /\ srv'.pc = IF {"ENABLED", "SHDMEM_FUZZ"} \subseteq Asked(Head(ctl_pipe))
                       THEN "map_input" ELSE "send_dict"
      BY <2>3 DEF ReadOptions, SrvTypes
    <3>2. Popped(ctl_pipe, ctl_pipe')
      BY <2>3, ServerReads
    <3>3. ctl_pipe[1] = OptionsWord \/ ~WantsMap
      BY <3>1, <3>2 DEF AtOptions, None, One, Requesting, Popped, Gone
    <3>4. srv'.pc = "send_dict" => ~WantsMap
      BY <3>1, <3>2, <3>3, WantedHello DEF Popped, Asked, OptionsWord, Word
    <3>5. fz.pc # "hello"
      BY <3>1, <3>2 DEF AtOptions, Popped, None
    <3>6. srv.child_pid = 0
      BY <3>1 DEF Children
    <3>7. WantsMap \in BOOLEAN /\ srv.fuzz_ptr \in BOOLEAN
      BY DEF WantsMap, Settings, SrvTypes
    <3> QED
      BY <2>0, <3>1, <3>4, <3>5, <3>6, <3>7, SetUpRigid DEF Agreement, SrvDead
  <2>4. CASE MapInput
    <3>1. /\ srv.pc = "map_input" /\ fault' = fault /\ srv'.pc = "send_dict" /\ srv'.fuzz_ptr = TRUE
          /\ UNCHANGED <<srv.already_read_first, srv.child_pid>>
      BY <2>4 DEF MapInput, SrvTypes
    <3>2. WantsMap /\ srv.child_pid = 0
      BY <3>1 DEF AtMapInput, Children
    <3>3. srv'.fuzz_ptr = WantsMap
      <4>1. WantsMap = TRUE
        BY <3>2 DEF WantsMap, Settings
      <4> QED
        BY <3>1, <4>1
    <3>4. ~srv'.already_read_first /\ ~SrvDead /\ ~SrvDead'
      BY <3>1 DEF Agreement, SrvDead
    <3>5. srv'.pc \notin {"map_shm", "start", "options", "map_input"} /\ srv'.child_pid = 0
      BY <3>1, <3>2
    <3> QED
      BY <2>0, <3>3, <3>4, <3>5, SetUpRigid DEF Agreement
  <2>5. CASE SendDictSize
    <3>1. /\ srv.pc = "send_dict" /\ fault' = fault /\ srv.child_pid = 0
      BY <2>5 DEF SendDictSize, Children
    <3>2. /\ UNCHANGED <<srv.fuzz_ptr, srv.child_pid>>
          /\ \/ srv'.pc = "dead" /\ fz.pc \in Gone
             \/ srv'.pc = "dict" /\ srv'.already_read_first = srv.already_read_first
             \/ srv'.pc = "loop"
      BY <2>5 DEF SendDictSize, Tell, SrvTypes
    <3> QED
      BY <2>0, <3>1, <3>2, SetUpRigid DEF Agreement, SrvDead
  <2>6. CASE SendDict \/ ReadRequest \/ SrvExits \/ WriteOff \/ Continue \/ WaitChild
    <3>1. /\ fault' = fault /\ srv.pc \in {"options", "dict", "loop", "requested", "wait"}
          /\ UNCHANGED <<srv.fuzz_ptr, srv.child_pid>>
          /\ srv'.already_read_first = srv.already_read_first \/ ~srv'.already_read_first
          /\ srv'.already_read_first = srv.already_read_first \/ srv.pc = "loop"
          /\ \/ srv'.pc = "dead" /\ fz.pc \in Gone
             \/ srv'.pc \in {"dict", "loop", "requested", "write_pid", "write_status"}
                  /\ srv.pc # "options"
      BY <2>6 DEF SendDict, ReadRequest, SrvExits, WriteOff, Continue, WaitChild, Goto, SrvTypes
    <3>2. srv'.pc # "loop" /\ srv'.pc # "dead" => ~srv'.already_read_first
      BY <2>6, <3>1 DEF SendDict, ReadRequest, SrvExits, WriteOff, Continue, WaitChild, Goto,
         SrvTypes, Agreement
    <3> QED
      BY <2>0, <3>1, <3>2, SetUpRigid DEF Agreement, SrvDead
  <2>7. CASE WritePid \/ WriteStatus
    <3>1. /\ fault' = fault /\ srv.pc \in {"write_pid", "write_status"}
          /\ UNCHANGED <<srv.fuzz_ptr, srv.child_pid, srv.already_read_first>>
          /\ srv'.pc \in {"wait", "loop"}
      BY <2>7, ServerWrites DEF WritePid, WriteStatus, SrvTypes
    <3> QED
      BY <2>0, <3>1, SetUpRigid DEF Agreement, SrvDead
  <2>8. CASE Fork
    <3>1. /\ fault' = fault /\ srv.pc = "requested" /\ srv'.pc = "write_pid"
          /\ UNCHANGED <<srv.fuzz_ptr, srv.already_read_first>>
      BY <2>8 DEF Fork, SrvTypes
    <3>2. fz.pc = "pid"
      BY <3>1 DEF AtRun
    <3> QED
      BY <2>0, <3>1, <3>2, SetUpRigid DEF Agreement, SrvDead
  <2>9. CASE ServerFaults
    <3>1. /\ fault' /\ srv'.pc = "dead"
          /\ UNCHANGED <<srv.fuzz_ptr, srv.child_pid>>
      BY <2>9 DEF ServerFaults, MapShmFails, MapInputFails, Fails, Tell, ForkFails,
         SrvTerminated, Goto, SrvTypes
    <3> QED
      BY <2>0, <3>1, SetUpRigid DEF Agreement, SrvDead
  <2> QED
    BY <1>3, <2>1, <2>2, <2>3, <2>4, <2>5, <2>6, <2>7, <2>8, <2>9 DEF Server
<1> QED
  BY <1>1, <1>2, <1>3 DEF Next, Over

\* With nothing on its way, the fuzzer can wait for anything.
LEMMA NothingIncoming ==
  ASSUME PipeTypes', Len(st_pipe') = 0
  PROVE  Incoming'
<1>1. DOMAIN st_pipe' = {}
  BY PipeFacts DEF PipeTypes
<1> QED
  BY <1>1 DEF Incoming, None, DictFrom

\* What is on its way to the fuzzer is what it waits for.
LEMMA StepIncoming == IInv /\ [Next]_vars => Incoming'
<1> SUFFICES ASSUME IInv, [Next]_vars PROVE Incoming'
  OBVIOUS
<1> USE DEF IInv, Types, Positions
<1>0. /\ Len(st_pipe) \in Nat /\ Len(st_pipe') \in Nat /\ PipeTypes'
      /\ DOMAIN st_pipe = 1..Len(st_pipe) /\ DOMAIN st_pipe' = 1..Len(st_pipe')
  BY Lengths, StepPipeTypes
<1>1. CASE BuildReadHello \/ BuildMapTooSmall \/ BuildReadDict \/ ReadStatus \/ ReadKilled
  BY <1>0, <1>1, HelloRead, FuzzerMoves, FuzzerFinds, NothingIncoming
<1>2. CASE BuildReadDictSize
  <2>1. fz'.pc \in {"dict", "error"} /\ Popped(st_pipe, st_pipe')
    BY <1>2, FuzzerMoves, FuzzerFinds
  <2>2. CASE fz'.pc = "dict"
    <3>1. DictFrom(2)
      BY <1>2, <2>2, FuzzerMoves, FuzzerFinds DEF ErrorWord, Word
    <3>2. ASSUME NEW k \in 1..Len(st_pipe') PROVE st_pipe'[k].kind = "dict"
      <4>1. k + 1 \in 1..Len(st_pipe) /\ k + 1 >= 2 /\ st_pipe'[k] = st_pipe[k + 1]
        BY <1>0, <2>1, <3>2 DEF Popped
      <4> QED
        BY <1>0, <3>1, <4>1 DEF DictFrom
    <3> QED
      BY <1>0, <2>2, <3>2 DEF Incoming, DictFrom
  <2> QED
    BY <2>1, <2>2 DEF Incoming
<1>3. CASE ReadPid
  <2>1. fz'.pc \in {"status", "error"} /\ Popped(st_pipe, st_pipe')
    BY <1>3, FuzzerMoves, FuzzerFinds
  <2>2. CASE fz'.pc = "status"
    <3>1. Len(st_pipe) \in 1..2 /\ (Len(st_pipe) = 2 => st_pipe[2].kind = "status")
      BY <1>3, <2>2, FuzzerMoves, FuzzerFinds DEF ErrorWord, Word
    <3>2. Len(st_pipe') \in {0, 1} /\ (Len(st_pipe') = 1 => Len(st_pipe) = 2)
      BY <1>0, <2>1, <3>1 DEF Popped
    <3>3. Len(st_pipe') = 1 => st_pipe'[1] = st_pipe[1 + 1]
      BY <2>1 DEF Popped
    <3> QED
      BY <2>2, <3>1, <3>2, <3>3 DEF Incoming, None
  <2> QED
    BY <2>1, <2>2 DEF Incoming
<1>4. CASE BuildEnds \/ RunTarget \/ RunTargetTooLong \/ TimesOut \/ Kill \/ ReadFails
              \/ DropExecutor
  <2>1. UNCHANGED <<srv, st_pipe>> /\ SrvDead' = SrvDead
    BY <1>4, FuzzerOnly, FuzzerMoves DEF Fuzzer, SrvDead
  <2>2. \/ fz.pc \in {"sent", "idle"} /\ fz'.pc \in {"idle", "pid"}
        \/ fz.pc \in {"status", "kill"} /\ fz'.pc \in {"kill", "killed"}
        \/ fz'.pc \in Gone
    BY <1>4, FuzzerMoves DEF Gone
  <2> QED
    BY <2>1, <2>2 DEF Incoming, None, One, Gone, ErrorWord
<1>5. CASE Server \/ ServerFaults \/ Child \/ UNCHANGED vars
  <2>0. UNCHANGED <<fz, conf>> /\ Hello' = Hello /\ ErrorWord' = ErrorWord
    BY <1>5, ServerOnly, SetUpRigid DEF vars, ErrorWord
  <2>1. CASE StartForkserver
    <3>1. fz.pc = "hello" /\ Len(st_pipe) = 0 /\ fz.pc \notin Gone
      BY <2>1 DEF StartForkserver, AtStart, None, Gone
    <3>2. Len(st_pipe') = 1 /\ st_pipe'[1] = Hello
      BY <2>1, <3>1, ServerWrites DEF Pushed
    <3> QED
      BY <2>0, <3>1, <3>2 DEF Incoming, One
  <2>2. CASE MapShmFails \/ MapInputFails
    <3>1. \/ fz.pc \in Gone
          \/ Len(st_pipe) = 0 /\ fz.pc \in {"hello", "dict_size", "sent", "idle", "pid"}
      BY <2>2 DEF MapShmFails, MapInputFails, AtStart, AtMapInput, None, Gone
    <3>2. SrvDead' /\ (fz.pc \notin Gone => Len(st_pipe') = 1 /\ st_pipe'[1] = ErrorWord)
      <4>1. srv'.pc = "dead" /\ (fz.pc \notin Gone => Pushed(st_pipe, ErrorWord, st_pipe'))
        BY <2>2, ServerWrites
      <4>2. fz.pc \notin Gone => Len(st_pipe') = 1
        <5>1. SUFFICES ASSUME fz.pc \notin Gone PROVE Len(st_pipe') = 1
          OBVIOUS
        <5>2. Len(st_pipe) = 0
          BY <3>1, <5>1
        <5>3. Len(st_pipe') = Len(st_pipe) + 1
          BY <4>1, <5>1 DEF Pushed
        <5> QED
          BY <5>2, <5>3
      <4> QED
        BY <4>1, <4>2 DEF Pushed, SrvDead
    <3> QED
      BY <2>0, <3>1, <3>2 DEF Incoming, One, Gone
  <2>3. CASE SendDictSize
    <3>1. CASE st_pipe' = st_pipe
      <4>1. fz.pc \in Gone \/ Len(st_pipe') = 0
        BY <2>3, <3>1 DEF SendDictSize, AtMapInput, None
      <4> QED
        BY <1>0, <2>0, <4>1, NothingIncoming DEF Incoming, Gone
    <3>2. CASE st_pipe' # st_pipe
      <4>1. fz.pc = "dict_size" /\ Pushed(st_pipe, Word("dict_size", conf.dict), st_pipe')
        BY <2>3, <3>2, DictSizeSent
      <4>2. Len(st_pipe) = 0
        BY <2>3, <4>1 DEF SendDictSize, AtMapInput, None, Gone
      <4>3. Len(st_pipe') = 1 /\ st_pipe'[1] = Word("dict_size", conf.dict)
        BY <4>1, <4>2 DEF Pushed
      <4> QED
        BY <1>0, <2>0, <4>1, <4>3 DEF Incoming, DictFrom, Word
    <3> QED
      BY <3>1, <3>2
  <2>4. CASE SendDict
    <3>1. CASE fz.pc \in Gone
      BY <2>0, <3>1 DEF Incoming, Gone
    <3>2. CASE fz.pc \notin Gone
      <4>1. /\ srv.pc = "dict" /\ fz.pc \in {"dict_size", "dict"}
            /\ fz.pc = "dict_size" => Len(st_pipe) >= 1
        BY <1>0, <2>4, <3>2 DEF SendDict, AtDict, Settings, SrvTypes
      <4>2. /\ \A i \in 1..Len(st_pipe) : st_pipe'[i] = st_pipe[i]
            /\ \A i \in Len(st_pipe) + 1..Len(st_pipe') : st_pipe'[i].kind = "dict"
            /\ Len(st_pipe') > Len(st_pipe)
        BY <1>0, <2>4, <3>2, DictSent
      <4>3. fz.pc = "dict_size" => st_pipe[1] = Word("dict_size", conf.dict) /\ DictFrom(2)
        BY <4>1 DEF Incoming, None, SrvDead
      <4>4. fz.pc = "dict" => DictFrom(1)
        BY DEF Incoming
      <4>5. ASSUME NEW j \in 1..2, DictFrom(j), NEW k \in 1..Len(st_pipe'), k >= j
            PROVE  st_pipe'[k].kind = "dict"
        BY <1>0, <4>2, <4>5 DEF DictFrom
      <4>6. \A j \in 1..2 : DictFrom(j) => DictFrom(j)'
        BY <1>0, <4>5 DEF DictFrom
      <4> QED
        BY <1>0, <2>0, <4>1, <4>2, <4>3, <4>4, <4>6 DEF Incoming, Word
    <3> QED
      BY <3>1, <3>2
  <2>5. CASE WritePid
    <3>1. srv.pc = "write_pid" /\ fz.pc = "pid" /\ Len(st_pipe) = 0
      BY <2>5 DEF WritePid, AtRun, None
    <3>2. /\ srv'.child_pid = srv.child_pid /\ child' = child
          /\ srv.child_pid # 0 /\ child[srv.child_pid].run = fz.run
      BY <2>5, <3>1, ServerWrites DEF WritePid, ChildUnchg, SrvTypes, Children
    <3>3. Len(st_pipe') = 1 /\ st_pipe'[1] = Word("pid", srv.child_pid)
      BY <2>5, <3>1, ServerWrites DEF Pushed
    <3> QED
      BY <2>0, <3>1, <3>2, <3>3 DEF Incoming, Word
  <2>6. CASE WriteStatus
    <3>1. /\ srv.pc = "write_status" /\ fz.pc \in {"pid", "status", "kill", "killed"}
          /\ Len(st_pipe) = IF fz.pc = "pid" THEN 1 ELSE 0
      BY <2>6 DEF WriteStatus, AtRun, None
    <3>2. srv'.child_pid = srv.child_pid /\ child' = child
      BY <2>6, <3>1, ServerWrites DEF WriteStatus, ChildUnchg, SrvTypes
    <3>3. Pushed(st_pipe, Word("status", srv.status), st_pipe')
      BY <2>6, ServerWrites
    <3>4. CASE fz.pc = "pid"
      <4>1. /\ st_pipe[1] = Word("pid", srv.child_pid) /\ srv.child_pid # 0
            /\ child[srv.child_pid].run = fz.run
        BY <3>1, <3>4 DEF Incoming, None, One, SrvDead
      <4>2. Len(st_pipe) = 1
        BY <3>1, <3>4
      <4>3. Len(st_pipe') = 2
        BY <3>3, <4>2 DEF Pushed
      <4>4. st_pipe'[1] = st_pipe[1] /\ st_pipe'[2].kind = "status"
        BY <3>3, <4>2, <4>3 DEF Pushed, Word
      <4> QED
        BY <2>0, <3>2, <3>4, <4>1, <4>3, <4>4 DEF Incoming, Word
    <3>5. CASE fz.pc # "pid"
      <4>1. Len(st_pipe') = 1 /\ st_pipe'[1].kind = "status"
        BY <3>1, <3>3, <3>5 DEF Pushed, Word
      <4> QED
        BY <2>0, <3>1, <3>5, <4>1 DEF Incoming
    <3> QED
      BY <3>4, <3>5
  <2>7. CASE Fork \/ Continue
    <3>1. Len(st_pipe) = 0 /\ st_pipe' = st_pipe
      BY <2>7 DEF Fork, Continue, AtRun, None
    <3> QED
      BY <1>0, <3>1, NothingIncoming
  <2>8. CASE MapShm \/ ReadOptions \/ MapInput \/ ReadRequest \/ SrvExits \/ WriteOff \/ WaitChild
               \/ ForkFails \/ (\E takes \in BOOLEAN : SrvTerminated(takes)) \/ Child
               \/ UNCHANGED vars
    <3>1. st_pipe' = st_pipe /\ (SrvDead => SrvDead')
      BY <2>8 DEF MapShm, ReadOptions, MapInput, ReadRequest, SrvExits, WriteOff, WaitChild,
         ForkFails, SrvTerminated, Child, ChildEnds, vars, SrvDead
    <3>2. srv'.child_pid = srv.child_pid
      BY <2>8 DEF MapShm, ReadOptions, MapInput, ReadRequest, SrvExits, WriteOff, WaitChild,
         ForkFails, SrvTerminated, Child, ChildEnds, vars, SrvTypes, Goto
    <3>3. \A p \in Pids : child'[p].run = child[p].run
      BY <2>8 DEF MapShm, ReadOptions, MapInput, ReadRequest, SrvExits, WriteOff, WaitChild,
         ForkFails, SrvTerminated, Child, ChildEnds, vars, ChildTypes, ChildUnchg
    <3>4. srv.child_pid # 0 => child'[srv.child_pid].run = child[srv.child_pid].run
      BY <3>3 DEF SrvTypes
    <3> QED
      BY <2>0, <3>1, <3>2, <3>4 DEF Incoming, None, One, DictFrom, Word
  <2> QED
    BY <1>5, <2>1, <2>2, <2>3, <2>4, <2>5, <2>6, <2>7, <2>8 DEF Server, ServerFaults
<1> QED
  BY <1>1, <1>2, <1>3, <1>4, <1>5 DEF Next, Fuzzer, Over

-----------------------------------------------------------------------------
(* The children and the results.                                           *)

\* The fork server knows how its last child is, and the others are reaped.
LEMMA StepChildren == IInv /\ [Next]_vars => Children'
<1> SUFFICES ASSUME IInv, [Next]_vars PROVE Children'
  OBVIOUS
<1> USE DEF IInv, Types, Positions
<1>0. /\ Len(st_pipe) \in Nat /\ Len(ctl_pipe) \in Nat
      /\ Len(st_pipe') \in Nat /\ Len(ctl_pipe') \in Nat
  BY Lengths
<1>a. srv.child_pid # 0 => srv.child_pid \in Pids
  BY DEF SrvTypes
<1>1. CASE Fuzzer /\ ~Kill
  <2>0. UNCHANGED <<srv, child>> /\ SrvDead' = SrvDead
    BY <1>1, FuzzerOnly DEF SrvDead
  <2>1. CASE BuildReadHello \/ BuildMapTooSmall \/ BuildEnds \/ BuildReadDictSize \/ BuildReadDict
    <3>1. /\ fz'.run = fz.run /\ fz'.last_run_timed_out = fz.last_run_timed_out
          /\ fz.pc \in {"hello", "sent", "dict_size", "dict"}
          /\ fz'.pc \notin {"pid", "status", "kill", "killed"}
      BY <2>1, HelloRead, FuzzerMoves, FuzzerFinds DEF BuildMapTooSmall, BuildEnds,
         BuildReadDictSize, BuildReadDict, FzTypes, FzFails
    <3>2. srv.pc \notin {"requested", "write_pid", "wait", "write_status"}
      BY <3>1 DEF AtRun
    <3>3. srv.child_pid # 0 => child[srv.child_pid].st # "running"
      BY <3>1 DEF Children
    <3>4. ~(srv.child_stopped /\ child[srv.child_pid].st = "killed" /\ ~SrvDead)
      BY <3>1, <3>2 DEF Children, Gone
    <3> QED
      BY <2>0, <3>1, <3>2, <3>3, <3>4 DEF Children
  <2>2. CASE RunTarget \/ RunTargetTooLong \/ DropExecutor
    <3>1. /\ fz.pc = "idle" /\ fz'.pc \in {"pid", "error", "panic", "done"}
          /\ fz'.pc = "pid" => ~SrvDead
      BY <2>2, FuzzerMoves
    <3>2. srv.pc \notin {"requested", "write_pid", "wait", "write_status"}
      BY <3>1 DEF AtRun
    <3>3. srv.child_pid # 0 => child[srv.child_pid].st # "running"
      BY <3>1 DEF Children
    <3>4. srv.child_stopped /\ child[srv.child_pid].st = "killed" /\ ~SrvDead =>
             fz'.pc \in Gone \/ (fz'.pc = "pid" /\ Len(ctl_pipe') = 1 /\ ctl_pipe'[1].val = 1)
      <4> SUFFICES ASSUME srv.child_stopped, child[srv.child_pid].st = "killed", ~SrvDead,
                          fz'.pc = "pid"
                   PROVE  Len(ctl_pipe') = 1 /\ ctl_pipe'[1].val = 1
        BY <3>1 DEF Gone
      <4>1. fz.last_run_timed_out = 1 /\ srv.child_pid # 0
        BY <3>1, <3>2 DEF Children, Gone
      <4>2. srv.pc = "loop"
        BY <3>2, <4>1 DEF Children, SrvTypes, SrvPcs, SrvDead
      <4>3. Len(ctl_pipe) = 0
        BY <3>1, <4>2 DEF AtLoop, None
      <4>4. Pushed(ctl_pipe, Word("request", 1), ctl_pipe')
        BY <2>2, <3>1, <4>1, FuzzerMoves
      <4> QED
        BY <4>3, <4>4 DEF Pushed, Word
    <3> QED
      BY <2>0, <3>1, <3>2, <3>3, <3>4 DEF Children, Gone
  <2>3. CASE ReadPid
    <3>1. /\ fz'.run = fz.run /\ fz'.last_run_timed_out = fz.last_run_timed_out
          /\ fz.pc = "pid" /\ ctl_pipe' = ctl_pipe
      BY <2>3, FuzzerFinds DEF ReadPid, FzTypes, FzFails
    <3>2. CASE fz'.pc = "error"
      <4>1. SrvDead
        <5>1. SUFFICES ASSUME ~SrvDead PROVE FALSE
          OBVIOUS
        <5>2. Head(st_pipe).kind = "pid"
          BY <2>3, <5>1, FuzzerFinds DEF Popped, Word
        <5> QED
          BY <2>3, <3>2, <5>2 DEF ReadPid, PositivePid, FzTypes
      <4> QED
        BY <2>0, <3>1, <3>2, <4>1 DEF Children, SrvDead
    <3>3. CASE fz'.pc = "status"
      <4>1. /\ fz'.child_pid = srv.child_pid /\ srv.child_pid # 0
            /\ child[srv.child_pid].run = fz.run
        BY <2>3, <3>3, FuzzerMoves, FuzzerFinds DEF Word, ErrorWord
      <4>2. Len(st_pipe) # 0 /\ Len(st_pipe') = Len(st_pipe) - 1
        BY <2>3, FuzzerFinds DEF Popped
      <4>3. child[srv.child_pid].st = "running" => Len(st_pipe') = 0
        BY <1>0, <3>1, <4>1, <4>2 DEF Children
      <4>4. ~(srv.child_stopped /\ child[srv.child_pid].st = "killed" /\ ~SrvDead)
        <5>1. SUFFICES ASSUME srv.child_stopped, child[srv.child_pid].st = "killed", ~SrvDead
                       PROVE  FALSE
          OBVIOUS
        <5>2. srv.pc \notin {"requested", "write_pid"}
          BY <3>1, <4>2 DEF AtRun, None
        <5>3. Len(ctl_pipe) = 0
          <6>1. srv.pc \in {"loop", "wait", "write_status"}
            BY <4>1, <5>1, <5>2 DEF Children, SrvTypes, SrvPcs, SrvDead
          <6> QED
            BY <3>1, <4>2, <6>1 DEF AtLoop, AtRun, None
        <5> QED
          BY <3>1, <5>1, <5>2, <5>3 DEF Children, Gone
      <4> QED
        BY <2>0, <3>1, <3>3, <4>1, <4>3, <4>4 DEF Children, None
    <3> QED
      BY <2>3, <3>2, <3>3, FuzzerMoves
  <2>4. CASE ReadStatus
    <3>1. /\ fz'.run = fz.run /\ fz'.last_run_timed_out = fz.last_run_timed_out
          /\ fz.pc = "status" /\ fz'.pc = "idle" /\ Len(st_pipe) = 1
      BY <2>4, FuzzerMoves, FuzzerFinds DEF ReadStatus, Returns, FzTypes
    <3>2. srv.pc \notin {"requested", "write_pid", "wait", "write_status"}
      BY <3>1 DEF AtRun, None
    <3>3. srv.child_pid # 0 => child[srv.child_pid].st # "running"
      BY <3>1 DEF Children, None
    <3>4. ~(srv.child_stopped /\ child[srv.child_pid].st = "killed" /\ ~SrvDead)
      BY <3>1, <3>2 DEF Children, Gone
    <3> QED
      BY <2>0, <3>1, <3>2, <3>3, <3>4 DEF Children
  <2>5. CASE ReadKilled
    <3>1. /\ fz'.run = fz.run /\ fz'.last_run_timed_out = fz.last_run_timed_out
          /\ fz.pc = "killed" /\ fz'.pc = "idle" /\ Len(st_pipe) = 1
          /\ fz.last_run_timed_out = 1
      BY <2>5, FuzzerMoves, FuzzerFinds DEF ReadKilled, Returns, FzTypes, Children
    <3>2. srv.pc \notin {"requested", "write_pid", "wait", "write_status"}
      BY <3>1 DEF AtRun, None
    <3>3. srv.child_pid # 0 => child[srv.child_pid].st # "running"
      BY <3>1 DEF Children, None
    <3> QED
      BY <2>0, <3>1, <3>2, <3>3 DEF Children
  <2>6. CASE TimesOut
    <3>1. /\ fz'.run = fz.run /\ fz'.last_run_timed_out = 1 /\ fz'.child_pid = fz.child_pid
          /\ fz.pc = "status" /\ fz'.pc = "kill" /\ st_pipe' = st_pipe
      BY <2>6, FuzzerMoves DEF TimesOut, FzTypes
    <3>2. srv.pc \notin {"requested", "write_pid"}
      BY <3>1 DEF AtRun
    <3>3. ~(srv.child_stopped /\ child[srv.child_pid].st = "killed" /\ ~SrvDead)
      BY <3>1, <3>2 DEF Children, Gone
    <3> QED
      BY <2>0, <3>1, <3>2, <3>3 DEF Children, None
  <2>7. CASE ReadFails
    <3>1. fz'.run = fz.run /\ fz'.pc = "error" /\ SrvDead
      BY <2>7, FuzzerMoves DEF ReadFails, FzFails, FzTypes
    <3> QED
      BY <2>0, <3>1 DEF Children, SrvDead
  <2> QED
    BY <1>1, <2>1, <2>2, <2>3, <2>4, <2>5, <2>6, <2>7 DEF Fuzzer
<1>2. CASE Kill
  <2> DEFINE p == srv.child_pid
  <2>0. srv' = srv /\ SrvDead' = SrvDead /\ fz.pc = "kill" /\ fz'.pc = "killed"
        /\ UNCHANGED <<st_pipe, ctl_pipe>>
    BY <1>2, FuzzerOnly, FuzzerMoves DEF SrvDead, Fuzzer
  <2>1. fz'.run = fz.run /\ fz'.last_run_timed_out = fz.last_run_timed_out
        /\ fz'.child_pid = fz.child_pid
    BY <1>2 DEF Kill, FzTypes
  <2>2. p # 0 /\ p \in Pids /\ fz.child_pid = p /\ child[p].run = fz.run
        /\ fz.last_run_timed_out = 1
    BY <1>a, <2>0 DEF Children
  <2>3. /\ \A q \in Pids : q # p => child'[q] = child[q]
        /\ child'[p].run = child[p].run
        /\ \/ child'[p].st = child[p].st /\ child'[p].st # "running"
           \/ child'[p].st = "killed" /\ child[p].st \in {"running", "stopped"}
    BY <1>2, <2>2 DEF Kill, ChildTypes
  <2> HIDE DEF p
  <2>4. srv.pc \notin {"map_shm", "start", "options", "map_input", "send_dict", "dict",
                       "requested", "write_pid"}
    BY <2>0, <2>2 DEF Children, AtRun, p
  <2>5. srv'.pc \in {"loop", "write_status"} =>
           child'[p].st \in IF srv.child_stopped THEN {"stopped", "killed"} ELSE {"reaped"}
    BY <2>0, <2>2, <2>3 DEF Children, p
  <2>6. \A q \in Pids : q # p => child'[q].st \in {"none", "reaped"}
    BY <2>3 DEF Children, p
  <2>7. srv.pc = "wait" => ~srv.child_stopped /\ child'[p].st # "reaped"
    BY <2>3 DEF Children, p
  <2>8. srv.pc \in {"wait", "write_status"} => child'[p].st # "none"
    BY <2>3 DEF Children, p
  <2>9. child'[p].st # "running"
    BY <2>3
  <2> QED
    BY <2>0, <2>1, <2>2, <2>3, <2>4, <2>5, <2>6, <2>7, <2>8, <2>9 DEF Children, p, Gone
<1>3. CASE Server \/ ServerFaults
  <2>0. fz' = fz
    BY <1>3, ServerOnly
  <2>1. CASE MapShm \/ StartForkserver \/ MapInput \/ SendDictSize \/ SendDict
    <3>1. /\ child' = child /\ UNCHANGED <<srv.child_pid, srv.child_stopped>>
          /\ srv.pc \in {"map_shm", "start", "map_input", "send_dict", "dict"}
      BY <2>1 DEF MapShm, StartForkserver, MapInput, SendDictSize, SendDict, ChildUnchg,
         Goto, Tell, SrvTypes
    <3>2. srv.child_pid = 0 /\ ~srv.child_stopped
      BY <3>1 DEF Children
    <3>3. srv'.pc \in {"start", "options", "loop", "send_dict", "dict", "dead"}
      BY <2>1 DEF MapShm, StartForkserver, MapInput, SendDictSize, SendDict, Goto, Tell, SrvTypes
    <3> QED
      BY <2>0, <3>1, <3>2, <3>3 DEF Children
  <2>2. CASE ReadOptions
    <3>1. /\ child' = child /\ UNCHANGED <<srv.child_pid, srv.child_stopped>>
          /\ srv.pc = "options" /\ srv'.pc \in {"map_input", "send_dict"}
      BY <2>2 DEF ReadOptions, ChildUnchg, SrvTypes
    <3>2. srv.child_pid = 0 /\ ~srv.child_stopped
      BY <3>1 DEF Children
    <3> QED
      BY <2>0, <3>1, <3>2 DEF Children
  <2>3. CASE ReadRequest
    <3>1. /\ UNCHANGED <<child, st_pipe, srv.child_pid, srv.child_stopped>>
          /\ srv.pc = "loop" /\ srv'.pc = "requested"
      BY <2>3 DEF ReadRequest, ChildUnchg, SrvTypes
    <3>2. srv.child_stopped /\ child[srv.child_pid].st = "killed" => srv'.was_killed
      <4> SUFFICES ASSUME srv.child_stopped, child[srv.child_pid].st = "killed"
                   PROVE  srv'.was_killed
        OBVIOUS
      <4>1. ~srv.already_read_first
        BY <3>1 DEF AtLoop, Children
      <4>2. Popped(ctl_pipe, ctl_pipe') /\ srv'.was_killed = Nonzero(Head(ctl_pipe))
        BY <2>3, <4>1, ServerReads DEF ReadRequest, SrvTypes
      <4>3. fz.pc = "pid"
        BY <3>1, <4>1, <4>2 DEF AtLoop, Popped, None
      <4>4. ctl_pipe[1].val = 1
        BY <3>1, <4>3 DEF Children, Gone, SrvDead
      <4>5. Nonzero(Head(ctl_pipe))
        BY <4>2, <4>4 DEF Popped, Nonzero
      <4> QED
        BY <4>2, <4>5
    <3>3. fz.pc = "pid" /\ Len(st_pipe) = 0
      <4>1. CASE srv.already_read_first
        BY <3>1, <4>1 DEF AtLoop, None
      <4>2. CASE ~srv.already_read_first
        <5>1. Popped(ctl_pipe, ctl_pipe')
          BY <2>3, <4>2, ServerReads
        <5> QED
          BY <3>1, <4>2, <5>1 DEF AtLoop, None, Popped
      <4> QED
        BY <4>1, <4>2
    <3> QED
      BY <2>0, <3>1, <3>2, <3>3 DEF Children, None
  <2>4. CASE WriteOff
    <3>1. /\ UNCHANGED <<st_pipe, ctl_pipe, srv.child_pid>>
          /\ srv.pc = "requested" /\ srv'.pc = "requested"
          /\ srv.child_stopped /\ ~srv'.child_stopped
          /\ child' = [child EXCEPT ![srv.child_pid].st = "reaped"]
      BY <2>4 DEF WriteOff, SrvTypes
    <3>2. srv.child_pid \in Pids
      BY <1>a, <3>1 DEF Children
    <3>3. /\ child'[srv.child_pid].st = "reaped"
          /\ child'[srv.child_pid].run = child[srv.child_pid].run
          /\ \A q \in Pids : q # srv.child_pid => child'[q] = child[q]
      BY <3>1, <3>2 DEF ChildTypes
    <3> QED
      BY <2>0, <3>1, <3>2, <3>3 DEF Children, AtRun
  <2>5. CASE Fork
    <3>1. PICK p \in Pids :
             /\ child[p].st = "none"
             /\ child' = [child EXCEPT ![p] = [st |-> "running", run |-> fz.run]]
             /\ srv' = [srv EXCEPT !.pc = "write_pid", !.child_pid = p]
      BY <2>5 DEF Fork
    <3>2. srv.pc = "requested" /\ ~srv.child_stopped /\ UNCHANGED <<st_pipe, ctl_pipe>>
      BY <2>5 DEF Fork
    <3>3. fz.pc = "pid" /\ Len(st_pipe) = 0
      BY <3>2 DEF AtRun, None
    <3>4. srv.child_pid # 0 => child[srv.child_pid].st = "reaped"
      BY <3>2 DEF Children
    <3>5. p # 0 /\ p # srv.child_pid
      BY <3>1, <3>4, ForkserverAssumption DEF Pids
    <3>6. /\ child'[p].st = "running" /\ child'[p].run = fz.run
          /\ \A q \in Pids : q # p => child'[q] = child[q]
      BY <3>1 DEF ChildTypes
    <3>7. srv'.child_pid = p /\ ~srv'.child_stopped /\ srv'.pc = "write_pid"
      BY <3>1, <3>2 DEF SrvTypes
    <3>8. \A q \in Pids : q # p => child'[q].st \in {"none", "reaped"}
      <4>1. \A q \in Pids : q # 0
        BY ForkserverAssumption DEF Pids
      <4> QED
        BY <3>4, <3>6, <4>1 DEF Children
    <3> QED
      BY <2>0, <3>2, <3>3, <3>5, <3>6, <3>7, <3>8 DEF Children, None
  <2>6. CASE Continue
    <3>1. /\ UNCHANGED <<st_pipe, ctl_pipe, srv.child_pid>> /\ srv.pc = "requested"
          /\ srv'.pc = "write_pid" /\ srv.child_stopped /\ ~srv'.child_stopped /\ ~srv.was_killed
      BY <2>6 DEF Continue, SrvTypes
    <3>2. srv.child_pid \in Pids /\ srv.child_pid # 0
      BY <1>a, <3>1 DEF Children
    <3>3. fz.pc = "pid" /\ Len(st_pipe) = 0 /\ Len(ctl_pipe) = 0
      BY <3>1 DEF AtRun, None
    <3>4. child[srv.child_pid].st = "stopped"
      BY <3>1, <3>2, <3>3 DEF Children, Gone, SrvDead
    <3>5. /\ child'[srv.child_pid].st = "running" /\ child'[srv.child_pid].run = fz.run
          /\ \A q \in Pids : q # srv.child_pid => child'[q] = child[q]
      BY <2>6, <3>2, <3>4 DEF Continue, ChildTypes
    <3> QED
      BY <2>0, <3>1, <3>2, <3>3, <3>5 DEF Children, None
  <2>7. CASE WritePid
    <3>1. srv' = [srv EXCEPT !.pc = "wait"] /\ child' = child /\ ctl_pipe' = ctl_pipe
          /\ Len(st_pipe') = Len(st_pipe) + 1 /\ srv.pc = "write_pid"
      BY <2>7, ServerWrites DEF WritePid, ChildUnchg, Pushed
    <3>2. fz.pc = "pid" /\ Len(st_pipe) = 0
      BY <3>1 DEF AtRun, None
    <3>3. Len(st_pipe') = 1
      BY <3>1, <3>2
    <3>4. UNCHANGED <<srv.child_pid, srv.child_stopped>> /\ srv'.pc = "wait"
      BY <3>1 DEF SrvTypes
    <3> QED
      BY <2>0, <3>1, <3>2, <3>3, <3>4 DEF Children, None
  <2>8. CASE WaitChild
    <3>1. /\ srv.pc = "wait" /\ srv'.pc = "write_status"
          /\ UNCHANGED <<st_pipe, ctl_pipe, srv.child_pid>>
          /\ srv'.child_stopped = ((child[srv.child_pid].st = "stopped") \/ srv.child_stopped)
      BY <2>8 DEF WaitChild, SrvTypes
    <3>2. ~srv.child_stopped /\ srv.child_pid \in Pids /\ srv.child_pid # 0
      BY <1>a, <3>1 DEF Children
    <3>3. /\ \A q \in Pids : q # srv.child_pid => child'[q] = child[q]
          /\ child'[srv.child_pid].run = child[srv.child_pid].run
          /\ \/ child[srv.child_pid].st \in Zombie /\ child'[srv.child_pid].st = "reaped"
             \/ child[srv.child_pid].st = "stopped" /\ child'[srv.child_pid].st = "stopped"
      BY <2>8, <3>2 DEF WaitChild, ChildTypes, Zombie
    <3>4. srv'.child_stopped <=> child[srv.child_pid].st = "stopped"
      BY <3>1, <3>2
    <3>5. \/ ~srv'.child_stopped /\ child'[srv.child_pid].st = "reaped"
          \/ srv'.child_stopped /\ child'[srv.child_pid].st = "stopped"
      BY <3>3, <3>4 DEF Zombie
    <3>6. \A q \in Pids : q # srv.child_pid => child'[q].st \in {"none", "reaped"}
      BY <3>3 DEF Children
    <3> QED
      BY <2>0, <3>1, <3>2, <3>3, <3>5, <3>6 DEF Children
  <2>9. CASE WriteStatus
    <3>1. srv' = [srv EXCEPT !.pc = "loop"] /\ child' = child /\ ctl_pipe' = ctl_pipe
          /\ Len(st_pipe') = Len(st_pipe) + 1 /\ srv.pc = "write_status"
      BY <2>9, ServerWrites DEF WriteStatus, ChildUnchg, Pushed
    <3>2. UNCHANGED <<srv.child_pid, srv.child_stopped>> /\ srv'.pc = "loop"
      BY <3>1 DEF SrvTypes
    <3>3. srv.child_pid # 0 /\ child[srv.child_pid].st # "running"
      BY <3>1 DEF Children
    <3> QED
      BY <2>0, <3>1, <3>2, <3>3 DEF Children, SrvDead
  <2>10. CASE SrvExits
    <3>1. child' = child /\ UNCHANGED <<srv.child_pid, srv.child_stopped>> /\ srv'.pc = "dead"
      BY <2>10 DEF SrvExits, ChildUnchg, Goto, SrvTypes
    <3>2. fz.pc \in Gone /\ UNCHANGED <<st_pipe, ctl_pipe>>
      BY <2>10 DEF SrvExits
    <3> QED
      BY <2>0, <3>1, <3>2 DEF Children, SrvDead, Gone
  <2>11. CASE MapShmFails \/ MapInputFails
    <3>1. child' = child /\ UNCHANGED <<srv.child_pid, srv.child_stopped>> /\ srv'.pc = "dead"
          /\ srv.pc \in {"map_shm", "map_input"}
      BY <2>11 DEF MapShmFails, MapInputFails, Fails, Tell, ChildUnchg, SrvTypes
    <3>2. srv.child_pid = 0
      BY <3>1 DEF Children
    <3> QED
      BY <2>0, <3>1, <3>2 DEF Children, SrvDead
  <2>12. CASE ForkFails
    <3>1. child' = child /\ UNCHANGED <<srv.child_pid, srv.child_stopped, st_pipe, ctl_pipe>>
          /\ srv'.pc = "dead"
      BY <2>12 DEF ForkFails, ChildUnchg, Goto, SrvTypes
    <3> QED
      BY <2>0, <3>1 DEF Children, SrvDead, None
  <2>13. ASSUME NEW takes \in BOOLEAN, SrvTerminated(takes) PROVE Children'
    <3>1. UNCHANGED <<srv.child_pid, srv.child_stopped, st_pipe, ctl_pipe>> /\ srv'.pc = "dead"
      BY <2>13 DEF SrvTerminated, Goto, SrvTypes
    <3>2. \A q \in Pids :
            /\ child'[q].run = child[q].run
            /\ child'[q].st = child[q].st \/ (child'[q].st = "killed" /\ q = srv.child_pid)
      BY <2>13, <1>a DEF SrvTerminated, ChildTypes
    <3>3. srv.child_pid # 0 =>
            /\ child'[srv.child_pid].run = child[srv.child_pid].run
            /\ child'[srv.child_pid].st = "running" => child[srv.child_pid].st = "running"
      BY <3>2, <1>a
    <3>4. \A q \in Pids : q # srv.child_pid => child'[q].st \in {"none", "reaped"}
      BY <3>2 DEF Children
    <3> QED
      BY <2>0, <3>1, <3>3, <3>4 DEF Children, SrvDead, None
  <2> QED
    BY <1>3, <2>1, <2>2, <2>3, <2>4, <2>5, <2>6, <2>7, <2>8, <2>9, <2>10, <2>11, <2>12, <2>13
       DEF Server, ServerFaults
<1>4. CASE Child
  <2>1. PICK p \in Pids, st \in {"exited", "crashed", "stopped"} : ChildEnds(p, st)
    BY <1>4 DEF Child
  <2>2. UNCHANGED <<fz, srv, st_pipe, ctl_pipe>> /\ SrvDead' = SrvDead
    BY <1>4, TargetOnly DEF SrvDead
  <2>3. /\ child[p].st = "running" /\ child' = [child EXCEPT ![p].st = st]
    BY <2>1 DEF ChildEnds
  <2>4. p = srv.child_pid
    BY <2>3 DEF Children
  <2>5. /\ child'[p].st = st /\ child'[p].run = child[p].run
        /\ \A q \in Pids : q # p => child'[q] = child[q]
    BY <2>3 DEF ChildTypes
  <2>6. srv.pc \notin {"loop", "requested", "write_status"}
    BY <2>3, <2>4, <1>a, ForkserverAssumption DEF Children, Pids
  <2> QED
    BY <2>2, <2>3, <2>4, <2>5, <2>6 DEF Children
<1>5. CASE UNCHANGED vars
  BY <1>5 DEF vars, Children, SrvDead, None
<1> QED
  BY <1>1, <1>2, <1>3, <1>4, <1>5 DEF Next, Over

\* A step that leaves runs and their results alone, and the fuzzer where statuses are judged
LEMMA StepResults == IInv /\ [Next]_vars => ResultsAreTrue'
<1> SUFFICES ASSUME IInv, [Next]_vars PROVE ResultsAreTrue'
  OBVIOUS
<1> USE DEF IInv, Types
<1>1. CASE ReadStatus \/ ReadKilled
  <2> DEFINE r == IF fz.pc = "killed" THEN "Timeout"
                  ELSE IF st_pipe[1].val \in {"crashed", "killed"} THEN "Crash" ELSE "Ok"
  <2>1. /\ Len(st_pipe) = 1 /\ st_pipe[1].kind = "status" /\ ran' = ran
        /\ fz.pc \in {"status", "killed"} /\ fz.run \in Runs
    BY <1>1, FuzzerFinds, FuzzerOnly, FuzzerMoves DEF Fuzzer, ReadStatus, ReadKilled,
       SrvUnchg, FzTypes
  <2>2. Head(st_pipe) = st_pipe[1] /\ st_pipe[1].val \in Statuses
    BY <1>1, <2>1, FuzzerReads, WordValues DEF Popped
  <2>3. result' = [result EXCEPT ![fz.run] = r]
    BY <1>1, <2>2 DEF ReadStatus, ReadKilled, Returns
  <2>4. Tells(st_pipe[1].val)
    BY <2>1, Lengths DEF Outcomes
  <2>5. /\ r = "Ok" => ran[fz.run] = "ok"
        /\ r = "Crash" => ran[fz.run] = "crash"
        /\ r = "Timeout" => ran[fz.run] # "none"
    BY <2>1, <2>2, <2>4 DEF Tells, Statuses, Zombie
  <2> HIDE DEF r
  <2> QED
    BY <2>1, <2>3, <2>5 DEF ResultsAreTrue, HistoryTypes
<1>2. CASE ~ReadStatus /\ ~ReadKilled
  <2>1. result' = result
    BY <1>2, ServerOnly DEF Next, Fuzzer, Over, vars, history, BuildReadHello,
       BuildMapTooSmall, BuildEnds, BuildReadDictSize, BuildReadDict, RunTarget,
       RunTargetTooLong, ReadPid, TimesOut, Kill, ReadFails, DropExecutor
  <2>2. ASSUME NEW n \in Runs, ran'[n] # ran[n] PROVE result[n] = "none"
    <3>1. PICK p \in Pids : child[p].st = "running" /\ n = child[p].run
      <4>1. CASE Kill
        BY <2>2, <4>1 DEF Kill, HistoryTypes, ChildTypes
      <4>2. CASE \E takes \in BOOLEAN : SrvTerminated(takes)
        BY <2>2, <4>2 DEF SrvTerminated, HistoryTypes, ChildTypes, SrvTypes
      <4>3. CASE Child
        BY <2>2, <4>3 DEF Child, ChildEnds, HistoryTypes, ChildTypes
      <4>4. CASE Fuzzer /\ ~Kill
        BY <2>2, <4>4, FuzzerOnly
      <4>5. CASE UNCHANGED vars
        BY <2>2, <4>5 DEF vars, history
      <4>6. CASE \/ Server \/ MapShmFails \/ MapInputFails \/ ForkFails
        BY <2>2, <4>6 DEF Server, MapShm, StartForkserver, ReadOptions,
           MapInput, SendDictSize, SendDict, ReadRequest, SrvExits, WriteOff, Fork, Continue,
           WritePid, WaitChild, WriteStatus, MapShmFails, MapInputFails, ForkFails,
           Fails, ChildUnchg
      <4> QED
        BY <4>1, <4>2, <4>3, <4>4, <4>5, <4>6 DEF Next, ServerFaults, Over
    <3>2. ran[n] = "none"
      BY <3>1 DEF Outcomes
    <3> QED
      BY <3>2 DEF ResultsAreTrue, HistoryTypes
  <2> QED
    BY <2>1, <2>2 DEF ResultsAreTrue
<1> QED
  BY <1>1, <1>2

\* No status is on its way as long as a child runs.
LEMMA NoStatusYet ==
  ASSUME IInv, srv.child_pid # 0, child[srv.child_pid].st = "running",
         fz.pc \in {"pid", "status", "kill", "killed"}, NEW i \in DOMAIN st_pipe
  PROVE  st_pipe[i].kind # "status"
<1> USE DEF IInv, Types
<1>1. DOMAIN st_pipe = 1..Len(st_pipe) /\ Len(st_pipe) \in Nat
  BY PipeFacts DEF PipeTypes
<1>2. fz.pc = "pid" /\ Len(st_pipe) < 2
  BY <1>1 DEF Children, None
<1>3. i = 1 /\ Len(st_pipe) = 1
  BY <1>1, <1>2
<1>4. st_pipe[1] = ErrorWord \/ st_pipe[1] = Word("pid", srv.child_pid)
  BY <1>2, <1>3 DEF Incoming, None, One
<1> QED
  BY <1>3, <1>4 DEF ErrorWord, Word

\* Statuses tell how the present run ended.
LEMMA StepOutcomes == IInv /\ [Next]_vars => Outcomes'
<1> SUFFICES ASSUME IInv, [Next]_vars PROVE Outcomes'
  OBVIOUS
<1> USE DEF IInv, Types, Positions
<1>0. /\ Len(st_pipe) \in Nat /\ DOMAIN st_pipe = 1..Len(st_pipe)
      /\ Len(st_pipe') \in Nat /\ DOMAIN st_pipe' = 1..Len(st_pipe')
  BY Lengths
<1>a. /\ srv.child_pid # 0 => srv.child_pid \in Pids
      /\ fz.run \in Nat /\ fz.run \in Runs /\ \A q \in Pids : q # 0 /\ child[q].run \in Runs
      /\ \A n \in Runs : n \in Nat
  BY ForkserverAssumption DEF SrvTypes, FzTypes, Runs, Pids, ChildTypes
<1>1. CASE Fuzzer /\ ~Kill
  <2>0. UNCHANGED <<srv, child, ran>>
    BY <1>1, FuzzerOnly
  <2>1. CASE BuildReadHello \/ BuildMapTooSmall \/ BuildEnds \/ BuildReadDictSize \/ BuildReadDict
               \/ ReadStatus \/ ReadKilled \/ ReadFails
    <3>1. /\ fz'.run = fz.run /\ fz'.pc \notin {"pid", "status", "kill", "killed"}
      BY <2>1, HelloRead, FuzzerMoves, FuzzerFinds DEF BuildMapTooSmall, BuildEnds,
         BuildReadDictSize, BuildReadDict, ReadStatus, ReadKilled, ReadFails, Returns,
         FzTypes, FzFails
    <3>2. SrvDead \/ fz.pc \in {"hello", "sent", "dict_size", "dict"}
             \/ (fz.pc \in {"status", "killed"} /\ Len(st_pipe) = 1)
      BY <2>1, HelloRead, FuzzerMoves, FuzzerFinds
    <3>3. srv.pc \notin {"write_pid", "wait", "write_status"}
      BY <3>2, SMTT(30) DEF AtRun, None, SrvDead
    <3> QED
      BY <2>0, <3>1, <3>3 DEF Outcomes
  <2>2. CASE RunTarget \/ RunTargetTooLong \/ DropExecutor
    <3>1. /\ fz.pc = "idle" /\ fz'.pc \in {"pid", "error", "panic", "done"}
          /\ fz'.pc = "pid" => ~SrvDead /\ fz'.run = fz.run + 1
          /\ fz'.run \in {fz.run, fz.run + 1} /\ st_pipe' = st_pipe
      BY <2>2, FuzzerMoves DEF RunTarget, RunTargetTooLong, DropExecutor, FzTypes
    <3>2. srv.pc \notin {"requested", "write_pid", "wait", "write_status"}
      BY <3>1 DEF AtRun
    <3>3. fz'.pc = "pid" => Len(st_pipe) = 0
      BY <3>1 DEF Incoming, None
    <3>4. fz'.run \in Runs
      BY StepTypes DEF FzTypes
    <3>5. fz'.pc = "pid" => ran[fz'.run] = "none"
      BY <1>a, <3>1, <3>4 DEF Outcomes
    <3>6. /\ \A n \in Runs : n > fz'.run => n > fz.run
          /\ \A n \in Runs : n <= fz.run => n <= fz'.run
      BY <1>a, <3>1
    <3> QED
      BY <1>0, <1>a, <2>0, <3>1, <3>2, <3>3, <3>5, <3>6 DEF Outcomes
  <2>3. CASE ReadPid
    <3>1. fz'.run = fz.run /\ fz.pc = "pid" /\ fz'.pc \in {"status", "error"}
      BY <2>3, FuzzerFinds, FuzzerMoves DEF ReadPid, FzTypes, FzFails
    <3>2. fz'.pc = "error" => SrvDead
      <4>1. SUFFICES ASSUME ~SrvDead PROVE fz'.pc # "error"
        OBVIOUS
      <4>2. Head(st_pipe).kind = "pid"
        BY <2>3, <4>1, FuzzerFinds DEF Popped, Word
      <4> QED
        BY <2>3, <4>2 DEF ReadPid, PositivePid, FzTypes
    <3>3. \A s : Tells(s) => Tells(s)' \/ SrvDead
      BY <2>0, <3>1, <3>2 DEF Tells
    <3>4. \A i \in DOMAIN st_pipe' : i + 1 \in DOMAIN st_pipe /\ st_pipe'[i] = st_pipe[i + 1]
      <4>1. Popped(st_pipe, st_pipe')
        BY <2>3, FuzzerFinds
      <4> QED
        BY <1>0, <4>1 DEF Popped
    <3>5. fz'.pc = "status" => \A s : Tells(s) => Tells(s)'
      BY <2>0, <3>1 DEF Tells
    <3> QED
      BY <2>0, <3>1, <3>2, <3>3, <3>4, <3>5 DEF Outcomes, SrvDead
  <2>4. CASE TimesOut
    <3>1. fz'.run = fz.run /\ fz.pc = "status" /\ fz'.pc = "kill" /\ st_pipe' = st_pipe
      BY <2>4, FuzzerMoves DEF TimesOut, FzTypes
    <3>2. \A s : Tells(s) => Tells(s)'
      BY <2>0, <3>1 DEF Tells
    <3> QED
      BY <2>0, <3>1, <3>2 DEF Outcomes
  <2> QED
    BY <1>1, <2>1, <2>2, <2>3, <2>4 DEF Fuzzer
<1>2. CASE Kill
  <2> DEFINE p == srv.child_pid
  <2>0. srv' = srv /\ fz.pc = "kill" /\ fz'.pc = "killed" /\ UNCHANGED <<st_pipe, ctl_pipe>>
    BY <1>2, FuzzerOnly, FuzzerMoves DEF Fuzzer
  <2>1. fz'.run = fz.run
    BY <1>2 DEF Kill, FzTypes
  <2>2. p # 0 /\ p \in Pids /\ fz.child_pid = p /\ child[p].run = fz.run
    BY <1>a, <2>0 DEF Children
  <2>3. /\ \A q \in Pids : (q # p => child'[q] = child[q]) /\ child'[q].run = child[q].run
        /\ \/ child'[p].st = child[p].st /\ child'[p].st # "running" /\ ran' = ran
           \/ child'[p].st = "killed" /\ child[p].st = "stopped" /\ ran' = ran
           \/ /\ child'[p].st = "killed" /\ child[p].st = "running"
              /\ ran' = [ran EXCEPT ![fz.run] = "killed"]
    BY <1>2, <2>2 DEF Kill, ChildTypes
  <2> HIDE DEF p
  <2>4. \A q \in Pids : q # p => child[q].st # "running"
    BY DEF Children, p
  <2>5. CASE /\ ran' = ran
             /\ \/ child'[p].st = child[p].st
                \/ child'[p].st = "killed" /\ child[p].st = "stopped"
    <3>1. \A s : Tells(s) => Tells(s)'
      BY <2>0, <2>1, <2>5 DEF Tells
    <3>2. Tells("stopped") => Tells("killed")'
      BY <2>0, <2>1, <2>5 DEF Tells
    <3>3. child'[p].st # "running"
      BY <2>3
    <3>4. srv.pc \in {"write_pid", "wait"} => \A s : s = child'[p].st => Tells(s)'
      <4>1. SUFFICES ASSUME srv.pc \in {"write_pid", "wait"}, NEW s, s = child'[p].st
                     PROVE  Tells(s)'
        OBVIOUS
      <4>2. Tells(child[p].st)
        BY <2>5, <3>3, <4>1 DEF Outcomes, p
      <4>3. CASE child'[p].st = child[p].st
        BY <3>1, <4>1, <4>2, <4>3
      <4>4. CASE child'[p].st = "killed" /\ child[p].st = "stopped"
        BY <3>2, <4>1, <4>2, <4>4
      <4> QED
        BY <2>5, <4>3, <4>4
    <3>5. \A q \in Pids : child'[q].st # "running"
      BY <2>3, <2>4, <3>3
    <3> QED
      BY <2>0, <2>1, <2>2, <2>3, <2>5, <3>1, <3>4, <3>5 DEF Outcomes, p
  <2>6. CASE /\ child[p].st = "running" /\ child'[p].st = "killed"
             /\ ran' = [ran EXCEPT ![fz.run] = "killed"]
    <3>1. ran'[fz.run] = "killed" /\ \A n \in Runs : n > fz.run => ran'[n] = ran[n]
      BY <1>a, <2>6 DEF HistoryTypes
    <3>2. \A q \in Pids : child'[q].st # "running"
      BY <2>3, <2>4, <2>6
    <3>3. srv.pc # "write_status"
      BY <2>2, <2>6 DEF Children, p
    <3>4. \A i \in DOMAIN st_pipe : st_pipe[i].kind # "status"
      BY <2>0, <2>2, <2>6, NoStatusYet DEF p
    <3>5. Tells("killed")'
      BY <2>0, <2>1, <3>1 DEF Tells
    <3> QED
      BY <2>0, <2>1, <2>3, <2>6, <3>1, <3>2, <3>3, <3>4, <3>5 DEF Outcomes, p
  <2> QED
    BY <2>3, <2>5, <2>6
<1>3. CASE Server \/ ServerFaults
  <2>0. fz' = fz
    BY <1>3, ServerOnly
  <2>1. ASSUME ran' = ran PROVE \A s : Tells(s)' <=> Tells(s)
    BY <2>0, <2>1 DEF Tells
  <2>2. CASE MapShm \/ StartForkserver \/ ReadOptions \/ MapInput \/ SendDictSize \/ SendDict
               \/ ReadRequest \/ SrvExits
    <3>1. /\ UNCHANGED <<ran, child>>
          /\ srv.pc \in {"map_shm", "start", "options", "map_input", "send_dict", "dict", "loop"}
      BY <2>2 DEF MapShm, StartForkserver, ReadOptions, MapInput, SendDictSize, SendDict,
         ReadRequest, SrvExits, ChildUnchg
    <3>2. srv'.pc \notin {"write_pid", "wait", "write_status"}
      BY <1>3, <2>2, <3>1, ServerMoves DEF Fork, Continue, WritePid, WaitChild
    <3>3. st_pipe' = st_pipe \/ fz.pc \in {"hello", "dict_size", "dict"} \cup Gone
      <4>1. CASE SendDictSize
        BY <4>1, DictSizeSent
      <4>2. CASE StartForkserver \/ SendDict
        BY <4>2 DEF StartForkserver, SendDict, AtStart, AtDict
      <4>3. CASE MapShm \/ ReadOptions \/ MapInput \/ ReadRequest \/ SrvExits
        BY <4>3 DEF MapShm, ReadOptions, MapInput, ReadRequest, SrvExits
      <4> QED
        BY <2>2, <4>1, <4>2, <4>3
    <3> QED
      BY <2>0, <2>1, <3>1, <3>2, <3>3 DEF Outcomes, None, Gone
  <2>3. CASE WriteOff
    <3>1. /\ UNCHANGED <<ran, st_pipe, srv.child_pid>>
          /\ srv.pc = "requested" /\ srv'.pc = "requested"
          /\ child' = [child EXCEPT ![srv.child_pid].st = "reaped"]
      BY <2>3 DEF WriteOff, SrvTypes
    <3>2. \A q \in Pids : child'[q].run = child[q].run /\ child'[q].st \in {child[q].st, "reaped"}
      BY <3>1 DEF ChildTypes
    <3> QED
      BY <2>0, <2>1, <3>1, <3>2 DEF Outcomes, None
  <2>4. CASE Fork \/ Continue
    <3>1. /\ UNCHANGED <<ran, st_pipe>> /\ srv.pc = "requested" /\ srv'.pc = "write_pid"
      BY <2>4 DEF Fork, Continue, SrvTypes
    <3>2. fz.pc = "pid" /\ Len(st_pipe) = 0
      BY <3>1 DEF AtRun, None
    <3>3. ran[fz.run] = "none"
      BY <3>1, <3>2 DEF Outcomes, None
    <3>4. \E p \in Pids :
             /\ srv'.child_pid = p /\ child'[p].st = "running" /\ child'[p].run = fz.run
             /\ \A q \in Pids : q # p => child'[q] = child[q]
      <4>1. CASE Fork
        BY <4>1 DEF Fork, ChildTypes, SrvTypes
      <4>2. CASE Continue
        <5>1. srv.child_pid \in Pids /\ srv'.child_pid = srv.child_pid
          BY <1>a, <4>2 DEF Continue, Children, SrvTypes
        <5>2. Len(ctl_pipe) = 0
          BY <3>1 DEF AtRun, None
        <5>3. child[srv.child_pid].st = "stopped"
          BY <1>a, <3>1, <3>2, <4>2, <5>1, <5>2 DEF Continue, Children, Gone, SrvDead
        <5>4. /\ child'[srv.child_pid].st = "running" /\ child'[srv.child_pid].run = fz.run
              /\ \A q \in Pids : q # srv.child_pid => child'[q] = child[q]
          BY <4>2, <5>1, <5>3 DEF Continue, ChildTypes
        <5> QED
          BY <5>1, <5>4
      <4> QED
        BY <2>4, <4>1, <4>2
    <3> QED
      BY <1>0, <1>a, <2>0, <3>1, <3>2, <3>3, <3>4 DEF Outcomes
  <2>5. CASE WritePid
    <3>1. /\ UNCHANGED <<ran, child, srv.child_pid>> /\ srv'.pc = "wait" /\ srv.pc = "write_pid"
          /\ Pushed(st_pipe, Word("pid", srv.child_pid), st_pipe')
      BY <2>5, ServerWrites DEF WritePid, ChildUnchg, SrvTypes
    <3>2. Len(st_pipe) = 0
      BY <3>1 DEF AtRun, None
    <3>3. Len(st_pipe') = 1
      BY <3>1, <3>2 DEF Pushed
    <3>4. \A i \in DOMAIN st_pipe' : st_pipe'[i].kind = "pid"
      <4>1. st_pipe'[1] = Word("pid", srv.child_pid)
        BY <3>1, <3>3 DEF Pushed
      <4>2. \A i \in DOMAIN st_pipe' : i = 1
        BY <1>0, <3>3
      <4> QED
        BY <4>1, <4>2 DEF Word
    <3> QED
      BY <2>0, <2>1, <3>1, <3>3, <3>4 DEF Outcomes
  <2>6. CASE WaitChild
    <3>1. /\ UNCHANGED <<ran, st_pipe, srv.child_pid>>
          /\ srv'.pc = "write_status" /\ srv.pc = "wait"
          /\ srv'.status = child[srv.child_pid].st
          /\ child[srv.child_pid].st # "running"
          /\ \A q \in Pids :
                child'[q].run = child[q].run /\ child'[q].st \in {child[q].st, "reaped"}
      BY <2>6 DEF WaitChild, SrvTypes, ChildTypes, Zombie
    <3>2. Tells(child[srv.child_pid].st)
      BY <3>1 DEF Outcomes
    <3>3. Tells(srv.status)'
      BY <2>1, <3>1, <3>2
    <3> QED
      BY <2>0, <2>1, <3>1, <3>3 DEF Outcomes
  <2>7. CASE WriteStatus
    <3>1. /\ UNCHANGED <<ran, child, srv.child_pid>> /\ srv'.pc = "loop" /\ srv.pc = "write_status"
          /\ Pushed(st_pipe, Word("status", srv.status), st_pipe')
      BY <2>7, ServerWrites DEF WriteStatus, ChildUnchg, SrvTypes
    <3>2. Tells(srv.status)
      BY <3>1 DEF Outcomes
    <3>3. fz.pc \in {"pid", "status", "kill", "killed"}
      BY <3>1 DEF AtRun
    <3>4. Len(st_pipe') = Len(st_pipe) + 1 /\ st_pipe'[Len(st_pipe')] = Word("status", srv.status)
          /\ \A i \in 1..Len(st_pipe) : st_pipe'[i] = st_pipe[i]
      BY <3>1 DEF Pushed
    <3>5. ASSUME NEW i \in DOMAIN st_pipe', st_pipe'[i].kind = "status"
          PROVE  Tells(st_pipe'[i].val)
      <4>1. CASE i \in 1..Len(st_pipe)
        BY <1>0, <3>3, <3>4, <3>5, <4>1 DEF Outcomes
      <4>2. CASE i = Len(st_pipe')
        BY <3>2, <3>4, <4>2 DEF Word
      <4> QED
        BY <1>0, <3>4, <4>1, <4>2
    <3> QED
      BY <1>0, <2>0, <2>1, <3>1, <3>3, <3>4, <3>5 DEF Outcomes, None
  <2>8. CASE MapShmFails \/ MapInputFails \/ ForkFails
    <3>1. UNCHANGED <<ran, child>> /\ srv'.pc = "dead"
      BY <2>8 DEF MapShmFails, MapInputFails, Fails, Tell, ForkFails, Goto, ChildUnchg, SrvTypes
    <3>2. \/ st_pipe' = st_pipe
          \/ fz.pc \in {"hello", "dict_size", "sent", "idle"} \cup Gone
          \/ Len(st_pipe') = 1 /\ st_pipe'[1] = ErrorWord
      <4>1. CASE ForkFails
        BY <4>1 DEF ForkFails
      <4>2. CASE MapShmFails
        BY <4>2 DEF MapShmFails, AtStart
      <4>3. CASE MapInputFails
        <5>1. \/ fz.pc \in {"dict_size", "sent", "idle"} \cup Gone
              \/ (fz.pc = "pid" /\ Len(st_pipe) = 0)
          BY <4>3 DEF MapInputFails, AtMapInput, None, Gone
        <5>2. ASSUME fz.pc = "pid", Len(st_pipe) = 0
              PROVE  Len(st_pipe') = 1 /\ st_pipe'[1] = ErrorWord
          <6>1. Pushed(st_pipe, ErrorWord, st_pipe')
            BY <4>3, <5>2, ServerWrites DEF Gone
          <6> QED
            BY <5>2, <6>1 DEF Pushed
        <5> QED
          BY <5>1, <5>2
      <4> QED
        BY <2>8, <4>1, <4>2, <4>3
    <3> QED
      BY <1>0, <2>0, <2>1, <3>1, <3>2 DEF Outcomes, Gone, ErrorWord, Word
  <2>9. ASSUME NEW takes \in BOOLEAN, SrvTerminated(takes) PROVE Outcomes'
    <3> DEFINE p == srv.child_pid
    <3>1. srv'.pc = "dead" /\ st_pipe' = st_pipe
      BY <2>9 DEF SrvTerminated, Goto, SrvTypes
    <3>2. \/ UNCHANGED <<ran, child>>
          \/ /\ ran' = ran /\ p # 0 /\ child' = [child EXCEPT ![p].st = "killed"]
          \/ /\ p # 0 /\ child[p].st = "running" /\ child' = [child EXCEPT ![p].st = "killed"]
             /\ ran' = [ran EXCEPT ![child[p].run] = "killed"]
      BY <2>9 DEF SrvTerminated
    <3>3. CASE ran' = ran
      <4>1. \A q \in Pids : child'[q].run = child[q].run /\ child'[q].st \in {child[q].st, "killed"}
        BY <3>2, <1>a DEF ChildTypes
      <4> QED
        BY <2>0, <2>1, <3>1, <3>3, <4>1 DEF Outcomes
    <3>4. CASE /\ p # 0 /\ child[p].st = "running" /\ child' = [child EXCEPT ![p].st = "killed"]
               /\ ran' = [ran EXCEPT ![child[p].run] = "killed"]
      <4>1. /\ \A q \in Pids : child'[q].run = child[q].run
            /\ \A q \in Pids : q # p => child'[q].st \in {"none", "reaped"}
            /\ child'[p].st = "killed" /\ p \in Pids
        BY <3>4, <1>a DEF ChildTypes, Children
      <4>2. \A n \in Runs : n > fz.run => ran'[n] = ran[n]
        BY <1>a, <3>4, <4>1 DEF HistoryTypes, Outcomes
      <4>3. fz.pc \in {"pid", "status", "kill", "killed"} =>
               \A i \in DOMAIN st_pipe : st_pipe[i].kind # "status"
        BY <3>4, NoStatusYet
      <4> QED
        BY <2>0, <3>1, <4>1, <4>2, <4>3 DEF Outcomes
    <3> QED
      BY <3>2, <3>3, <3>4
  <2> QED
    BY <1>3, <2>2, <2>3, <2>4, <2>5, <2>6, <2>7, <2>8, <2>9 DEF Server, ServerFaults
<1>4. CASE Child
  <2>1. PICK p \in Pids, st \in {"exited", "crashed", "stopped"} : ChildEnds(p, st)
    BY <1>4 DEF Child
  <2>2. UNCHANGED <<fz, srv, st_pipe>>
    BY <1>4, TargetOnly
  <2>3. /\ child[p].st = "running" /\ child' = [child EXCEPT ![p].st = st]
        /\ ran' = [ran EXCEPT ![child[p].run] = IF st = "crashed" THEN "crash" ELSE "ok"]
    BY <2>1 DEF ChildEnds
  <2>4. p = srv.child_pid /\ srv.child_pid # 0
    BY <1>a, <2>3 DEF Children
  <2>5. /\ child'[p].st = st /\ \A q \in Pids : child'[q].run = child[q].run
        /\ \A q \in Pids : q # p => child'[q].st \in {"none", "reaped"}
    BY <2>3, <2>4 DEF ChildTypes, Children
  <2>6. srv.pc \in {"write_pid", "wait", "dead"}
    BY <2>3, <2>4 DEF Children, SrvTypes, SrvPcs
  <2>7. \A n \in Runs : n > fz.run => ran'[n] = ran[n]
    BY <1>a, <2>3 DEF HistoryTypes, Outcomes
  <2>8. fz.pc \in {"pid", "status", "kill", "killed"} =>
           \A i \in DOMAIN st_pipe : st_pipe[i].kind # "status"
    BY <2>3, <2>4, NoStatusYet
  <2>9. srv.pc \in {"write_pid", "wait"} => Tells(st)'
    <3>1. SUFFICES ASSUME srv.pc \in {"write_pid", "wait"} PROVE Tells(st)'
      OBVIOUS
    <3>2. child[p].run = fz.run
      BY <2>4, <3>1 DEF Children
    <3>3. ran'[fz.run] = IF st = "crashed" THEN "crash" ELSE "ok"
      BY <1>a, <2>3, <3>2 DEF HistoryTypes
    <3> QED
      BY <2>2, <3>3 DEF Tells
  <2> QED
    BY <2>2, <2>4, <2>5, <2>6, <2>7, <2>8, <2>9 DEF Outcomes
<1>5. CASE UNCHANGED vars
  BY <1>5 DEF vars, history, Outcomes, Tells, None
<1> QED
  BY <1>1, <1>2, <1>3, <1>4, <1>5 DEF Next, Over

-----------------------------------------------------------------------------
(* The theorems.                                                           *)

\* The inductive invariant holds at the start,
LEMMA InitIInv == Init => IInv
<1> SUFFICES ASSUME Init PROVE IInv
  OBVIOUS
<1>1. conf \in Settings
  BY ForkserverAssumption DEF Init
<1>2. /\ 0 \in Runs /\ \A q \in Pids : q # 0
      /\ MaxRuns \in Nat
  BY ForkserverAssumption DEF Runs, Pids
<1>3. Len(st_pipe) = 0 /\ Len(ctl_pipe) = 0 /\ PipeTypes /\ DOMAIN st_pipe = {}
  BY EmptySeq, PipeFacts DEF Init, PipeTypes
<1>4. /\ fz.pc = "hello" /\ fz.run = 0 /\ fz.child_pid = 0 /\ ~fz.built /\ fz.map_size = conf.limit
      /\ srv.pc = "map_shm" /\ srv.child_pid = 0 /\ ~srv.child_stopped /\ ~srv.fuzz_ptr
      /\ ~srv.already_read_first
  BY DEF Init
<1>5. Types
  <2>1. fz \in FzTypes /\ srv \in SrvTypes
    BY <1>1, <1>2 DEF Init, Settings, FzTypes, FzPcs, SrvTypes, SrvPcs, AllOpts
  <2>2. child \in [Pids -> ChildTypes] /\ HistoryTypes
    BY <1>2 DEF Init, ChildTypes, HistoryTypes
  <2> QED
    BY <1>1, <1>3, <2>1, <2>2 DEF Types
<1>6. Incoming /\ Positions
  BY <1>3, <1>4 DEF Incoming, None, Positions, AtStart, AtOptions, AtMapInput, AtDict,
     AtLoop, AtRun, Agreement, SrvDead
<1>7. Children
  BY <1>2, <1>4 DEF Children, Init
<1>8. Outcomes /\ ResultsAreTrue
  BY <1>2, <1>3, <1>4 DEF Outcomes, ResultsAreTrue, Init
<1>9. BuildSteps /\ BuildAgrees /\ ~confused
  BY <1>4 DEF BuildSteps, BuildAgrees, Init, Gone
<1> QED
  BY <1>5, <1>6, <1>7, <1>8, <1>9 DEF IInv

\* and in every state.
LEMMA Invariance == Spec => []IInv
<1>1. IInv /\ [Next]_vars => IInv'
  BY StepTypes, StepIncoming, StepAtStart, StepAtOptions, StepAtMapInput, StepAtDict,
     StepAtLoop, StepAtRun, StepAgreement, StepChildren, StepOutcomes, StepResults,
     StepBuild, StepConfused DEF IInv, Positions
<1> QED
  BY <1>1, InitIInv, PTL DEF Spec

\* For every set-up of the two, read_st and the fork server take each word for what it
\* is: hello, options, dictionary, request, pid and status never get mixed up.
THEOREM WordsStayInPlace == Spec => []WordsInPlace
<1>1. IInv => WordsInPlace
  <2> SUFFICES ASSUME IInv PROVE WordsInPlace
    OBVIOUS
  <2>1. Len(ctl_pipe) \in Nat /\ DOMAIN ctl_pipe = 1..Len(ctl_pipe)
    BY PipeFacts DEF IInv, Types, PipeTypes
  <2>2. srv.pc = "loop" => \/ Len(ctl_pipe) = 0
                           \/ Len(ctl_pipe) = 1 /\ ctl_pipe[1].kind = "request"
    BY DEF IInv, Positions, AtLoop, None, Requesting
  <2>3. srv.pc = "loop" => \A i \in DOMAIN ctl_pipe : ctl_pipe[i].kind = "request"
    BY <2>1, <2>2
  <2> QED
    BY <2>3 DEF IInv, WordsInPlace
<1> QED
  BY <1>1, Invariance, PTL

\* Whatever run_target returns is what became of that very input in the child.
THEOREM ResultsStayTrue == Spec => []ResultsAreTrue
<1>1. IInv => ResultsAreTrue
  BY DEF IInv
<1> QED
  BY <1>1, Invariance, PTL

\* A child runs only between the request and the end of run_target, it is the one that
\* the fuzzer waits for and kills, it has the present input, and both sides look for
\* the input in the same place.
THEOREM ChildAlwaysHasThisInput == Spec => []ChildHasThisInput
<1>1. IInv => ChildHasThisInput
  <2> SUFFICES ASSUME IInv PROVE ChildHasThisInput
    OBVIOUS
  <2>1. \A p \in Pids : p # 0
    BY ForkserverAssumption DEF Pids
  <2>2. \A p \in Pids : child[p].st = "running" => p = srv.child_pid /\ srv.child_pid # 0
    BY <2>1 DEF IInv, Children
  <2>3. fz.pc \in {"idle", "done"} => \A p \in Pids : child[p].st # "running"
    BY <2>2 DEF IInv, Children
  <2>4. fz.pc \in {"status", "kill"} =>
           fz.child_pid = srv.child_pid /\ child[fz.child_pid].run = fz.run
    BY DEF IInv, Children
  <2>5. \A p \in Pids : child[p].st = "running" => srv.fuzz_ptr = fz.uses_shmem_testcase
    BY <2>2 DEF IInv, Positions, Agreement
  <2> QED
    BY <2>3, <2>4, <2>5 DEF ChildHasThisInput
<1> QED
  BY <1>1, Invariance, PTL

\* build fails only for a reason that lies in the set-up or in a fault, for every size of
\* map and dictionary, and if it succeeds the fuzzer knows the size of the target's map.
THEOREM BuildSound == Spec => []BuildAgrees
<1>1. IInv => BuildAgrees
  BY DEF IInv
<1> QED
  BY <1>1, Invariance, PTL
=============================================================================

# A TLA+ verification project for LibAFL

LibAFL is a library for building fuzzers. A fuzzing campaign is a set of
processes on one machine, one per core: a *broker* and its *clients*, each of
them a fuzzer. They talk through LLMP ("low level message passing",
`libafl/src/bolts/llmp.rs`), lock-free message queues in shared memory. A client
is a pair of processes, a *respawner* that waits and a *runner* that fuzzes and may
die with its target, leaving its state to the next runner. A runner gives inputs to
a target in its own address space, under a timer and with signal handlers, or to a
*fork server* over two pipes; what it finds goes to a *corpus* on disk, from which a
*scheduler* chooses the next testcase.

The project models the parts in which something runs concurrently, fails halfway,
outlives a crash, or depends on a long sequence of calls. They are where tests reach
least.

## The system's parts

| part | state it keeps | operations | what makes it correct |
|---|---|---|---|
| page layout (`llmp_align`, `next_shmem_size`, `in_shmem`, ...) | none | padding, room check, next pointer, bound checks, size of the next page | what the sender places, the receiver accepts; `END_OF_PAGE` always fits |
| `LlmpSender` | pages in use, cache of old pages, last message, "unsent" flag; on each page: ids, sizes, `safe_to_unmap` | `alloc_next`, `send`, `cancel_send`, `shrink_alloced`, `handle_out_eop`, `prune_old_pages`, `send_exiting`, `describe` / `on_existing_from_description` | messages are appended in order; pages are owned once; memory is bounded |
| `LlmpReceiver` | current page, last message, highest id seen | `recv` | every message once and in order, across pages |
| `LlmpBroker` | receivers, listeners, totals, clients to remove, broadcast sender | `once`, `handle_new_msgs`, `register_client`, `forward_msg`, `loop_forever`, `loop_with_timeouts` | forwards in order, drops only clients that are done, quits when asked to |
| listener thread | next client id, its own sender | `handle_tcp_request`, `announce_new_client` | announces every client to the broker |
| broker-to-broker proxy | a client of two brokers | `connect_b2b`, `b2b_thread_on` | no message comes back to the broker it came from |
| `LlmpEventManager`, `LlmpRestartingEventManager` | a client, a `StateRestorer` | `fire`, `process`, `on_restart`, `launch` | no event lost over a restart, none handled by its own sender |
| `StateRestorer` | one shared map, perhaps a file | `save`, `restore`, `reset`, `send_exiting`, `wants_to_exit` | what was saved is what is restored |
| unix shmem server and its clients | maps in use by connection, copies for forks; two pipes per fork | `new_shmem`, `shmem_from_id_and_size`, `release_shmem`, `pre_fork`, `post_fork`, the poll loop | a map lives as long as somebody uses it, and no longer |
| fork server and its executors | two pipes, pid and timeout of the last child, options, dictionary | `build`, `run_target`, `read_st_timed`; the loop of `__afl_start_forkserver` | both sides agree on which word comes next; a result belongs to its input |
| in-process executor, `TimeoutExecutor` | `GLOBAL_STATE`, a timer, averages of the batch | `run_target`, crash, timeout and panic handlers | a run is reported once, as what it was, and a hang is found |
| corpora | testcases, linked list of ids, cache of inputs, files and lock files | `add`, `replace`, `remove`, `get`, `next`, `prev` | ids stay valid, order is kept, files are not shared, the cache keeps track |
| schedulers | current id, top rated testcases, reference counts | `on_add`, `on_remove`, `on_replace`, `next`, `cull` | metadata match the corpus; every testcase gets its turn |
| corpus minimizer, trimming stage | none of their own | `minimize`, `perform_minification` | scheduler and corpus stay consistent |
| fuzzer, state | the corpus, the current testcase | `fuzz_one`, `add_input`, `process_execution` | sequential, calls the above in order |
| feedbacks, observers, mutators, other stages, generators, monitors | per process | one step of a fuzzing iteration | sequential |

How they interact: each client owns one sender (its map, read by the broker
alone) and one receiver on the broker's broadcast map, which all clients read
from its first page on. The listener thread inside the broker process is itself
a client: it accepts TCP connections and sends `NEW_SHM_CLIENT` over its own
map. The broker polls all receivers in turn. There are no locks: the sender
publishes a message by an atomic store of its id, the receiver marks pages with
an atomic flag, and everything else follows from the order of these stores. The
handlers of the in-process executor end in `on_restart` of the manager, which saves
to the `StateRestorer`; all maps may come from the shmem server, to which a process
has to speak before and after each fork; the clients of one machine may share a
directory of testcases.

What is hard here: the interleavings of sender and receiver within one call;
pages that are full to the last byte; pages reused while they are read;
processes that die, restart or stall; the broker's list of clients changing
while it is walked; ending, which must reach everybody; words on a pipe that do not
say what they are; signals between any two instructions; numbers of files and
connections that are used again; counts that are kept in three places.
`PROJECT.json` lists these hazards with the line at which each bites and the
properties that watch it.

## The modules

| module | models | used by |
|---|---|---|
| `LlmpLayout` | byte arithmetic of a page | `LlmpChannel` |
| `LlmpBroadcast` | abstract specification: a log that every reader gets in full | refined by `LlmpChannel`, assumed by `LlmpBroker` |
| `LlmpChannel` | one `LlmpSender` and its `LlmpReceiver`s | |
| `LlmpBroker` | broker loop, listener, clients | |
| `StateRestorer` | the shared map and the file between two runners | `RestartingMgr` |
| `RestartingMgr` | respawner and runner of a client: `launch`, `on_restart`, `send_exiting` | |
| `ShMemServer` | the shmem service and the processes that use it | |
| `Forkserver` | both executors for fork servers, the fork server, its children | |
| `InProcess` | `TimeoutExecutor` around the in-process executor, with the handlers | |
| `TestcaseStorage` | the linked list of testcases, as operators | `Corpus`, `Minimizer` |
| `Corpus` | the on-disk corpora of several clients in one directory | |
| `Minimizer` | `fuzz_one` with queue and minimizer scheduler, trimming, `minimize` | |
| `MCLlmpChannel`, `MCRestartingMgr`, `MCForkserver`, `MCLlmpBroker`, `MCCorpus` | constants of small instances; the last two also the literal loops that two closed forms are compared with | the runs |
| `LlmpChannelProofs` (with the layout), `LlmpBrokerProofs`, `RestartingMgrProofs`, `ShMemServerProofs`, `ForkserverProofs`, `InProcessProofs`, `CorpusProofs`, `MinimizerProofs` | theorems | |

Definitions whose comment begins with "mutant" are faulty variants of the definition
below them. They are no part of a specification; replaced for that definition they
show that the property of the run can fail (`PROJECT.json`, `mutants`).

### LlmpLayout

Pure operators, named after the functions where there is one. Offsets count
from the first byte of `LlmpPage::messages`; the page header is 48 bytes, so an
aligned address is an offset that is a multiple of 64 once 48 is added. The
sizes 48, 40 and 32 are the `size_of` values on a 64-bit target.
`next_power_of_two` is a constant of which only `n <= next_power_of_two(n)` is
assumed, up to `MaxMapSize`: beyond that `usize` overflows, and the model says
nothing.

### LlmpChannel

`KeepPagesForever` distinguishes the two uses of a sender: the broker's
broadcast map (TRUE, several readers, never pruned) and a client's map (FALSE,
one reader, the broker, with pruning).

State: `page[p]` is the `LlmpPage` header of map `p`, `mem[p]` the message
headers on it by offset. `out_shmems`, `unused_shmem_cache`, `last_msg_sent` and
`has_unsent_message` are the fields of `LlmpSender`, with offsets for pointers.
`pc` and `call` are the position and the locals of the sender's call, `rx[r]` a
receiver with the position inside `recv`. `nsent` numbers the messages: a
message's payload is its number, so order and completeness are visible in
`rx[r].seen`, the payload `recv` returned last. `recycled` is a history variable:
the readers whose page was initialised again under them.

| action | code |
|---|---|
| `SendBuf`, `SendExiting` | `send_buf`, `send_exiting` up to `alloc_next` |
| `AllocNextIfSpace`, `AllocPanics`, `PageFull` | `alloc_next_if_space`: a message, a panic, `None` |
| `Send` | the rest of `send_buf`: tag, payload and `send` |
| `CancelSend`, `ShrinkAlloced` | `cancel_send`, `shrink_alloced` |
| `PruneOldPages`, `SlowReceiver`, `StackOverflow` | `prune_old_pages`, with the message to the slow broker and the recursion it can end in |
| `UnusedShmem`, `NewShmem`, `NewShmemFails` | `new_or_unused_shmem` with `llmp_page_init` |
| `SendEop` | `alloc_eop`, `send`, and the new page becomes current |
| `Reattach` | `await_safe_to_unmap_blocking`, `describe`, a new process, `on_existing_from_description` |
| `Attach` | `register_client`, `NEW_SHM_CLIENT`, or `LlmpReceiver::on_existing_shmem` |
| `RecvLoad`, `RecvRead`, `RecvMap`, `RecvMark` | `recv`, cut where it touches shared memory again |
| `RecvUndefined` | `recv` on a recycled page, where payload lies in place of the header it expects |

The cut points are those at which the other side can notice a difference: the
sender's calls are split at each shared page operation, `recv` at the load of
`current_msg_id`, the read of the message, the mapping of the next page and the
mark on it. `Send` writes tag, payload and id and then publishes in one step: the
release store orders them, and a reader that acquires the new id sees them all.

Maps are recycled with what an earlier use left on them. `mem` keeps old headers
beyond the ones in use; those that a new message overwrites are dropped, and a
reader that still points there enters `RecvUndefined`.

### LlmpBroker

Channels are used by what `LlmpBroadcast` promises of them: `chan[c]` is what
client `c` sent and the broker has not read, `out` is the broadcast log, of which
`cl[c].read` messages were read by `c`. The broker runs `once()` step by step:
`OnceBegin` fixes the range, `HandleNewMsgs` takes the id of receiver `i`, then
one action per received message (`OnNewMsg`, which forwards it, lets the hook keep it, or
fails and ends the broker in a panic, `NewShmClient`,
`NewShmClientIgnored`, `SlowReceiverPanic`, `ClientShutsDown`) or `NoMoreMsgs`,
and `OnceEnd` removes clients and decides whether the loop ends. `Pos` is the
look-up by id, with its fast path. `LoopForever` chooses between the two loops.
The removal at the end of `once()` walks its offsets backwards; `WithoutOffsets` says what
it leaves (the clients at all other positions, in order). `MCLlmpBroker` compares the two,
in an `ASSUME` that TLC evaluates, for every ascending list of offsets into up to five
clients; that the offsets ascend is proved (`InOnce`).

Time is a flag: `TimePasses` makes every receiver `old`, a message makes it
young again, and an old silent client that is not a listener is removed.
`clash` is a history variable: two receivers of the broker had the same id.

Clients are the environment: they connect, send events, exit, crash without a
word, or give up because their map is full of unread pages (`MaxBacklog` stands
for the limit that `LlmpChannel` derives).

### StateRestorer and RestartingMgr

`content` is the `StateShMemContent` at the start of the shared map: `is_disk`,
`buf_len`, and what the first bytes of `buf` are (nothing, a serialized state, a
file name, the exit magic). They are three fields because they are stored one
after the other and a process can die in between. `tmpfiles` has the file that
would hold each state: absent, empty or full. `StateRestorer` has one operator
per store and per decision of `staterestore.rs`; `RestartingMgr` composes them
with the processes that make them.

A fuzzer's state is the number of testcases found, and the manager's description
is the number of the page it writes to: enough to tell a current state from an
old one, and a description that the broker follows from one it has left behind.
`finds` and `out` are the true values. A file name stands for the state it is the
hash of, so names never collide. A name or the magic read as a state does not
deserialize. Stores take effect in the order of the source.

`Llmp` chooses between `events/llmp.rs` and `events/simple.rs`, `Forking` is the
feature `fork`. `serialize_state` is the field of `RestartingMgr`: a variable that
`Init` chooses and no action changes, so that one run has both. `parent` and
`child.pc` are the positions of the two processes, `end` is how the last runner
ended; `exited` is a history variable.

| action | code |
|---|---|
| `Fork`, `ParentPanics`, `ParentReturns`, `ParentLoops` | the loop of `launch` in the respawner |
| `ParentInterrupted` | `shutdown_handler` |
| `RestoreNone`, `RestoreSome`, `RestoreErr` | `restore` in the runner's part of `launch` |
| `Attach`, `AttachFails` | `existing_client_from_description`, `existing_client_from_env` |
| `ResetFile`, `ResetDisk`, `ResetLen` | `reset`, called by `launch`, `on_restart` and `send_exiting` (`child.ret` says which) |
| `FindTestcase` | a testcase is added and fired, with or without a new page |
| `OnRestart`, `SaveBegin`, `SaveCreate`, `SaveWrite`, `SaveBuf`, `SaveLen`, `SaveDisk`, `SaveFails` | `on_restart` with `save`, called by the crash, timeout and panic handlers or at the end of `fuzz_loop_for` |
| `ExitSaved`, `ExitCleanly` | the runner ends |
| `SendExiting`, `ExitingBuf`, `ExitingLen` | `send_exiting` |
| `Die` | SIGKILL, `exit()` in the target, SIGTERM, a crash inside the handler |

### ShMemServer

The server is a thread of the process that started it first. `clients[f]` is the
entry of connection number `f`: which connection it is and how often its client has
each map (an `Rc` per use in the code). `forking` is `forking_clients`. A map is
known to clients by the number of its file at the server, which is the lowest one free:
`idOf` gives it, and two maps may have had the same. Of the reference count that the code
reads from `Rc` only two questions are asked. One is whether anyone is left (`InUse`: some
connection or some copy has the map), which decides if a `Weak` upgrades and if a number is
free. The other is whether a released use was the last: `Deregister` answers with the
`strong_count` before the drop, the client compares it with 1, and 2 stands for all that
is more. `count` is history: calls, kills, and in `count.lost` the copies that
another parent's replaced while a child had yet to come for them (`Replaces`), and in
`count.refused` the connections on which a request was refused.
`server.todo` is what `poll` reported and the loop has not come to yet, since clients
go on in the meantime.

A process is at a position of a provider call or between calls. `conn` has what was
written in either direction, and who holds the other end: a forked child holds its
parent's until it opens its own. `pipe` are the two pipes of a fork.

| action | code |
|---|---|
| `Start`, `Connect`, `Hello` | `ShMemService::start`, `ServedShMemProvider::new`, `on_restart` |
| `NewShMem`, `ShMemFromId`, `ShMemFromUnknown`, `ReleaseShMem`, `PreFork`, `Receive` | the provider's calls, cut between sending and the answer; `ShMemFromUnknown` names a map that this server never made, or none |
| `Fork`, `ForkFails`, `SetParentDone`, `AwaitChildDone`, `AwaitParentDone`, `Waitpid` | fork, `RcShMemProvider::post_fork` on both sides, and `waitpid` of a fork executor |
| `StopService`, `Joined` | `Drop` of the service thread |
| `Kill` | a process dies, with the server if it is its owner |
| `Poll`, `Hup`, `Accept`, `EndOfStream` | the loop of `listen` |
| `Handle...` | `handle_request`, by request; `HandleNewMapFails` and `HandleUnknownMap` are its errors, which the loop logs and nobody answers (`Refuse`) |

### Forkserver

`conf` is the set-up: what the target has been compiled with and what the builder
was told. It is a variable that never changes, so that one run has all of them. The
pipes are sequences of words; a word has its kind, which neither side looks at and
`confused` records: TRUE once a word was taken for one of another kind. `fz` has the
fuzzer's position and the fields of `Forkserver` and of the builder, `srv` the fork
server's position and locals, `child` the processes. `ran` and `result` are what
became of each input and what `run_target` said of it.

| action | code |
|---|---|
| `BuildReadHello`, `BuildMapTooSmall`, `BuildEnds`, `BuildReadDictSize`, `BuildReadDict` | `build_helper`, cut at each read |
| `RunTarget`, `RunTargetTooLong`, `ReadPid`, `ReadStatus` | `run_target` of both executors |
| `TimesOut`, `Kill`, `ReadKilled` | the timeout of `TimeoutForkserverExecutor` |
| `ReadFails`, `DropExecutor` | end of the pipe; the executor goes |
| `MapShm`, `StartForkserver`, `ReadOptions`, `MapInput`, `SendDictSize`, `SendDict` | `__afl_map_shm` and the handshake of `__afl_start_forkserver` |
| `ReadRequest`, `WriteOff`, `Fork`, `Continue`, `WritePid`, `WaitChild`, `WriteStatus`, `SrvExits` | its loop |
| `MapShmFails`, `MapInputFails`, `ForkFails`, `SrvTerminated` | faults of the fork server |
| `ChildEnds` | the target (not part of the repository) |

The dictionary is measured in units of which the pipe holds `PipeSize`: what matters is
whether it fits and how much a single `read` gets. The size of a map is rounded up to whole
cache lines before it is compared with the limit, so `build` refuses a target if the limit
is less than its map *in whole cache lines*, or if the dictionary has more than 0xffffff
bytes. That is what `BuildAgrees` says; a limit of 100 with a map of 65 bytes, which
is refused, tells it from a comparison of the two sizes.

### InProcess

`mode` is the platform: Linux, Linux in batch mode, Windows. Time is a counter of ticks.
`main` is the main thread; `timer` when the timer goes off; `alarm` a pending SIGALRM,
delivered before the thread's next step unless a signal handler runs; `callback` and
`critical` the thread pool's calls of the Windows handler and the critical section.
`global` is `GLOBAL_STATE` with pointers that are the number of the run they were stored
for. `te` are the fields of `TimeoutExecutor` in batch mode. `handler` is the handler at
work, `reports` what handlers gave to the objective.

The steps of `run_target` (`RunTarget` to `BatchCount`) are its stores, since an alarm can
come between any two. `Alarm...` and `Timeout` are `handle_timeout` and the timeout
handler, `Crash` the crash handler and the panic hook, `Exception` an exception on Windows
that is none. `RunObservers`, `SaveState` and `Exit` are `run_observers_and_save_state`.
`HandlerCrashes` is a crash within a handler. Floating point does not occur: the average is
kept as its numerator and denominator. `Prompt` says that the few instructions between the
start of `run_target` and the target take less than a timeout; without it no timer could
promise anything.

### TestcaseStorage and Corpus

`TestcaseStorage` has `Insert`, `Unlink` and `NextInQueue` as operators on a record with the
fields of the code. `Corpus` puts the on-disk corpora of several clients on it, each with
its own storage and cache, all with one directory. The steps of `save_testcase` and
`remove_testcase` are the system calls (`Lock`, `SaveMetadata`, `StoreInput`, `RemoveFile`,
`RemoveMetadata`, `RemoveLock`), with other clients in between and death anywhere. File
names are numbers, the same first one for all inputs, which is the hard case. `Get` loads,
evicts and leaves a borrowed reference, which `Release` drops. `Evict` says in closed form
what the loop of `CachedOnDiskCorpus::get` leaves in the queue: `Turns` is how often it
turns, and those turns evict what is not borrowed and put the rest back at the end.
`MCCorpus` compares it with the loop as it is written, for all queues of up to five
entries out of three ids, repeated ones included, all sets of borrowed ids and caches of
one to six. `OnDiskCorpus` is the case of `cache_max_len = 1`.

### Minimizer

One fuzzer, sequential: `Add` (a testcase comes from a stage, another client or the disk),
`Cull` and `Consider` (`MinimizerScheduler::next` over `QueueScheduler::next`), `Replace`
(the trimming stage found a smaller input), `EndFuzzOne`, and `Minimize` with `RemoveNext`
(`MapCorpusMinimizer::minimize`). `Replace` takes any set of indexes for the new testcase:
`perform_minification` accepts what its feedback accepts, and reads the indexes off a fresh
run. A replacement that does not hit all the indexes of which the testcase is the top rated one puts
it into `narrowed`, a history variable; after one, `update_score` (`Overdrawn`) and `cull`
(`CullFails`) can return an error, with which the fuzzing loop ends (`phase = "failed"`).
A testcase is the set of map indexes it covers, its
score, the reference count in its metadata and its favored mark. The order in which `cull`
walks a hash map is chosen by `\E`; the solver behind `minimize` is modelled by what it is
asked for, a covering subset of least weight (`Kept`), of which it may return any.

## Runs

| run | instance | checks |
|---|---|---|
| `LlmpBroadcastMap` | 2 readers, 4 pages of 512 bytes, 3 calls | the broadcast map implements `LlmpBroadcast`, with its liveness |
| `LlmpClientMap` | 1 reader, 5 pages of 256 bytes, 5 calls | type invariant, room for `END_OF_PAGE`, agreement on positions, ownership and number of pages, order and delivery over prunes, recycling and restarts, every call ends |
| `LlmpBroker` (`MCLlmpBroker`) | 2 clients, 2 events in all, which may both be unread in one channel, `loop_with_timeouts` | type invariant, order of forwarded events, whom the broker removes, that it quits after the last client, tells everyone, forgets those who left |
| `RestartLlmp` | LLMP manager, with and without `serialize_state`, 3 finds, 3 failures | type invariant, no progress and no description is lost, an exit is final, files and map agree; with fairness, a crash is followed by a runner that fuzzes and an exit by the respawner's |
| `ShMemServer` | 3 processes, one of them a fork executor, 2 maps, 5 calls, 1 kill | held maps are kept, unused ones freed, calls and forks return; requests may be refused |
| `Forkserver` | 158 set-ups, 3 inputs, `PipeSize` 4 | words in place, results true, the child has the present input, both sides agree after `build`, calls return |
| `InProcess` | 3 modes, 4 runs, timeout of 3 ticks, 9 ticks | reports are true and made once, a timer covers the run |
| `Corpus` (`MCCorpus`) | 2 clients, 2 inputs of one name, 4 saves, cache of one | nobody touches another's files; the cache keeps track of what is loaded |
| `Minimizer` | 2 indexes, 2 scores, 3 testcases, 2 replacements that hit any indexes | type invariant, list in order, reference counts match, the queue comes round |

Three runs check a sentence of the code's own documentation that the code does not keep;
`PROJECT.json` quotes it and explains the counterexample:

| run | what TLC finds |
|---|---|
| `BugCachedPagesHaveNoReaders` | `safe_to_unmap` is set on mapping a page, so a page is recycled while the broker reads it |
| `BugChildGetsGoing` | a forked child waits for its parent on a pipe whose write end it holds itself; if the parent is killed first it waits for ever |
| `BugMetadataIsKept` | a testcase is replaced by one that hits fewer indexes; it stays the top rated one of the others (minimizer.rs:269), but they are not counted, and its metadata go while `cull` still looks for them |

The properties of reception except receivers in `recycled`, which are the first of these;
`CallsReturn` of `ShMemServer` excepts a process whose partner was killed, which is the
second, and one whose request was refused (`count.refused`, next section); `RefCntsMatch` says less of testcases
in `narrowed`, which are the third: their counts are bounded from above, and an error of the
scheduler is allowed while there is one; `RemovedOnlyWhenDone` excepts lists in which ids `clash`ed, and `HeldMapsAreKept`
histories in which a copy was replaced before its child came for it (`count.lost`; both in the
next section).

### Disagreements

What else came up while modelling, where code and comment differ or the code does what a
reader would not expect. The models behave as the code does.

LLMP:

- `cancel_send` leaves `has_unsent_message` set (llmp.rs:1335; "this allows us to allocate a
  new message", 1326), so the next allocation panics (`AllocPanics`).
- The last message to a slow broker needs room on a page that is known to be full
  (llmp.rs:1020): `send_buf` runs into `handle_out_eop` again (`StackOverflow`).
- The broker takes ids from `llmp_clients.len()` (llmp.rs:2655), so that two receivers can
  have one id once a client has left; look-up by id (2111) then never reads the second.
- `loop_forever` waits for more than `exit_cleanly_after` clients (`>`, llmp.rs:2269)
  where `loop_with_timeouts` and the documentation say as many (`CleanExit`).
- The message that overflowed a page is not counted when the next page is sized
  (llmp.rs:1260), so that `alloc_next` can fail on the page started for it.
- A client that is gone before the broker maps it is never counted (llmp.rs:2733).
- `LlmpClient::on_existing_shmem` builds its sender on the broker's map (llmp.rs:2821).
- The filter against a client's own events compares ids of which the listener and the
  broker give out two series (events/llmp.rs:601).

Restart:

- The simple manager's respawner never calls `wants_to_exit` and starts a runner after
  `send_exiting` (simple.rs:511; staterestore.rs:193 and 214).
- `launch` compares the raw wait status with 137, the shell's code for SIGKILL
  (events/llmp.rs:1064), so that "out of memory" is never reported (`ChildStatus`).
- The size check of the file name in `save` leaves out the header of the map
  (staterestore.rs:137, `NameFitsMap`), which matters for maps below 46 bytes.
- "Can only be read once" (staterestore.rs:243) is not what `restore` does: the content
  stays until `reset`, and a runner that dies in between is followed by one that restores
  it again. `ProgressKept` depends on it.
- A torn save makes every restore fail while the map has content, so the respawner forks
  for ever (events/llmp.rs:1098).
- Without `serialize_state` a runner that is killed while fuzzing is followed by one that
  starts from the page of the last description (events/llmp.rs:1114).

Executors:

- `FS_OPT_ERROR` has the bits of a hello and is taken for one ("All right - fork server is
  up.", forkserver.rs:752); the error surfaces at the next read.
- The dictionary is read by one `read` (forkserver.rs:822), which gets what is in the pipe:
  a larger or a slowly written one is refused.
- An input of more than `MAX_FILE` bytes panics in the shared map although it is to be
  "truncated like AFL++ does" (forkserver.rs:1088; 443 in the timed executor).
- A signal other than SIGKILL does not end a stopped persistent child (forkserver.rs:494),
  and the read after it waits for ever. The run has SIGKILL, which is the default.
- On Windows `timeout_input_ptr` is the address of `current_input_ptr` (timeout.rs:403) and
  is read as an input; and a call of the handler that is late finds `in_target` of the next
  run, although "Timeout handler will do nothing" (timeout.rs:427).
- In batch mode, after an alarm outside of the target, a run can enter the target without
  a timer. `TimerCoversRun` bounds this to one run in a row.
- A crash within the crash handler waits for someone to type QUIT (inprocess.rs:862).

Shared memory and corpus:

- A request that the server cannot serve has no answer: if `new_shmem` fails
  (unix_shmem_server.rs:535), or an id is empty or not one of its own (545-554), the loop
  logs "Ignoring failed read from client" (691-696, 722-724) and goes on, and the client waits
  in `recv_fds` for ever, although `handle_request` is to "read and handle the client
  request, send the answer over unix fd" (498). `Refuse` is the step; without its exception
  `CallsReturn` fails in the run `ShMemServer`, for a client whose first request is for a
  map that the server does not know.
- The server panics on a request for a map that is gone (unix_shmem_server.rs:489), and a
  fork that is given up leaves its copy of the maps there until the next one.
- The copy of a parent's maps for its child is kept under the number of the parent's
  connection (unix_shmem_server.rs:512), which is used again once the parent is gone.
  "Even if the parent dies before the child sends its `PostFork`, we should be good" (508)
  does not hold with five processes: a parent asks for the copy, forks and is killed, and
  the others connect ahead of the child; the parent's connection hangs up, its number goes to
  one of them, and that one's `PreFork` is served first and replaces the copy. The child is
  then given the other's maps, and its own may be freed. The shortest such history that was
  found has 44 steps; with the three processes of the run `ShMemServer` there is none, since
  nobody is left to reconnect. `HeldMapsAreKept` excepts what follows such a replacement, and
  only that: the proof shows that it is the one way to lose a map.
- A testcase that was replaced while its input was cached is in the queue twice, and with a
  cache of one `get` evicts the input it has just loaded (cached.rs:76), where callers say
  "Input must be available." (corpus/minimizer.rs:124). With all cached testcases borrowed
  the cache grows past its size.
- `rename_testcase` opens the new lock file with `create(true)` (inmemory_ondisk.rs:266), so
  it takes names that are in use. It is not in the model.
- A testcase that lost all its indexes has no metadata, and `on_remove` does not consider it
  as an heir; an index can be left without a top rated testcase although one covers it.
- Without the error of `BugMetadataIsKept`, a replacement that hits fewer indexes still leaves
  `top_rated` entries for indexes that the testcase does not hit; they go when it is removed,
  or when another testcase takes the index over.
- With a skip probability of 100 or more the loop of `MinimizerScheduler::next` ends only
  at a favored testcase; `TurnsComeRound` asks nothing of those that are not.

### Bounds

`INITIAL_MAP_SIZE` is 512 or 256 bytes instead of 2^28: the layout arithmetic is
that of the code, only the page is small. On 512 bytes the lengths 0, 100 and 300
give an empty message, one that fits twice, and one that fits no page of that
size, so pages fill up exactly, overflow, and grow to 1024 bytes. On 256 bytes an
empty message or one of 40 bytes fills a page to its last byte; further up a page of 512
bytes, to which pages grow, padding gives them 64 and 128 bytes. One of 300 bytes fits
neither: it ends the page, and `alloc_next` fails on the next. So five calls reach the limit of four pages,
pruning, recycling and the slow-receiver path. `MaxCalls` bounds the calls,
`MaxPages` the maps the provider grants; when it is used up `NewShmemFails`
stands for the failing provider. In the broker run, two clients can leave in one
round of `once()`, or one can leave while the other joins or stays. Two events are
the smallest number with an order; `MaxMsgs` bounds them over all clients (`Events`), and
`MaxBacklog = 2` the messages a client may be ahead, so that both can lie in one channel,
where a receiver that took the newer one first would be found out. `LoopForever = TRUE` is in no run. In the restart
run `MaxFinds` bounds the testcases and `MaxFaults` the kills and failures: with
three finds a state first fits the map of 64 bytes (20 bytes) and then goes to a
file (80 bytes), and with three failures three runners in a row can fail, at
every pair of stores. Crashes that are handled are not bounded.

`ShMemServer`: three processes allow a fork from a fork and two forks of one parent; with
two maps and two numbers a number is used again; one kill (`MaxKills`) can be the parent's, the child's,
the server's or that of a bystander; five calls (`MaxCalls`) are enough for a map, a release, and a fork with
what follows. `MaxHeld` is 1: a process does not take the same map twice. Three processes are too few for
a number to be used again between a fork and its child's first word (Disagreements), so in the
run `count.lost` stays 0 and the exception of `HeldMapsAreKept` is never taken.
`Forkserver`: all
combinations of options with dictionaries of none, too short, just long enough and
too large for the pipe, and map sizes about both limits, one of which, 100, is no whole
number of cache lines; three runs (`MaxRuns`) let a status that is left
over, a killed child or a stopped one meet the next run and the one after it. `InProcess`: a
timeout of three ticks tells "in the run", "at the limit" and "of an earlier run" apart,
nine ticks (`MaxTime`) hold three timeouts, four runs a batch that is averaged, kept and reset. `Corpus`: four
saves of one name by two clients, so that each can hold two and replace one, with a cache that
is always full; at most two testcases are borrowed at once. `Minimizer`: three testcases are a first, a middle and a last one,
two indexes allow a testcase to lose one and keep one, by another's score or by a replacement, of which
there are two, so that the indexes lost by one can come back with the other; scores of two and three make one heavy testcase
cheaper or dearer than two; what the bounds leave open here is what the proofs are for.

### Fairness

In `LlmpChannel`: a sender inside a call runs on (it is straight-line code), and
each receiver that is attached polls (both broker loops and `process` poll for
ever). Nobody is obliged to send, attach, cancel or restart. In `LlmpBroker`: the
broker loop runs on, a running client reads its broadcast map, and the clock
passes `CLIENT_TIMEOUT` if it can do so again and again (strong fairness, since
`TimePasses` is only enabled between two rounds). Clients are never obliged to
connect, send, exit or crash, and signals need not come. In `RestartingMgr`: both
processes are scheduled (weak fairness of the respawner's loop and of the
runner's straight-line code). A runner may fuzz for ever, need not find or crash,
and nothing is obliged to fail. For `ExitSaved` this includes that
`await_restart_safe` returns, that is, that a broker maps the current page.

In `Forkserver`: the fuzzer within a call and the fork server are scheduled, and `pselect`
returns when its time is over. The target may hang for ever and no run needs to be
started. In `ShMemServer`: the server's thread runs, and a process goes on with a call it has
begun (`Follow`), but need not begin one (`Begin`), and nobody is obliged to die. In
`Minimizer`: the fuzzing loop goes on and `minimize` ends. `InProcess` and `Corpus` have
no liveness property and no fairness.

## Proofs

TLAPS proves, for every number of readers, pages, calls and every set of
message lengths:

- `NextMsgAligned`, `PlacedMsgIsReadable`, `NextPageHoldsTwo` about the layout:
  what `alloc_next_if_space` admits passes each later check of sender and
  receiver, and a page sized by `next_shmem_size` holds two of the largest
  messages so far;
- `TypeCorrect`, `EopFitsAlways`, `PlacementCorrect`, `PagesOwnedOnceAlways` and
  `PendingPagesBoundedAlways`: the invariants of the same names that the runs
  check, as `Spec => []...`;
- `RecvAlwaysWorks` and `RecvAlwaysInOrder` about the receivers: `RecvNeverFails` and
  `RecvInOrder`, for the broadcast map and for a client's map with pruning, recycling,
  cancelled messages and restarts of the sender;
- `BroadcastIsLog`: a channel that keeps its pages implements `SafeSpec` of `LlmpBroadcast`,
  the log that every reader gets in full, from the first message on.

About the broker, for any finite set of clients, any number of messages, both loops:

- `TypesKept`, `AlwaysForwardedInOrder`, `OnlyDoneAreRemoved`: `TypeOK`, `ForwardedInOrder`
  and the action property `RemovedOnlyWhenDone`.

About restarts, for every size of the map and of the states, and any number of finds and
failures:

- `Typing`, `ExitIsFinal` and `NoProgressLost`: `TypeOK`, `NoRespawnAfterExiting` (for the
  LLMP manager; the simple one violates it) and `ProgressKept` (for both);
- `DescriptionHandedOn` and `DirectoryTidy`: `DescriptionKept` and
  `FilesMatchMap`, both under the assumption that the file name with its header fits the
  map (`HEADER_LEN + FILENAME_LEN <= MapSize`).

About shared memory, for any finite set of processes, any number of maps, calls and kills:

- `HeldAlwaysKept`: `HeldMapsAreKept`.

About executors:

- `WordsStayInPlace`, `ResultsStayTrue`, `ChildAlwaysHasThisInput` and `BuildSound` about
  `Forkserver`, for every set-up, any number of runs and any size of the pipe: `WordsInPlace`,
  `ResultsAreTrue`, `ChildHasThisInput` and `BuildAgrees`;
- `ReportsTrue`, `ReportedOnceOnly` and `HangsAreFound` about `InProcess`, for any number of
  runs and any time limit, in all three modes: `ReportIsTrue`, `ReportedOnce` and
  `TimerCoversRun`.

About corpora:

- `FilesStayOwn` and `CacheAlwaysKeepsTrack` about `Corpus`, for any finite set of clients, any
  inputs, number of saves and size of the cache: `FilesAreOwn` and `CacheKeepsTrack`;
- `TypeCorrect`, `ListCorrect` and `RefCntsCorrect` about `Minimizer`, for any number of
  testcases and replacements, any finite coverage map and any scores: `TypeOK`,
  `StorageInOrder` and `RefCntsMatch`.

### The channel

The first five invariants of the channel rest on one inductive invariant, `IndInv` in
`LlmpChannelProofs`. None of them is inductive alone. That `END_OF_PAGE` fits
depends on where the last message lies (`PlacedOK`), since `cancel_send` and
`shrink_alloced` compute with the length found there; a new page is large enough
because `max_alloc_size` never outgrows `MaxMapSize` (`SizesOK`), for pages that
were pruned and come back too (`OwnedExist`, `NewMapOK`, `PagesOwnedOnce`); the
bound on pending pages needs to know that between pruning and starting a page
one place is free (`PendingOK`); and typing of the memory that a receiver follows
needs `EopLeads` and `RxOK`. The proof has one lemma per action, and two general
ones: `ControlStep` for the steps that leave memory alone, `ReceiverStep` for the
receivers', which write nothing but `safe_to_unmap`.

What receivers see rests on a second one, `TiedInv`, on top of `IndInv`. The code keeps no
record of which headers in a map are committed messages and which are remains of an earlier
use, of a cancelled or of an unsent one; nor of how many messages were sent before a page
was started. So the invariant says that there are such records: `base`, with a number for
each page, and `live`, with a set of offsets, so that `Tied(base, live)`. That has five
parts. `Chained`: the committed messages of a page lie one behind the other from its first
place, and each carries the number that its place implies. `AtEnd`: the sender appends to
the chain of its last page. `PagesLinked`: each page before it ends in an `END_OF_PAGE`
that leads to the next. `Follows`: a receiver stands at a committed message of one of the
sender's pages, or of a page that was pruned and leads to the first of them (`OnTrack`), and
it has seen exactly the messages up to there. `NeverRecycled`: on the broadcast map no page
is used twice. The hard part is pruning and restarting, which trust the marks: it has
to be part of the invariant that every page after the reader's is unmarked
(`UnmarkedFrom`, `NewUnmarked`), because only then `prune_old_pages` takes none that the
reader has yet to come to, and a restarted sender does not lose any. Each step is shown to keep
`Tied`, for records that change as little as possible (`QuietStep` for those that leave them
alone, `CommitChained` for `send`, `StartTied` for a new page, `DropTied` for pruning,
`ReceiverTied` for `recv`); `BroadcastIsLog` then maps `Send` to an append, a `RecvRead` that
returns a message to the read of it, and everything else to a stutter. Receivers in
`recycled` are excepted, as in the properties.

### The broker

Order needs that the events of a client ascend on their whole way, from the broadcast log
through the client's channel to its counter (`EventsAscend`), and that a client is read at
one place only: it is announced once, and is either still in the listener's channel or at
one position of `llmp_clients` (`Registered`). `Counted` ties ids to the number of clients.
`InOnce` says that the offsets to remove ascend, lie behind the position of the loop and stay
valid while it appends; `Removals` that, unless ids clashed, each of them belongs to a
client that has said its last word or is silent. It is an invariant and not just a
property of the step since offsets are collected in one action and used in another.

### Restarts

In `RestartingMgrProofs`, types need `Bounds`: no state, held or saved, is ahead of
what was found. `ExitInv` adds to the property that the magic stays in the map
once written, since nobody is left to overwrite it, and that it is already there
before `buf_len` says so. `ProgressInv` is the argument for `ProgressKept`: what
the map holds is current while `buf_len` is not zero, and already while `save` is
about to set it; a runner fuzzes only after it has emptied the map, so that a kill
makes the respawner give up instead of starting from an old state; therefore a
runner that finds the map empty is the first one. A save torn between `buf_len`
and `is_disk` leaves a file name that does not decode, and no runner fuzzes.

`DescInv` and `FilesInv` are about histories without a failure. There, a runner that is
dead has left content in the map, so a runner that starts from an empty map is the first
one, and `out` is what the description in the map, or the one about to be written, says;
`OnlyFile` says which single file may exist while `save` and `reset` are between their
steps. The assumption is needed: `save` compares the length of the name alone with the map
(see Disagreements), and in a
map with room for the name but not for both, what it leaves is a length that `reset` and
`restore` refuse. With the map of 256 MiB that both managers use the assumption holds.

### Shared memory

The inductive invariant `IInv` of `ShMemServerProofs` has three layers. The first one is
about who talks to whom, and holds whatever happens. `Table`: each entry of the server is
a connection that bears its number, and what waits in the backlog has none. `Owner`: the
request to exit comes only once the process that started the server is waiting for its
end. `Reported`: a hang-up that
`poll` reported is still true, and its connection still registered, when the loop comes
to it. For each process, `Connected` says which connection it speaks over,
`EmptyHanded` that it holds nothing before it has a number, its own or its parent's,
`Talking` which request or answer lies in the connection by its position in a call, and
`Forked` how parent and child stand to each other. The second layer is about names: maps are
made in turn (`Made`), and a map in use is the newest that had its number (`UsedAreNewest`). The third, `Sound`, holds while
`count.lost` is 0. `Copies`: a child that has yet to come finds a copy with at least what it
holds. `ToFork`: between the answer to `PreFork` and `fork` the copy of a parent has at
least what the parent holds, and no child expects it. `Keeps`: a registered process has at
the server what it holds, and one use more while a map is on its way to it or a release on
its way to the server.

A process touches little that is not its own, so most actions are instances of a few
lemmas: `OwnStep` for a process on its own connection, `StepIInv` for steps that leave other processes
as they are, `ServerOnlyIInv` for those of the loop, and `RepliesIInv` with
`RepliesSound` for answers; a refused request is one with the empty answer (`RefuseIInv`). `Fork`, `Kill`, `Hup`, `Accept` and `HandlePreFork` have proofs of their
own. In the last, either a child of another parent expects the copy under that number, and
`count.lost` counts it, or nobody does, since a parent goes on after a fork only when its
child has been given its copy (`Forked`). `NumberLeft` and `IdLeft` show by counting
that a number is free whenever one is needed, so that `Min` in `Accept` and `HandleNewMap` has a
value.

### Executors

In `ForkserverProofs` neither side sees what the other one does, so the inductive
invariant has one part for each position of the fork server (`AtStart`, `AtOptions`,
`AtMapInput`, `AtDict`, `AtLoop`, `AtRun`): where the fuzzer can be then, and exactly which
words are in each pipe. `Incoming` says the same from the fuzzer's side and `Agreement` what both
believe about the place of the input. `Children`: only the last child is not reaped, the
fork server knows whether it is stopped, and a stopped one that was killed will be written
off before the next run. `Outcomes`: a status under way tells what became of the present
run (`Tells`), which is what makes a result belong to its input after timeouts. `BuildSteps` is
about the map's size while `build` goes on. The proof of `BuildAgrees` failed for its
first wording, which compared the two sizes as they are, and so led to the present one.

In `InProcessProofs` the inductive invariant has five parts for the reports. `Types` and `Positions` say
which places of the main thread and of a handler go together. `Clock` is about time: on
Linux an armed alarm is never older than the run, and in batch mode `start_time` is that
of the run while the target is in it, so that an alarm that comes after the limit comes
after the run's own limit. `Ownership` says who holds the input and the pointers: from
their setting until they are taken the pointers are the run's own, and the timer's thread
has the critical section while its callback works, so that the main thread cannot leave
the target. `Reporting` adds what the reports written so far say and that there is one at
most unless a handler faulted itself. Four more are about `TimerCoversRun`. On Windows a
watched run has a timer or a call of the timer's thread, and while `in_target` and
`timeout_input` are set that call reports and does not just leave (`Calls`, `WindowsCover`). On
Linux the timer goes on or its alarm is pending (`PosixCover`). In batch mode a run can
enter the target without either; `BareCover` says why the next one does not: what was left
of the batch's time is used up, so `post_run_reset` resets the batch and the next run arms
a timer anew, which cannot go off before that run is in the target.

### Corpora

In `CorpusProofs` the inductive invariant is `Local(c)` for each client, `Apart` and `Room`.
`Local` is what a client's memory and its files hold by how far a save or a removal got, in
five parts (types, the call, each name held once, contents, cache). `Apart` is the
argument between clients: what a client holds is locked, and no two hold the same. A step of a
client keeps the memory of the others and all files that are not its own (`Keeps`), so the others
need no proof of their own per action. `Room` shows that names do not run out: every
name that is locked was locked by a save, and saves that have yet to lock count as well.

In `MinimizerProofs` the inductive invariant is the conjunction of the three properties
and `CurrentStored`: while the stages run, the current testcase is in the corpus. The list
is treated by itself: `InsertInOrder` and `UnlinkInOrder` say that the two operations keep
any storage in order, whatever its length, and `NextInQueueStored` that the queue finds a
stored testcase. The counts are cardinalities of the sets of indexes of which a testcase
is the top rated one; `ScoreUpdated` shows that `update_score` takes from the losers
exactly what the winner gets, and `RemoveNextIInv` that the heirs of a removed testcase
get what it had. For a testcase in `narrowed` the count is only bounded, by the indexes that it
is the top rated of and still hits (`AtMost`), and the proof shows that the counts of all others stay exact
(`Exact`) whatever is replaced, that an error needs a testcase in `narrowed`, and that a
replacement that hits enough again takes it out. That `refcnt` is absent exactly if the set is empty makes the order of the two
matter, and is why the type, the list and the counts are proved together.

### Assumptions, and what is not proved

Assumptions: the named `ASSUME`s of `StateRestorer` (the magic fits the map, as the
code asserts), `RestartingMgr`, `InProcess` (the limit is not zero), `Minimizer` (the map
is finite), `Forkserver` (set-ups that a builder can have), `Corpus` and `LlmpBroker` (finitely many
clients), `ShMemServer` (finitely many processes, more numbers for connections than
processes and as many for maps as maps: numbers do not run out), of `LlmpLayout` and
`LlmpChannel` (sizes below `MaxMapSize`, the initial map has room for its header and one
`END_OF_PAGE`, a pruned channel has one reader). TLC evaluates them in every run of
these modules.

Every safety property of the passing runs is stated by a theorem. Only model-checked are all
properties that are about something that eventually happens, in `LlmpBroadcast` (of `ImplementsLog` the
safety part is `BroadcastIsLog`), `LlmpChannel`, `LlmpBroker`, `RestartingMgr`, `ShMemServer`,
`Forkserver` and `Minimizer`, since liveness under fairness is out of the prover's reach; and the
two closed forms against their loops, which would need induction over sequences.

## What is not modelled, and the plan

Simplifications of what is modelled: atomics are sequentially consistent (the
code orders publishing by release and acquire, and nothing else depends on
order); a client's identity and flags in a message, compression and payload
bytes are left out; `LlmpSender::reset` and `recv_blocking` are left out; the
broker's own `send_buf` of `EXITING` is assumed to succeed; a broadcast map
outlives its broker until all clients have read it. In `ShMemServer` requests and answers
are whole, file numbers do not run out, and a client's own mapping of a file it was sent
succeeds. In `Forkserver` words are whole; the fork server does not die before its hello, nor the
fuzzer inside a run. In `Corpus` a file operation succeeds or ends the client, and
`save_testcase` is called for a testcase without a `file_path`, as all its callers do: the branch
for one that has a path (inmemory_ondisk.rs:311-313), which takes no lock, is left out.

In this order:

1. `RestartingMgr` composed with `LlmpChannel`: a restart inside a call of the
   sender, `await_safe_to_unmap_blocking`, a stale description on a real channel;
   two clients that share a temporary directory.
2. The event manager's filter by client id against the two id counters, and the
   broker-to-broker proxy; failing handshakes of the listener; `rename_testcase`; the
   handlers in the child of the fork executors.

Left out for good:

- mutators, feedbacks, observers, generators, monitors and most stages: sequential
  transformations of bytes and maps with random numbers and floating point. A model of one
  would be its code over again, without a state that several steps could get wrong;
- probabilistic, weighted and accounting schedulers: floating point over the corpus
  interface that `Minimizer` has;
- the instrumentation crates (`libafl_qemu`, `libafl_frida`, `libafl_cc`, `libafl_tinyinst`,
  `libafl_nyx`, most of `libafl_targets`), bindings and example fuzzers: foreign code,
  generated code and glue.

These make up most of the repository's lines, so the modules stand for a small share of them.

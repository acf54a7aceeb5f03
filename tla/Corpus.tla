------------------------------- MODULE Corpus -------------------------------
(***************************************************************************)
(* The corpora that keep their testcases on disk: InMemoryOnDiskCorpus, the *)
(* CachedOnDiskCorpus around it and OnDiskCorpus, which is the latter with a *)
(* cache of one (libafl/src/corpus/{inmemory_ondisk,cached,ondisk}.rs).     *)
(* Several clients, each with a corpus of its own, share one directory; the *)
(* steps of a client are its system calls, and between any two of them the *)
(* other clients run. A client may die at any moment.                       *)
(*                                                                         *)
(* A file name is its number: 1 is the name that generate_name gives, and   *)
(* n > 1 stands for "name-n". The inputs of a run all generate the same     *)
(* name, as equal inputs found by two clients do, or the "id:0" of two      *)
(* NautilusInputs.                                                         *)
(***************************************************************************)
EXTENDS TestcaseStorage, SequencesExt

CONSTANTS
    Clients,
    Inputs,          \* contents of an input
    NoInput,         \* Option::None, for an Option<I>
    cache_max_len,
    MaxSaves         \* bound: testcases that are added or replaced

ASSUME CorpusAssumption ==
    /\ IsFiniteSet(Clients)
    /\ NoInput \notin Inputs
    /\ cache_max_len \in Nat \ {0}
    /\ MaxSaves \in Nat

VARIABLES
    storage,         \* the TestcaseStorage of a client
    testcase,        \* its testcases: the input, if loaded, and the name of the file
    cached_indexes,  \* ids of the testcases whose input was loaded, oldest first
    borrowed,        \* the testcases of which the client holds a reference
    pc,              \* where the client is: the call, its testcase and a file name
    saves,           \* number of testcases that were added or replaced, for the bound
    files,           \* input files of the directory
    metadata,        \* names that have a .metadata file
    lafl_lock,       \* names that have a .lafl_lock file
    added            \* history: the input that was given for a testcase

vars == <<storage, testcase, cached_indexes, borrowed, pc, saves, files, metadata,
          lafl_lock, added>>
dir == <<files, metadata, lafl_lock>>
-----------------------------------------------------------------------------
AllIds == 0..(MaxSaves - 1)

\* One name for every testcase that was ever saved
Names == 1..MaxSaves
NoFile == 0

\* A client in a call, at a step of save_testcase or remove_testcase
At(op, step, idx, name) == [op |-> op, step |-> step, idx |-> idx, name |-> name]
Idle == At("none", "none", None, NoFile)
Dead == At("dead", "none", None, NoFile)

Init ==
    /\ storage = [c \in Clients |-> EmptyStorage]
    /\ testcase = [c \in Clients |-> << >>]
    /\ cached_indexes = [c \in Clients |-> << >>]
    /\ borrowed = [c \in Clients |-> {}]
    /\ pc = [c \in Clients |-> Idle]
    /\ saves = 0
    /\ files = [n \in Names |-> NoInput]
    /\ metadata = {}
    /\ lafl_lock = {}
    /\ added = [c \in Clients |-> << >>]

\* f, with v at x whether or not x is in its domain
With(f, x, v) == [y \in DOMAIN f \cup {x} |-> IF y = x THEN v ELSE f[y]]
Without(f, x) == [y \in DOMAIN f \ {x} |-> f[y]]

NewTestcase(x) == [input |-> x, file |-> NoFile]

\* No reference to a testcase is held while a method with &mut self runs
MayCall(c) == pc[c] = Idle /\ borrowed[c] = {}
-----------------------------------------------------------------------------
(* The methods of Corpus, up to their first system call *)

\* add: stored in memory, then saved
Add(c, x) ==
    LET idx == storage[c].progressive_idx
    IN  /\ MayCall(c)
        /\ saves < MaxSaves
        /\ saves' = saves + 1
        /\ storage' = [storage EXCEPT ![c] = Insert(@)]
        /\ testcase' = [testcase EXCEPT ![c] = With(@, idx, NewTestcase(x))]
        /\ added' = [added EXCEPT ![c] = With(@, idx, x)]
        /\ pc' = [pc EXCEPT ![c] = At("add", "lock", idx, 1)]
        /\ UNCHANGED <<cached_indexes, borrowed, dir>>

\* replace: the files of the old testcase go, then the new one is saved. Nobody
\* looks after cached_indexes.
Replace(c, idx, x) ==
    /\ MayCall(c)
    /\ saves < MaxSaves
    /\ saves' = saves + 1
    /\ idx \in Ids(storage[c])
    /\ testcase' = [testcase EXCEPT ![c][idx] = NewTestcase(x)]
    /\ added' = [added EXCEPT ![c][idx] = x]
    /\ pc' = [pc EXCEPT ![c] = At("replace", "remove_file", idx, testcase[c][idx].file)]
    /\ UNCHANGED <<storage, cached_indexes, borrowed, dir>>

\* remove
RemoveTestcase(c, idx) ==
    /\ MayCall(c)
    /\ idx \in Ids(storage[c])
    /\ storage' = [storage EXCEPT ![c] = Unlink(@, idx)]
    /\ testcase' = [testcase EXCEPT ![c] = Without(@, idx)]
    /\ added' = [added EXCEPT ![c] = Without(@, idx)]
    /\ pc' = [pc EXCEPT ![c] = At("remove", "remove_file", idx, testcase[c][idx].file)]
    /\ UNCHANGED <<cached_indexes, borrowed, saves, dir>>
-----------------------------------------------------------------------------
(* The cache *)

\* retain: the ids of a queue that are in S, in their order
Retain(queue, S) ==
    LET kept == {i \in DOMAIN queue : queue[i] \in S}
        Rank(i) == Cardinality({j \in kept : j <= i})
    IN  [n \in 1..Cardinality(kept) |-> queue[CHOOSE i \in kept : Rank(i) = n]]

\* The loop of get: one turn takes the front of the queue, and either evicts its input or,
\* when that is borrowed, moves it to the back. The loop ends once fewer than max are left
\* or max borrowed ones were met; neither takes more turns than the queue is long.
Turns(queue, held, max) ==
    LET Met(n) == Cardinality({i \in 1..n : queue[i] \in held})
        Ends(n) == Len(queue) - (n - Met(n)) < max \/ Met(n) = max
    IN  Cardinality({n \in 1..Len(queue) : \A m \in 0..(n - 1) : ~Ends(m)})

\* What the loop leaves: the queue, and the testcases that lost their input
Evict(queue, held, max) ==
    LET n == Turns(queue, held, max)
        front == SubSeq(queue, 1, n)
    IN  [queue |-> SubSeq(queue, n + 1, Len(queue)) \o Retain(front, held),
         evicted |-> ToSet(front) \ held]

\* get, and the reference its caller holds afterwards. The testcase that get loads is not
\* borrowed while others are evicted.
Get(c, idx) ==
    /\ pc[c] = Idle
    /\ idx \in Ids(storage[c]) \ borrowed[c]
    /\ Cardinality(borrowed[c]) < 2
    /\ borrowed' = [borrowed EXCEPT ![c] = @ \cup {idx}]
    /\ \/ /\ testcase[c][idx].input # NoInput
          /\ UNCHANGED <<testcase, cached_indexes>>
       \/ LET loaded == [testcase[c] EXCEPT ![idx].input = files[testcase[c][idx].file]]
              room == Evict(cached_indexes[c], borrowed[c], cache_max_len)
          IN  /\ testcase[c][idx].input = NoInput
              /\ testcase' = [testcase EXCEPT ![c] =
                                [id \in DOMAIN loaded |->
                                    IF id \in room.evicted
                                    THEN [loaded[id] EXCEPT !.input = NoInput]
                                    ELSE loaded[id]]]
              /\ cached_indexes' = [cached_indexes EXCEPT ![c] = Append(room.queue, idx)]
    /\ UNCHANGED <<storage, pc, saves, dir, added>>

\* The references are dropped
Release(c) ==
    /\ borrowed[c] # {}
    /\ borrowed' = [borrowed EXCEPT ![c] = {}]
    /\ UNCHANGED <<storage, testcase, cached_indexes, pc, saves, dir, added>>
-----------------------------------------------------------------------------
(* save_testcase *)

Goto(c, step) == pc' = [pc EXCEPT ![c].step = step]

\* mutant: the lock file is opened whether or not it exists
LockAnyway(c) ==
    /\ pc[c].step = "lock"
    /\ lafl_lock' = lafl_lock \cup {pc[c].name}
    /\ testcase' = [testcase EXCEPT ![c][pc[c].idx].file = pc[c].name]
    /\ Goto(c, "metadata")
    /\ UNCHANGED <<storage, cached_indexes, borrowed, saves, files, metadata, added>>

\* create_new on the lock file: the name is taken, or the next one is tried
Lock(c) ==
    /\ pc[c].step = "lock"
    /\ \/ /\ pc[c].name \in lafl_lock
          /\ pc' = [pc EXCEPT ![c].name = @ + 1]
          /\ UNCHANGED <<testcase, lafl_lock>>
       \/ /\ pc[c].name \notin lafl_lock
          /\ lafl_lock' = lafl_lock \cup {pc[c].name}
          /\ testcase' = [testcase EXCEPT ![c][pc[c].idx].file = pc[c].name]
          /\ Goto(c, "metadata")
    /\ UNCHANGED <<storage, cached_indexes, borrowed, saves, files, metadata, added>>

\* The metadata are written to a temporary file that is renamed
SaveMetadata(c) ==
    /\ pc[c].step = "metadata"
    /\ metadata' = metadata \cup {pc[c].name}
    /\ Goto(c, "store")
    /\ UNCHANGED <<storage, testcase, cached_indexes, borrowed, saves, files, lafl_lock,
                   added>>

\* store_input_from, by write_file_atomic; add and replace then unload the input
StoreInput(c) ==
    /\ pc[c].step = "store"
    /\ files' = [files EXCEPT ![pc[c].name] = testcase[c][pc[c].idx].input]
    /\ testcase' = [testcase EXCEPT ![c][pc[c].idx].input = NoInput]
    /\ pc' = [pc EXCEPT ![c] = Idle]
    /\ UNCHANGED <<storage, cached_indexes, borrowed, saves, metadata, lafl_lock, added>>

(* remove_testcase *)

RemoveFile(c) ==
    /\ pc[c].step = "remove_file"
    /\ files' = [files EXCEPT ![pc[c].name] = NoInput]
    /\ Goto(c, "remove_metadata")
    /\ UNCHANGED <<storage, testcase, cached_indexes, borrowed, saves, metadata,
                   lafl_lock, added>>

RemoveMetadata(c) ==
    /\ pc[c].step = "remove_metadata"
    /\ metadata' = metadata \ {pc[c].name}
    /\ Goto(c, "remove_lock")
    /\ UNCHANGED <<storage, testcase, cached_indexes, borrowed, saves, files, lafl_lock,
                   added>>

\* mutant: the testcase stays in the queue of the cache
RemoveLockOnly(c) ==
    /\ pc[c].step = "remove_lock"
    /\ lafl_lock' = lafl_lock \ {pc[c].name}
    /\ pc' = [pc EXCEPT ![c] = IF pc[c].op = "remove" THEN Idle
                               ELSE At("replace", "lock", pc[c].idx, 1)]
    /\ UNCHANGED <<storage, testcase, borrowed, saves, files, metadata, added,
                   cached_indexes>>

\* The lock goes last. CachedOnDiskCorpus::remove then forgets the testcase, and replace
\* goes on to save the new one.
RemoveLock(c) ==
    /\ pc[c].step = "remove_lock"
    /\ lafl_lock' = lafl_lock \ {pc[c].name}
    /\ \/ /\ pc[c].op = "remove"
          /\ cached_indexes' = [cached_indexes EXCEPT ![c] =
                                  Retain(@, ToSet(@) \ {pc[c].idx})]
          /\ pc' = [pc EXCEPT ![c] = Idle]
       \/ /\ pc[c].op = "replace"
          /\ pc' = [pc EXCEPT ![c] = At("replace", "lock", pc[c].idx, 1)]
          /\ UNCHANGED cached_indexes
    /\ UNCHANGED <<storage, testcase, borrowed, saves, files, metadata, added>>

\* A client is killed, or ends because a system call failed: its memory is gone
Die(c) ==
    /\ pc[c] # Dead
    /\ pc' = [pc EXCEPT ![c] = Dead]
    /\ storage' = [storage EXCEPT ![c] = EmptyStorage]
    /\ testcase' = [testcase EXCEPT ![c] = << >>]
    /\ added' = [added EXCEPT ![c] = << >>]
    /\ cached_indexes' = [cached_indexes EXCEPT ![c] = << >>]
    /\ borrowed' = [borrowed EXCEPT ![c] = {}]
    /\ UNCHANGED <<saves, dir>>
-----------------------------------------------------------------------------
Next ==
    \E c \in Clients :
        \/ \E x \in Inputs : Add(c, x)
        \/ \E idx \in AllIds, x \in Inputs : Replace(c, idx, x)
        \/ \E idx \in AllIds : RemoveTestcase(c, idx) \/ Get(c, idx)
        \/ Release(c)
        \/ Lock(c) \/ SaveMetadata(c) \/ StoreInput(c)
        \/ RemoveFile(c) \/ RemoveMetadata(c) \/ RemoveLock(c)
        \/ Die(c)

Spec == Init /\ [][Next]_vars
-----------------------------------------------------------------------------
\* Whether the testcase is saved: no call of its client is at work on it
Saved(c, id) == id \in Ids(storage[c]) /\ pc[c].idx # id

\* Clients that save inputs of one name to one directory never write or remove each
\* other's files (the lock files of save_testcase): what a client reads back for a
\* testcase is the input it added, and its metadata are there.
FilesAreOwn ==
    \A c \in Clients : \A id \in Ids(storage[c]) :
        Saved(c, id) =>
            LET name == testcase[c][id].file
            IN  /\ files[name] = added[c][id]
                /\ name \in metadata /\ name \in lafl_lock
                /\ testcase[c][id].input \in {NoInput, added[c][id]}

\* The cache keeps track of what is loaded (CachedOnDiskCorpus::get, remove): each loaded
\* input is in the queue, so that its turn to be evicted comes, and whatever get takes
\* from the queue is in the corpus, so that get does not fail for its sake.
CacheKeepsTrack ==
    \A c \in Clients :
        LET loaded == {id \in Ids(storage[c]) :
                          Saved(c, id) /\ testcase[c][id].input # NoInput}
        IN  /\ loaded \subseteq ToSet(cached_indexes[c])
            /\ pc[c] = Idle => ToSet(cached_indexes[c]) \subseteq Ids(storage[c])
=============================================================================

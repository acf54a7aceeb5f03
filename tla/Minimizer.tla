------------------------------ MODULE Minimizer ------------------------------
(***************************************************************************)
(* StdFuzzer with a MinimizerScheduler over a QueueScheduler, as the        *)
(* IndexesLenTimeMinimizerScheduler of most fuzzers                         *)
(* (libafl/src/schedulers/{minimizer,queue}.rs, fuzzer/mod.rs), the trimming *)
(* stage (stages/tmin.rs) and the corpus minimizer (corpus/minimizer.rs).   *)
(*                                                                         *)
(* A testcase is what the scheduler looks at: the indexes of the coverage   *)
(* map it hits, its score (lower is better), the reference count of its     *)
(* metadata M and its IsFavoredMetadata.                                    *)
(***************************************************************************)
EXTENDS TestcaseStorage, FiniteSetsExt

CONSTANTS
    Indexes,         \* indexes of the coverage map
    Factors,         \* values of TestcaseScore::compute
    MaxAdds,         \* bound: testcases that are added
    MaxReplaces      \* bound: testcases that are replaced

ASSUME MinimizerAssumption ==
    /\ IsFiniteSet(Indexes)
    /\ Factors \subseteq Nat
    /\ MaxAdds \in Nat
    /\ MaxReplaces \in Nat

VARIABLES
    storage,         \* the TestcaseStorage of the corpus
    testcase,        \* its testcases
    current,         \* the corpus's current id
    top_rated,       \* TopRatedsMetadata::map
    phase,           \* of fuzz_one: "idle", "next" or "stages", or "failed" once the
                     \* scheduler returned an error, which ends the fuzzing loop
    removing,        \* ids that minimize has still to remove
    replaced,        \* number of replaced testcases, for the bound
    narrowed         \* history: testcases that were replaced by one that does not hit all
                     \* the indexes they are the top rated of

vars == <<storage, testcase, current, top_rated, phase, removing, replaced, narrowed>>
-----------------------------------------------------------------------------
AllIds == 0..(MaxAdds - 1)
ids == Ids(storage)

\* refcnt of a testcase that has no metadata M
NoMeta == -1

Testcases ==
    [covers : SUBSET Indexes, factor : Factors, refcnt : Nat \cup {NoMeta}, favored : BOOLEAN]

\* Testcase::with_executions and the append_metadata of the map feedback
NewTestcase(covers, factor) ==
    [covers |-> covers, factor |-> factor, refcnt |-> 0, favored |-> FALSE]

HasMeta(id) == testcase[id].refcnt # NoMeta

Init ==
    /\ storage = EmptyStorage
    /\ testcase = [id \in {} |-> NewTestcase({}, 0)]
    /\ current = None
    /\ top_rated = [e \in Indexes |-> None]
    /\ phase = "idle"
    /\ removing = {}
    /\ replaced = 0
    /\ narrowed = {}
-----------------------------------------------------------------------------
(* MinimizerScheduler::update_score *)

\* The indexes for which testcase idx, among the testcases t, is the new top rated one:
\* nobody is, it is already, or the other one's score is not better
NewFavoreds(t, idx) ==
    {e \in t[idx].covers :
        \/ top_rated[e] \in {None, idx}
        \/ t[idx].factor <= t[top_rated[e]].factor}

\* The indexes of which testcase old is no longer the top rated one
Lost(t, idx, old) ==
    {e \in NewFavoreds(t, idx) : top_rated[e] = old}

\* The metadata M of a testcase go with the last of its indexes
DropUnused(refcnt) == IF refcnt <= 0 THEN NoMeta ELSE refcnt

\* The testcases after the score of idx has been updated
Scored(t, idx) ==
    [id \in DOMAIN t |->
        IF id = idx
        THEN [t[id] EXCEPT !.refcnt = DropUnused(Cardinality(NewFavoreds(t, idx)))]
        ELSE IF Lost(t, idx, id) # {}
        THEN [t[id] EXCEPT !.refcnt = DropUnused(@ - Cardinality(Lost(t, idx, id)))]
        ELSE t[id]]

\* A testcase loses more indexes than it has references, and so its metadata M before the
\* last of them
Overdrawn(t, idx) ==
    \E old \in DOMAIN t \ {idx} :
        Lost(t, idx, old) # {} /\ Cardinality(Lost(t, idx, old)) > t[old].refcnt

\* t is the corpus with the testcase idx already in it. An index that idx was the top rated
\* testcase of and no longer hits stays with it. After an error nothing is looked at again.
UpdateScore(t, idx) ==
    IF Overdrawn(t, idx)
    THEN testcase' = t /\ phase' = "failed" /\ UNCHANGED top_rated
    ELSE /\ testcase' = Scored(t, idx)
         /\ top_rated' = [e \in Indexes |->
                             IF e \in NewFavoreds(t, idx) THEN idx ELSE top_rated[e]]
         /\ UNCHANGED phase
-----------------------------------------------------------------------------
(* The fuzzer. Every step of the code below runs to its end, in one thread. *)

\* process_execution and add_input add a testcase: from a stage, from the event
\* manager, or when initial inputs are loaded. on_add updates its score.
Add(covers, factor) ==
    LET idx == storage.progressive_idx
        t == [id \in ids \cup {idx} |->
                 IF id = idx THEN NewTestcase(covers, factor) ELSE testcase[id]]
    IN  /\ phase \in {"idle", "stages"} /\ removing = {}
        /\ idx < MaxAdds
        /\ storage' = Insert(storage)
        /\ UpdateScore(t, idx)
        /\ UNCHANGED <<current, removing, replaced, narrowed>>

\* The indexes a testcase is the top rated one of
Rated(id) == {e \in Indexes : top_rated[e] = id}

\* The trimming stage found a smaller input that its feedback takes for as good: the testcase
\* is replaced by a new one, whose score on_replace updates. What it hits is what a fresh run
\* of the input hits; only a MapEqualityFeedback makes it likely to be the same.
Replace(covers, factor) ==
    /\ phase = "stages"
    /\ replaced < MaxReplaces
    /\ replaced' = replaced + 1
    /\ narrowed' = IF Rated(current) \subseteq covers THEN narrowed \ {current}
                   ELSE narrowed \cup {current}
    /\ UpdateScore([testcase EXCEPT ![current] = NewTestcase(covers, factor)], current)
    /\ UNCHANGED <<storage, current, removing>>

\* cull goes through the indexes that have a top rated testcase, in the order of a hash
\* map, and marks the testcase of an index that none of the marked ones hits. K is the set
\* of the indexes whose testcase is marked, pos their order.
CullOrder(K, pos) ==
    LET covers(e) == testcase[top_rated[e]].covers
    IN  /\ \A e, f \in K : e # f => pos[e] # pos[f]
        /\ \A e, f \in K : pos[e] < pos[f] => f \notin covers(e)
        /\ \A f \in Indexes \ K : top_rated[f] # None => \E e \in K : f \in covers(e)

\* MinimizerScheduler::next begins with cull. IsFavoredMetadata is never taken away.
Cull ==
    /\ phase = "idle" /\ removing = {}
    /\ ids # {}
    /\ \E K \in SUBSET {e \in Indexes : top_rated[e] # None /\ HasMeta(top_rated[e])} :
          /\ \E pos \in [K -> 1..Cardinality(K)] : CullOrder(K, pos)
          /\ testcase' = [id \in ids |->
                            IF \E e \in K : top_rated[e] = id
                            THEN [testcase[id] EXCEPT !.favored = TRUE]
                            ELSE testcase[id]]
    /\ phase' = "next"
    /\ UNCHANGED <<storage, current, top_rated, removing, replaced, narrowed>>

\* The metadata M of a top rated testcase are gone. Whether cull comes to it depends on the
\* order.
CullFails ==
    /\ phase = "idle" /\ removing = {}
    /\ \E e \in Indexes : top_rated[e] # None /\ ~HasMeta(top_rated[e])
    /\ phase' = "failed"
    /\ UNCHANGED <<storage, testcase, current, top_rated, removing, replaced, narrowed>>

\* mutant: the queue does not begin again
QueueNextOnce ==
    IF current \in ids /\ storage.map[current].next = None THEN current
    ELSE NextInQueue(storage, current)

\* QueueScheduler::next, which also sets the current id
QueueNext == NextInQueue(storage, current)

\* One round of the loop of next: a testcase that is not favored may be skipped
Consider ==
    /\ phase = "next"
    /\ current' = QueueNext
    /\ \/ phase' = "stages"
       \/ ~testcase[current'].favored /\ phase' = "next"
    /\ UNCHANGED <<storage, testcase, top_rated, removing, replaced, narrowed>>

\* fuzz_one is done with the stages and with the event manager
EndFuzzOne ==
    /\ phase = "stages"
    /\ phase' = "idle"
    /\ UNCHANGED <<storage, testcase, current, top_rated, removing, replaced, narrowed>>
-----------------------------------------------------------------------------
(* MapCorpusMinimizer::minimize, with one hit count for each index *)

Covered(S) == UNION {testcase[id].covers : id \in S}
Weight(S) == MapThenSumSet(LAMBDA id : testcase[id].factor, S)

\* What the solver may keep: seeds that hit all that the corpus hits, at the least weight
Kept ==
    LET enough == {S \in SUBSET ids : Covered(S) = Covered(ids)}
        least == Min({Weight(S) : S \in enough})
    IN  {S \in enough : Weight(S) = least}

\* The solver's model is there; the other testcases will be removed
Minimize ==
    /\ phase = "idle" /\ removing = {}
    /\ \E S \in Kept : removing' = ids \ S
    /\ UNCHANGED <<storage, testcase, current, top_rated, phase, replaced, narrowed>>

\* on_remove: an index whose top rated testcase is gone goes to the best of those that
\* still have the metadata M, the oldest one of equals
Hit(idx, e) == {id \in ids \ {idx} : HasMeta(id) /\ e \in testcase[id].covers}
IsBest(idx, e, id) ==
    IF Hit(idx, e) = {} THEN id = None
    ELSE /\ id \in Hit(idx, e)
         /\ \A o \in Hit(idx, e) :
               \/ testcase[id].factor < testcase[o].factor
               \/ testcase[id].factor = testcase[o].factor /\ id <= o

\* The indexes that pass from testcase idx to testcase id
Inherited(best, idx, id) == {e \in Indexes : top_rated[e] = idx /\ best[e] = id}

\* mutant: an index that passes to another testcase is not counted there
CountedNot(best, idx) == [id \in ids \ {idx} |-> testcase[id]]

\* The testcases that are left, with the indexes they inherit counted
Counted(best, idx) ==
    [id \in ids \ {idx} |->
        [testcase[id] EXCEPT !.refcnt = @ + Cardinality(Inherited(best, idx, id))]]

\* The next testcase is removed, from the newest to the oldest, and the scheduler told
RemoveNext ==
    \E idx \in removing, best \in [Indexes -> ids \cup {None}] :
        /\ \A o \in removing : o <= idx
        /\ \A e \in Indexes : IsBest(idx, e, best[e])
        /\ removing' = removing \ {idx}
        /\ narrowed' = narrowed \ {idx}
        /\ storage' = Unlink(storage, idx)
        /\ testcase' = Counted(best, idx)
        /\ top_rated' = [e \in Indexes |->
                            IF top_rated[e] = idx THEN best[e] ELSE top_rated[e]]
        /\ UNCHANGED <<current, phase, replaced>>
-----------------------------------------------------------------------------
\* fuzz_loop returned the error
Ended == phase = "failed" /\ UNCHANGED vars

Next ==
    \/ \E covers \in SUBSET Indexes, factor \in Factors : Add(covers, factor)
    \/ \E covers \in SUBSET Indexes, factor \in Factors : Replace(covers, factor)
    \/ Cull \/ CullFails \/ Consider \/ EndFuzzOne
    \/ Minimize \/ RemoveNext
    \/ Ended

Spec == Init /\ [][Next]_vars

\* The fuzzing loop goes on, and minimize comes to its end
FairSpec ==
    /\ Spec
    /\ WF_vars(Cull \/ CullFails) /\ WF_vars(Consider) /\ WF_vars(EndFuzzOne)
    /\ WF_vars(RemoveNext)
-----------------------------------------------------------------------------
\* Type invariant of the corpus, the fuzzer and the scheduler's metadata.
TypeOK ==
    /\ IsStorage(storage, Nat)
    /\ testcase \in [ids -> Testcases]
    /\ current \in Nat \cup {None}
    /\ top_rated \in [Indexes -> Nat \cup {None}]
    /\ phase \in {"idle", "next", "stages", "failed"}
    /\ removing \subseteq ids
    /\ replaced \in 0..MaxReplaces
    /\ narrowed \subseteq ids

\* The list of the corpus names the testcases that are there, from the oldest to the newest,
\* after any sequence of adds and removals (TestcaseStorage::insert, remove), so that the
\* queue goes through all of them.
StorageInOrder == InOrder(storage)

\* The reference counts of the scheduler are right over adds, replacements and removals
\* (update_score, on_remove). The top rated testcase of an index is in the corpus. A testcase
\* hits all the indexes it is the top rated of and has their number as its count, or no
\* metadata if there are none. One that was replaced by a testcase that does not hit all of
\* them (narrowed) is counted for no more than those it hits. So the metadata never outlive
\* their use, and cull and update_score return an error only after such a replacement.
RefCntsMatch ==
    /\ phase = "failed" => narrowed # {}
    /\ phase # "failed" =>
          /\ \A e \in Indexes : top_rated[e] # None => top_rated[e] \in ids
          /\ \A id \in ids \ narrowed :
                /\ Rated(id) \subseteq testcase[id].covers
                /\ testcase[id].refcnt =
                      IF Rated(id) = {} THEN NoMeta ELSE Cardinality(Rated(id))
          /\ \A id \in narrowed :
                testcase[id].refcnt <= Cardinality(Rated(id) \cap testcase[id].covers)

\* Round robin: as long as it is in the corpus and the fuzzer goes on, the queue comes to
\* every testcase again, and one that is favored is then fuzzed (QueueScheduler::next,
\* MinimizerScheduler::next).
HasTurn(id) == current = id /\ (testcase[id].favored => phase = "stages")
TurnsComeRound ==
    \A id \in AllIds : []<>(phase # "failed" /\ id \in ids => HasTurn(id))

\* "A refcount used to know when we can remove this metadata": the metadata M of a testcase
\* are there as long as it is the top rated one of an index, and cull looks for them.
MetadataIsKept == \A e \in Indexes : top_rated[e] # None => HasMeta(top_rated[e])
=============================================================================

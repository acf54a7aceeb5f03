--------------------------- MODULE TestcaseStorage ---------------------------
(***************************************************************************)
(* The TestcaseStorage of an InMemoryCorpus (libafl/src/corpus/inmemory.rs, *)
(* without the feature corpus_btreemap): a map of testcases that are chained *)
(* in a doubly linked list in the order of their creation. A storage is a   *)
(* record; every operation of the code is an operator on storages. The      *)
(* testcases themselves belong to the modules that use this one; the vector *)
(* keys, which is the domain of the map once more, is left out.             *)
(***************************************************************************)
EXTENDS Integers

\* Option::None, for an Option<CorpusId>
None == -1

\* TestcaseStorage::new
EmptyStorage ==
    [map |-> [id \in {} |-> [prev |-> None, next |-> None]],
     first_idx |-> None, last_idx |-> None, progressive_idx |-> 0]

\* The ids of the testcases that are stored
Ids(s) == DOMAIN s.map

\* s is a storage whose ids are in S
IsStorage(s, S) ==
    /\ Ids(s) \subseteq S
    /\ s.map \in [Ids(s) -> [prev : S \cup {None}, next : S \cup {None}]]
    /\ s.first_idx \in S \cup {None}
    /\ s.last_idx \in S \cup {None}
    /\ s.progressive_idx \in Nat

\* insert: the new testcase gets the next id and goes to the end of the list
Insert(s) ==
    LET idx == s.progressive_idx
    IN  [map |-> [id \in Ids(s) \cup {idx} |->
                     IF id = idx THEN [prev |-> s.last_idx, next |-> None]
                     ELSE [prev |-> s.map[id].prev,
                           next |-> IF id = s.last_idx THEN idx ELSE s.map[id].next]],
         first_idx |-> IF s.first_idx = None THEN idx ELSE s.first_idx,
         last_idx |-> idx,
         progressive_idx |-> idx + 1]

\* mutant: the last testcase is removed and last_idx still names it
UnlinkKeepsLast(s, idx) ==
    LET item == s.map[idx]
    IN  [s EXCEPT
           !.map = [id \in Ids(s) \ {idx} |->
                       [prev |-> IF id = item.next THEN item.prev ELSE s.map[id].prev,
                        next |-> IF id = item.prev THEN item.next ELSE s.map[id].next]],
           !.first_idx = IF item.prev = None THEN item.next ELSE @]

\* mutant: the neighbours are joined, but the testcase stays in the map
UnlinkKeepsEntry(s, idx) ==
    LET item == s.map[idx]
    IN  [s EXCEPT
           !.map = [id \in Ids(s) |->
                       [prev |-> IF id = item.next THEN item.prev ELSE s.map[id].prev,
                        next |-> IF id = item.prev THEN item.next ELSE s.map[id].next]]]

\* remove, of an id that is stored: the neighbours are joined
Unlink(s, idx) ==
    LET item == s.map[idx]
    IN  [map |-> [id \in Ids(s) \ {idx} |->
                     [prev |-> IF id = item.next THEN item.prev ELSE s.map[id].prev,
                      next |-> IF id = item.prev THEN item.next ELSE s.map[id].next]],
         first_idx |-> IF item.prev = None THEN item.next ELSE s.first_idx,
         last_idx |-> IF item.next = None THEN item.prev ELSE s.last_idx,
         progressive_idx |-> s.progressive_idx]

\* next and first, as QueueScheduler::next uses them: what follows the current id,
\* the first one when there is no current id, it is gone or it is the last
NextInQueue(s, current) ==
    IF current \in Ids(s) /\ s.map[current].next # None
    THEN s.map[current].next
    ELSE s.first_idx

\* The list runs through all the stored ids from the oldest to the newest, in both
\* directions, and no id is given out twice.
InOrder(s) ==
    LET ids == Ids(s)
        IsNext(a, b) == a < b /\ \A c \in ids : ~(a < c /\ c < b)
    IN  /\ \A id \in ids : id < s.progressive_idx
        /\ IF ids = {}
           THEN s.first_idx = None /\ s.last_idx = None
           ELSE /\ s.first_idx \in ids /\ \A id \in ids : s.first_idx <= id
                /\ s.last_idx \in ids /\ \A id \in ids : id <= s.last_idx
        /\ \A id \in ids :
              /\ IF id = s.last_idx THEN s.map[id].next = None
                 ELSE s.map[id].next \in ids /\ IsNext(id, s.map[id].next)
              /\ IF id = s.first_idx THEN s.map[id].prev = None
                 ELSE s.map[id].prev \in ids /\ IsNext(s.map[id].prev, id)
=============================================================================

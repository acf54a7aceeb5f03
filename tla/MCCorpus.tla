------------------------------ MODULE MCCorpus ------------------------------
(***************************************************************************)
(* Corpus for TLC, and the loop of CachedOnDiskCorpus::get as it is        *)
(* written, against which the operators of Corpus are compared on all      *)
(* queues of a bounded length.                                             *)
(***************************************************************************)
EXTENDS Corpus

\* while len >= max { pop_front; evict, or push_back and count; break at max }
RECURSIVE EvictLoop(_, _, _, _, _)
EvictLoop(queue, evicted, held, borrowed_num, max) ==
    IF Len(queue) < max THEN [queue |-> queue, evicted |-> evicted]
    ELSE LET removed == Head(queue)
         IN  IF removed \notin held
             THEN EvictLoop(Tail(queue), evicted \cup {removed}, held, borrowed_num, max)
             ELSE IF borrowed_num + 1 = max
             THEN [queue |-> Append(Tail(queue), removed), evicted |-> evicted]
             ELSE EvictLoop(Append(Tail(queue), removed), evicted, held, borrowed_num + 1, max)

MaxQueue == 5
QueueIds == 0..2

\* For every queue, ids that come back included, every set of borrowed ones and every
\* size of the cache, Evict is what the loop computes; and Retain is SelectSeq.
ASSUME EvictIsLoop ==
    \A queue \in BoundedSeq(QueueIds, MaxQueue), held \in SUBSET QueueIds :
        /\ Retain(queue, held) = SelectSeq(queue, LAMBDA e : e \in held)
        /\ \A max \in 1..(MaxQueue + 1) :
              Evict(queue, held, max) = EvictLoop(queue, {}, held, 0, max)
=============================================================================

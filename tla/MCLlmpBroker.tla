---------------------------- MODULE MCLlmpBroker ----------------------------
(***************************************************************************)
(* LlmpBroker for TLC, and the loop of once() that removes clients as it   *)
(* is written, against which the operator of LlmpBroker is compared.       *)
(***************************************************************************)
EXTENDS LlmpBroker, SequencesExt

\* for i in clients_to_remove.iter().rev() { llmp_clients.remove(i) }
RemoveLoop(s, offsets) == FoldRight(LAMBDA k, rest : RemoveAt(rest, k), offsets, s)

MaxLen == 5

\* For every number of clients and every ascending list of offsets, what is left is what
\* the loop leaves.
ASSUME WithoutIsLoop ==
    \A len \in 0..MaxLen : \A removed \in SUBSET (1..len) :
        LET s == [i \in 1..len |-> i]
            offsets == SetToSortSeq(removed, <)
        IN  WithoutOffsets(s, offsets) = RemoveLoop(s, offsets)
=============================================================================

--------------------------- MODULE LlmpBroadcast ---------------------------
(***************************************************************************)
(* What a broadcast LLMP channel promises: the sender appends to one log,  *)
(* and every reader that joins, whenever it does, is handed the whole log  *)
(* from its first message on, one message after the other, and keeps up    *)
(* with it in the end. Pages, ids, offsets and polling are not visible.    *)
(***************************************************************************)
EXTENDS Naturals

CONSTANT Readers

VARIABLES
    sent,     \* length of the log
    joined,   \* the readers that attached
    seen      \* how much of the log each reader was handed

vars == <<sent, joined, seen>>

Init ==
    /\ sent = 0
    /\ joined = {}
    /\ seen = [r \in Readers |-> 0]

Append ==
    /\ sent' = sent + 1
    /\ UNCHANGED <<joined, seen>>

Join(r) ==
    /\ r \notin joined
    /\ joined' = joined \cup {r}
    /\ UNCHANGED <<sent, seen>>

Deliver(r) ==
    /\ r \in joined
    /\ seen[r] < sent
    /\ seen' = [seen EXCEPT ![r] = @ + 1]
    /\ UNCHANGED <<sent, joined>>

Next == Append \/ \E r \in Readers : Join(r) \/ Deliver(r)

\* What may happen
SafeSpec == Init /\ [][Next]_vars

\* and that a reader is handed the whole log in the end
Spec == SafeSpec /\ \A r \in Readers : WF_vars(Deliver(r))
=============================================================================

-------------------------- MODULE MCRestartingMgr --------------------------
(* Small instances of RestartingMgr for TLC: states of few finds fit into   *)
(* the map, larger ones go to a file.                                       *)
EXTENDS RestartingMgr

MCContents == [state : -1..MaxFinds, desc : 0..MaxFinds]
MCSerializedLen == [c \in MCContents |-> IF c.state < 2 THEN 20 ELSE 80]
=============================================================================

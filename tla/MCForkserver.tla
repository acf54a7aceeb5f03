---------------------------- MODULE MCForkserver ----------------------------
(* Small instances of Forkserver. *)
EXTENDS Forkserver

\* Every combination of options of fuzzer and target, with dictionaries of every kind:
\* none, one that is too short, one, and one that does not fit in the pipe.
Options ==
    [persistent : BOOLEAN, sharedmem : BOOLEAN, dict : {0, 1, 2, 4}, mapsize : {64},
     map : BOOLEAN, tokens : BOOLEAN, limit : {0}, timed : BOOLEAN, signal : {"KILL"}]

\* Map sizes about their limits, with and without one given to the builder
Sizes ==
    [persistent : {FALSE}, sharedmem : BOOLEAN, dict : {0},
     mapsize : {1, 64, 65, 8388608, 8388609}, map : {TRUE}, tokens : {TRUE},
     limit : {0, 64, 100}, timed : {TRUE}, signal : {"KILL"}]

AllConfs == Options \cup Sizes
=============================================================================

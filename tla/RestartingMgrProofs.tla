------------------------ MODULE RestartingMgrProofs ------------------------
(***************************************************************************)
(* Proofs about RestartingMgr, for every map size, every size of serialized*)
(* states and any number of finds and failures: the types, that a runner   *)
(* which said it exits is never replaced (events/llmp.rs), that no progress *)
(* is lost between runners, and, as long as nothing fails, that the        *)
(* description is handed on and the temporary directory is tidy.           *)
(***************************************************************************)
EXTENDS RestartingMgr, TLAPS

\* What the types rest on: nothing a runner holds or has saved is ahead of the
\* testcases found and of the pages opened.
Bounds ==
    /\ out <= finds
    /\ child.state <= finds /\ child.desc <= out
    /\ content.buf.kind \in {"state", "name"} =>
          content.buf.of.state <= finds /\ content.buf.of.desc <= out

TypeInv == TypeOK /\ Bounds

\* The magic is in the map from send_exiting on, only the parent is left to act,
\* and it forks when the runner it had is dead.
ExitInv ==
    /\ exited => /\ content.buf = Magic
                 /\ parent # "spawn"
                 /\ child.pc \in {"leaving", "dead"}
    /\ child.pc = "magic_len" => content.buf = Magic
    /\ parent = "spawn" => child.pc = "dead"

\* The state of a runner that restored is current; so is what the map holds, also
\* between the two stores of save; a runner fuzzes and saves with an empty map; and
\* a runner that finds the map empty when it starts is the first one.
ProgressInv ==
    serialize_state =>
        /\ child.pc \notin {"dead", "restore"} => child.state = finds /\ child.desc = out
        /\ content.buf.kind \in {"state", "name"} /\ (has_content \/ child.pc = "len") =>
              content.buf.of = Saved(finds, out)
        /\ child.pc \in {"run", "save", "create", "write", "copy", "len", "magic", "magic_len"} =>
              ~has_content
        /\ parent = "spawn" \/ child.pc = "restore" => has_content \/ (finds = 0 /\ out = 0)
        /\ child.pc = "restore" => child.state = 0 /\ child.desc = 0
        /\ child.pc = "magic_len" => content.buf.kind = "magic"
        /\ parent = "spawn" => child.pc = "dead"

\* The same for the description alone, with or without serialize_state, as long as
\* nothing failed: then a runner that is dead has left something, unless it has not
\* even been started.
DescInv ==
    faults = 0 =>
        /\ child.pc \notin {"dead", "restore"} => child.desc = out
        /\ content.buf.kind \in {"state", "name"} /\ (has_content \/ child.pc = "len") =>
              content.buf.of.desc = out
        /\ child.pc \in {"run", "save", "create", "write", "copy", "len", "magic", "magic_len"} =>
              ~has_content
        /\ child.pc \in {"disk", "saved", "leaving"} => has_content
        /\ child.pc \in {"dead", "restore"} => has_content \/ out = 0
        /\ child.pc = "restore" => child.desc = 0
        /\ child.pc = "magic_len" => content.buf.kind = "magic"
        /\ parent = "spawn" => child.pc = "dead"

\* The file of c is as it has to be: `how` if c is what on_restart is about to save and
\* it does not fit the map, absent otherwise.
OnlyFile(how) ==
    \A c \in Contents :
        tmpfiles[c] = IF c = Described /\ ~FitsMap(c) THEN how ELSE "absent"

\* The files at every position of reset and save, as long as nothing failed. The map is
\* not marked from reset on until save has done all the rest, and a marked map has a
\* length that reset accepts.
FilesInv ==
    faults = 0 =>
        /\ child.pc \in {"dead", "restore", "attach", "unlink", "run", "save", "saved",
                         "magic", "magic_len", "leaving"} =>
              \A c \in Contents :
                  tmpfiles[c] = IF content.is_disk /\ content.buf = Buf("name", c)
                                THEN "full" ELSE "absent"
        /\ child.pc \in {"undisk", "unlen", "create"} =>
              \A c \in Contents : tmpfiles[c] = "absent"
        /\ child.pc = "write" => OnlyFile("empty")
        /\ child.pc \in {"copy", "len", "disk"} => OnlyFile("full")
        /\ child.pc \in {"create", "write"} => ~FitsMap(Described)
        /\ child.pc \in {"len", "disk"} => content.buf = SavedBuf(Described)
        /\ child.pc = "disk" => content.buf_len = SavedLen(Described)
        /\ child.pc \in {"unlen", "run", "save", "create", "write", "copy", "len", "disk",
                         "magic", "magic_len", "leaving"} => ~content.is_disk
        /\ content.is_disk => has_content /\ buf_len_checked
        /\ parent = "spawn" => child.pc = "dead"

-----------------------------------------------------------------------------
(* Types.                                                                  *)

LEMMA SerializeStateRigid == [Next]_vars => serialize_state' = serialize_state
BY Zenon DEF Next, ParentStep, ChildStep, Faults, Terminated, vars,
   Fork, ParentPanics, ParentReturns, ParentLoops, ParentInterrupted,
   RestoreNone, RestoreSome, RestoreErr, Attach, AttachFails, ResetFile, ResetDisk, ResetLen,
   FindTestcase, OnRestart, SaveBegin, SaveCreate, SaveWrite, SaveFails, SaveBuf, SaveLen,
   SaveDisk, ExitSaved, SendExiting, ExitingBuf, ExitingLen, ExitCleanly, Die

LEMMA InitTypeInv == Init => TypeInv
<1> SUFFICES ASSUME Init PROVE TypeInv
  OBVIOUS
<1> USE RestorerAssumption, RestartAssumption DEF Init, InitRestorer
<1>1. content \in Maps
  BY DEF Maps, Blank, Magic, Buf
<1>2. child \in Runners
  BY DEF Runners
<1>3. content.buf.kind = "blank"
  BY DEF Blank, Buf
<1>4. child.state = 0 /\ child.desc = 0 /\ out = 0 /\ finds = 0
  OBVIOUS
<1>5. TypeOK
  <2>1. exited \in BOOLEAN
    OBVIOUS
  <2>2. tmpfiles \in [Contents -> {"absent", "empty", "full"}]
    OBVIOUS
  <2> QED
    BY <1>1, <1>2, <2>1, <2>2 DEF TypeOK
<1> QED
  BY <1>3, <1>4, <1>5 DEF TypeInv, Bounds

LEMMA StepTypeInv == TypeInv /\ [Next]_vars => TypeInv'
<1> SUFFICES ASSUME TypeInv, [Next]_vars PROVE TypeInv'
  OBVIOUS
<1> USE RestorerAssumption, RestartAssumption DEF TypeInv, TypeOK, Bounds, restorer, history
<1>1. CASE Fork
  <2>1. child' \in Runners /\ child'.state <= finds /\ child'.desc <= out
    BY <1>1 DEF Fork, Runners
  <2> QED
    BY <1>1, <2>1 DEF Fork
<1>2. CASE ParentPanics
  BY <1>2 DEF ParentPanics
<1>3. CASE ParentReturns
  BY <1>3 DEF ParentReturns
<1>4. CASE ParentLoops
  BY <1>4 DEF ParentLoops
<1>5. CASE ParentInterrupted
  BY <1>5 DEF ParentInterrupted
<1>6. CASE RestoreNone
  <2>1. child' \in Runners /\ child'.state = child.state /\ child'.desc = child.desc
    BY <1>6 DEF RestoreNone, Go, Runners
  <2> QED
    BY <1>6, <2>1 DEF RestoreNone
<1>7. CASE RestoreSome
  <2>1. content.buf.kind \in {"state", "name"} /\ content.buf.of \in Contents
    BY <1>7 DEF RestoreSome, RestoresSome, Decodes, Maps, Blank, Magic, Buf
  <2>2. content.buf.of.state \in -1..MaxFinds /\ content.buf.of.desc \in 0..MaxFinds
    BY <2>1
  <2> DEFINE s == IF content.buf.of.state = -1 THEN 0 ELSE content.buf.of.state
             d == content.buf.of.desc
  <2>5. s \in 0..MaxFinds /\ s <= finds /\ d \in 0..MaxFinds /\ d <= out
    BY <2>1, <2>2
  <2>6. child' = [child EXCEPT !.pc = "attach", !.state = s, !.desc = d]
    BY <1>7 DEF RestoreSome
  <2> HIDE DEF s, d
  <2>3. child' \in Runners /\ child'.state <= finds /\ child'.desc <= out
    BY <2>5, <2>6 DEF Runners
  <2> QED
    BY <1>7, <2>3 DEF RestoreSome
<1>8. CASE RestoreErr
  <2>1. child' \in Runners /\ child'.state = child.state /\ child'.desc = child.desc
    BY <1>8 DEF RestoreErr, Ends, Go, Runners
  <2> QED
    BY <1>8, <2>1 DEF RestoreErr, Ends, Exit, Signal
<1>9. CASE Attach
  <2>1. child' \in Runners /\ child'.state = child.state /\ child'.desc = child.desc
    <3>1. CASE Llmp \/ has_content
      <4>1. child' = [child EXCEPT !.pc = "unlink", !.ret = "run"]
        BY <1>9, <3>1, Zenon DEF Attach
      <4> QED
        BY <4>1 DEF Runners
    <3>2. CASE ~(Llmp \/ has_content)
      BY <1>9, <3>2 DEF Attach, Go, Runners
    <3> QED
      BY <3>1, <3>2
  <2> QED
    BY <1>9, <2>1 DEF Attach
<1>10. CASE AttachFails
  <2>1. child' \in Runners /\ child'.state = child.state /\ child'.desc = child.desc
    BY <1>10 DEF AttachFails, Ends, Go, Runners
  <2> QED
    BY <1>10, <2>1 DEF AttachFails, Ends, Exit, Signal
<1>11. CASE ResetFile
  <2>1. child' \in Runners /\ child'.state = child.state /\ child'.desc = child.desc
    BY <1>11 DEF ResetFile, Go, Runners
  <2> QED
    BY <1>11, <2>1 DEF ResetFile, RemoveFile
<1>12. CASE ResetDisk
  <2>1. content' \in Maps /\ content'.buf = content.buf
    BY <1>12 DEF ResetDisk, SetDisk, Maps
  <2>4. child' \in Runners /\ child'.state = child.state /\ child'.desc = child.desc
    BY <1>12 DEF ResetDisk, Go, Runners
  <2> QED
    BY <1>12, <2>1, <2>4 DEF ResetDisk
<1>13. CASE ResetLen
  <2> child.ret \in {"run", "save", "magic"}
    BY DEF Runners
  <2>1. content' \in Maps /\ content'.buf = content.buf
    BY <1>13 DEF ResetLen, SetLen, Maps
  <2>4. child' \in Runners /\ child'.state = child.state /\ child'.desc = child.desc
    BY <1>13 DEF ResetLen, Go, Runners
  <2> QED
    BY <1>13, <2>1, <2>4 DEF ResetLen
<1>14. CASE FindTestcase
  <2>1. child.state \in Int /\ child.desc \in Int
    BY DEF Runners
  <2>2. child' \in Runners /\ child'.state <= finds' /\ child'.desc <= out'
    <3>1. CASE child' = [child EXCEPT !.state = child.state + 1] /\ UNCHANGED out
      BY <1>14, <2>1, <3>1 DEF FindTestcase, Runners
    <3>2. CASE /\ child.desc = out
               /\ child' = [child EXCEPT !.state = child.state + 1, !.desc = child.desc + 1]
               /\ out' = out + 1
      <4>1. finds < MaxFinds /\ finds' = finds + 1
        BY <1>14 DEF FindTestcase
      <4>2. child.state + 1 \in 0..MaxFinds /\ child.desc + 1 \in 0..MaxFinds
        BY <2>1, <3>2, <4>1 DEF Runners
      <4>3. child' \in Runners
        BY <3>2, <4>2 DEF Runners
      <4>4. child'.state = child.state + 1 /\ child'.desc = child.desc + 1
        BY <3>2 DEF Runners
      <4> QED
        BY <2>1, <3>2, <4>1, <4>3, <4>4
    <3> QED
      BY <1>14, <3>1, <3>2 DEF FindTestcase
  <2>3. content.buf.kind \in {"state", "name"} =>
          content.buf.of.state \in Int /\ content.buf.of.desc \in Int
    BY DEF Maps, Blank, Magic, Buf
  <2> QED
    BY <1>14, <2>1, <2>2, <2>3 DEF FindTestcase
<1>15. CASE OnRestart
  <2>1. child' \in Runners /\ child'.state = child.state /\ child'.desc = child.desc
    BY <1>15 DEF OnRestart, Runners
  <2> QED
    BY <1>15, <2>1 DEF OnRestart
<1>16. CASE SaveBegin
  <2>1. child' \in Runners /\ child'.state = child.state /\ child'.desc = child.desc
    BY <1>16 DEF SaveBegin, Ends, Go, Runners
  <2> QED
    BY <1>16, <2>1 DEF SaveBegin, Ends, Exit, Signal
<1>17. CASE SaveCreate
  <2>0. Described \in Contents
    BY DEF Described, Saved, Runners
  <2>1. child' \in Runners /\ child'.state = child.state /\ child'.desc = child.desc
    BY <1>17 DEF SaveCreate, Go, Runners
  <2> QED
    BY <1>17, <2>1, <2>0 DEF SaveCreate, PutFile
<1>18. CASE SaveWrite
  <2>0. Described \in Contents
    BY DEF Described, Saved, Runners
  <2>1. child' \in Runners /\ child'.state = child.state /\ child'.desc = child.desc
    BY <1>18 DEF SaveWrite, Ends, Go, Runners
  <2> QED
    BY <1>18, <2>1, <2>0 DEF SaveWrite, PutFile, Ends, Exit, Signal
<1>19. CASE SaveFails
  <2>1. child' \in Runners /\ child'.state = child.state /\ child'.desc = child.desc
    BY <1>19 DEF SaveFails, Ends, Go, Runners
  <2> QED
    BY <1>19, <2>1 DEF SaveFails, Ends, Exit, Signal
<1>20. CASE SaveBuf
  <2>1. Described \in Contents /\ Described.state <= finds /\ Described.desc <= out
    BY DEF Described, Saved, Runners
  <2>2. SavedBuf(Described) \in [kind : {"state", "name"}, of : Contents]
        /\ SavedBuf(Described).of = Described
    BY <2>1 DEF SavedBuf, Buf
  <2>3. content' \in Maps /\ content'.buf = SavedBuf(Described)
    BY <1>20, <2>2 DEF SaveBuf, CopyBuf, Maps
  <2>4. child' \in Runners /\ child'.state = child.state /\ child'.desc = child.desc
    BY <1>20 DEF SaveBuf, Go, Runners
  <2> QED
    BY <1>20, <2>1, <2>2, <2>3, <2>4 DEF SaveBuf
<1>21. CASE SaveLen
  <2>1. Described \in Contents
    BY DEF Described, Saved, Runners
  <2>5. SerializedLen[Described] \in Nat
    BY <2>1
  <2>2. SavedLen(Described) \in 0..MapSize
    BY <2>5 DEF SavedLen, FitsMap, HEADER_LEN, MAGIC_LEN, FILENAME_LEN
  <2>3. content' \in Maps /\ content'.buf = content.buf
    BY <1>21, <2>2 DEF SaveLen, SetLen, Maps
  <2>4. child' \in Runners /\ child'.state = child.state /\ child'.desc = child.desc
    BY <1>21 DEF SaveLen, Go, Runners
  <2> QED
    BY <1>21, <2>3, <2>4 DEF SaveLen
<1>22. CASE SaveDisk
  <2>1. content' \in Maps /\ content'.buf = content.buf
    BY <1>22 DEF SaveDisk, SetDisk, Maps, FitsMap
  <2>4. child' \in Runners /\ child'.state = child.state /\ child'.desc = child.desc
    BY <1>22 DEF SaveDisk, Go, Runners
  <2> QED
    BY <1>22, <2>1, <2>4 DEF SaveDisk
<1>23. CASE ExitSaved
  <2>1. child' \in Runners /\ child'.state = child.state /\ child'.desc = child.desc
    BY <1>23 DEF ExitSaved, Ends, Go, Runners
  <2> QED
    BY <1>23, <2>1 DEF ExitSaved, Ends, Exit, Signal
<1>24. CASE SendExiting
  <2>1. child' \in Runners /\ child'.state = child.state /\ child'.desc = child.desc
    BY <1>24 DEF SendExiting, Runners
  <2> QED
    BY <1>24, <2>1 DEF SendExiting
<1>25. CASE ExitingBuf
  <2>1. content' \in Maps /\ content'.buf = Magic
    BY <1>25 DEF ExitingBuf, CopyBuf, Maps
  <2>2. Magic.kind = "magic"
    BY DEF Magic, Buf
  <2>4. child' \in Runners /\ child'.state = child.state /\ child'.desc = child.desc
    BY <1>25 DEF ExitingBuf, Go, Runners
  <2> QED
    BY <1>25, <2>1, <2>2, <2>4 DEF ExitingBuf
<1>26. CASE ExitingLen
  <2>1. content' \in Maps /\ content'.buf = content.buf
    BY <1>26 DEF ExitingLen, SetLen, Maps, MAGIC_LEN, HEADER_LEN
  <2>4. child' \in Runners /\ child'.state = child.state /\ child'.desc = child.desc
    BY <1>26 DEF ExitingLen, Go, Runners
  <2> QED
    BY <1>26, <2>1, <2>4 DEF ExitingLen
<1>27. CASE ExitCleanly
  <2>1. child' \in Runners /\ child'.state = child.state /\ child'.desc = child.desc
    BY <1>27 DEF ExitCleanly, Ends, Go, Runners
  <2> QED
    BY <1>27, <2>1 DEF ExitCleanly, Ends, Exit, Signal
<1>28. CASE \E how \in {Signal(9), Exit(0)} : Die(how)
  <2>1. child' \in Runners /\ child'.state = child.state /\ child'.desc = child.desc
    BY <1>28 DEF Die, Ends, Go, Runners
  <2> QED
    BY <1>28, <2>1 DEF Die, Ends, Exit, Signal
<1>29. CASE UNCHANGED vars
  BY <1>29 DEF vars
<1> QED
  BY <1>1, <1>2, <1>3, <1>4, <1>5, <1>6, <1>7, <1>8, <1>9, <1>10, <1>11, <1>12, <1>13,
       <1>14, <1>15, <1>16, <1>17, <1>18, <1>19, <1>20, <1>21, <1>22, <1>23, <1>24, <1>25,
       <1>26, <1>27, <1>28, <1>29
     DEF Next, ParentStep, ChildStep, Faults, Terminated

\* The map, the files and both processes keep their types in every execution of
\* launch, on_restart and send_exiting.
THEOREM Typing == Spec => []TypeOK
<1>1. Init => TypeInv
  BY InitTypeInv
<1>2. TypeInv /\ [Next]_vars => TypeInv'
  BY StepTypeInv
<1>3. TypeInv => TypeOK
  BY DEF TypeInv
<1> QED
  BY <1>1, <1>2, <1>3, PTL DEF Spec

LEMMA AlwaysTypeInv == Spec => []TypeInv
<1>1. Init => TypeInv
  BY InitTypeInv
<1>2. TypeInv /\ [Next]_vars => TypeInv'
  BY StepTypeInv
<1> QED
  BY <1>1, <1>2, PTL DEF Spec

-----------------------------------------------------------------------------
(* A runner that exits is the last one.                                    *)

LEMMA StepExitInv ==
  ASSUME Llmp, TypeInv, ExitInv, [Next]_vars
  PROVE  ExitInv'
<1>0. child \in Runners /\ content \in Maps
  BY DEF TypeInv, TypeOK
<1> USE <1>0 DEF ExitInv, Runners, Maps, restorer, history
<1>1. CASE Fork
  BY <1>1 DEF Fork
<1>2. CASE ParentPanics
  BY <1>2 DEF ParentPanics
<1>3. CASE ParentReturns
  BY <1>3 DEF ParentReturns
<1>4. CASE ParentLoops
  BY <1>4 DEF ParentLoops, wants_to_exit
<1>5. CASE ParentInterrupted
  BY <1>5 DEF ParentInterrupted
<1>6. CASE RestoreNone
  BY <1>6 DEF RestoreNone, Go
<1>7. CASE RestoreSome
  BY <1>7 DEF RestoreSome
<1>8. CASE RestoreErr
  BY <1>8 DEF RestoreErr, Ends, Go
<1>9. CASE Attach
  BY <1>9 DEF Attach, Go
<1>10. CASE AttachFails
  BY <1>10 DEF AttachFails, Ends, Go
<1>11. CASE ResetFile
  BY <1>11 DEF ResetFile, Go
<1>12. CASE ResetDisk
  BY <1>12 DEF ResetDisk, SetDisk, Go
<1>13. CASE ResetLen
  BY <1>13 DEF ResetLen, SetLen, Go
<1>14. CASE FindTestcase
  BY <1>14 DEF FindTestcase
<1>15. CASE OnRestart
  BY <1>15 DEF OnRestart
<1>16. CASE SaveBegin
  BY <1>16 DEF SaveBegin, Ends, Go
<1>17. CASE SaveCreate
  BY <1>17 DEF SaveCreate, Go
<1>18. CASE SaveWrite
  BY <1>18 DEF SaveWrite, Ends, Go
<1>19. CASE SaveFails
  BY <1>19 DEF SaveFails, Ends, Go
<1>20. CASE SaveBuf
  BY <1>20 DEF SaveBuf, CopyBuf, Go
<1>21. CASE SaveLen
  BY <1>21 DEF SaveLen, SetLen, Go
<1>22. CASE SaveDisk
  BY <1>22 DEF SaveDisk, SetDisk, Go
<1>23. CASE ExitSaved
  BY <1>23 DEF ExitSaved, Ends, Go
<1>24. CASE SendExiting
  BY <1>24 DEF SendExiting
<1>25. CASE ExitingBuf
  BY <1>25 DEF ExitingBuf, CopyBuf, Go
<1>26. CASE ExitingLen
  BY <1>26 DEF ExitingLen, SetLen, Go
<1>27. CASE ExitCleanly
  BY <1>27 DEF ExitCleanly, Ends, Go
<1>28. CASE \E how \in {Signal(9), Exit(0)} : Die(how)
  BY <1>28 DEF Die, Ends, Go
<1>29. CASE UNCHANGED vars
  BY <1>29 DEF vars
<1> QED
  BY <1>1, <1>2, <1>3, <1>4, <1>5, <1>6, <1>7, <1>8, <1>9, <1>10, <1>11, <1>12, <1>13,
       <1>14, <1>15, <1>16, <1>17, <1>18, <1>19, <1>20, <1>21, <1>22, <1>23, <1>24, <1>25,
       <1>26, <1>27, <1>28, <1>29
     DEF Next, ParentStep, ChildStep, Faults, Terminated

\* Whenever a client called send_exiting of LlmpRestartingEventManager and however
\* it dies afterwards, its parent starts no other runner.
THEOREM ExitIsFinal ==
  ASSUME Llmp
  PROVE  Spec => []NoRespawnAfterExiting
<1>1. Init => ExitInv
  BY DEF Init, ExitInv
<1>2. TypeInv /\ ExitInv /\ [Next]_vars => ExitInv'
  BY StepExitInv
<1>3. ExitInv => NoRespawnAfterExiting
  BY DEF ExitInv, NoRespawnAfterExiting
<1> QED
  BY <1>1, <1>2, <1>3, AlwaysTypeInv, PTL DEF Spec

-----------------------------------------------------------------------------
(* No progress is lost.                                                    *)

LEMMA StepProgressInv ==
  ASSUME TypeInv, ProgressInv, [Next]_vars
  PROVE  ProgressInv'
<1>0. child \in Runners /\ content \in Maps /\ finds \in Nat /\ out \in Nat
  BY RestartAssumption DEF TypeInv, TypeOK
<1> SUFFICES ASSUME serialize_state, serialize_state' PROVE ProgressInv'
  BY SerializeStateRigid DEF ProgressInv
<1> USE <1>0, RestartAssumption DEF ProgressInv, Runners, Maps, has_content, restorer, history
<1>1. CASE Fork
  BY <1>1 DEF Fork
<1>2. CASE ParentPanics
  BY <1>2 DEF ParentPanics
<1>3. CASE ParentReturns
  BY <1>3 DEF ParentReturns
<1>4. CASE ParentLoops
  BY <1>4 DEF ParentLoops, StoredNothing
<1>5. CASE ParentInterrupted
  BY <1>5 DEF ParentInterrupted
<1>6. CASE RestoreNone
  BY <1>6 DEF RestoreNone, RestoresNone, Go
<1>7. CASE RestoreSome
  <2>1. content.buf.kind \in {"state", "name"} /\ has_content
    BY <1>7 DEF RestoreSome, RestoresSome, Decodes
  <2>2. content.buf.of = Saved(finds, out)
    BY <2>1
  <2>3. content.buf.of.state = finds /\ content.buf.of.desc = out
    BY <2>2 DEF Saved
  <2>4. child'.pc = "attach" /\ child'.state = finds /\ child'.desc = out
    BY <1>7, <2>3 DEF RestoreSome
  <2> QED
    BY <1>7, <2>1, <2>2, <2>4 DEF RestoreSome
<1>8. CASE RestoreErr
  BY <1>8 DEF RestoreErr, Ends, Go
<1>9. CASE Attach
  <2>1. CASE Llmp \/ has_content
    <3>1. child' = [child EXCEPT !.pc = "unlink", !.ret = "run"]
      BY <1>9, <2>1, Zenon DEF Attach
    <3> QED
      BY <1>9, <3>1 DEF Attach
  <2>2. CASE ~(Llmp \/ has_content)
    <3>1. child' = [child EXCEPT !.pc = "run"]
      BY <1>9, <2>2, Zenon DEF Attach, Go
    <3> QED
      BY <1>9, <2>2, <3>1 DEF Attach
  <2> QED
    BY <2>1, <2>2
<1>10. CASE AttachFails
  BY <1>10 DEF AttachFails, Ends, Go
<1>11. CASE ResetFile
  BY <1>11 DEF ResetFile, Go
<1>12. CASE ResetDisk
  BY <1>12 DEF ResetDisk, SetDisk, Go
<1>13. CASE ResetLen
  BY <1>13 DEF ResetLen, SetLen, Go
<1>14. CASE FindTestcase
  <2>1. ~has_content /\ content' = content /\ parent' = parent /\ parent # "spawn"
    BY <1>14 DEF FindTestcase
  <2>2. child'.pc = "run" /\ child'.state = finds' /\ child'.desc = out'
    <3>1. CASE child' = [child EXCEPT !.state = child.state + 1] /\ UNCHANGED out
      BY <1>14, <3>1 DEF FindTestcase
    <3>2. CASE /\ child' = [child EXCEPT !.state = child.state + 1, !.desc = child.desc + 1]
               /\ out' = out + 1
      BY <1>14, <3>2 DEF FindTestcase
    <3> QED
      BY <1>14, <3>1, <3>2 DEF FindTestcase
  <2> QED
    BY <2>1, <2>2
<1>15. CASE OnRestart
  BY <1>15 DEF OnRestart
<1>16. CASE SaveBegin
  BY <1>16 DEF SaveBegin, Ends, Go
<1>17. CASE SaveCreate
  BY <1>17 DEF SaveCreate, Go
<1>18. CASE SaveWrite
  BY <1>18 DEF SaveWrite, Ends, Go
<1>19. CASE SaveFails
  BY <1>19 DEF SaveFails, Ends, Go
<1>20. CASE SaveBuf
  <2>1. Described = Saved(finds, out)
    BY <1>20 DEF SaveBuf, Described
  <2>2. content'.buf.of = Saved(finds, out) /\ content'.buf_len = content.buf_len
    BY <1>20, <2>1 DEF SaveBuf, CopyBuf, SavedBuf, Buf
  <2>3. child'.pc = "len" /\ child'.state = child.state /\ child'.desc = child.desc
    BY <1>20 DEF SaveBuf, Go
  <2> QED
    BY <1>20, <2>2, <2>3 DEF SaveBuf
<1>21. CASE SaveLen
  BY <1>21 DEF SaveLen, SetLen, Go
<1>22. CASE SaveDisk
  BY <1>22 DEF SaveDisk, SetDisk, Go
<1>23. CASE ExitSaved
  BY <1>23 DEF ExitSaved, Ends, Go
<1>24. CASE SendExiting
  BY <1>24 DEF SendExiting
<1>25. CASE ExitingBuf
  BY <1>25 DEF ExitingBuf, CopyBuf, Magic, Buf, Go
<1>26. CASE ExitingLen
  <2>1. content'.buf.kind = "magic" /\ child'.pc = "leaving"
        /\ child'.state = child.state /\ child'.desc = child.desc
    BY <1>26 DEF ExitingLen, SetLen, Go
  <2> QED
    BY <1>26, <2>1 DEF ExitingLen
<1>27. CASE ExitCleanly
  BY <1>27 DEF ExitCleanly, Ends, Go
<1>28. CASE \E how \in {Signal(9), Exit(0)} : Die(how)
  BY <1>28 DEF Die, Ends, Go
<1>29. CASE UNCHANGED vars
  BY <1>29 DEF vars
<1> QED
  BY <1>1, <1>2, <1>3, <1>4, <1>5, <1>6, <1>7, <1>8, <1>9, <1>10, <1>11, <1>12, <1>13,
       <1>14, <1>15, <1>16, <1>17, <1>18, <1>19, <1>20, <1>21, <1>22, <1>23, <1>24, <1>25,
       <1>26, <1>27, <1>28, <1>29
     DEF Next, ParentStep, ChildStep, Faults, Terminated

\* With serialize_state, a runner that fuzzes has the state all runners before it
\* reached together and writes to the page the client's out map has reached,
\* whatever was killed or failed, and at whichever store of save or reset.
THEOREM NoProgressLost == Spec => []ProgressKept
<1>1. Init => ProgressInv
  BY DEF Init, InitRestorer, ProgressInv, has_content, Blank, Buf
<1>2. TypeInv /\ ProgressInv /\ [Next]_vars => ProgressInv'
  BY StepProgressInv
<1>3. ProgressInv => ProgressKept
  BY DEF ProgressInv, ProgressKept
<1> QED
  BY <1>1, <1>2, <1>3, AlwaysTypeInv, PTL DEF Spec

-----------------------------------------------------------------------------
(* Without serialize_state.                                                *)

\* No step hands on the description of an old page, or none, unless it is a failure.
LEMMA StepDescInv ==
  ASSUME HEADER_LEN + FILENAME_LEN <= MapSize, TypeInv, DescInv, [Next]_vars
  PROVE  DescInv'
<1>0. /\ child \in Runners /\ content \in Maps /\ finds \in Nat /\ out \in Nat /\ faults \in Nat
      /\ serialize_state \in BOOLEAN /\ MapSize \in Nat
  BY RestartAssumption, RestorerAssumption DEF TypeInv, TypeOK
<1> USE <1>0, RestartAssumption DEF DescInv, Runners, Maps, has_content, restorer, history
<1>1. CASE Fork
  BY <1>1 DEF Fork
<1>2. CASE ParentPanics
  BY <1>2 DEF ParentPanics
<1>3. CASE ParentReturns
  BY <1>3 DEF ParentReturns
<1>4. CASE ParentLoops
  BY <1>4 DEF ParentLoops
<1>5. CASE ParentInterrupted
  BY <1>5 DEF ParentInterrupted
<1>6. CASE RestoreNone
  BY <1>6 DEF RestoreNone, RestoresNone, Go
<1>7. CASE RestoreSome
  <2>1. content.buf.kind \in {"state", "name"} /\ has_content
    BY <1>7 DEF RestoreSome, RestoresSome, Decodes
  <2>2. faults = 0 => content.buf.of.desc = out
    BY <2>1
  <2>3. child'.pc = "attach" /\ child'.desc = content.buf.of.desc
    BY <1>7 DEF RestoreSome
  <2> QED
    BY <1>7, <2>1, <2>2, <2>3 DEF RestoreSome
<1>8. CASE RestoreErr
  BY <1>8 DEF RestoreErr, RestoresErr, Ends, Go
<1>9. CASE Attach
  <2>1. CASE Llmp \/ has_content
    <3>1. child' = [child EXCEPT !.pc = "unlink", !.ret = "run"]
      BY <1>9, <2>1, Zenon DEF Attach
    <3> QED
      BY <1>9, <3>1 DEF Attach
  <2>2. CASE ~(Llmp \/ has_content)
    <3>1. child' = [child EXCEPT !.pc = "run"]
      BY <1>9, <2>2, Zenon DEF Attach, Go
    <3> QED
      BY <1>9, <2>2, <3>1 DEF Attach
  <2> QED
    BY <2>1, <2>2
<1>10. CASE AttachFails
  BY <1>10 DEF AttachFails
<1>11. CASE ResetFile
  BY <1>11 DEF ResetFile, RemoveFile, Go
<1>12. CASE ResetDisk
  BY <1>12 DEF ResetDisk, SetDisk, Go
<1>13. CASE ResetLen
  BY <1>13 DEF ResetLen, SetLen, Go
<1>14. CASE FindTestcase
  <2>1. /\ child.pc = "run" /\ content' = content /\ parent' = parent /\ faults' = faults
        /\ out' \in Nat
    BY <1>14 DEF FindTestcase
  <2>2. child'.pc = "run" /\ (child.desc = out => child'.desc = out')
    <3>1. CASE child' = [child EXCEPT !.state = child.state + 1] /\ UNCHANGED out
      BY <1>14, <3>1 DEF FindTestcase
    <3>2. CASE /\ child' = [child EXCEPT !.state = child.state + 1, !.desc = child.desc + 1]
               /\ out' = out + 1
      BY <1>14, <3>2 DEF FindTestcase
    <3> QED
      BY <1>14, <3>1, <3>2 DEF FindTestcase
  <2> QED
    BY <2>1, <2>2
<1>15. CASE OnRestart
  BY <1>15 DEF OnRestart
<1>16. CASE SaveBegin
  BY <1>16 DEF SaveBegin, Ends, Go
<1>17. CASE SaveCreate
  BY <1>17 DEF SaveCreate, PutFile, Go
<1>18. CASE SaveWrite
  BY <1>18 DEF SaveWrite, NameFitsMap, HEADER_LEN, FILENAME_LEN, Ends, Go
<1>19. CASE SaveFails
  BY <1>19 DEF SaveFails
<1>20. CASE SaveBuf
  <2>1. Described.desc = child.desc
    BY DEF Described, Saved
  <2>2. content'.buf.of = Described /\ content'.buf_len = content.buf_len
    BY <1>20 DEF SaveBuf, CopyBuf, SavedBuf, Buf
  <2>3. child'.pc = "len" /\ child'.desc = child.desc
    BY <1>20 DEF SaveBuf, Go
  <2> QED
    BY <1>20, <2>1, <2>2, <2>3 DEF SaveBuf
<1>21. CASE SaveLen
  <2>1. SavedLen(Described) > 0
    <3>1. Described \in Contents
      BY DEF Described, Saved, TypeInv, TypeOK
    <3>2. SerializedLen[Described] \in Nat \ {0}
      BY <3>1, RestorerAssumption
    <3> QED
      BY <3>2 DEF SavedLen, FILENAME_LEN
  <2>2. content'.buf = content.buf /\ content'.buf_len > 0
    BY <1>21, <2>1 DEF SaveLen, SetLen
  <2>3. child'.pc = "disk" /\ child'.desc = child.desc
    BY <1>21 DEF SaveLen, Go
  <2> QED
    BY <1>21, <2>2, <2>3 DEF SaveLen
<1>22. CASE SaveDisk
  BY <1>22 DEF SaveDisk, SetDisk, Go
<1>23. CASE ExitSaved
  BY <1>23 DEF ExitSaved, Ends, Go
<1>24. CASE SendExiting
  BY <1>24 DEF SendExiting
<1>25. CASE ExitingBuf
  BY <1>25 DEF ExitingBuf, CopyBuf, Magic, Buf, Go
<1>26. CASE ExitingLen
  BY <1>26 DEF ExitingLen, SetLen, MAGIC_LEN, Go
<1>27. CASE ExitCleanly
  BY <1>27 DEF ExitCleanly, Ends, Go
<1>28. CASE \E how \in {Signal(9), Exit(0)} : Die(how)
  BY <1>28 DEF Die
<1>29. CASE UNCHANGED vars
  BY <1>29 DEF vars
<1> QED
  BY <1>1, <1>2, <1>3, <1>4, <1>5, <1>6, <1>7, <1>8, <1>9, <1>10, <1>11, <1>12, <1>13,
       <1>14, <1>15, <1>16, <1>17, <1>18, <1>19, <1>20, <1>21, <1>22, <1>23, <1>24, <1>25,
       <1>26, <1>27, <1>28, <1>29
     DEF Next, ParentStep, ChildStep, Faults, Terminated

\* As long as nothing fails, the runner that fuzzes writes to the page the client's out
\* map has reached, whether or not states are serialized, if a file name fits the map.
THEOREM DescriptionHandedOn ==
  ASSUME HEADER_LEN + FILENAME_LEN <= MapSize
  PROVE  Spec => []DescriptionKept
<1>1. Init => DescInv
  BY DEF Init, InitRestorer, DescInv, has_content, Blank, Buf
<1>2. TypeInv /\ DescInv /\ [Next]_vars => DescInv'
  BY StepDescInv
<1>3. DescInv => DescriptionKept
  BY DEF DescInv, DescriptionKept
<1> QED
  BY <1>1, <1>2, <1>3, AlwaysTypeInv, PTL DEF Spec

-----------------------------------------------------------------------------
(* Files.                                                                  *)

\* No step leaves a file behind or a name without its file, unless it is a failure.
LEMMA StepFilesInv ==
  ASSUME HEADER_LEN + FILENAME_LEN <= MapSize, TypeInv, FilesInv, [Next]_vars
  PROVE  FilesInv'
<1>0. /\ child \in Runners /\ content \in Maps /\ faults \in Nat
      /\ tmpfiles \in [Contents -> {"absent", "empty", "full"}]
      /\ serialize_state \in BOOLEAN /\ MapSize \in Nat
  BY RestartAssumption, RestorerAssumption DEF TypeInv, TypeOK
<1> USE <1>0 DEF FilesInv, OnlyFile, buf_len_checked, Described, Runners, Maps, has_content,
      restorer, history
<1>1. CASE Fork
  BY <1>1 DEF Fork
<1>2. CASE ParentPanics
  BY <1>2 DEF ParentPanics
<1>3. CASE ParentReturns
  BY <1>3 DEF ParentReturns
<1>4. CASE ParentLoops
  BY <1>4 DEF ParentLoops
<1>5. CASE ParentInterrupted
  BY <1>5 DEF ParentInterrupted
<1>6. CASE RestoreNone
  BY <1>6 DEF RestoreNone, RestoresNone, Go
<1>7. CASE RestoreSome
  BY <1>7 DEF RestoreSome
<1>8. CASE RestoreErr
  BY <1>8 DEF RestoreErr, RestoresErr, Ends, Go
<1>9. CASE Attach
  <2>1. CASE Llmp \/ has_content
    <3>1. child' = [child EXCEPT !.pc = "unlink", !.ret = "run"]
      BY <1>9, <2>1, Zenon DEF Attach
    <3> QED
      BY <1>9, <3>1 DEF Attach
  <2>2. CASE ~(Llmp \/ has_content)
    <3>1. child' = [child EXCEPT !.pc = "run"]
      BY <1>9, <2>2, Zenon DEF Attach, Go
    <3> QED
      BY <1>9, <2>2, <3>1 DEF Attach
  <2> QED
    BY <2>1, <2>2
<1>10. CASE AttachFails
  BY <1>10 DEF AttachFails
<1>11. CASE ResetFile
  <2>1. /\ child.pc = "unlink" /\ child'.pc = "undisk" /\ content' = content
        /\ faults' = faults /\ parent' = parent
    BY <1>11 DEF ResetFile, Go
  <2>2. ASSUME faults = 0, NEW c \in Contents
        PROVE  tmpfiles'[c] = "absent"
    <3>1. /\ tmpfiles[c] = IF content.is_disk /\ content.buf = Buf("name", c)
                           THEN "full" ELSE "absent"
          /\ content.is_disk => HEADER_LEN + content.buf_len <= MapSize
      BY <2>1, <2>2
    <3>2. content.buf = Buf("name", c) => content.buf.kind = "name" /\ content.buf.of = c
      BY DEF Buf
    <3> QED
      BY <1>11, <3>1, <3>2 DEF ResetFile, RemoveFile
  <2> QED
    BY <2>1, <2>2
<1>12. CASE ResetDisk
  BY <1>12 DEF ResetDisk, SetDisk, Go
<1>13. CASE ResetLen
  BY <1>13 DEF ResetLen, SetLen, Go
<1>14. CASE FindTestcase
  BY <1>14 DEF FindTestcase
<1>15. CASE OnRestart
  BY <1>15 DEF OnRestart
<1>16. CASE SaveBegin
  BY <1>16 DEF SaveBegin, Ends, Go
<1>17. CASE SaveCreate
  BY <1>17 DEF SaveCreate, PutFile, Go
<1>18. CASE SaveWrite
  <2>1. NameFitsMap
    BY DEF NameFitsMap, HEADER_LEN, FILENAME_LEN
  <2> QED
    BY <1>18, <2>1 DEF SaveWrite, PutFile, Go
<1>19. CASE SaveFails
  BY <1>19 DEF SaveFails
<1>20. CASE SaveBuf
  BY <1>20 DEF SaveBuf, CopyBuf, SavedBuf, Buf, Go
<1>21. CASE SaveLen
  BY <1>21 DEF SaveLen, SetLen, Go
<1>22. CASE SaveDisk
  <2> DEFINE d == Described
  <2>1. /\ content' = [content EXCEPT !.is_disk = ~FitsMap(d)]
        /\ child'.pc = "saved" /\ child.pc = "disk" /\ tmpfiles' = tmpfiles
        /\ faults' = faults /\ parent' = parent
    BY <1>22 DEF SaveDisk, SetDisk, Go
  <2>2. faults = 0 =>
          /\ \A c \in Contents : tmpfiles[c] = IF c = d /\ ~FitsMap(c) THEN "full" ELSE "absent"
          /\ content.buf = SavedBuf(d) /\ content.buf_len = SavedLen(d) /\ parent # "spawn"
    BY <2>1
  <2> HIDE DEF d
  <2>3. \A c : SavedBuf(d) = Buf("name", c) <=> c = d /\ ~FitsMap(d)
    BY DEF SavedBuf, Buf
  <2>4. ~FitsMap(d) => SavedLen(d) = FILENAME_LEN
    BY DEF SavedLen
  <2>5. /\ content'.is_disk = ~FitsMap(d) /\ content'.buf = content.buf
        /\ content'.buf_len = content.buf_len
    BY <2>1
  <2>6. FILENAME_LEN > 0
    BY DEF FILENAME_LEN
  <2> QED
    BY <2>1, <2>2, <2>3, <2>4, <2>5, <2>6, ZenonT(60)
<1>23. CASE ExitSaved
  BY <1>23 DEF ExitSaved, Ends, Go
<1>24. CASE SendExiting
  BY <1>24 DEF SendExiting
<1>25. CASE ExitingBuf
  BY <1>25 DEF ExitingBuf, CopyBuf, Magic, Buf, Go
<1>26. CASE ExitingLen
  BY <1>26 DEF ExitingLen, SetLen, MAGIC_LEN, Go
<1>27. CASE ExitCleanly
  BY <1>27 DEF ExitCleanly, Ends, Go
<1>28. CASE \E how \in {Signal(9), Exit(0)} : Die(how)
  BY <1>28 DEF Die
<1>29. CASE UNCHANGED vars
  BY <1>29 DEF vars
<1> QED
  BY <1>1, <1>2, <1>3, <1>4, <1>5, <1>6, <1>7, <1>8, <1>9, <1>10, <1>11, <1>12, <1>13,
       <1>14, <1>15, <1>16, <1>17, <1>18, <1>19, <1>20, <1>21, <1>22, <1>23, <1>24, <1>25,
       <1>26, <1>27, <1>28, <1>29
     DEF Next, ParentStep, ChildStep, Faults, Terminated

\* As long as nothing fails, the temporary directory has exactly the file that the map
\* names, complete, whenever neither reset nor save is at work.
THEOREM DirectoryTidy ==
  ASSUME HEADER_LEN + FILENAME_LEN <= MapSize
  PROVE  Spec => []FilesMatchMap
<1>1. Init => FilesInv
  BY DEF Init, InitRestorer, FilesInv, has_content, Blank, Buf
<1>2. TypeInv /\ FilesInv /\ [Next]_vars => FilesInv'
  BY StepFilesInv
<1>3. TypeInv /\ FilesInv => FilesMatchMap
  BY DEF FilesInv, FilesMatchMap, TypeInv, TypeOK, Runners, InReset, InSave
<1> QED
  BY <1>1, <1>2, <1>3, AlwaysTypeInv, PTL DEF Spec
=============================================================================

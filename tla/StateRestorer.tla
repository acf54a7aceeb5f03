--------------------------- MODULE StateRestorer ---------------------------
(***************************************************************************)
(* The StateRestorer of libafl/src/bolts/staterestore.rs: one shared map   *)
(* in which a fuzzing process leaves its state for the next one, or the    *)
(* name of a file in the temporary directory when the state is too large.  *)
(*                                                                         *)
(* The process can die between any two stores, so each store the code      *)
(* makes to the map or to the file is an operator of its own, in the order *)
(* of the source; RestartingMgr strings them together.                     *)
(***************************************************************************)
EXTENDS Integers

CONSTANTS
    Contents,       \* what can be saved
    NoContent,      \* no saved value
    SerializedLen,  \* SerializedLen[c] bytes hold c
    MapSize         \* size of the shared map

\* size_of::<StateShMemContent>(): a bool, padding and a usize
HEADER_LEN == 16

\* EXITING_MAGIC
MAGIC_LEN == 16

\* postcard of "{:016x}.libafl_state": a length byte and 29 characters
FILENAME_LEN == 30

\* send_exiting and wants_to_exit assert that the magic fits.
ASSUME RestorerAssumption ==
    /\ NoContent \notin Contents
    /\ SerializedLen \in [Contents -> Nat \ {0}]
    /\ MapSize \in Nat
    /\ HEADER_LEN + MAGIC_LEN <= MapSize

VARIABLES
    content,   \* StateShMemContent: is_disk, buf_len, buf
    tmpfiles   \* the file named after the hash of c: absent, empty (just created) or full

\* The first bytes of buf: nothing yet, the magic, a serialized state, or the
\* name of the file that holds one. The name is a hash of the state it holds.
Buf(kind, c) == [kind |-> kind, of |-> c]
Blank == Buf("blank", NoContent)
Magic == Buf("magic", NoContent)

\* StateRestorer::new resets the fresh map.
InitRestorer ==
    /\ content = [is_disk |-> FALSE, buf_len |-> 0, buf |-> Blank]
    /\ tmpfiles = [c \in Contents |-> "absent"]

has_content == content.buf_len > 0

buf_len_checked == HEADER_LEN + content.buf_len <= MapSize

\* Mutant of wants_to_exit: the parent never learns of it.
WantsToExitNever == FALSE

\* The first bytes are compared whatever buf_len says.
wants_to_exit == content.buf = Magic

-----------------------------------------------------------------------------
(* Stores of reset: the file first, then is_disk, then buf_len.            *)

\* Mutant of RemoveFile: the file stays.
RemoveNoFile == UNCHANGED tmpfiles

RemoveFile ==
    tmpfiles' = IF content.is_disk /\ buf_len_checked /\ content.buf.kind = "name"
                THEN [tmpfiles EXCEPT ![content.buf.of] = "absent"]
                ELSE tmpfiles

\* Mutant of SetDisk: the map is never marked.
SetDiskNever(b) == content' = [content EXCEPT !.is_disk = FALSE]

SetDisk(b) == content' = [content EXCEPT !.is_disk = b]

SetLen(n) == content' = [content EXCEPT !.buf_len = n]

CopyBuf(b) == content' = [content EXCEPT !.buf = b]

-----------------------------------------------------------------------------
(* What save decides and what it stores.                                   *)

\* Mutant of FitsMap: nothing is ever too large.
FitsMapAlways(c) == TRUE

FitsMap(c) == HEADER_LEN + SerializedLen[c] <= MapSize

\* The check that is made before the file name is written
NameFitsMap == FILENAME_LEN <= MapSize

SavedBuf(c) == IF FitsMap(c) THEN Buf("state", c) ELSE Buf("name", c)

SavedLen(c) == IF FitsMap(c) THEN SerializedLen[c] ELSE FILENAME_LEN

\* File::create truncates, write_all fills.
PutFile(c, how) == tmpfiles' = [tmpfiles EXCEPT ![c] = how]

-----------------------------------------------------------------------------
(* restore: Ok(None), Ok(Some(c)) or Err. It changes nothing.              *)

\* The bytes named by the map deserialize: a file name or the magic do not.
Decodes ==
    IF content.is_disk
    THEN content.buf.kind = "name" /\ tmpfiles[content.buf.of] = "full"
    ELSE content.buf.kind = "state"

RestoresNone == ~has_content
RestoresSome == has_content /\ buf_len_checked /\ Decodes
RestoresErr  == has_content /\ ~(buf_len_checked /\ Decodes)
=============================================================================

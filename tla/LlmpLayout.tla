----------------------------- MODULE LlmpLayout -----------------------------
(***************************************************************************)
(* The byte arithmetic of an LLMP page (libafl/src/bolts/llmp.rs): how a   *)
(* message is padded, when a page has room for it, how the position of the *)
(* next message is found, and how large the next page is.                  *)
(*                                                                         *)
(* Offsets count from the first byte of `LlmpPage::messages`, which lies   *)
(* PAGE_HEADER_LEN bytes into the map; maps start at an aligned address.   *)
(* Sizes are those of a 64-bit target.                                     *)
(***************************************************************************)
EXTENDS Integers

CONSTANTS
    INITIAL_MAP_SIZE,      \* LLMP_CFG_INITIAL_MAP_SIZE, 1 << 28 or 1 << 20
    MaxMapSize,            \* the largest map the address space has room for
    next_power_of_two(_)   \* usize::next_power_of_two of the core library

LLMP_CFG_ALIGNNMENT == 64
PAGE_HEADER_LEN     == 48   \* size_of::<LlmpPage>()
MSG_HEADER_LEN      == 40   \* size_of::<LlmpMsg>()
SHMEM_INFO_LEN      == 32   \* size_of::<LlmpPayloadSharedMapInfo>()

llmp_align(to_align) ==
    LET modulo == to_align % LLMP_CFG_ALIGNNMENT
    IN  IF modulo = 0 THEN to_align
                      ELSE to_align + LLMP_CFG_ALIGNNMENT - modulo

EOP_MSG_SIZE == llmp_align(MSG_HEADER_LEN + SHMEM_INFO_LEN)

\* The first page is large enough for its header and an end-of-page message.
ASSUME InitialSizeAssumption ==
    /\ INITIAL_MAP_SIZE \in Nat
    /\ INITIAL_MAP_SIZE >= PAGE_HEADER_LEN + EOP_MSG_SIZE
    /\ MaxMapSize \in Nat

\* What callers rely on of next_power_of_two, as long as it does not overflow.
ASSUME PowerOfTwoAssumption ==
    \A n \in 0..MaxMapSize : /\ next_power_of_two(n) \in Nat
                             /\ next_power_of_two(n) >= n

larger(a, b) == IF a >= b THEN a ELSE b

next_shmem_size(max_alloc) ==
    next_power_of_two(larger(max_alloc * 2 + EOP_MSG_SIZE + PAGE_HEADER_LEN,
                             INITIAL_MAP_SIZE - 1))

\* buf_len_padded of a message of buf_len bytes that starts at offset `start`
PaddedLen(start, buf_len) ==
    LET msg_start == PAGE_HEADER_LEN + start
    IN  llmp_align(msg_start + buf_len + MSG_HEADER_LEN) - msg_start - MSG_HEADER_LEN

\* What alloc_next_if_space adds to size_used.
AllocLen(start, buf_len) == MSG_HEADER_LEN + PaddedLen(start, buf_len)

\* Mutant of HasSpace: no room is kept for an end-of-page message.
HasSpaceForMsgOnly(size_used, size_total, buf_len) ==
    size_used + AllocLen(size_used, buf_len) <= size_total

\* A message may be placed only if an end-of-page message still fits after it.
HasSpace(size_used, size_total, buf_len) ==
    size_used + AllocLen(size_used, buf_len) + EOP_MSG_SIZE <= size_total

\* _llmp_next_msg_ptr
NextMsgPtr(msg, buf_len_padded) == msg + MSG_HEADER_LEN + buf_len_padded

\* llmp_next_msg_ptr_checked: `next` starts early enough for alloc_size bytes.
NextInMap(next, map_size, alloc_size) ==
    next >= 0 /\ PAGE_HEADER_LEN + next <= map_size - alloc_size

\* LlmpMsg::in_shmem, the bound check of the receiver
InShmem(msg, map_size, buf_len_padded) ==
    LET buf_ptr == PAGE_HEADER_LEN + msg + MSG_HEADER_LEN
    IN  /\ buf_ptr > PAGE_HEADER_LEN
        /\ buf_ptr <= map_size - MSG_HEADER_LEN
        /\ buf_ptr <= map_size - (buf_len_padded + MSG_HEADER_LEN)

\* llmp_msg_in_page, the check of send() before it commits a message
MsgInPage(msg, size_total) == PAGE_HEADER_LEN + msg < size_total
=============================================================================

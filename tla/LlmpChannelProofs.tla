------------------------- MODULE LlmpChannelProofs -------------------------
(***************************************************************************)
(* Safety of one LLMP channel for every number of readers, pages, calls    *)
(* and message lengths. None of the invariants is inductive by itself: the *)
(* type of size_used after cancel_send depends on where messages lie, the  *)
(* room for END_OF_PAGE on who owns which page, and so on. IndInv joins    *)
(* them with what each of them needs to know of the others.                *)
(*                                                                         *)
(* What the receivers get needs more than the state shows: the number of   *)
(* messages that were sent before a page was started, and which offsets of *)
(* a page hold committed messages. TiedInv says that some such history     *)
(* (base, live) ties receivers and sender together (Tied).                 *)
(***************************************************************************)
EXTENDS LlmpChannel, FiniteSetTheorems, SequenceTheorems, TLAPS

-----------------------------------------------------------------------------
(***************************************************************************)
(* What the byte arithmetic of LLMP pages guarantees for every page size   *)
(* and every message length.                                               *)
(***************************************************************************)

\* llmp_align rounds up to the next multiple of LLMP_CFG_ALIGNNMENT.
LEMMA AlignFacts ==
    ASSUME NEW x \in Nat
    PROVE  /\ llmp_align(x) \in Nat
           /\ llmp_align(x) >= x
           /\ llmp_align(x) < x + LLMP_CFG_ALIGNNMENT
           /\ llmp_align(x) % LLMP_CFG_ALIGNNMENT = 0
BY SMT DEF llmp_align, LLMP_CFG_ALIGNNMENT

\* An END_OF_PAGE message takes two alignment units.
LEMMA EopSize == EOP_MSG_SIZE = 128
BY SMT DEF EOP_MSG_SIZE, llmp_align, LLMP_CFG_ALIGNNMENT, MSG_HEADER_LEN, SHMEM_INFO_LEN

\* alloc_next_if_space never hands out less than what was asked for, and pads
\* by less than one alignment unit.
LEMMA PaddedLenFacts ==
    ASSUME NEW start \in Nat, NEW len \in Nat
    PROVE  /\ PaddedLen(start, len) \in Nat
           /\ PaddedLen(start, len) >= len
           /\ PaddedLen(start, len) < len + LLMP_CFG_ALIGNNMENT
<1>1. PAGE_HEADER_LEN + start + len + MSG_HEADER_LEN \in Nat
  BY DEF PAGE_HEADER_LEN, MSG_HEADER_LEN
<1>2. LET a == llmp_align(PAGE_HEADER_LEN + start + len + MSG_HEADER_LEN)
      IN  /\ a \in Nat
          /\ a >= PAGE_HEADER_LEN + start + len + MSG_HEADER_LEN
          /\ a < PAGE_HEADER_LEN + start + len + MSG_HEADER_LEN + LLMP_CFG_ALIGNNMENT
  BY <1>1, AlignFacts
<1>3. QED
  BY <1>2 DEF PaddedLen, PAGE_HEADER_LEN, MSG_HEADER_LEN, LLMP_CFG_ALIGNNMENT

\* The message after an allocated one starts at an aligned address.
THEOREM NextMsgAligned ==
    ASSUME NEW start \in Nat, NEW len \in Nat
    PROVE  (PAGE_HEADER_LEN + NextMsgPtr(start, PaddedLen(start, len)))
                % LLMP_CFG_ALIGNNMENT = 0
<1> DEFINE end == PAGE_HEADER_LEN + start + len + MSG_HEADER_LEN
<1>1. end \in Nat
  BY DEF PAGE_HEADER_LEN, MSG_HEADER_LEN
<1>2. llmp_align(end) \in Nat /\ llmp_align(end) % LLMP_CFG_ALIGNNMENT = 0
  BY <1>1, AlignFacts
<1>3. PAGE_HEADER_LEN + NextMsgPtr(start, PaddedLen(start, len)) = llmp_align(end)
  BY <1>2 DEF NextMsgPtr, PaddedLen, PAGE_HEADER_LEN, MSG_HEADER_LEN
<1>4. QED
  BY <1>2, <1>3

\* Whatever alloc_next_if_space places passes every later bound check: send()
\* commits it (llmp_msg_in_page), recv accepts it (in_shmem), the tag written
\* behind it is on the map, and an END_OF_PAGE message placed behind it passes
\* the checks of alloc_eop, send() and recv as well.
THEOREM PlacedMsgIsReadable ==
    ASSUME NEW used \in Nat, NEW total \in Nat, NEW len \in Nat,
           HasSpace(used, total, len)
    PROVE  LET padded   == PaddedLen(used, len)
               map_size == total + PAGE_HEADER_LEN
               next     == NextMsgPtr(used, padded)
           IN  /\ MsgInPage(used, total)
               /\ InShmem(used, map_size, padded)
               /\ NextInMap(next, map_size, EOP_MSG_SIZE)
               /\ MsgInPage(next, total)
               /\ InShmem(next, map_size, SHMEM_INFO_LEN)
               /\ used + AllocLen(used, len) = next
<1> DEFINE padded == PaddedLen(used, len)
<1>1. padded \in Nat
  BY PaddedLenFacts
<1>2. used + MSG_HEADER_LEN + padded + 128 <= total
  BY <1>1, EopSize DEF HasSpace, AllocLen, MSG_HEADER_LEN
<1> HIDE DEF padded
<1>3. QED
  BY <1>1, <1>2, EopSize
     DEF padded, MsgInPage, InShmem, NextInMap, NextMsgPtr, AllocLen,
         PAGE_HEADER_LEN, MSG_HEADER_LEN, SHMEM_INFO_LEN

\* A page that next_shmem_size sizes has room for its header, an END_OF_PAGE
\* message and two messages as large as the largest one so far.
THEOREM NextPageHoldsTwo ==
    ASSUME NEW max_alloc \in Nat,
           2 * max_alloc + EOP_MSG_SIZE + PAGE_HEADER_LEN <= MaxMapSize,
           INITIAL_MAP_SIZE <= MaxMapSize
    PROVE  /\ next_shmem_size(max_alloc) \in Nat
           /\ next_shmem_size(max_alloc) >=
                  2 * max_alloc + EOP_MSG_SIZE + PAGE_HEADER_LEN
<1> DEFINE n == larger(max_alloc * 2 + EOP_MSG_SIZE + PAGE_HEADER_LEN, INITIAL_MAP_SIZE - 1)
<1>1. /\ n \in 0..MaxMapSize
      /\ n >= 2 * max_alloc + EOP_MSG_SIZE + PAGE_HEADER_LEN
  BY EopSize, InitialSizeAssumption DEF larger, PAGE_HEADER_LEN
<1>2. next_power_of_two(n) \in Nat /\ next_power_of_two(n) >= n
  BY <1>1, PowerOfTwoAssumption
<1> HIDE DEF n
<1>3. next_shmem_size(max_alloc) = next_power_of_two(n)
  BY DEF next_shmem_size, n
<1>4. QED
  BY <1>1, <1>2, <1>3, EopSize, InitialSizeAssumption DEF PAGE_HEADER_LEN

-----------------------------------------------------------------------------
(***************************************************************************)
(* The invariants of the channel.                                          *)
(***************************************************************************)

\* Every END_OF_PAGE message leads to a page.
EopLeads ==
    \A p \in Pages : \A o \in DOMAIN mem[p] :
        mem[p][o].tag = "END_OF_PAGE" => mem[p][o].next \in Pages

\* The maps that exist have room for an END_OF_PAGE message, and next_shmem_size
\* of what was allocated on them does not overflow.
SizesOK ==
    \A p \in Pages :
        /\ 2 * page[p].max_alloc_size + EOP_MSG_SIZE + PAGE_HEADER_LEN <= MaxMapSize
        /\ p <= maps => page[p].size_total >= EOP_MSG_SIZE

\* The sender owns only maps that were created.
OwnedExist ==
    /\ \A i \in 1..Len(out_shmems) : out_shmems[i] <= maps
    /\ \A i \in 1..Len(unused_shmem_cache) : unused_shmem_cache[i] <= maps

\* The page that handle_out_eop started is empty until END_OF_PAGE is sent.
NewMapOK ==
    IF pc = "eop"
    THEN /\ call.new_map \in 1..maps
         /\ page[call.new_map].magic = "INITIALIZED"
         /\ page[call.new_map].size_used = 0
         /\ 0 \in DOMAIN mem[call.new_map]
         /\ mem[call.new_map][0].tag = "UNSET"
    ELSE call.new_map = NoPage

\* Where messages lie on the current page: last_msg_sent, then at most one
\* allocated message, then an UNSET tag at size_used.
PlacedOK ==
    /\ last_msg_sent # Null => last_msg_sent \in DOMAIN mem[LastPage]
    /\ pc # "alloced" => page[LastPage].size_used = EopPtr
    /\ pc = "alloced" => /\ call.msg \in DOMAIN mem[LastPage]
                         /\ call.msg = EopPtr
                         /\ page[LastPage].size_used = NextOf(LastPage, call.msg)
    /\ page[LastPage].size_used \in DOMAIN mem[LastPage]
    /\ mem[LastPage][page[LastPage].size_used].tag = "UNSET"

\* Between prune_old_pages and the new page, one place in out_shmems is free.
PendingOK ==
    ~KeepPagesForever =>
        /\ Len(out_shmems) <= MAX_PENDING_UNREAD_PAGES + 1
        /\ pc \in {"map", "eop"} => Len(out_shmems) <= MAX_PENDING_UNREAD_PAGES

\* A receiver that is about to look at a page has one.
RxOK ==
    \A r \in Receivers :
        /\ rx[r].pc \in {"recv", "read", "mark"} => rx[r].page \in Pages
        /\ rx[r].pc = "read" => rx[r].msg # Null
        /\ rx[r].pc = "map" => rx[r].next \in Pages

IndInv ==
    /\ TypeOK
    /\ EopLeads
    /\ SizesOK
    /\ PagesOwnedOnce
    /\ OwnedExist
    /\ NewMapOK
    /\ PlacedOK
    /\ EopFits
    /\ PendingOK
    /\ RxOK

-----------------------------------------------------------------------------
(* Facts about the operators.                                              *)

\* The current page exists and its fields are typed.
LEMMA CurrentPage ==
    ASSUME TypeOK
    PROVE  /\ LastPage \in Pages
           /\ page[LastPage] \in PageHeader
           /\ page[LastPage].size_used \in Nat
           /\ page[LastPage].size_total \in Nat
           /\ page[LastPage].max_alloc_size \in Nat
           /\ page[LastPage].current_msg_id \in Nat
<1>1. LastPage \in Pages
  BY DEF TypeOK, LastPage
<1>2. page[LastPage] \in PageHeader
  BY <1>1 DEF TypeOK
<1>3. QED
  BY <1>1, <1>2 DEF PageHeader

\* The sender's pages and its cache are pages, and no page is NoPage.
LEMMA OwnedPages ==
    ASSUME TypeOK
    PROVE  /\ \A i \in 1..Len(out_shmems) : out_shmems[i] \in Pages
           /\ \A i \in 1..Len(unused_shmem_cache) : unused_shmem_cache[i] \in Pages
           /\ NoPage \notin Pages
           /\ Len(out_shmems) \in Nat \ {0} /\ Len(unused_shmem_cache) \in Nat
<1>1. NoPage \notin Pages
  BY DEF NoPage, Pages
<1>2. QED
  BY <1>1 DEF TypeOK

\* Memory m becomes n by writing a header at msg and an UNSET tag at next: what
\* lies before msg stays, and nothing is new but these two.
Placed(m, msg, header, n, next) ==
    /\ MsgsTyped(n)
    /\ next \in Nat /\ next > msg
    /\ msg \in DOMAIN n /\ n[msg] = header
    /\ next \in DOMAIN n /\ n[next].tag = "UNSET"
    /\ \A o \in DOMAIN m : o < msg => o \in DOMAIN n /\ n[o] = m[o]
    /\ \A o \in DOMAIN n \ {msg, next} : o \in DOMAIN m /\ n[o] = m[o]

\* PlaceMsg does this, and keeps every message typed.
LEMMA PlaceMsgFacts ==
    ASSUME NEW m, MsgsTyped(m), NEW msg \in Nat, NEW header \in Msg
    PROVE  Placed(m, msg, header, PlaceMsg(m, msg, header),
                  NextMsgPtr(msg, header.buf_len_padded))
<1> DEFINE next == NextMsgPtr(msg, header.buf_len_padded)
           behind == [HeaderAt(m, next) EXCEPT !.tag = "UNSET"]
           n == PlaceMsg(m, msg, header)
<1>1. next \in Nat /\ next > msg
  BY DEF NextMsgPtr, Msg, MSG_HEADER_LEN
<1> HIDE DEF next
<1>2. BlankMsg \in Msg
  BY DEF BlankMsg, Msg, Tags, CallTags, Pages
<1>3. HeaderAt(m, next) \in Msg
  BY <1>2 DEF HeaderAt, MsgsTyped
<1>4. behind \in Msg /\ behind.tag = "UNSET"
  BY <1>3 DEF Msg, Tags
<1> HIDE DEF behind
<1>5. n = [o \in {x \in DOMAIN m : x <= msg \/ x >= next} \cup {msg, next} |->
             IF o = msg THEN header ELSE IF o = next THEN behind ELSE m[o]]
  BY DEF PlaceMsg, behind, next
<1> HIDE DEF n
<1>6. MsgsTyped(n)
  BY <1>1, <1>4, <1>5 DEF MsgsTyped
<1>7. DOMAIN m \subseteq Nat
  BY DEF MsgsTyped
<1>8. Placed(m, msg, header, n, next)
  BY <1>1, <1>4, <1>5, <1>6, <1>7 DEF Placed
<1>9. QED
  BY <1>8 DEF n, next

\* Initialising a page keeps its messages typed and leaves an UNSET tag first.
LEMMA InitMemFacts ==
    ASSUME NEW m, MsgsTyped(m)
    PROVE  /\ MsgsTyped(InitMem(m))
           /\ DOMAIN InitMem(m) = DOMAIN m \cup {0}
           /\ InitMem(m)[0].tag = "UNSET"
           /\ \A o \in DOMAIN m \ {0} : InitMem(m)[o] = m[o]
<1> DEFINE first == [HeaderAt(m, 0) EXCEPT !.tag = "UNSET", !.message_id = 0]
<1>1. HeaderAt(m, 0) \in Msg
  BY DEF HeaderAt, BlankMsg, Msg, Tags, CallTags, Pages, MsgsTyped
<1>2. first \in Msg /\ first.tag = "UNSET"
  BY <1>1 DEF Msg, Tags
<1> HIDE DEF first
<1>3. InitMem(m) = [o \in DOMAIN m \cup {0} |-> IF o = 0 THEN first ELSE m[o]]
  BY DEF InitMem, first
<1>4. QED
  BY <1>2, <1>3 DEF MsgsTyped

\* Marking a page changes the flag and nothing else.
LEMMA MarkPage ==
    ASSUME page \in [Pages -> PageHeader], NEW q \in Pages, NEW b \in BOOLEAN,
           page' = [page EXCEPT ![q].safe_to_unmap = b]
    PROVE  /\ page' \in [Pages -> PageHeader]
           /\ \A p \in Pages : /\ page'[p].magic = page[p].magic
                               /\ page'[p].size_total = page[p].size_total
                               /\ page'[p].size_used = page[p].size_used
                               /\ page'[p].max_alloc_size = page[p].max_alloc_size
<1> DEFINE marked == [page[q] EXCEPT !.safe_to_unmap = b]
<1>1. page[q] \in PageHeader
  OBVIOUS
<1>2. /\ marked \in PageHeader
      /\ marked.magic = page[q].magic /\ marked.size_total = page[q].size_total
      /\ marked.size_used = page[q].size_used
      /\ marked.max_alloc_size = page[q].max_alloc_size
  BY <1>1 DEF PageHeader
<1>3. page' = [page EXCEPT ![q] = marked]
  OBVIOUS
<1> HIDE DEF marked
<1>4. page'[q] = marked /\ \A p \in Pages \ {q} : page'[p] = page[p]
  BY <1>3
<1>5. page' \in [Pages -> PageHeader]
  BY <1>2, <1>3
<1>6. QED
  BY <1>2, <1>4, <1>5

\* prune_old_pages never takes the current page.
LEMMA PrunableFacts ==
    ASSUME TypeOK
    PROVE  /\ Prunable \in Nat
           /\ Prunable <= Len(out_shmems) - 1
<1> DEFINE S == {n \in 1..(Len(out_shmems) - 1) :
                    \A i \in 1..n : page[out_shmems[i]].safe_to_unmap}
           T == 1..(Len(out_shmems) - 1)
<1>1. Len(out_shmems) \in Nat /\ Len(out_shmems) > 0
  BY DEF TypeOK
<1>2. IsFiniteSet(T) /\ Cardinality(T) = Len(out_shmems) - 1
  <2>1. ASSUME NEW n \in Nat PROVE IsFiniteSet(1..n) /\ Cardinality(1..n) = n
    BY FS_Interval
  <2>2. Len(out_shmems) - 1 \in Nat
    BY <1>1
  <2>3. QED
    BY <2>1, <2>2
<1>3. S \in SUBSET T
  OBVIOUS
<1> HIDE DEF T
<1>4. IsFiniteSet(S) /\ Cardinality(S) <= Cardinality(T)
  BY <1>2, <1>3, FS_Subset
<1>5. Cardinality(S) \in Nat
  BY <1>4, FS_CardinalityType
<1>6. Prunable = Cardinality(S)
  BY DEF Prunable
<1>7. QED
  BY <1>2, <1>4, <1>5, <1>6

-----------------------------------------------------------------------------
(* The inductive invariant.                                                *)

\* The state in which LlmpSender::new leaves the first page satisfies IndInv.
LEMMA InitInv == Init => IndInv
<1> SUFFICES ASSUME Init PROVE IndInv
  OBVIOUS
<1>1. 1 \in Pages /\ LastPage = 1 /\ Len(out_shmems) = 1 /\ out_shmems[1] = 1
  BY ChannelAssumption DEF Init, LastPage, Pages
<1>2. /\ page[1] = InitHeader(INITIAL_MAP_SIZE)
      /\ \A p \in Pages : p # 1 => page[p] = UnmappedPage /\ mem[p] = <<>>
      /\ mem[1] = InitMem(<<>>)
  BY <1>1 DEF Init
<1>3. DOMAIN <<>> = {} /\ MsgsTyped(<<>>)
  BY DEF MsgsTyped
<1>4. MsgsTyped(mem[1]) /\ DOMAIN mem[1] = {0} /\ mem[1][0].tag = "UNSET"
  <2>1. mem[1] = InitMem(<<>>)
    BY <1>2
  <2>2. /\ MsgsTyped(InitMem(<<>>)) /\ DOMAIN InitMem(<<>>) = DOMAIN <<>> \cup {0}
        /\ InitMem(<<>>)[0].tag = "UNSET"
    BY <1>3, InitMemFacts
  <2>3. QED
    BY <1>3, <2>1, <2>2
<1>4a. InitHeader(INITIAL_MAP_SIZE) \in PageHeader /\ UnmappedPage \in PageHeader
  BY InitialSizeAssumption, EopSize DEF InitHeader, UnmappedPage, PageHeader, PAGE_HEADER_LEN
<1>5. page \in [Pages -> PageHeader]
  BY <1>4a DEF Init
<1>6. /\ DOMAIN mem = Pages
      /\ \A p \in Pages : /\ MsgsTyped(mem[p])
                          /\ \A o \in DOMAIN mem[p] : mem[p][o].tag = "UNSET"
  <2>1. DOMAIN mem = Pages
    BY DEF Init
  <2>2. QED
    BY <1>2, <1>3, <1>4, <2>1
<1>7. TypeOK
  <2>1. call \in CallState
    BY ChannelAssumption DEF Init, NoCall, CallState, CallTags
  <2>2. rx \in [Receivers -> RxState]
    BY DEF Init, RxState
  <2>3. out_shmems \in Seq(Pages) /\ unused_shmem_cache \in Seq(Pages)
    BY <1>1 DEF Init
  <2>4. /\ last_msg_sent = Null /\ has_unsent_message = FALSE /\ pc = "idle"
        /\ ncalls = 0 /\ nsent = 0 /\ recycled = {} /\ maps = 1
    BY DEF Init
  <2>6. ncalls \in 0..MaxCalls /\ nsent \in Nat /\ maps \in Pages /\ Len(out_shmems) > 0
    BY <1>1, <2>4, ChannelAssumption
  <2>7. has_unsent_message \in BOOLEAN /\ recycled \subseteq Receivers
    BY <2>4
  <2>8. QED
    BY <1>5, <1>6, <2>1, <2>2, <2>3, <2>4, <2>6, <2>7 DEF TypeOK
<1>8. EopLeads
  BY <1>6 DEF EopLeads
<1>9. SizesOK
  BY <1>2, EopSize, SizeAssumption, ChannelAssumption, InitialSizeAssumption
     DEF Init, SizesOK, InitHeader, UnmappedPage, PAGE_HEADER_LEN, MSG_HEADER_LEN,
         LLMP_CFG_ALIGNNMENT, Pages
<1>10. PagesOwnedOnce /\ OwnedExist
  <2>1. Len(unused_shmem_cache) = 0 /\ maps = 1 /\ call.new_map = 0
    BY DEF Init, NoCall, NoPage
  <2>2. page[1].magic = "INITIALIZED"
    BY <1>2 DEF InitHeader
  <2>3. QED
    BY <1>1, <2>1, <2>2 DEF PagesOwnedOnce, OwnedExist
<1>11. NewMapOK /\ PendingOK /\ RxOK
  BY <1>1 DEF Init, NewMapOK, PendingOK, RxOK, NoCall, MAX_PENDING_UNREAD_PAGES
<1>12. PlacedOK
  BY <1>1, <1>2, <1>4 DEF Init, PlacedOK, EopPtr, InitHeader
<1>13. EopFits
  BY <1>1, <1>2, EopSize, InitialSizeAssumption DEF EopFits, InitHeader, PAGE_HEADER_LEN
<1>14. QED
  BY <1>7, <1>8, <1>9, <1>10, <1>11, <1>12, <1>13 DEF IndInv

\* Steps that only move between the stages of a call: pages, messages and
\* receivers stay, the cache stays or is dropped.
LEMMA ControlStep ==
    ASSUME IndInv,
           UNCHANGED <<page, mem, maps, out_shmems, last_msg_sent, has_unsent_message,
                       nsent, rx, recycled>>,
           unused_shmem_cache' = unused_shmem_cache \/ unused_shmem_cache' = <<>>,
           pc # "alloced", pc' \in {"idle", "alloc", "prune", "panicked"},
           call' \in CallState, call'.new_map = NoPage,
           ncalls' \in 0..MaxCalls
    PROVE  IndInv'
<1> USE DEF IndInv
<1>1. TypeOK'
  <2>1. unused_shmem_cache \in Seq(Pages) /\ <<>> \in Seq(Pages)
    BY DEF TypeOK
  <2>2. unused_shmem_cache' \in Seq(Pages)
    BY <2>1
  <2>3. QED
    BY <2>2 DEF TypeOK
<1>2. LastPage' = LastPage /\ EopPtr' = EopPtr
  BY DEF LastPage, EopPtr, NextOf
<1>3. EopLeads' /\ SizesOK' /\ RxOK'
  BY DEF EopLeads, SizesOK, RxOK
<1>4. PagesOwnedOnce'
  <2>1. \A i \in 1..Len(out_shmems) : out_shmems[i] # NoPage
    BY OwnedPages
  <2>2. \A i \in 1..Len(unused_shmem_cache') :
            i \in 1..Len(unused_shmem_cache) /\ unused_shmem_cache'[i] = unused_shmem_cache[i]
    OBVIOUS
  <2>3. PagesOwnedOnce
    OBVIOUS
  <2> HIDE DEF IndInv
  <2>4. QED
    BY <2>1, <2>2, <2>3 DEF PagesOwnedOnce
<1>5. OwnedExist'
  BY DEF OwnedExist
<1>6. NewMapOK' /\ PendingOK'
  BY DEF NewMapOK, PendingOK
<1>7. PlacedOK' /\ EopFits'
  BY <1>2 DEF PlacedOK, EopFits
<1>8. QED
  BY <1>1, <1>3, <1>4, <1>5, <1>6, <1>7

\* A receiver changes nothing but its own state and the safe_to_unmap flags.
LEMMA ReceiverStep ==
    ASSUME IndInv,
           UNCHANGED <<mem, maps, txvars, pc, recycled>>,
           page' \in [Pages -> PageHeader],
           \A p \in Pages : /\ page'[p].magic = page[p].magic
                            /\ page'[p].size_total = page[p].size_total
                            /\ page'[p].size_used = page[p].size_used
                            /\ page'[p].max_alloc_size = page[p].max_alloc_size,
           rx' \in [Receivers -> RxState], RxOK'
    PROVE  IndInv'
<1> USE DEF IndInv
<1>1. TypeOK'
  BY DEF TypeOK, txvars
<1>2. LastPage' = LastPage /\ LastPage \in Pages /\ EopPtr' = EopPtr
  BY CurrentPage DEF LastPage, EopPtr, NextOf, txvars
<1>3. EopLeads' /\ SizesOK' /\ OwnedExist' /\ PendingOK'
  BY DEF EopLeads, SizesOK, OwnedExist, PendingOK, txvars
<1>4. PagesOwnedOnce'
  <2>1. /\ \A i \in 1..Len(out_shmems) : page'[out_shmems[i]].magic = page[out_shmems[i]].magic
        /\ \A i \in 1..Len(unused_shmem_cache) :
              page'[unused_shmem_cache[i]].magic = page[unused_shmem_cache[i]].magic
    BY OwnedPages
  <2>2. UNCHANGED <<out_shmems, unused_shmem_cache, call>>
    BY DEF txvars
  <2>3. PagesOwnedOnce
    OBVIOUS
  <2> HIDE DEF IndInv
  <2>4. QED
    BY <2>1, <2>2, <2>3 DEF PagesOwnedOnce
<1>5. NewMapOK'
  <2>1. pc = "eop" => call.new_map \in Pages
    BY ChannelAssumption DEF NewMapOK, TypeOK, Pages
  <2>2. QED
    BY <2>1 DEF NewMapOK, txvars
<1>6. PlacedOK' /\ EopFits'
  BY <1>2 DEF PlacedOK, EopFits, NextOf, txvars
<1>7. QED
  BY <1>1, <1>3, <1>4, <1>5, <1>6

\* send_buf, send_exiting and alloc_next begin.
LEMMA AllocNextInv ==
    ASSUME IndInv, NEW tag \in CallTags, NEW len \in Lens, AllocNext(tag, len),
           ncalls' \in 0..MaxCalls
    PROVE  IndInv'
<1>1. call' \in CallState /\ call'.new_map = NoPage
  BY DEF AllocNext, NoCall, CallState
<1>2. QED
  BY <1>1, ControlStep DEF AllocNext

\* The steps that end a call with an error or move it on to handle_out_eop.
LEMMA AllocFailsInv ==
    ASSUME IndInv, AllocPanics \/ PageFull \/ StackOverflow \/ SlowReceiver \/ NewShmemFails
    PROVE  IndInv'
<1>1. call \in CallState /\ NoCall \in CallState /\ NoCall.new_map = NoPage
  BY ChannelAssumption DEF IndInv, TypeOK, NoCall, CallState, CallTags
<1>2. pc # "eop" => call.new_map = NoPage
  BY DEF IndInv, NewMapOK
<1>3. ncalls \in 0..MaxCalls
  BY DEF IndInv, TypeOK
<1>4. CASE AllocPanics
  BY <1>1, <1>2, <1>3, <1>4, ControlStep DEF AllocPanics, txvars
<1>5. CASE PageFull
  BY <1>1, <1>2, <1>3, <1>5, ControlStep DEF PageFull, ReturnErr
<1>6. CASE StackOverflow
  BY <1>1, <1>2, <1>3, <1>6, ControlStep DEF StackOverflow, txvars
<1>7. CASE SlowReceiver
  <2>1. call' \in CallState /\ call'.new_map = NoPage
    BY <1>1, <1>7 DEF SlowReceiver, NoCall, CallState, CallTags
  <2>2. QED
    BY <1>3, <1>7, <2>1, ControlStep DEF SlowReceiver
<1>8. CASE NewShmemFails
  BY <1>1, <1>2, <1>3, <1>8, ControlStep DEF NewShmemFails, ReturnErr
<1>9. QED
  BY <1>4, <1>5, <1>6, <1>7, <1>8

\* What alloc_next_if_space and shrink_alloced write to the current page keeps
\* all memory typed and every END_OF_PAGE leading somewhere.
LEMMA PlaceStep ==
    ASSUME TypeOK, EopLeads, NEW p \in Pages, NEW msg, NEW header, NEW next,
           header.tag = "END_OF_PAGE" => header.next \in Pages,
           Placed(mem[p], msg, header, mem'[p], next),
           \A q \in Pages \ {p} : mem'[q] = mem[q]
    PROVE  EopLeads' /\ \A q \in Pages : MsgsTyped(mem'[q])
<1>1. EopLeads'
  BY DEF EopLeads, Placed
<1>2. \A q \in Pages : MsgsTyped(mem'[q])
  BY DEF TypeOK, Placed
<1>3. QED
  BY <1>1, <1>2

\* alloc_next_if_space places a message that leaves room for END_OF_PAGE.
LEMMA AllocNextIfSpaceInv ==
    ASSUME IndInv, AllocNextIfSpace
    PROVE  IndInv'
<1> USE DEF IndInv
<1> DEFINE p   == LastPage
           msg == page[p].size_used
           id  == IF last_msg_sent = Null THEN 1 ELSE mem[p][last_msg_sent].message_id + 1
           padded == PaddedLen(msg, call.len)
           header == [BlankMsg EXCEPT !.tag = "UNINITIALIZED", !.message_id = id,
                                      !.buf_len_padded = padded]
           next == NextMsgPtr(msg, padded)
<1>1. /\ p \in Pages /\ page[p] \in PageHeader /\ msg \in Nat
      /\ page[p].size_total \in Nat /\ page[p].max_alloc_size \in Nat
  BY CurrentPage
<1>2. call.len \in Nat /\ call.len \in Lens
  BY ChannelAssumption DEF TypeOK, CallState
<1>3. padded \in Nat /\ padded < call.len + 64
  BY <1>1, <1>2, PaddedLenFacts DEF LLMP_CFG_ALIGNNMENT
<1>4. id \in Nat
  BY <1>1 DEF PlacedOK, TypeOK, MsgsTyped, Msg
<1>5. header \in Msg /\ header.tag = "UNINITIALIZED" /\ header.buf_len_padded = padded
  BY <1>3, <1>4 DEF BlankMsg, Msg, Tags
<1>6. MsgsTyped(mem[p])
  BY <1>1 DEF TypeOK
<1> HIDE DEF msg, id, padded, header
<1>7. /\ page' = [page EXCEPT ![p].size_used = next,
                              ![p].max_alloc_size = larger(@, MSG_HEADER_LEN + padded)]
      /\ mem' = [mem EXCEPT ![p] = PlaceMsg(@, msg, header)]
      /\ call' = [call EXCEPT !.msg = msg]
      /\ pc # "alloced" /\ pc # "eop" /\ pc' = "alloced"
      /\ has_unsent_message' = TRUE
      /\ UNCHANGED <<maps, out_shmems, unused_shmem_cache, last_msg_sent, nsent, ncalls,
                     rx, recycled>>
  <2>1. AllocLen(msg, call.len) = MSG_HEADER_LEN + padded
    BY DEF AllocLen, padded
  <2>2. msg + (MSG_HEADER_LEN + padded) = next
    BY <1>1, <1>3 DEF NextMsgPtr, MSG_HEADER_LEN, msg
  <2> HIDE DEF next
  <2>3. QED
    BY <2>1, <2>2 DEF AllocNextIfSpace, msg, id, padded, header
<1>8. next + EOP_MSG_SIZE <= page[p].size_total
  BY <1>1, <1>3 DEF AllocNextIfSpace, HasSpaceFor, HasSpace, AllocLen, NextMsgPtr,
                    MSG_HEADER_LEN, msg, padded
<1>9. p' = p
  BY <1>7 DEF LastPage
<1> HIDE DEF next, p
<1>10. Placed(mem[p], msg, header, mem'[p], next)
  <2>1. msg \in Nat /\ next = NextMsgPtr(msg, header.buf_len_padded)
    BY <1>1, <1>5 DEF msg, next
  <2>2. mem'[p] = PlaceMsg(mem[p], msg, header)
    BY <1>1, <1>7 DEF TypeOK
  <2>3. Placed(mem[p], msg, header, PlaceMsg(mem[p], msg, header),
               NextMsgPtr(msg, header.buf_len_padded))
    BY <1>5, <1>6, <2>1, PlaceMsgFacts
  <2>4. QED
    BY <2>1, <2>2, <2>3
<1>14. EopLeads' /\ \A q \in Pages : MsgsTyped(mem'[q])
  <2>1. \A q \in Pages \ {p} : mem'[q] = mem[q]
    BY <1>7 DEF TypeOK
  <2>2. QED
    BY <1>1, <1>5, <1>10, <2>1, PlaceStep
<1>11. \A q \in Pages \ {p} : page'[q] = page[q]
  BY <1>7 DEF TypeOK
<1>12. /\ page'[p].size_used = next
       /\ page'[p].max_alloc_size = larger(page[p].max_alloc_size, MSG_HEADER_LEN + padded)
       /\ page'[p].size_total = page[p].size_total
       /\ page'[p].magic = page[p].magic
       /\ page'[p] \in PageHeader
  <2>1. larger(page[p].max_alloc_size, MSG_HEADER_LEN + padded) \in Nat
    BY <1>1, <1>3 DEF larger, MSG_HEADER_LEN
  <2>2. QED
    BY <1>1, <1>7, <1>10, <2>1 DEF PageHeader, TypeOK, Placed
<1>13. TypeOK'
  <2>1. page' \in [Pages -> PageHeader]
    BY <1>7, <1>11, <1>12 DEF TypeOK
  <2>2. call' \in CallState
    BY <1>1, <1>7 DEF TypeOK, CallState, msg
  <2>3. DOMAIN mem' = Pages
    BY <1>7 DEF TypeOK
  <2>4. QED
    BY <1>7, <1>14, <2>1, <2>2, <2>3 DEF TypeOK
<1>15. SizesOK'
  <2>1. 2 * (MSG_HEADER_LEN + padded) + EOP_MSG_SIZE + PAGE_HEADER_LEN <= MaxMapSize
    BY <1>2, <1>3, EopSize, SizeAssumption, InitialSizeAssumption
       DEF MSG_HEADER_LEN, PAGE_HEADER_LEN, LLMP_CFG_ALIGNNMENT
  <2>2. 2 * page'[p].max_alloc_size + EOP_MSG_SIZE + PAGE_HEADER_LEN <= MaxMapSize
    BY <1>1, <1>12, <2>1 DEF larger, SizesOK
  <2>3. QED
    BY <1>7, <1>11, <1>12, <2>2 DEF SizesOK
<1>16. PagesOwnedOnce'
  <2>1. \A q \in Pages : page'[q].magic = page[q].magic
    BY <1>11, <1>12
  <2>2. call'.new_map = call.new_map
    BY <1>7 DEF TypeOK, CallState
  <2>3. QED
    <3>1. \A i \in 1..Len(out_shmems) : out_shmems[i] \in Pages
      BY OwnedPages
    <3>2. \A i \in 1..Len(unused_shmem_cache) : unused_shmem_cache[i] \in Pages
      BY OwnedPages
    <3>3. UNCHANGED <<out_shmems, unused_shmem_cache>>
      BY <1>7
    <3>4. QED
      BY <2>1, <2>2, <3>1, <3>2, <3>3 DEF PagesOwnedOnce
<1>17. OwnedExist' /\ PendingOK' /\ RxOK'
  BY <1>7 DEF OwnedExist, PendingOK, RxOK
<1>18. NewMapOK'
  BY <1>7 DEF NewMapOK, TypeOK, CallState
<1>19. PlacedOK'
  <2>1. last_msg_sent # Null => /\ last_msg_sent \in DOMAIN mem[p]
                                /\ msg = NextOf(p, last_msg_sent)
                                /\ last_msg_sent \in Nat
                                /\ mem[p][last_msg_sent].buf_len_padded \in Nat
    BY <1>6, <1>7 DEF PlacedOK, EopPtr, TypeOK, MsgsTyped, Msg, msg, p
  <2>2. last_msg_sent = Null => msg = 0
    BY <1>7 DEF PlacedOK, EopPtr, msg, p
  <2>3. last_msg_sent # Null => last_msg_sent < msg
    BY <2>1 DEF NextOf, NextMsgPtr, MSG_HEADER_LEN
  <2>4. last_msg_sent # Null => last_msg_sent \in DOMAIN mem'[p]
                                  /\ mem'[p][last_msg_sent] = mem[p][last_msg_sent]
    BY <1>10, <2>1, <2>3 DEF Placed
  <2>5. EopPtr' = msg
    BY <1>7, <1>9, <2>1, <2>2, <2>4 DEF EopPtr, NextOf, p
  <2>6. call'.msg = msg
    BY <1>7 DEF TypeOK, CallState
  <2>7. NextMsgPtr(msg, mem'[p][msg].buf_len_padded) = next
    BY <1>5, <1>10 DEF next, Placed
  <2>8. QED
    BY <1>7, <1>9, <1>10, <1>12, <2>4, <2>5, <2>6, <2>7 DEF PlacedOK, NextOf, Placed, p
<1>20. EopFits'
  BY <1>8, <1>9, <1>12 DEF EopFits, p
<1>21. QED
  BY <1>13, <1>14, <1>15, <1>16, <1>17, <1>18, <1>19, <1>20

\* Where the allocated message lies.
LEMMA AllocedMsg ==
    ASSUME IndInv, pc = "alloced"
    PROVE  /\ call.msg \in Nat /\ call.msg \in DOMAIN mem[LastPage]
           /\ mem[LastPage][call.msg] \in Msg
           /\ mem[LastPage][call.msg].buf_len_padded \in Nat
           /\ page[LastPage].size_used =
                 call.msg + MSG_HEADER_LEN + mem[LastPage][call.msg].buf_len_padded
           /\ last_msg_sent # Null => /\ last_msg_sent \in DOMAIN mem[LastPage]
                                      /\ last_msg_sent \in Nat /\ last_msg_sent < call.msg
                                      /\ call.msg = NextOf(LastPage, last_msg_sent)
           /\ last_msg_sent = Null => call.msg = 0
<1>1. LastPage \in Pages
  BY CurrentPage DEF IndInv
<1>2. MsgsTyped(mem[LastPage])
  BY <1>1 DEF IndInv, TypeOK
<1>3. call.msg \in DOMAIN mem[LastPage] /\ call.msg = EopPtr
  BY DEF IndInv, PlacedOK
<1>4. /\ call.msg \in Nat /\ mem[LastPage][call.msg] \in Msg
      /\ mem[LastPage][call.msg].buf_len_padded \in Nat
  BY <1>2, <1>3 DEF MsgsTyped, Msg
<1>5. page[LastPage].size_used =
          call.msg + MSG_HEADER_LEN + mem[LastPage][call.msg].buf_len_padded
  BY DEF IndInv, PlacedOK, NextOf, NextMsgPtr
<1>6. ASSUME last_msg_sent # Null
      PROVE  /\ last_msg_sent \in DOMAIN mem[LastPage]
             /\ last_msg_sent \in Nat /\ last_msg_sent < call.msg
             /\ call.msg = NextOf(LastPage, last_msg_sent)
  <2>1. last_msg_sent \in DOMAIN mem[LastPage]
    BY <1>6 DEF IndInv, PlacedOK
  <2>2. last_msg_sent \in Nat /\ mem[LastPage][last_msg_sent].buf_len_padded \in Nat
    BY <1>2, <2>1 DEF MsgsTyped, Msg
  <2>3. call.msg = NextOf(LastPage, last_msg_sent)
    BY <1>3, <1>6 DEF EopPtr
  <2>4. QED
    BY <2>1, <2>2, <2>3 DEF NextOf, NextMsgPtr, MSG_HEADER_LEN
<1>7. last_msg_sent = Null => call.msg = 0
  BY <1>3 DEF EopPtr
<1>8. QED
  BY <1>3, <1>4, <1>5, <1>6, <1>7

\* What send and cancel_send have in common: they change the header of the
\* allocated message, keep its length, and leave the call.
LEMMA HeaderStep ==
    ASSUME IndInv, pc = "alloced", NEW header \in Msg,
           header.tag # "END_OF_PAGE",
           header.buf_len_padded = mem[LastPage][call.msg].buf_len_padded,
           mem' = [mem EXCEPT ![LastPage][call.msg] = header],
           UNCHANGED <<maps, out_shmems, unused_shmem_cache, ncalls, rx, recycled>>
    PROVE  /\ DOMAIN mem' = Pages
           /\ \A q \in Pages : MsgsTyped(mem'[q]) /\ DOMAIN mem'[q] = DOMAIN mem[q]
           /\ \A q \in Pages : \A o \in DOMAIN mem[q] :
                 mem'[q][o].buf_len_padded = mem[q][o].buf_len_padded
           /\ mem'[LastPage][call.msg] = header
           /\ \A o \in DOMAIN mem[LastPage] : o # call.msg =>
                 mem'[LastPage][o] = mem[LastPage][o]
           /\ EopLeads'
           /\ LastPage' = LastPage
<1> DEFINE p == LastPage
           msg == call.msg
<1>1. p \in Pages /\ LastPage' = p
  BY CurrentPage DEF IndInv, LastPage
<1>2. msg \in DOMAIN mem[p]
  BY AllocedMsg
<1>3. DOMAIN mem = Pages /\ \A q \in Pages : MsgsTyped(mem[q])
  BY DEF IndInv, TypeOK
<1> HIDE DEF p, msg
<1>4. mem' = [mem EXCEPT ![p][msg] = header]
  BY DEF p, msg
<1>5. /\ DOMAIN mem' = Pages
      /\ \A q \in Pages : DOMAIN mem'[q] = DOMAIN mem[q]
      /\ \A q \in Pages \ {p} : mem'[q] = mem[q]
      /\ mem'[p][msg] = header
      /\ \A o \in DOMAIN mem[p] : o # msg => mem'[p][o] = mem[p][o]
  BY <1>1, <1>2, <1>3, <1>4
<1>6. MsgsTyped(mem'[p])
  BY <1>1, <1>3, <1>5 DEF MsgsTyped
<1>7. \A q \in Pages : MsgsTyped(mem'[q])
  BY <1>3, <1>5, <1>6
<1>8. EopLeads'
  BY <1>1, <1>5 DEF IndInv, EopLeads
<1>9. \A q \in Pages : \A o \in DOMAIN mem[q] :
          mem'[q][o].buf_len_padded = mem[q][o].buf_len_padded
  BY <1>5 DEF p, msg
<1>10. QED
  BY <1>1, <1>5, <1>7, <1>8, <1>9 DEF p, msg

\* send() commits the allocated message.
LEMMA SendInv ==
    ASSUME IndInv, Send
    PROVE  IndInv'
<1> DEFINE p   == LastPage
           msg == call.msg
           id  == page[p].current_msg_id + 1
           val == IF call.tag = "EXITING" THEN 0 ELSE nsent + 1
           header == [mem[p][msg] EXCEPT !.tag = call.tag, !.val = val, !.message_id = id]
<1>1. pc = "alloced"
  BY DEF Send
<1>2. /\ p \in Pages /\ page[p] \in PageHeader /\ id \in Nat
      /\ page[p].size_used \in Nat /\ page[p].size_total \in Nat
  BY CurrentPage DEF IndInv
<1>3. val \in Nat /\ call \in CallState /\ call.tag \in CallTags
  BY DEF IndInv, TypeOK, CallState
<1>4. /\ msg \in Nat /\ msg \in DOMAIN mem[p] /\ mem[p][msg] \in Msg
      /\ mem[p][msg].buf_len_padded \in Nat
      /\ page[p].size_used = msg + MSG_HEADER_LEN + mem[p][msg].buf_len_padded
  BY <1>1, AllocedMsg
<1>5. /\ header \in Msg /\ header.tag = call.tag
      /\ header.buf_len_padded = mem[p][msg].buf_len_padded
  BY <1>2, <1>3, <1>4 DEF Msg, Tags
<1>6. header.tag # "END_OF_PAGE"
  BY <1>3, <1>5 DEF CallTags
<1> HIDE DEF val, id
<1>7. /\ mem' = [mem EXCEPT ![p][msg] = header]
      /\ page' = [page EXCEPT ![p].current_msg_id = id]
      /\ last_msg_sent' = msg
      /\ has_unsent_message' = FALSE
      /\ nsent' = IF call.tag = "EXITING" THEN nsent ELSE nsent + 1
      /\ pc' \in {"panicked", "exited", "idle"}
      /\ call' = IF call.tag = "DATA" THEN NoCall ELSE call
      /\ UNCHANGED <<maps, out_shmems, unused_shmem_cache, ncalls, rx, recycled>>
  BY DEF Send, val, id
<1> HIDE DEF header
<1>8. /\ DOMAIN mem' = Pages
      /\ \A q \in Pages : MsgsTyped(mem'[q]) /\ DOMAIN mem'[q] = DOMAIN mem[q]
      /\ \A q \in Pages : \A o \in DOMAIN mem[q] :
            mem'[q][o].buf_len_padded = mem[q][o].buf_len_padded
      /\ \A o \in DOMAIN mem[p] : o # msg => mem'[p][o] = mem[p][o]
      /\ EopLeads'
      /\ LastPage' = p
  BY <1>1, <1>5, <1>6, <1>7, HeaderStep
<1>9. /\ page' \in [Pages -> PageHeader]
      /\ \A q \in Pages : /\ page'[q].magic = page[q].magic
                          /\ page'[q].size_total = page[q].size_total
                          /\ page'[q].size_used = page[q].size_used
                          /\ page'[q].max_alloc_size = page[q].max_alloc_size
  BY <1>2, <1>7 DEF IndInv, TypeOK, PageHeader
<1>10. call' \in CallState /\ call'.new_map = NoPage
  BY <1>1, <1>3, <1>7, ChannelAssumption
     DEF IndInv, NewMapOK, NoCall, CallState, CallTags
<1>11. TypeOK'
  <2>1. nsent' \in Nat /\ last_msg_sent' \in Nat \cup {Null}
    BY <1>4, <1>7 DEF IndInv, TypeOK
  <2>2. has_unsent_message' \in BOOLEAN
    BY <1>7
  <2>3. QED
    BY <1>7, <1>8, <1>9, <1>10, <2>1, <2>2 DEF IndInv, TypeOK
<1>12. SizesOK' /\ OwnedExist' /\ PendingOK' /\ RxOK'
  BY <1>7, <1>9 DEF IndInv, SizesOK, OwnedExist, PendingOK, RxOK
<1>13. PagesOwnedOnce'
  BY <1>7, <1>9, <1>10, OwnedPages DEF IndInv, PagesOwnedOnce
<1>14. NewMapOK'
  BY <1>7, <1>10 DEF NewMapOK
<1>15. PlacedOK'
  <2>1. EopPtr' = page'[p].size_used
    BY <1>2, <1>4, <1>7, <1>8, <1>9 DEF EopPtr, NextOf, NextMsgPtr, Null
  <2>2. page'[p].size_used \in DOMAIN mem'[p] /\ mem'[p][page'[p].size_used].tag = "UNSET"
    BY <1>2, <1>4, <1>8, <1>9 DEF IndInv, PlacedOK, MSG_HEADER_LEN
  <2>3. QED
    BY <1>2, <1>4, <1>7, <1>8, <2>1, <2>2 DEF PlacedOK
<1>16. EopFits'
  BY <1>2, <1>8, <1>9 DEF IndInv, EopFits
<1>17. QED
  BY <1>8, <1>11, <1>12, <1>13, <1>14, <1>15, <1>16 DEF IndInv

\* cancel_send takes the allocated message back.
LEMMA CancelSendInv ==
    ASSUME IndInv, CancelSend
    PROVE  IndInv'
<1> DEFINE p   == LastPage
           msg == call.msg
           header == [mem[p][msg] EXCEPT !.tag = "UNSET"]
<1>1. pc = "alloced"
  BY DEF CancelSend
<1>2. /\ p \in Pages /\ page[p] \in PageHeader
      /\ page[p].size_used \in Nat /\ page[p].size_total \in Nat
  BY CurrentPage DEF IndInv
<1>3. /\ msg \in Nat /\ msg \in DOMAIN mem[p] /\ mem[p][msg] \in Msg
      /\ mem[p][msg].buf_len_padded \in Nat
      /\ page[p].size_used = msg + MSG_HEADER_LEN + mem[p][msg].buf_len_padded
  BY <1>1, AllocedMsg
<1>4. /\ last_msg_sent # Null => /\ last_msg_sent \in DOMAIN mem[p]
                                 /\ msg = NextOf(p, last_msg_sent)
      /\ last_msg_sent = Null => msg = 0
  BY <1>1, AllocedMsg
<1>5. /\ header \in Msg /\ header.tag = "UNSET"
      /\ header.buf_len_padded = mem[p][msg].buf_len_padded
  BY <1>3 DEF Msg, Tags
<1>6. page[p].size_used - (mem[p][msg].buf_len_padded + MSG_HEADER_LEN) = msg
  BY <1>2, <1>3 DEF MSG_HEADER_LEN
<1>7. /\ mem' = [mem EXCEPT ![p][msg] = header]
      /\ page' = [page EXCEPT ![p].size_used = msg]
      /\ pc' = "idle" /\ call' = NoCall
      /\ UNCHANGED <<maps, out_shmems, unused_shmem_cache, last_msg_sent,
                     has_unsent_message, nsent, ncalls, rx, recycled>>
  BY <1>6 DEF CancelSend, GivenBack
<1> HIDE DEF header
<1>8. /\ DOMAIN mem' = Pages
      /\ \A q \in Pages : MsgsTyped(mem'[q]) /\ DOMAIN mem'[q] = DOMAIN mem[q]
      /\ \A q \in Pages : \A o \in DOMAIN mem[q] :
            mem'[q][o].buf_len_padded = mem[q][o].buf_len_padded
      /\ mem'[p][msg] = header
      /\ EopLeads'
      /\ LastPage' = p
  BY <1>1, <1>5, <1>7, HeaderStep
<1>9. /\ page' \in [Pages -> PageHeader]
      /\ page'[p].size_used = msg
      /\ \A q \in Pages : /\ page'[q].magic = page[q].magic
                          /\ page'[q].size_total = page[q].size_total
                          /\ page'[q].max_alloc_size = page[q].max_alloc_size
  BY <1>2, <1>3, <1>7 DEF IndInv, TypeOK, PageHeader
<1>10. call' \in CallState /\ call'.new_map = NoPage
  BY <1>7, ChannelAssumption DEF NoCall, CallState, CallTags
<1>11. TypeOK'
  BY <1>7, <1>8, <1>9, <1>10 DEF IndInv, TypeOK
<1>12. SizesOK' /\ OwnedExist' /\ PendingOK' /\ RxOK'
  BY <1>7, <1>9 DEF IndInv, SizesOK, OwnedExist, PendingOK, RxOK
<1>13. PagesOwnedOnce'
  BY <1>7, <1>9, <1>10, OwnedPages DEF IndInv, PagesOwnedOnce
<1>14. NewMapOK'
  BY <1>7, <1>10 DEF NewMapOK
<1>15. PlacedOK'
  <2>1. EopPtr' = msg
    BY <1>2, <1>4, <1>7, <1>8 DEF EopPtr, NextOf
  <2>2. QED
    BY <1>2, <1>3, <1>4, <1>5, <1>7, <1>8, <1>9, <2>1 DEF PlacedOK
<1>16. EopFits'
  BY <1>2, <1>3, <1>8, <1>9, EopSize DEF IndInv, EopFits, MSG_HEADER_LEN
<1>17. QED
  BY <1>8, <1>11, <1>12, <1>13, <1>14, <1>15, <1>16 DEF IndInv

\* shrink_alloced moves the end of the allocated message, never past the old one.
LEMMA ShrinkAllocedInv ==
    ASSUME IndInv, NEW len \in Lens, ShrinkAlloced(len)
    PROVE  IndInv'
<1> DEFINE p   == LastPage
           msg == call.msg
           old == mem[p][msg].buf_len_padded
           new == PaddedLen(msg, len)
           header == [mem[p][msg] EXCEPT !.buf_len_padded = new]
           next == NextMsgPtr(msg, new)
<1>1. pc = "alloced" /\ new <= old
  BY DEF ShrinkAlloced
<1>2. /\ p \in Pages /\ page[p] \in PageHeader
      /\ page[p].size_used \in Nat /\ page[p].size_total \in Nat
  BY CurrentPage DEF IndInv
<1>3. /\ msg \in Nat /\ msg \in DOMAIN mem[p] /\ mem[p][msg] \in Msg /\ old \in Nat
      /\ page[p].size_used = msg + MSG_HEADER_LEN + old
  BY <1>1, AllocedMsg
<1>4. /\ last_msg_sent # Null => /\ last_msg_sent \in DOMAIN mem[p]
                                 /\ last_msg_sent < msg
                                 /\ msg = NextOf(p, last_msg_sent)
      /\ last_msg_sent = Null => msg = 0
  BY <1>1, AllocedMsg
<1>5. new \in Nat
  BY <1>3, PaddedLenFacts, ChannelAssumption
<1>6. /\ header \in Msg /\ header.buf_len_padded = new
      /\ header.tag = mem[p][msg].tag /\ header.next = mem[p][msg].next
  BY <1>3, <1>5 DEF Msg
<1>7. header.tag = "END_OF_PAGE" => header.next \in Pages
  BY <1>2, <1>3, <1>6 DEF IndInv, EopLeads
<1>8. page[p].size_used - old + new = next
  BY <1>2, <1>3, <1>5 DEF NextMsgPtr, MSG_HEADER_LEN
<1> HIDE DEF next
<1>9. /\ mem' = [mem EXCEPT ![p] = PlaceMsg(@, msg, header)]
      /\ page' = [page EXCEPT ![p].size_used = next]
      /\ UNCHANGED <<maps, txvars, pc, rx, recycled>>
  BY <1>8 DEF ShrinkAlloced
<1> HIDE DEF header
<1>10. Placed(mem[p], msg, header, mem'[p], next)
  <2>1. next = NextMsgPtr(msg, header.buf_len_padded)
    BY <1>6 DEF next
  <2>2. mem'[p] = PlaceMsg(mem[p], msg, header) /\ MsgsTyped(mem[p])
    BY <1>2, <1>9 DEF IndInv, TypeOK
  <2>3. Placed(mem[p], msg, header, PlaceMsg(mem[p], msg, header),
               NextMsgPtr(msg, header.buf_len_padded))
    BY <1>3, <1>6, <2>2, PlaceMsgFacts
  <2>4. QED
    BY <2>1, <2>2, <2>3
<1>11. EopLeads' /\ \A q \in Pages : MsgsTyped(mem'[q])
  <2>1. \A q \in Pages \ {p} : mem'[q] = mem[q]
    BY <1>9 DEF IndInv, TypeOK
  <2>2. QED
    BY <1>2, <1>7, <1>10, <2>1, PlaceStep DEF IndInv
<1>12. /\ page' \in [Pages -> PageHeader]
       /\ page'[p].size_used = next
       /\ \A q \in Pages : /\ page'[q].magic = page[q].magic
                           /\ page'[q].size_total = page[q].size_total
                           /\ page'[q].max_alloc_size = page[q].max_alloc_size
  BY <1>2, <1>9, <1>10 DEF IndInv, TypeOK, PageHeader, Placed
<1>13. TypeOK'
  <2>1. DOMAIN mem' = Pages
    BY <1>9 DEF IndInv, TypeOK
  <2>2. QED
    BY <1>9, <1>11, <1>12, <2>1 DEF IndInv, TypeOK, txvars
<1>14. SizesOK' /\ OwnedExist' /\ PendingOK' /\ RxOK'
  BY <1>9, <1>12 DEF IndInv, SizesOK, OwnedExist, PendingOK, RxOK, txvars
<1>15. PagesOwnedOnce' /\ NewMapOK'
  BY <1>1, <1>9, <1>12, OwnedPages DEF IndInv, PagesOwnedOnce, NewMapOK, txvars
<1>16. LastPage' = p
  BY <1>9 DEF LastPage, txvars
<1>17. PlacedOK'
  <2>1. last_msg_sent # Null => last_msg_sent \in DOMAIN mem'[p]
                                  /\ mem'[p][last_msg_sent] = mem[p][last_msg_sent]
    BY <1>4, <1>10 DEF Placed
  <2>2. EopPtr' = msg
    BY <1>4, <1>9, <1>16, <2>1 DEF EopPtr, NextOf, txvars
  <2>3. NextMsgPtr(msg, mem'[p][msg].buf_len_padded) = next
    BY <1>6, <1>10 DEF Placed, next
  <2>4. QED
    BY <1>1, <1>9, <1>10, <1>12, <1>16, <2>1, <2>2, <2>3 DEF PlacedOK, NextOf, Placed, txvars
<1>18. EopFits'
  <2>1. next <= page[p].size_used
    BY <1>1, <1>3, <1>5 DEF next, NextMsgPtr, MSG_HEADER_LEN
  <2>2. QED
    BY <1>2, <1>10, <1>12, <1>16, <2>1, EopSize DEF IndInv, EopFits, Placed
<1>19. QED
  BY <1>11, <1>13, <1>14, <1>15, <1>17, <1>18 DEF IndInv

\* A restarted client keeps its current page and forgets all others.
LEMMA ReattachInv ==
    ASSUME IndInv, Reattach
    PROVE  IndInv'
<1>1. /\ pc = "idle" /\ out_shmems' = <<LastPage>> /\ unused_shmem_cache' = <<>>
      /\ UNCHANGED <<page, mem, maps, last_msg_sent, pc, call, nsent, ncalls, rx, recycled>>
      /\ has_unsent_message' = FALSE
  BY DEF Reattach
<1>2. LastPage \in Pages
  BY CurrentPage DEF IndInv
<1>3. /\ Len(out_shmems') = 1 /\ out_shmems'[1] = LastPage /\ Len(unused_shmem_cache') = 0
      /\ out_shmems' \in Seq(Pages) /\ unused_shmem_cache' \in Seq(Pages)
      /\ LastPage' = LastPage
  BY <1>1, <1>2 DEF LastPage
<1>4. TypeOK'
  <2>1. has_unsent_message' \in BOOLEAN
    BY <1>1
  <2>2. QED
    BY <1>1, <1>3, <2>1 DEF IndInv, TypeOK
<1>5. EopLeads' /\ SizesOK' /\ NewMapOK' /\ RxOK'
  BY <1>1 DEF IndInv, EopLeads, SizesOK, NewMapOK, RxOK
<1>6. \E i \in 1..Len(out_shmems) : out_shmems[i] = LastPage
  BY OwnedPages DEF IndInv, LastPage
<1>7. PagesOwnedOnce' /\ OwnedExist'
  BY <1>1, <1>3, <1>6 DEF IndInv, PagesOwnedOnce, OwnedExist
<1>8. PendingOK'
  BY <1>3 DEF PendingOK, MAX_PENDING_UNREAD_PAGES
<1>9. EopPtr' = EopPtr
  BY <1>1, <1>3 DEF EopPtr, NextOf
<1>10. PlacedOK' /\ EopFits'
  BY <1>1, <1>3, <1>9 DEF IndInv, PlacedOK, EopFits
<1>11. QED
  BY <1>4, <1>5, <1>7, <1>8, <1>10 DEF IndInv

\* prune_old_pages moves a proper prefix of out_shmems to the cache.
LEMMA PruneOldPagesInv ==
    ASSUME IndInv, PruneOldPages
    PROVE  IndInv'
<1> DEFINE n == IF KeepPagesForever THEN 0 ELSE Prunable
           len == Len(out_shmems)
           pruned == SubSeq(out_shmems, 1, n)
           kept == SubSeq(out_shmems, n + 1, len)
<1>1. n \in Nat /\ n <= len - 1 /\ len \in Nat
  BY PrunableFacts, OwnedPages DEF IndInv
<1> HIDE DEF n
<1>2. /\ pc = "prune" /\ pc' = "map"
      /\ KeepPagesForever \/ ~ReceiverTooSlow
      /\ page' = [p \in Pages |->
                     IF \E i \in 1..n : out_shmems[i] = p
                     THEN [page[p] EXCEPT !.magic = "DEINITIALIZED"] ELSE page[p]]
      /\ out_shmems' = kept
      /\ unused_shmem_cache' = unused_shmem_cache \o pruned
      /\ UNCHANGED <<mem, maps, last_msg_sent, has_unsent_message, call, nsent, ncalls,
                     rx, recycled>>
  BY DEF PruneOldPages, n
<1>3. \A i \in 1..len : out_shmems[i] \in Pages
  BY OwnedPages DEF IndInv
<1>4. /\ pruned \in Seq(Pages) /\ Len(pruned) = n
      /\ \A i \in 1..n : pruned[i] = out_shmems[i]
  BY <1>1, <1>3, SubSeqProperties
<1>5. /\ kept \in Seq(Pages) /\ Len(kept) = len - n
      /\ \A i \in 1..(len - n) : kept[i] = out_shmems[n + i]
  <2>1. \A i \in (n + 1)..len : out_shmems[i] \in Pages
    BY <1>1, <1>3
  <2>2. /\ kept \in Seq(Pages)
        /\ Len(kept) = IF n + 1 <= len THEN len - (n + 1) + 1 ELSE 0
        /\ \A i \in 1..(len - (n + 1) + 1) : kept[i] = out_shmems[(n + 1) + i - 1]
    BY <1>1, <2>1, SubSeqProperties
  <2>3. QED
    BY <1>1, <2>2
<1> HIDE DEF pruned, kept
<1> DEFINE c == Len(unused_shmem_cache)
<1>6. /\ unused_shmem_cache' \in Seq(Pages)
      /\ c \in Nat /\ Len(unused_shmem_cache') = c + n
      /\ \A i \in 1..(c + n) : unused_shmem_cache'[i] =
             IF i <= c THEN unused_shmem_cache[i] ELSE out_shmems[i - c]
  <2>1. unused_shmem_cache \in Seq(Pages) /\ c \in Nat
    BY DEF IndInv, TypeOK
  <2>2. /\ unused_shmem_cache' \in Seq(Pages)
        /\ Len(unused_shmem_cache') = c + Len(pruned)
        /\ \A i \in 1..(c + Len(pruned)) : unused_shmem_cache'[i] =
               IF i <= c THEN unused_shmem_cache[i] ELSE pruned[i - c]
    BY <1>2, <1>4, <2>1, ConcatProperties
  <2>3. \A i \in 1..(c + n) : ~(i <= c) => i - c \in 1..n
    BY <1>1, <2>1
  <2>4. QED
    BY <1>4, <2>1, <2>2, <2>3
<1>7. /\ page' \in [Pages -> PageHeader]
      /\ \A p \in Pages : /\ page'[p].size_total = page[p].size_total
                          /\ page'[p].size_used = page[p].size_used
                          /\ page'[p].max_alloc_size = page[p].max_alloc_size
      /\ \A p \in Pages : (\E i \in 1..n : out_shmems[i] = p)
                              => page'[p].magic = "DEINITIALIZED"
      /\ \A p \in Pages : ~(\E i \in 1..n : out_shmems[i] = p)
                              => page'[p].magic = page[p].magic
  <2> DEFINE deinit(p) == [page[p] EXCEPT !.magic = "DEINITIALIZED"]
  <2>1. ASSUME NEW p \in Pages
        PROVE  /\ page[p] \in PageHeader /\ deinit(p) \in PageHeader
               /\ deinit(p).magic = "DEINITIALIZED"
               /\ deinit(p).size_total = page[p].size_total
               /\ deinit(p).size_used = page[p].size_used
               /\ deinit(p).max_alloc_size = page[p].max_alloc_size
    BY DEF IndInv, TypeOK, PageHeader
  <2>2. \A p \in Pages : page'[p] = IF \E i \in 1..n : out_shmems[i] = p
                                    THEN deinit(p) ELSE page[p]
    BY <1>2
  <2>3. page' = [p \in Pages |-> page'[p]]
    BY <1>2
  <2> HIDE DEF deinit
  <2>4. QED
    BY <2>1, <2>2, <2>3
<1>8. LastPage' = LastPage /\ LastPage \in Pages /\ EopPtr' = EopPtr
  <2>1. LastPage' = LastPage
    BY <1>1, <1>2, <1>5 DEF LastPage
  <2>2. QED
    BY <1>2, <2>1, CurrentPage DEF IndInv, EopPtr, NextOf
<1>9. TypeOK'
  <2>1. out_shmems' \in Seq(Pages) /\ Len(out_shmems') > 0
    BY <1>1, <1>2, <1>5
  <2>2. QED
    BY <1>2, <1>6, <1>7, <2>1 DEF IndInv, TypeOK
<1>10. EopLeads' /\ SizesOK' /\ RxOK' /\ NewMapOK'
  BY <1>2, <1>7 DEF IndInv, EopLeads, SizesOK, RxOK, NewMapOK
<1>11. \A i \in 1..Len(out_shmems') : n + i \in 1..len /\ out_shmems'[i] = out_shmems[n + i]
  BY <1>1, <1>2, <1>5
<1>12. \A i \in 1..Len(unused_shmem_cache') :
          \/ i \in 1..c /\ unused_shmem_cache'[i] = unused_shmem_cache[i]
          \/ /\ i - c \in 1..n /\ i - c \in 1..len /\ i \in Int
             /\ unused_shmem_cache'[i] = out_shmems[i - c]
  BY <1>1, <1>6
<1> HIDE DEF len, c
<1>13. OwnedExist'
  BY <1>2, <1>11, <1>12 DEF IndInv, OwnedExist, len, c
<1>14. PagesOwnedOnce'
  <2>1. /\ \A i, j \in 1..len : out_shmems[i] = out_shmems[j] => i = j
        /\ \A i, j \in 1..c : unused_shmem_cache[i] = unused_shmem_cache[j] => i = j
        /\ \A i \in 1..len : page[out_shmems[i]].magic = "INITIALIZED"
                              /\ out_shmems[i] # call.new_map
        /\ \A i \in 1..c : page[unused_shmem_cache[i]].magic = "DEINITIALIZED"
        /\ \A i \in 1..c : unused_shmem_cache[i] \in Pages
    BY OwnedPages DEF IndInv, PagesOwnedOnce, len, c
  <2>2. ASSUME NEW i \in 1..Len(out_shmems'), NEW j \in 1..Len(out_shmems'),
               out_shmems'[i] = out_shmems'[j]
        PROVE  i = j
    <3>1. n + i \in 1..len /\ n + j \in 1..len /\ out_shmems[n + i] = out_shmems[n + j]
      BY <1>11, <2>2
    <3>2. n + i = n + j
      BY <2>1, <3>1
    <3>3. QED
      BY <1>1, <1>9, <3>2 DEF TypeOK
  <2>3. ASSUME NEW i \in 1..Len(unused_shmem_cache'), NEW j \in 1..Len(unused_shmem_cache'),
               unused_shmem_cache'[i] = unused_shmem_cache'[j]
        PROVE  i = j
    <3>1. \/ i \in 1..c /\ unused_shmem_cache'[i] = unused_shmem_cache[i]
          \/ i - c \in 1..len /\ i \in Int /\ unused_shmem_cache'[i] = out_shmems[i - c]
      BY <1>12
    <3>2. \/ j \in 1..c /\ unused_shmem_cache'[j] = unused_shmem_cache[j]
          \/ j - c \in 1..len /\ j \in Int /\ unused_shmem_cache'[j] = out_shmems[j - c]
      BY <1>12
    <3>3. c \in Nat
      BY <1>6 DEF c
    <3>4. CASE i \in 1..c /\ j \in 1..c /\ unused_shmem_cache[i] = unused_shmem_cache[j]
      BY <2>1, <3>4
    <3>5. CASE i - c \in 1..len /\ j - c \in 1..len /\ out_shmems[i - c] = out_shmems[j - c]
      <4>1. i - c = j - c
        BY <2>1, <3>5
      <4>2. QED
        BY <3>3, <4>1
    <3>6. \A x \in 1..c, y \in 1..len : unused_shmem_cache[x] # out_shmems[y]
      BY <2>1
    <3>7. QED
      BY <2>3, <3>1, <3>2, <3>4, <3>5, <3>6
  <2>4. ASSUME NEW i \in 1..Len(out_shmems')
        PROVE  page'[out_shmems'[i]].magic = "INITIALIZED" /\ out_shmems'[i] # call'.new_map
    <3>1. n + i \in 1..len /\ out_shmems'[i] = out_shmems[n + i]
      BY <1>11
    <3>2. ~(\E k \in 1..n : out_shmems[k] = out_shmems[n + i])
      <4>1. \A k \in 1..n : k \in 1..len /\ k # n + i
        BY <1>1, <1>9, <3>1 DEF TypeOK, len
      <4>2. QED
        BY <2>1, <3>1, <4>1
    <3>3. QED
      BY <1>2, <1>3, <1>7, <2>1, <3>1, <3>2 DEF len
  <2>5. ASSUME NEW i \in 1..Len(unused_shmem_cache')
        PROVE  page'[unused_shmem_cache'[i]].magic = "DEINITIALIZED"
    <3>1. CASE i \in 1..c /\ unused_shmem_cache'[i] = unused_shmem_cache[i]
      BY <1>7, <2>1, <3>1
    <3>2. CASE i - c \in 1..n /\ i - c \in 1..len /\ unused_shmem_cache'[i] = out_shmems[i - c]
      BY <1>3, <1>7, <3>2 DEF len
    <3>3. QED
      BY <1>12, <3>1, <3>2
  <2>6. QED
    BY <2>2, <2>3, <2>4, <2>5 DEF PagesOwnedOnce
<1>15. PlacedOK' /\ EopFits'
  BY <1>2, <1>7, <1>8 DEF IndInv, PlacedOK, EopFits
<1>16. PendingOK'
  <2>1. CASE KeepPagesForever
    BY <2>1 DEF PendingOK
  <2>2. CASE ~KeepPagesForever
    <3>1. n = Prunable /\ (n # 0 \/ len <= MAX_PENDING_UNREAD_PAGES)
      BY <1>1, <1>2, <2>2 DEF n, len, ReceiverTooSlow, MAX_PENDING_UNREAD_PAGES
    <3>2. Len(out_shmems') <= MAX_PENDING_UNREAD_PAGES
      BY <1>1, <1>2, <1>5, <2>2, <3>1 DEF IndInv, PendingOK, len, MAX_PENDING_UNREAD_PAGES
    <3>3. QED
      BY <1>2, <1>5, <3>2, <1>1 DEF PendingOK, len, MAX_PENDING_UNREAD_PAGES
  <2>3. QED
    BY <2>1, <2>2
<1>17. QED
  BY <1>9, <1>10, <1>13, <1>14, <1>15, <1>16 DEF IndInv

\* A page outside of out_shmems is initialised for use, and the cache shrinks to
\* a prefix that does not hold it.
LEMMA StartPageInv ==
    ASSUME IndInv, pc = "map", NEW q \in Pages, NEW size \in Nat,
           size >= EOP_MSG_SIZE + PAGE_HEADER_LEN,
           StartPage(q, size),
           \A i \in 1..Len(out_shmems) : out_shmems[i] # q,
           unused_shmem_cache' \in Seq(Pages),
           Len(unused_shmem_cache') <= Len(unused_shmem_cache),
           \A i \in 1..Len(unused_shmem_cache') :
               unused_shmem_cache'[i] = unused_shmem_cache[i] /\ unused_shmem_cache[i] # q,
           maps' \in Pages, maps <= maps', q <= maps',
           \A p \in Pages : p <= maps' => p <= maps \/ p = q,
           UNCHANGED <<out_shmems, last_msg_sent, has_unsent_message, nsent, ncalls, rx>>
    PROVE  IndInv'
<1> DEFINE p == LastPage
           header == [InitHeader(size) EXCEPT !.max_alloc_size = page[p].max_alloc_size]
<1>1. /\ p \in Pages /\ page[p].max_alloc_size \in Nat /\ p' = p /\ p # q
  BY CurrentPage, OwnedPages DEF IndInv, LastPage
<1>2. /\ header \in PageHeader /\ header.magic = "INITIALIZED" /\ header.size_used = 0
      /\ header.size_total >= EOP_MSG_SIZE
      /\ header.max_alloc_size = page[p].max_alloc_size
  <2>1. size - PAGE_HEADER_LEN \in Nat /\ size - PAGE_HEADER_LEN >= EOP_MSG_SIZE
    BY EopSize DEF PAGE_HEADER_LEN
  <2>2. QED
    BY <1>1, <2>1 DEF InitHeader, PageHeader
<1> HIDE DEF header
<1>3. /\ page' = [page EXCEPT ![q] = header]
      /\ mem' = [mem EXCEPT ![q] = InitMem(@)]
      /\ call' = [call EXCEPT !.new_map = q]
      /\ recycled' = recycled \cup {r \in Receivers : rx[r].page = q /\ rx[r].pc # "map"}
      /\ pc' = "eop"
  BY DEF StartPage, header
<1>4. /\ page' \in [Pages -> PageHeader] /\ page'[q] = header
      /\ \A x \in Pages \ {q} : page'[x] = page[x]
  BY <1>2, <1>3 DEF IndInv, TypeOK
<1>5. /\ DOMAIN mem' = Pages /\ mem'[q] = InitMem(mem[q]) /\ MsgsTyped(mem[q])
      /\ \A x \in Pages \ {q} : mem'[x] = mem[x]
  BY <1>3 DEF IndInv, TypeOK
<1>6. /\ DOMAIN mem'[q] = DOMAIN mem[q] \cup {0} /\ mem'[q][0].tag = "UNSET"
      /\ \A o \in DOMAIN mem[q] \ {0} : mem'[q][o] = mem[q][o]
  <2>1. /\ DOMAIN InitMem(mem[q]) = DOMAIN mem[q] \cup {0}
        /\ InitMem(mem[q])[0].tag = "UNSET"
        /\ \A o \in DOMAIN mem[q] \ {0} : InitMem(mem[q])[o] = mem[q][o]
    BY <1>5, InitMemFacts
  <2>2. QED
    BY <1>5, <2>1
<1>7. MsgsTyped(mem'[q])
  <2>1. MsgsTyped(InitMem(mem[q]))
    BY <1>5, InitMemFacts
  <2>2. QED
    BY <1>5, <2>1
<1>8. call' \in CallState /\ call'.new_map = q
  BY <1>3 DEF IndInv, TypeOK, CallState
<1>9. TypeOK'
  <2>1. \A x \in Pages : MsgsTyped(mem'[x])
    BY <1>5, <1>7 DEF IndInv, TypeOK
  <2>2. recycled' \subseteq Receivers
    BY <1>3 DEF IndInv, TypeOK
  <2>3. QED
    BY <1>3, <1>4, <1>5, <1>8, <2>1, <2>2 DEF IndInv, TypeOK
<1>10. EopLeads'
  BY <1>5, <1>6 DEF IndInv, EopLeads
<1>11. SizesOK'
  BY <1>1, <1>2, <1>4 DEF IndInv, SizesOK
<1>12. PagesOwnedOnce'
  <2>1. Len(unused_shmem_cache') \in Nat /\ Len(unused_shmem_cache) \in Nat
    BY OwnedPages DEF IndInv
  <2>2. \A i \in 1..Len(unused_shmem_cache') : i \in 1..Len(unused_shmem_cache)
    BY <2>1
  <2>3. \A i \in 1..Len(out_shmems) : page'[out_shmems[i]] = page[out_shmems[i]]
    BY <1>4, OwnedPages DEF IndInv
  <2>4. \A i \in 1..Len(unused_shmem_cache') :
            page'[unused_shmem_cache'[i]] = page[unused_shmem_cache[i]]
    BY <1>4, <2>2, OwnedPages DEF IndInv
  <2>5. QED
    BY <1>8, <2>2, <2>3, <2>4 DEF IndInv, PagesOwnedOnce
<1>13. OwnedExist'
  <2>1. Len(unused_shmem_cache') \in Nat /\ Len(unused_shmem_cache) \in Nat
        /\ maps \in Int /\ maps' \in Int
    BY OwnedPages DEF IndInv, TypeOK, Pages
  <2>2. \A i \in 1..Len(unused_shmem_cache') : i \in 1..Len(unused_shmem_cache)
    BY <2>1
  <2>3. \A x \in Pages : x <= maps => x <= maps'
    BY <2>1 DEF Pages
  <2>4. QED
    BY <2>2, <2>3, OwnedPages DEF IndInv, OwnedExist
<1>14. NewMapOK'
  <2>1. q \in 1..maps'
    BY DEF Pages
  <2>2. QED
    BY <1>2, <1>3, <1>4, <1>6, <1>8, <2>1 DEF NewMapOK
<1>15. PendingOK' /\ RxOK'
  BY <1>3 DEF IndInv, PendingOK, RxOK
<1>16. PlacedOK' /\ EopFits'
  <2>1. page'[p] = page[p] /\ mem'[p] = mem[p]
    BY <1>1, <1>4, <1>5
  <2>2. EopPtr' = EopPtr
    BY <1>1, <2>1 DEF EopPtr, NextOf
  <2>3. QED
    BY <1>1, <1>3, <2>1, <2>2 DEF IndInv, PlacedOK, EopFits
<1>17. QED
  BY <1>9, <1>10, <1>11, <1>12, <1>13, <1>14, <1>15, <1>16 DEF IndInv

\* new_or_unused_shmem finds a page in the cache.
LEMMA UnusedShmemInv ==
    ASSUME IndInv, UnusedShmem
    PROVE  IndInv'
<1>1. PICK i \in CachedFit(NextMapSize) :
          /\ StartPage(unused_shmem_cache[i], MapSize(unused_shmem_cache[i]))
          /\ unused_shmem_cache' = SubSeq(unused_shmem_cache, 1, i - 1)
  BY DEF UnusedShmem, CacheBelow
<1> DEFINE q == unused_shmem_cache[i]
           c == Len(unused_shmem_cache)
<1>2. i \in 1..c /\ c \in Nat
  BY OwnedPages DEF CachedFit, IndInv
<1>3. q \in Pages /\ q <= maps /\ page[q].magic = "DEINITIALIZED"
  BY <1>2, OwnedPages DEF IndInv, OwnedExist, PagesOwnedOnce
<1>4. /\ page[q].size_total \in Nat /\ page[q].size_total >= EOP_MSG_SIZE
      /\ MapSize(q) \in Nat /\ MapSize(q) >= EOP_MSG_SIZE + PAGE_HEADER_LEN
  <2>1. page[q] \in PageHeader
    BY <1>3 DEF IndInv, TypeOK
  <2>2. page[q].size_total \in Nat /\ page[q].size_total >= EOP_MSG_SIZE
    BY <1>3, <2>1 DEF IndInv, SizesOK, PageHeader
  <2>3. QED
    BY <2>2, EopSize DEF MapSize, PAGE_HEADER_LEN
<1>5. /\ unused_shmem_cache' \in Seq(Pages) /\ Len(unused_shmem_cache') = i - 1
      /\ \A j \in 1..(i - 1) : unused_shmem_cache'[j] = unused_shmem_cache[j]
  <2>1. \A j \in 1..(i - 1) : unused_shmem_cache[j] \in Pages
    BY <1>2, OwnedPages DEF IndInv
  <2>2. /\ SubSeq(unused_shmem_cache, 1, i - 1) \in Seq(Pages)
        /\ Len(SubSeq(unused_shmem_cache, 1, i - 1)) =
              IF 1 <= i - 1 THEN (i - 1) - 1 + 1 ELSE 0
        /\ \A j \in 1..((i - 1) - 1 + 1) :
              SubSeq(unused_shmem_cache, 1, i - 1)[j] = unused_shmem_cache[1 + j - 1]
    BY <1>2, <2>1, SubSeqProperties
  <2>3. QED
    BY <1>1, <1>2, <2>2
<1>6. \A j \in 1..Len(unused_shmem_cache') :
          unused_shmem_cache'[j] = unused_shmem_cache[j] /\ unused_shmem_cache[j] # q
  BY <1>2, <1>5 DEF IndInv, PagesOwnedOnce
<1>7. \A j \in 1..Len(out_shmems) : out_shmems[j] # q
  BY <1>3 DEF IndInv, PagesOwnedOnce
<1>8. /\ maps' = maps /\ maps' \in Pages /\ pc = "map" /\ maps <= maps'
      /\ UNCHANGED <<out_shmems, last_msg_sent, has_unsent_message, nsent, ncalls, rx>>
  BY DEF UnusedShmem, IndInv, TypeOK, Pages
<1>9. Len(unused_shmem_cache') <= Len(unused_shmem_cache)
  BY <1>2, <1>5
<1> HIDE DEF q, c
<1>10. QED
  BY <1>1, <1>3, <1>4, <1>5, <1>6, <1>7, <1>8, <1>9, StartPageInv DEF q

\* The shmem provider creates a new map of the size next_shmem_size asks for.
LEMMA NewShmemInv ==
    ASSUME IndInv, NewShmem
    PROVE  IndInv'
<1> DEFINE q == maps + 1
<1>1. /\ pc = "map" /\ maps < MaxPages /\ StartPage(q, NextMapSize) /\ maps' = q
      /\ unused_shmem_cache' = <<>>
      /\ UNCHANGED <<out_shmems, last_msg_sent, has_unsent_message, nsent, ncalls, rx>>
  BY DEF NewShmem
<1>2. q \in Pages /\ maps \in Nat
  BY <1>1, ChannelAssumption DEF IndInv, TypeOK, Pages
<1>3. NextMapSize \in Nat /\ NextMapSize >= EOP_MSG_SIZE + PAGE_HEADER_LEN
  <2>1. /\ page[LastPage].max_alloc_size \in Nat
        /\ 2 * page[LastPage].max_alloc_size + EOP_MSG_SIZE + PAGE_HEADER_LEN <= MaxMapSize
    BY CurrentPage DEF IndInv, SizesOK
  <2>2. /\ NextMapSize \in Nat
        /\ NextMapSize >= 2 * page[LastPage].max_alloc_size + EOP_MSG_SIZE + PAGE_HEADER_LEN
    BY <2>1, NextPageHoldsTwo, SizeAssumption DEF NextMapSize
  <2>3. QED
    BY <2>1, <2>2, EopSize DEF PAGE_HEADER_LEN
<1>4. \A j \in 1..Len(out_shmems) : out_shmems[j] # q
  BY <1>2, OwnedPages DEF IndInv, OwnedExist
<1>5. /\ unused_shmem_cache' \in Seq(Pages) /\ Len(unused_shmem_cache') = 0
      /\ Len(unused_shmem_cache) \in Nat
  BY <1>1, OwnedPages DEF IndInv
<1>6. /\ maps' \in Pages /\ maps <= maps' /\ q <= maps'
      /\ \A p \in Pages : p <= maps' => p <= maps \/ p = q
  BY <1>1, <1>2 DEF Pages
<1>7. /\ Len(unused_shmem_cache') <= Len(unused_shmem_cache)
      /\ \A i \in 1..Len(unused_shmem_cache') :
             unused_shmem_cache'[i] = unused_shmem_cache[i] /\ unused_shmem_cache[i] # q
  BY <1>5
<1> HIDE DEF q
<1>8. QED
  BY <1>1, <1>2, <1>3, <1>4, <1>5, <1>6, <1>7, StartPageInv

\* END_OF_PAGE is sent and the started page becomes the current one.
LEMMA SendEopInv ==
    ASSUME IndInv, SendEop
    PROVE  IndInv'
<1> DEFINE p  == LastPage
           q  == call.new_map
           o  == EopPtr
           id == page[p].current_msg_id + 1
           header == [BlankMsg EXCEPT !.tag = "END_OF_PAGE", !.message_id = id,
                                      !.buf_len_padded = SHMEM_INFO_LEN, !.next = q]
<1>1. /\ p \in Pages /\ page[p] \in PageHeader /\ id \in Nat /\ page[p].size_used \in Nat
  BY CurrentPage DEF IndInv
<1>2. /\ pc = "eop" /\ q \in 1..maps /\ q \in Pages
      /\ page[q].magic = "INITIALIZED" /\ page[q].size_used = 0
      /\ 0 \in DOMAIN mem[q] /\ mem[q][0].tag = "UNSET"
  BY ChannelAssumption DEF SendEop, IndInv, NewMapOK, TypeOK, Pages
<1>3. header \in Msg /\ header.next = q
  BY <1>1, <1>2 DEF BlankMsg, Msg, Tags, SHMEM_INFO_LEN
<1>4. \A i \in 1..Len(out_shmems) : out_shmems[i] # q
  BY DEF IndInv, PagesOwnedOnce
<1>5. p # q
  BY <1>4, OwnedPages DEF IndInv, LastPage
<1>6. /\ mem' = [mem EXCEPT ![p][o] = header]
      /\ page' = [page EXCEPT ![p].size_used = @ + EOP_MSG_SIZE, ![p].current_msg_id = id]
      /\ out_shmems' = Append(out_shmems, q)
      /\ last_msg_sent' = Null
      /\ has_unsent_message' = FALSE
      /\ call' = [call EXCEPT !.new_map = NoPage]
      /\ pc' = "retry"
      /\ UNCHANGED <<maps, unused_shmem_cache, nsent, ncalls, rx, recycled>>
  BY DEF SendEop
<1> HIDE DEF header, o, id, p, q
<1>7. /\ out_shmems' \in Seq(Pages) /\ Len(out_shmems') = Len(out_shmems) + 1
      /\ \A i \in 1..Len(out_shmems) : out_shmems'[i] = out_shmems[i]
      /\ out_shmems'[Len(out_shmems) + 1] = q
      /\ Len(out_shmems) \in Nat
  BY <1>2, <1>6, AppendProperties DEF IndInv, TypeOK
<1>8. LastPage' = q
  BY <1>7 DEF LastPage
<1>9. /\ DOMAIN mem' = Pages
      /\ \A x \in Pages \ {p} : mem'[x] = mem[x]
      /\ DOMAIN mem'[p] = DOMAIN mem[p]
      /\ \A x \in DOMAIN mem[p] : mem'[p][x] = IF x = o THEN header ELSE mem[p][x]
  BY <1>1, <1>6 DEF IndInv, TypeOK
<1>10. \A x \in Pages : MsgsTyped(mem'[x])
  <2>1. MsgsTyped(mem[p])
    BY <1>1 DEF IndInv, TypeOK
  <2>2. MsgsTyped(mem'[p])
    BY <1>3, <1>9, <2>1 DEF MsgsTyped
  <2>3. QED
    BY <1>9, <2>2 DEF IndInv, TypeOK
<1>11. /\ page' \in [Pages -> PageHeader]
       /\ \A x \in Pages : /\ page'[x].magic = page[x].magic
                           /\ page'[x].size_total = page[x].size_total
                           /\ page'[x].max_alloc_size = page[x].max_alloc_size
       /\ page'[q] = page[q]
  <2>1. page[p].size_used + EOP_MSG_SIZE \in Nat
    BY <1>1, EopSize
  <2>2. QED
    BY <1>1, <1>2, <1>5, <1>6, <2>1 DEF IndInv, TypeOK, PageHeader
<1>12. call' \in CallState /\ call'.new_map = NoPage
  BY <1>6 DEF IndInv, TypeOK, CallState
<1>13. TypeOK'
  <2>1. has_unsent_message' \in BOOLEAN /\ last_msg_sent' \in Nat \cup {Null}
    BY <1>6
  <2>2. Len(out_shmems') > 0
    BY <1>7
  <2>3. QED
    BY <1>6, <1>7, <1>9, <1>10, <1>11, <1>12, <2>1, <2>2 DEF IndInv, TypeOK
<1>14. EopLeads'
  BY <1>1, <1>2, <1>3, <1>9 DEF IndInv, EopLeads
<1>15. SizesOK' /\ RxOK'
  BY <1>6, <1>11 DEF IndInv, SizesOK, RxOK
<1>16. PagesOwnedOnce'
  <2>1. \A i \in 1..Len(out_shmems') :
            \/ i \in 1..Len(out_shmems) /\ out_shmems'[i] = out_shmems[i]
            \/ i = Len(out_shmems) + 1 /\ out_shmems'[i] = q
    BY <1>7
  <2>2. \A i, j \in 1..Len(out_shmems') : out_shmems'[i] = out_shmems'[j] => i = j
    BY <1>4, <2>1 DEF IndInv, PagesOwnedOnce
  <2>3. \A i \in 1..Len(out_shmems') :
            page'[out_shmems'[i]].magic = "INITIALIZED" /\ out_shmems'[i] # call'.new_map
    <3>1. \A i \in 1..Len(out_shmems) :
              page'[out_shmems[i]].magic = "INITIALIZED" /\ out_shmems[i] # NoPage
      BY <1>11, OwnedPages DEF IndInv, PagesOwnedOnce
    <3>2. page'[q].magic = "INITIALIZED" /\ q # NoPage
      BY <1>2, <1>11, OwnedPages DEF IndInv
    <3>3. QED
      BY <1>12, <2>1, <3>1, <3>2
  <2>4. \A i \in 1..Len(unused_shmem_cache) :
            page'[unused_shmem_cache[i]].magic = "DEINITIALIZED"
    BY <1>11, OwnedPages DEF IndInv, PagesOwnedOnce
  <2>5. \A i, j \in 1..Len(unused_shmem_cache) :
            unused_shmem_cache[i] = unused_shmem_cache[j] => i = j
    BY DEF IndInv, PagesOwnedOnce
  <2>6. unused_shmem_cache' = unused_shmem_cache
    BY <1>6
  <2>7. QED
    BY <2>2, <2>3, <2>4, <2>5, <2>6 DEF PagesOwnedOnce
<1>17. OwnedExist'
  BY <1>2, <1>6, <1>7 DEF IndInv, OwnedExist
<1>18. NewMapOK'
  BY <1>6, <1>12 DEF NewMapOK
<1>19. PlacedOK'
  <2>1. EopPtr' = 0
    BY <1>6 DEF EopPtr
  <2>2. QED
    BY <1>2, <1>5, <1>6, <1>8, <1>9, <1>11, <2>1 DEF PlacedOK
<1>20. EopFits'
  <2>1. page[q].size_total >= EOP_MSG_SIZE /\ page[q].size_total \in Nat
    BY <1>2 DEF IndInv, SizesOK, TypeOK, PageHeader
  <2>2. QED
    BY <1>2, <1>8, <1>11, <2>1, EopSize DEF EopFits
<1>21. PendingOK'
  BY <1>2, <1>6, <1>7 DEF IndInv, PendingOK, MAX_PENDING_UNREAD_PAGES
<1>22. QED
  BY <1>13, <1>14, <1>15, <1>16, <1>17, <1>18, <1>19, <1>20, <1>21 DEF IndInv

\* A receiver attaches to the first page.
LEMMA AttachInv ==
    ASSUME IndInv, NEW r \in Receivers, Attach(r)
    PROVE  IndInv'
<1>1. 1 \in Pages
  BY ChannelAssumption DEF Pages
<1>2. /\ page' \in [Pages -> PageHeader]
      /\ \A p \in Pages : /\ page'[p].magic = page[p].magic
                          /\ page'[p].size_total = page[p].size_total
                          /\ page'[p].size_used = page[p].size_used
                          /\ page'[p].max_alloc_size = page[p].max_alloc_size
  <2>1. (page[1].safe_to_unmap \/ ~KeepPagesForever) \in BOOLEAN
    OBVIOUS
  <2>2. page \in [Pages -> PageHeader]
    BY DEF IndInv, TypeOK
  <2>3. page' = [page EXCEPT ![1].safe_to_unmap = page[1].safe_to_unmap \/ ~KeepPagesForever]
    BY DEF Attach
  <2>4. QED
    BY <1>1, <2>1, <2>2, <2>3, MarkPage
<1>3. rx' \in [Receivers -> RxState] /\ RxOK'
  <2> DEFINE new == [rx[r] EXCEPT !.pc = "recv", !.page = 1]
  <2>1. rx \in [Receivers -> RxState] /\ rx[r] \in RxState
    BY DEF IndInv, TypeOK
  <2>2. new \in RxState /\ new.pc = "recv" /\ new.page = 1
    BY <1>1, <2>1 DEF RxState
  <2>3. rx' = [rx EXCEPT ![r] = new]
    BY <2>1 DEF Attach, RxState
  <2> HIDE DEF new
  <2>4. QED
    BY <1>1, <2>1, <2>2, <2>3 DEF IndInv, RxOK
<1>4. QED
  BY <1>2, <1>3, ReceiverStep DEF Attach

\* recv finds out whether there is a message, and where.
LEMMA RecvLoadInv ==
    ASSUME IndInv, NEW r \in Receivers, RecvLoad(r)
    PROVE  IndInv'
<1> DEFINE p    == rx[r].page
           last == rx[r].last_msg_recvd
           id   == CurrentMsgId(r)
           none == NothingNew(r)
           next == IF last = Null THEN 0 ELSE NextOf(p, last)
           ok   == last = Null \/ NextInMap(next, MapSize(p), MSG_HEADER_LEN)
           newpc == IF none THEN "recv" ELSE IF ok THEN "read" ELSE "failed"
           newmsg == IF none \/ ~ok THEN Null ELSE next
<1>1. rx[r].pc = "recv" /\ rx[r] \in RxState /\ p \in Pages
  BY DEF RecvLoad, IndInv, TypeOK, RxOK
<1>2. last # Null => last \in DOMAIN mem[p] /\ mem[p][last] \in Msg
  <2>1. MsgsTyped(mem[p])
    BY <1>1 DEF IndInv, TypeOK
  <2>2. QED
    BY <2>1 DEF RecvLoad, ReadsPayload, MsgsTyped
<1>3. id \in Nat
  <2>1. page[p] \in PageHeader
    BY <1>1 DEF IndInv, TypeOK
  <2>2. QED
    BY <1>1, <2>1 DEF CurrentMsgId, PageHeader, RxState
<1>4. next \in Nat
  BY <1>1, <1>2 DEF NextOf, NextMsgPtr, MSG_HEADER_LEN, Msg, RxState
<1> HIDE DEF id, next, none, ok
<1>5. newpc \in {"recv", "read", "failed"} /\ (newpc = "read" => newmsg = next)
  OBVIOUS
<1>6. newmsg \in Nat \cup {Null}
  BY <1>4
<1>7. /\ rx' = [rx EXCEPT ![r].highest_msg_id = id, ![r].msg = newmsg, ![r].pc = newpc]
      /\ UNCHANGED <<page, mem, maps, txvars, pc, recycled>>
  BY DEF RecvLoad, id, next, none, ok
<1> HIDE DEF newpc, newmsg
<1>8. rx' \in [Receivers -> RxState]
  <2> DEFINE new == [rx[r] EXCEPT !.highest_msg_id = id, !.msg = newmsg, !.pc = newpc]
  <2>1. new \in RxState
    BY <1>1, <1>3, <1>5, <1>6 DEF RxState
  <2>2. rx \in [Receivers -> RxState]
    BY DEF IndInv, TypeOK
  <2>3. rx' = [rx EXCEPT ![r] = new]
    BY <1>1, <1>7, <2>2 DEF RxState
  <2> HIDE DEF new
  <2>4. QED
    BY <2>1, <2>2, <2>3
<1>9. RxOK'
  <2>1. /\ rx'[r].page = p /\ rx'[r].pc = newpc /\ rx'[r].msg = newmsg
        /\ \A s \in Receivers \ {r} : rx'[s] = rx[s]
    BY <1>1, <1>7 DEF IndInv, TypeOK, RxState
  <2>2. newpc = "read" => newmsg # Null
    BY <1>4, <1>5 DEF Null
  <2>3. QED
    BY <1>1, <1>5, <2>1, <2>2 DEF IndInv, RxOK
<1>10. QED
  BY <1>7, <1>8, <1>9, ReceiverStep DEF IndInv, TypeOK

\* recv looks at the message.
LEMMA RecvReadInv ==
    ASSUME IndInv, NEW r \in Receivers, RecvRead(r)
    PROVE  IndInv'
<1> DEFINE p   == rx[r].page
           m   == mem[p][rx[r].msg]
           bad == ~InShmem(rx[r].msg, MapSize(p), m.buf_len_padded)
           done == [rx[r] EXCEPT !.msg = Null]
           new == CASE bad                   -> [done EXCEPT !.pc = "failed"]
                    [] ~bad /\ m.tag = "UNSET"       -> [done EXCEPT !.pc = "panicked"]
                    [] ~bad /\ m.tag = "EXITING"     -> [done EXCEPT !.pc = "closed",
                                                                      !.page = NoPage]
                    [] ~bad /\ m.tag = "END_OF_PAGE" ->
                          [done EXCEPT !.pc = "map", !.next = m.next,
                                       !.last_msg_recvd = Null, !.highest_msg_id = 0]
                    [] OTHER ->
                          [done EXCEPT !.pc = "recv", !.last_msg_recvd = rx[r].msg,
                                       !.seen = m.val]
<1>1. rx[r].pc = "read" /\ rx[r] \in RxState /\ p \in Pages /\ rx[r].msg # Null
  <2>1. rx[r].pc = "read"
    BY DEF RecvRead
  <2>2. rx[r] \in RxState
    BY DEF IndInv, TypeOK
  <2>3. QED
    BY <2>1, <2>2 DEF IndInv, RxOK
<1>2. rx[r].msg \in DOMAIN mem[p]
  BY <1>1 DEF RecvRead, ReadsPayload
<1>3. m \in Msg /\ rx[r].msg \in Nat
  BY <1>1, <1>2 DEF IndInv, TypeOK, MsgsTyped
<1>4. m.tag = "END_OF_PAGE" => m.next \in Pages
  <2>1. EopLeads
    BY DEF IndInv
  <2>2. QED
    BY <1>1, <1>2, <2>1 DEF EopLeads
<1>5. /\ rx' = [rx EXCEPT ![r] = new]
      /\ page' = IF ~bad /\ m.tag = "END_OF_PAGE"
                 THEN [page EXCEPT ![p].safe_to_unmap = TRUE] ELSE page
      /\ UNCHANGED <<mem, maps, txvars, pc, recycled>>
  BY DEF RecvRead
<1> HIDE DEF bad, m
<1>6. /\ new \in RxState
      /\ new.pc \in {"failed", "panicked", "closed", "map", "recv"}
      /\ new.pc = "recv" => new.page = p
      /\ new.pc = "map" => new.next \in Pages
  <2>1. /\ m.next \in Pages \cup {NoPage} /\ m.val \in Nat
    BY <1>3 DEF Msg
  <2>2. /\ done \in RxState /\ done.page = p
    BY <1>1 DEF RxState
  <2> HIDE DEF done
  <2>3. CASE bad
    BY <2>2, <2>3 DEF RxState
  <2>4. CASE ~bad /\ m.tag = "UNSET"
    BY <2>2, <2>4 DEF RxState
  <2>5. CASE ~bad /\ m.tag = "EXITING"
    BY <2>2, <2>5 DEF RxState
  <2>6. CASE ~bad /\ m.tag = "END_OF_PAGE"
    BY <1>4, <2>1, <2>2, <2>6 DEF RxState
  <2>7. CASE ~bad /\ m.tag \notin {"UNSET", "EXITING", "END_OF_PAGE"}
    BY <1>3, <2>1, <2>2, <2>7 DEF RxState
  <2>8. QED
    BY <2>3, <2>4, <2>5, <2>6, <2>7
<1> HIDE DEF new
<1>7. rx' \in [Receivers -> RxState] /\ RxOK'
  BY <1>1, <1>5, <1>6 DEF IndInv, TypeOK, RxOK
<1>8. /\ page' \in [Pages -> PageHeader]
      /\ \A x \in Pages : /\ page'[x].magic = page[x].magic
                          /\ page'[x].size_total = page[x].size_total
                          /\ page'[x].size_used = page[x].size_used
                          /\ page'[x].max_alloc_size = page[x].max_alloc_size
  <2>1. page \in [Pages -> PageHeader]
    BY DEF IndInv, TypeOK
  <2>2. CASE page' = page
    BY <2>1, <2>2
  <2>3. CASE page' = [page EXCEPT ![p].safe_to_unmap = TRUE]
    BY <1>1, <2>1, <2>3, MarkPage
  <2>4. QED
    BY <1>5, <2>2, <2>3
<1>9. QED
  BY <1>5, <1>7, <1>8, ReceiverStep

\* The other steps of a receiver.
LEMMA RecvOtherInv ==
    ASSUME IndInv, NEW r \in Receivers, RecvUndefined(r) \/ RecvMap(r) \/ RecvMark(r)
    PROVE  IndInv'
<1>1. rx \in [Receivers -> RxState] /\ rx[r] \in RxState /\ page \in [Pages -> PageHeader]
  BY DEF IndInv, TypeOK
<1>2. CASE RecvUndefined(r)
  <2>1. rx' \in [Receivers -> RxState] /\ RxOK'
    BY <1>1, <1>2 DEF RecvUndefined, IndInv, RxOK, RxState
  <2>2. QED
    BY <1>1, <1>2, <2>1, ReceiverStep DEF RecvUndefined
<1>3. CASE RecvMap(r)
  <2> DEFINE q == rx[r].next
             new == IF ~Mapped(q) THEN [rx[r] EXCEPT !.pc = "failed"]
                    ELSE IF page[q].magic # "INITIALIZED"
                    THEN [rx[r] EXCEPT !.pc = "panicked"]
                    ELSE [rx[r] EXCEPT !.pc = "mark", !.page = q, !.next = NoPage]
  <2>1. rx[r].pc = "map" /\ q \in Pages
    BY <1>3 DEF RecvMap, IndInv, RxOK
  <2>2. /\ new \in RxState /\ new.pc \in {"failed", "panicked", "mark"}
        /\ new.pc = "mark" => new.page \in Pages
    BY <1>1, <2>1 DEF RxState
  <2>3. rx' = [rx EXCEPT ![r] = new] /\ UNCHANGED <<page, mem, maps, txvars, pc, recycled>>
    BY <1>3 DEF RecvMap
  <2> HIDE DEF new
  <2>4. rx' \in [Receivers -> RxState] /\ RxOK'
    BY <1>1, <2>2, <2>3 DEF IndInv, RxOK
  <2>5. QED
    BY <1>1, <2>3, <2>4, ReceiverStep
<1>4. CASE RecvMark(r)
  <2>1. rx[r].pc = "mark" /\ rx[r].page \in Pages
    BY <1>4 DEF RecvMark, IndInv, RxOK
  <2>2. rx' \in [Receivers -> RxState] /\ RxOK'
    BY <1>1, <1>4, <2>1 DEF RecvMark, IndInv, RxOK, RxState
  <2>3. /\ page' \in [Pages -> PageHeader]
        /\ \A x \in Pages : /\ page'[x].magic = page[x].magic
                            /\ page'[x].size_total = page[x].size_total
                            /\ page'[x].size_used = page[x].size_used
                            /\ page'[x].max_alloc_size = page[x].max_alloc_size
    <3>1. page' = [page EXCEPT ![rx[r].page].safe_to_unmap = TRUE]
      BY <1>4 DEF RecvMark
    <3>2. QED
      BY <1>1, <2>1, <3>1, MarkPage
  <2>4. QED
    BY <1>4, <2>2, <2>3, ReceiverStep DEF RecvMark
<1>5. QED
  BY <1>2, <1>3, <1>4

\* Every step of the channel preserves IndInv.
LEMMA NextInv == IndInv /\ [Next]_vars => IndInv'
<1> SUFFICES ASSUME IndInv, [Next]_vars PROVE IndInv'
  OBVIOUS
<1>1. CASE Caller
  <2>1. ncalls \in 0..MaxCalls /\ MaxCalls \in Nat /\ 0 \in Lens
    BY ChannelAssumption DEF IndInv, TypeOK
  <2>2. ASSUME NEW len \in Lens, SendBuf(len) PROVE IndInv'
    <3>1. ncalls' \in 0..MaxCalls /\ "DATA" \in CallTags
      BY <2>1, <2>2 DEF SendBuf, CallTags
    <3>2. QED
      BY <2>2, <3>1, AllocNextInv DEF SendBuf
  <2>3. CASE SendExiting
    <3>1. ncalls' \in 0..MaxCalls /\ "EXITING" \in CallTags
      BY <2>1, <2>3 DEF SendExiting, CallTags
    <3>2. QED
      BY <2>1, <2>3, <3>1, AllocNextInv DEF SendExiting
  <2>4. QED
    BY <1>1, <2>2, <2>3, ShrinkAllocedInv, CancelSendInv, ReattachInv DEF Caller
<1>2. CASE SenderStep
  BY <1>2, AllocNextIfSpaceInv, AllocFailsInv, SendInv, PruneOldPagesInv, UnusedShmemInv,
     NewShmemInv, SendEopInv DEF SenderStep
<1>3. ASSUME NEW r \in Receivers, Attach(r) \/ Recv(r) PROVE IndInv'
  BY <1>3, AttachInv, RecvLoadInv, RecvReadInv, RecvOtherInv DEF Recv
<1>4. CASE Terminated \/ UNCHANGED vars
  <2>1. UNCHANGED <<page, mem, maps, txvars, pc, rx, recycled>>
    BY <1>4 DEF Terminated, vars
  <2>2. /\ page \in [Pages -> PageHeader] /\ rx \in [Receivers -> RxState] /\ RxOK'
    BY <2>1 DEF IndInv, TypeOK, RxOK
  <2>3. QED
    BY <2>1, <2>2, ReceiverStep
<1>5. QED
  BY <1>1, <1>2, <1>3, <1>4 DEF Next

\* IndInv holds in every reachable state of the channel.
LEMMA Invariance == Spec => []IndInv
<1>1. Init => IndInv
  BY InitInv
<1>2. IndInv /\ [Next]_vars => IndInv'
  BY NextInv
<1>3. QED
  BY <1>1, <1>2, PTL DEF Spec

-----------------------------------------------------------------------------
(* What follows for every channel.                                         *)

\* Pages, sender and receivers keep their types: size_used never underflows in
\* cancel_send and shrink_alloced, and no receiver follows an END_OF_PAGE
\* message to a page that does not exist.
THEOREM TypeCorrect == Spec => []TypeOK
<1>1. IndInv => TypeOK
  BY DEF IndInv
<1>2. QED
  BY <1>1, Invariance, PTL

\* alloc_eop never panics with "PROGRAM ABORT : BUG: EOP does not fit in page!",
\* whatever lengths are allocated, shrunk and cancelled on pages of any size.
THEOREM EopFitsAlways == Spec => []EopAlwaysFits
<1>1. IndInv => EopAlwaysFits
  BY DEF IndInv, EopAlwaysFits
<1>2. QED
  BY <1>1, Invariance, PTL

\* size_used, last_msg_sent and the padded lengths always point to the same free
\* place on the current page, which passes the checks of alloc_eop and send().
THEOREM PlacementCorrect == Spec => []PlacementAgrees
<1>1. ASSUME IndInv PROVE PlacementAgrees
  <2> DEFINE p == LastPage
             used == page[p].size_used
  <2>1. p \in Pages /\ used \in Nat /\ page[p].size_total \in Nat
    BY <1>1, CurrentPage DEF IndInv
  <2>2. used + 128 <= page[p].size_total
    BY <1>1, EopSize DEF IndInv, EopFits
  <2>3. /\ pc # "alloced" => used = EopPtr
        /\ pc = "alloced" => call.msg = EopPtr /\ used = NextOf(p, call.msg)
        /\ mem[p][used].tag = "UNSET"
    BY <1>1 DEF IndInv, PlacedOK
  <2>4. EopPtr \in Nat /\ EopPtr <= used
    <3>1. CASE pc = "alloced"
      BY <1>1, <2>1, <2>3, <3>1, AllocedMsg DEF MSG_HEADER_LEN
    <3>2. CASE pc # "alloced"
      BY <2>1, <2>3, <3>2
    <3>3. QED
      BY <3>1, <3>2
  <2> HIDE DEF p, used
  <2>5. MsgInPage(EopPtr, page[p].size_total)
    BY <2>1, <2>2, <2>4 DEF MsgInPage, PAGE_HEADER_LEN
  <2>6. NextInMap(EopPtr, MapSize(p), EOP_MSG_SIZE)
    BY <2>1, <2>2, <2>4, EopSize DEF NextInMap, MapSize, PAGE_HEADER_LEN
  <2>7. QED
    BY <2>3, <2>5, <2>6 DEF PlacementAgrees, p, used
<1>2. QED
  BY <1>1, Invariance, PTL

\* The pages in use, the cached ones and the one being started stay disjoint and
\* correctly marked, however often pages are pruned and recycled.
THEOREM PagesOwnedOnceAlways == Spec => []PagesOwnedOnce
<1>1. IndInv => PagesOwnedOnce
  BY DEF IndInv
<1>2. QED
  BY <1>1, Invariance, PTL

\* A client never holds more than MAX_PENDING_UNREAD_PAGES + 1 pages, however slow
\* the broker is.
THEOREM PendingPagesBoundedAlways == Spec => []PendingPagesBounded
<1>1. IndInv => PendingPagesBounded
  BY DEF IndInv, PendingOK, PendingPagesBounded
<1>2. QED
  BY <1>1, Invariance, PTL

-----------------------------------------------------------------------------
(* What the receivers follow.                                              *)

\* The committed messages live[p] of page p form a chain from its first place: each is
\* readable, and behind each but the newest the next one lies. base[p] is the number
\* of messages that were sent before the page was started.
Chained(p, base, live) ==
    /\ live[p] \subseteq DOMAIN mem[p]
    /\ page[p].current_msg_id > 0 => 0 \in live[p] /\ mem[p][0].message_id = 1
    /\ \A o \in live[p] :
          /\ mem[p][o].message_id \in 1..page[p].current_msg_id
          /\ InShmem(o, MapSize(p), mem[p][o].buf_len_padded)
          /\ mem[p][o].tag \in CallTags \cup {"END_OF_PAGE"}
          /\ mem[p][o].tag \in {"DATA", "SLOW_RECEIVER"} =>
                /\ mem[p][o].val = base[p] + mem[p][o].message_id
                /\ mem[p][o].val <= nsent
          /\ mem[p][o].message_id < page[p].current_msg_id =>
                /\ mem[p][o].tag \in {"DATA", "SLOW_RECEIVER"}
                /\ NextOf(p, o) \in live[p]
                /\ mem[p][NextOf(p, o)].message_id = mem[p][o].message_id + 1
                /\ NextInMap(NextOf(p, o), MapSize(p), MSG_HEADER_LEN)

\* The sender appends to the chain of the current page.
AtEnd(base, live) ==
    LET p == LastPage
    IN  /\ \A o \in live[p] :
              /\ o < EopPtr
              /\ mem[p][o].message_id = page[p].current_msg_id => o = last_msg_sent
        /\ last_msg_sent = Null => page[p].current_msg_id = 0
        /\ last_msg_sent # Null =>
              /\ last_msg_sent \in live[p]
              /\ mem[p][last_msg_sent].message_id = page[p].current_msg_id
              /\ mem[p][last_msg_sent].tag # "END_OF_PAGE"
              /\ mem[p][last_msg_sent].tag = "EXITING" => pc = "exited"
        /\ pc # "exited" => nsent = base[p] + page[p].current_msg_id
        /\ pc = "eop" => /\ base[call.new_map] = nsent
                         /\ page[call.new_map].current_msg_id = 0

\* The newest message of page p is an END_OF_PAGE that leads to page q.
Linked(p, q, base, live) ==
    /\ base[q] + 1 = base[p] + page[p].current_msg_id
    /\ \A o \in live[p] : mem[p][o].message_id = page[p].current_msg_id =>
          mem[p][o].tag = "END_OF_PAGE" /\ mem[p][o].next = q

\* The pages of the sender are linked one to the next.
PagesLinked(base, live) ==
    \A i \in 1..(Len(out_shmems) - 1) : Linked(out_shmems[i], out_shmems[i + 1], base, live)

\* No page of the sender from the i-th on was marked by its one reader.
UnmarkedFrom(i) ==
    KeepPagesForever \/ \A j \in i..Len(out_shmems) : ~page[out_shmems[j]].safe_to_unmap

\* A reader of page p is on one of the sender's pages, or on one that was pruned and
\* leads to the first of them. The pages after it are not marked.
OnTrack(p, base, live) ==
    \/ \E i \in 1..Len(out_shmems) : p = out_shmems[i] /\ UnmarkedFrom(i + 1)
    \/ /\ ~KeepPagesForever
       /\ p # call.new_map /\ \A i \in 1..Len(out_shmems) : p # out_shmems[i]
       /\ Linked(p, out_shmems[1], base, live)
       /\ UnmarkedFrom(1)

\* Nor is the page marked that handle_out_eop has just started.
NewUnmarked == KeepPagesForever \/ (pc = "eop" => ~page[call.new_map].safe_to_unmap)

\* How many messages of its page the receiver has got
Got(r) == IF rx[r].last_msg_recvd = Null THEN 0 ELSE LastId(r)

\* Where a receiver can be whose page was not recycled, and what it has seen there.
Follows(r, base, live) ==
    /\ rx[r].seen <= nsent /\ NewUnmarked
    /\ rx[r].pc \in {"detached", "recv", "read", "map", "mark", "closed"}
    /\ rx[r].pc = "detached" =>
          /\ rx[r].page = NoPage /\ rx[r].last_msg_recvd = Null /\ rx[r].highest_msg_id = 0
          /\ rx[r].seen = 0 /\ base[1] = 0
          /\ out_shmems[1] = 1 /\ UnmarkedFrom(1)
    /\ rx[r].pc \in {"recv", "read", "mark"} =>
          /\ OnTrack(rx[r].page, base, live)
          /\ rx[r].last_msg_recvd # Null => rx[r].last_msg_recvd \in live[rx[r].page]
          /\ rx[r].seen = base[rx[r].page] + Got(r)
          /\ rx[r].highest_msg_id <= page[rx[r].page].current_msg_id
    /\ rx[r].pc = "read" =>
          /\ rx[r].msg \in live[rx[r].page]
          /\ mem[rx[r].page][rx[r].msg].message_id = Got(r) + 1
    /\ rx[r].pc = "map" =>
          /\ \E i \in 1..Len(out_shmems) : rx[r].next = out_shmems[i] /\ UnmarkedFrom(i)
          /\ rx[r].last_msg_recvd = Null /\ rx[r].highest_msg_id = 0
          /\ rx[r].seen = base[rx[r].next]
    /\ rx[r].pc = "closed" => rx[r].page = NoPage

\* The broadcast map is never pruned and nothing of it recycled.
NeverRecycled == KeepPagesForever => recycled = {} /\ unused_shmem_cache = <<>>

\* What ties the receivers to the sender, given where pages began and what was committed.
Tied(base, live) ==
    /\ \A p \in Pages : Chained(p, base, live)
    /\ AtEnd(base, live)
    /\ PagesLinked(base, live)
    /\ \A r \in Receivers \ recycled : Follows(r, base, live)
    /\ NeverRecycled

-----------------------------------------------------------------------------
(* Facts about chains, and what steps leave of them.                       *)

\* A step leaves the committed messages of page p as they are.
Leaves(p, base, live, base2, live2) ==
    /\ base2[p] = base[p] /\ live2[p] = live[p]
    /\ page'[p].current_msg_id = page[p].current_msg_id
    /\ page'[p].size_total = page[p].size_total
    /\ \A o \in live[p] : o \in DOMAIN mem'[p] /\ mem'[p][o] = mem[p][o]

\* Then they still form a chain.
LEMMA ChainedKept ==
    ASSUME TypeOK, NEW base, NEW live, NEW base2, NEW live2, NEW p \in Pages,
           Chained(p, base, live), Leaves(p, base, live, base2, live2),
           nsent' \in Nat, nsent <= nsent'
    PROVE  Chained(p, base2, live2)'
<1>1. /\ live[p] \subseteq DOMAIN mem[p]
      /\ \A o \in live[p] : o \in DOMAIN mem'[p] /\ mem'[p][o] = mem[p][o]
      /\ live2[p] = live[p] /\ base2[p] = base[p]
      /\ page'[p].current_msg_id = page[p].current_msg_id
      /\ MapSize(p)' = MapSize(p)
  BY DEF Chained, Leaves, MapSize
<1>2. \A o \in live[p] : NextOf(p, o)' = NextOf(p, o)
  BY <1>1 DEF NextOf
<1>3. ASSUME NEW o \in live[p], mem[p][o].val <= nsent PROVE mem[p][o].val <= nsent'
  <2>1. mem[p][o].val \in Nat /\ nsent \in Nat
    BY <1>1 DEF TypeOK, MsgsTyped, Msg
  <2>2. QED
    BY <1>3, <2>1
<1>4. live2[p] \subseteq DOMAIN mem'[p]
  BY <1>1
<1>5. page'[p].current_msg_id > 0 => 0 \in live2[p] /\ mem'[p][0].message_id = 1
  BY <1>1 DEF Chained
<1>6. ASSUME NEW o \in live2[p]
      PROVE  /\ mem'[p][o].message_id \in 1..page'[p].current_msg_id
             /\ InShmem(o, MapSize(p)', mem'[p][o].buf_len_padded)
             /\ mem'[p][o].tag \in CallTags \cup {"END_OF_PAGE"}
             /\ mem'[p][o].tag \in {"DATA", "SLOW_RECEIVER"} =>
                   /\ mem'[p][o].val = base2[p] + mem'[p][o].message_id
                   /\ mem'[p][o].val <= nsent'
  BY <1>1, <1>3 DEF Chained
<1>7. ASSUME NEW o \in live2[p], mem'[p][o].message_id < page'[p].current_msg_id
      PROVE  /\ mem'[p][o].tag \in {"DATA", "SLOW_RECEIVER"}
             /\ NextOf(p, o)' \in live2[p]
             /\ mem'[p][NextOf(p, o)'].message_id = mem'[p][o].message_id + 1
             /\ NextInMap(NextOf(p, o)', MapSize(p)', MSG_HEADER_LEN)
  BY <1>1, <1>2, <1>7 DEF Chained
<1>8. QED
  BY <1>4, <1>5, <1>6, <1>7 DEF Chained, NextOf

\* And the page still leads to the next one.
LEMMA LinkedKept ==
    ASSUME NEW base, NEW live, NEW base2, NEW live2, NEW p, NEW q,
           Leaves(p, base, live, base2, live2), base2[q] = base[q],
           Linked(p, q, base, live)
    PROVE  Linked(p, q, base2, live2)'
BY DEF Linked, Leaves

\* A step leaves them as they are but may add to them.
Grows(p, base, live, base2, live2) ==
    /\ base2[p] = base[p] /\ live[p] \subseteq live2[p]
    /\ page[p].current_msg_id \in Nat /\ page'[p].current_msg_id \in Nat
    /\ page[p].current_msg_id <= page'[p].current_msg_id
    /\ \A o \in live[p] : mem'[p][o] = mem[p][o]

\* A receiver that does not move and whose page is left alone stays where it is, if the
\* sender's pages and their marks do so.
LEMMA FollowsKept ==
    ASSUME TypeOK, NEW base, NEW live, NEW base2, NEW live2, NEW r \in Receivers,
           Follows(r, base, live), rx'[r] = rx[r],
           nsent' \in Nat, nsent <= nsent',
           rx[r].pc \in {"recv", "read", "mark"} =>
               /\ OnTrack(rx[r].page, base2, live2)'
               /\ Grows(rx[r].page, base, live, base2, live2),
           NewUnmarked',
           rx[r].pc = "detached" =>
               base2[1] = base[1] /\ out_shmems'[1] = 1 /\ UnmarkedFrom(1)',
           rx[r].pc = "map" =>
               /\ base2[rx[r].next] = base[rx[r].next]
               /\ \E i \in 1..Len(out_shmems') :
                     rx[r].next = out_shmems'[i] /\ UnmarkedFrom(i)'
    PROVE  Follows(r, base2, live2)'
<1>1. rx[r].seen <= nsent'
  <2>1. rx[r].seen \in Nat /\ nsent \in Nat /\ rx[r].seen <= nsent
    BY DEF TypeOK, RxState, Follows
  <2>2. QED
    BY <2>1
<1>2. rx[r].pc \in {"detached", "recv", "read", "map", "mark", "closed"}
  BY DEF Follows
<1>3. CASE rx[r].pc \in {"recv", "read", "mark"}
  <2> DEFINE p == rx[r].page
             last == rx[r].last_msg_recvd
  <2>1. /\ base2[p] = base[p] /\ live[p] \subseteq live2[p]
        /\ page[p].current_msg_id \in Nat /\ page'[p].current_msg_id \in Nat
        /\ page[p].current_msg_id <= page'[p].current_msg_id
        /\ \A o \in live[p] : mem'[p][o] = mem[p][o]
    BY <1>3 DEF Grows
  <2>2. last # Null => last \in live[p]
    BY <1>3 DEF Follows
  <2>3. Got(r)' = Got(r)
    BY <2>1, <2>2 DEF Got, LastId
  <2>4. /\ rx[r].seen = base2[p] + Got(r)
        /\ rx[r].highest_msg_id <= page'[p].current_msg_id
    <3>1. rx[r].highest_msg_id \in Nat
      BY DEF TypeOK, RxState
    <3>2. rx[r].highest_msg_id <= page[p].current_msg_id
      BY <1>3 DEF Follows
    <3>3. QED
      BY <1>3, <2>1, <3>1, <3>2 DEF Follows
  <2>5. ASSUME rx[r].pc = "read"
        PROVE  rx[r].msg \in live2[p] /\ mem'[p][rx[r].msg].message_id = Got(r) + 1
    BY <1>3, <2>1, <2>5 DEF Follows
  <2> HIDE DEF p
  <2>6. QED
    BY <1>1, <1>3, <2>1, <2>2, <2>3, <2>4, <2>5 DEF Follows, p
<1>4. CASE rx[r].pc = "detached"
  BY <1>1, <1>4 DEF Follows
<1>5. CASE rx[r].pc = "map"
  BY <1>1, <1>5 DEF Follows
<1>6. CASE rx[r].pc = "closed"
  BY <1>1, <1>6 DEF Follows
<1>7. QED
  BY <1>2, <1>3, <1>4, <1>5, <1>6

\* While the sender's pages and the marks on them stay, a receiver that does not move
\* stays on track, if what was committed on its page stays.
LEMMA StaysTied ==
    ASSUME IndInv, NEW base, NEW live, NEW base2, NEW live2, NEW r \in Receivers,
           Follows(r, base, live), rx'[r] = rx[r], out_shmems' = out_shmems,
           \A i \in 1..Len(out_shmems) :
               page'[out_shmems[i]].safe_to_unmap = page[out_shmems[i]].safe_to_unmap,
           nsent' \in Nat, nsent <= nsent', NewUnmarked',
           \A i \in 1..Len(out_shmems) : base2[out_shmems[i]] = base[out_shmems[i]],
           rx[r].pc \in {"recv", "read", "mark"} =>
               /\ Grows(rx[r].page, base, live, base2, live2)
               /\ (\A i \in 1..Len(out_shmems) : rx[r].page # out_shmems[i]) =>
                     /\ Leaves(rx[r].page, base, live, base2, live2)
                     /\ rx[r].page # call'.new_map
    PROVE  Follows(r, base2, live2)'
<1>1. Len(out_shmems) \in Nat \ {0} /\ TypeOK
  BY OwnedPages DEF IndInv
<1>2. ASSUME NEW i \in Nat \ {0}, UnmarkedFrom(i) PROVE UnmarkedFrom(i)'
  BY <1>1, <1>2 DEF UnmarkedFrom
<1>3. ASSUME rx[r].pc \in {"recv", "read", "mark"}
      PROVE  OnTrack(rx[r].page, base2, live2)'
  <2>1. PICK p : p = rx[r].page
    OBVIOUS
  <2>2. rx'[r].page = p /\ OnTrack(p, base, live)
    BY <1>3, <2>1 DEF Follows
  <2>3. CASE \E i \in 1..Len(out_shmems) : p = out_shmems[i] /\ UnmarkedFrom(i + 1)
    <3>1. PICK i \in 1..Len(out_shmems) : p = out_shmems[i] /\ UnmarkedFrom(i + 1)
      BY <2>3
    <3>2. UnmarkedFrom(i + 1)'
      BY <1>2, <3>1
    <3>3. QED
      BY <2>2, <3>1, <3>2 DEF OnTrack, UnmarkedFrom
  <2>4. CASE /\ ~KeepPagesForever
             /\ p # call.new_map /\ \A i \in 1..Len(out_shmems) : p # out_shmems[i]
             /\ Linked(p, out_shmems[1], base, live)
             /\ UnmarkedFrom(1)
    <3>1. /\ Leaves(p, base, live, base2, live2) /\ p # call'.new_map
          /\ base2[out_shmems[1]] = base[out_shmems[1]]
      BY <1>1, <1>3, <2>1, <2>4
    <3>2. Linked(p, out_shmems[1], base2, live2)'
      BY <2>4, <3>1 DEF Linked, Leaves
    <3>3. UnmarkedFrom(1)'
      BY <1>2, <2>4
    <3>4. QED
      BY <2>2, <2>4, <3>1, <3>2, <3>3 DEF OnTrack, Linked
  <2>5. QED
    BY <2>2, <2>3, <2>4 DEF OnTrack
<1>4. rx[r].pc = "detached" =>
          base2[1] = base[1] /\ out_shmems'[1] = 1 /\ UnmarkedFrom(1)'
  BY <1>1, <1>2 DEF Follows
<1>5. rx[r].pc = "map" =>
          /\ base2[rx[r].next] = base[rx[r].next]
          /\ \E i \in 1..Len(out_shmems') : rx[r].next = out_shmems'[i] /\ UnmarkedFrom(i)'
  BY <1>1, <1>2 DEF Follows
<1>6. QED
  BY <1>1, <1>3, <1>4, <1>5, FollowsKept

\* What is left alone grows by nothing.
LEMMA GrowsIfLeft ==
    ASSUME TypeOK, NEW base, NEW live, NEW base2, NEW live2, NEW p \in Pages,
           Leaves(p, base, live, base2, live2)
    PROVE  Grows(p, base, live, base2, live2)
<1>1. page[p].current_msg_id \in Nat
  BY DEF TypeOK, PageHeader
<1>2. QED
  BY <1>1 DEF Leaves, Grows

\* OnTrack, of the page that a receiver has after a step.
LEMMA OnTrackAfter ==
    ASSUME NEW r, NEW base, NEW live, NEW x, rx'[r].page = x, OnTrack(x, base, live)'
    PROVE  OnTrack(rx[r].page, base, live)'
BY DEF OnTrack, Linked

-----------------------------------------------------------------------------
(* Every step leaves receivers and sender tied together.                   *)

\* LlmpSender::new has committed nothing.
LEMMA InitTied ==
    ASSUME Init
    PROVE  \E base \in [Pages -> Nat], live \in [Pages -> SUBSET Nat] : Tied(base, live)
<1> DEFINE base == [p \in Pages |-> 0]
           live == [p \in Pages |-> {}]
<1>1. base \in [Pages -> Nat] /\ live \in [Pages -> SUBSET Nat]
  OBVIOUS
<1>2. 1 \in Pages /\ LastPage = 1 /\ Len(out_shmems) = 1 /\ out_shmems[1] = 1
  BY ChannelAssumption DEF Init, LastPage, Pages
<1>3. \A p \in Pages : page[p].current_msg_id = 0 /\ page[p].safe_to_unmap = FALSE
  BY DEF Init, InitHeader, UnmappedPage
<1>4. \A p \in Pages : base[p] = 0 /\ live[p] = {}
  OBVIOUS
<1> HIDE DEF base, live
<1>5. \A p \in Pages : Chained(p, base, live)
  BY <1>3, <1>4 DEF Chained
<1>6. AtEnd(base, live)
  BY <1>2, <1>3, <1>4 DEF AtEnd, Init
<1>7. PagesLinked(base, live)
  BY <1>2 DEF PagesLinked
<1>8. UnmarkedFrom(1)
  BY <1>2, <1>3 DEF UnmarkedFrom
<1>9. ASSUME NEW r \in Receivers PROVE Follows(r, base, live)
  <2>1. /\ rx[r].pc = "detached" /\ rx[r].page = NoPage /\ rx[r].last_msg_recvd = Null
        /\ rx[r].highest_msg_id = 0 /\ rx[r].seen = 0 /\ nsent = 0
    BY DEF Init
  <2>2. QED
    BY <1>2, <1>4, <1>8, <2>1 DEF Follows, NewUnmarked, Init
<1>10. NeverRecycled
  BY DEF Init, NeverRecycled
<1>11. Tied(base, live)
  BY <1>5, <1>6, <1>7, <1>9, <1>10 DEF Tied
<1>12. QED
  BY <1>1, <1>11

\* The sender's pages: which of them there are.
LEMMA OutPages ==
    ASSUME IndInv
    PROVE  /\ Len(out_shmems) \in Nat \ {0}
           /\ \A i \in 1..Len(out_shmems) : out_shmems[i] \in Pages
           /\ out_shmems[1] \in Pages
           /\ 1 \in Pages
           /\ LastPage = out_shmems[Len(out_shmems)] /\ LastPage \in Pages
           /\ \A r \in Receivers : rx[r].pc \in {"recv", "read", "mark"} => rx[r].page \in Pages
           /\ nsent \in Nat
<1>1. /\ Len(out_shmems) \in Nat \ {0}
      /\ \A i \in 1..Len(out_shmems) : out_shmems[i] \in Pages
  BY OwnedPages DEF IndInv
<1>2. out_shmems[1] \in Pages
  BY <1>1
<1>3. LastPage = out_shmems[Len(out_shmems)] /\ LastPage \in Pages
  BY CurrentPage DEF IndInv, LastPage
<1>4. 1 \in Pages
  BY ChannelAssumption DEF Pages
<1>5. QED
  BY <1>1, <1>2, <1>3, <1>4 DEF IndInv, RxOK, TypeOK

\* A step that leaves the current page alone leaves the end of its chain.
LEMMA AtEndKept ==
    ASSUME IndInv, NEW base, NEW live, NEW base2, NEW live2, Tied(base, live),
           LastPage' = LastPage, UNCHANGED <<last_msg_sent, nsent>>,
           Leaves(LastPage, base, live, base2, live2),
           pc' = "exited" <=> pc = "exited",
           pc' = "eop" => /\ base2[call'.new_map] = nsent
                          /\ page'[call'.new_map].current_msg_id = 0
    PROVE  AtEnd(base2, live2)'
<1>1. PICK p : p = LastPage
  OBVIOUS
<1>2. /\ \A o \in live[p] : mem'[p][o] = mem[p][o]
      /\ page'[p].current_msg_id = page[p].current_msg_id
      /\ base2[p] = base[p] /\ live2[p] = live[p]
  BY <1>1 DEF Leaves
<1>3. AtEnd(base, live)
  BY DEF Tied
<1>4. LastPage' = p /\ EopPtr' = EopPtr
  BY <1>1, <1>2, <1>3 DEF AtEnd, EopPtr, NextOf
<1>5. /\ \A o \in live2[p] :
            /\ o < EopPtr
            /\ mem'[p][o].message_id = page'[p].current_msg_id => o = last_msg_sent
      /\ last_msg_sent = Null => page'[p].current_msg_id = 0
      /\ last_msg_sent # Null =>
            /\ last_msg_sent \in live2[p]
            /\ mem'[p][last_msg_sent].message_id = page'[p].current_msg_id
            /\ mem'[p][last_msg_sent].tag # "END_OF_PAGE"
            /\ mem'[p][last_msg_sent].tag = "EXITING" => pc = "exited"
      /\ pc # "exited" => nsent = base2[p] + page'[p].current_msg_id
  BY <1>1, <1>2, <1>3 DEF AtEnd
<1>6. QED
  BY <1>4, <1>5 DEF AtEnd

\* Steps of the sender that commit nothing and start or end no page.
LEMMA QuietStep ==
    ASSUME IndInv, IndInv', NEW base, NEW live, Tied(base, live),
           UNCHANGED <<out_shmems, last_msg_sent, nsent, rx, recycled>>,
           unused_shmem_cache' = unused_shmem_cache \/ unused_shmem_cache' = <<>>,
           \A p \in Pages : /\ Leaves(p, base, live, base, live)
                            /\ page'[p].safe_to_unmap = page[p].safe_to_unmap,
           pc # "exited", pc' # "exited", pc' # "eop"
    PROVE  Tied(base, live)'
<1>1. /\ Len(out_shmems) \in Nat \ {0}
      /\ \A i \in 1..Len(out_shmems) : out_shmems[i] \in Pages
      /\ LastPage \in Pages /\ out_shmems[1] \in Pages /\ nsent \in Nat
      /\ LastPage' = LastPage
  BY OutPages DEF LastPage
<1>2. \A p \in Pages : Chained(p, base, live)'
  <2>1. \A p \in Pages : Chained(p, base, live)
    BY DEF Tied
  <2>2. TypeOK /\ nsent' \in Nat /\ nsent <= nsent'
    BY <1>1 DEF IndInv
  <2>3. QED
    BY <2>1, <2>2, ChainedKept
<1>3. AtEnd(base, live)'
  <2>1. Leaves(LastPage, base, live, base, live)
    BY <1>1
  <2>2. QED
    BY <1>1, <2>1, AtEndKept
<1>4. PagesLinked(base, live)'
  <2>1. ASSUME NEW i \in 1..(Len(out_shmems) - 1)
        PROVE  Linked(out_shmems[i], out_shmems[i + 1], base, live)'
    <3>1. Linked(out_shmems[i], out_shmems[i + 1], base, live)
      BY DEF Tied, PagesLinked
    <3>2. out_shmems[i] \in Pages
      BY <1>1
    <3>3. Leaves(out_shmems[i], base, live, base, live)
      BY <3>2
    <3>4. QED
      BY <3>1, <3>3 DEF Linked, Leaves
  <2>2. QED
    BY <2>1 DEF PagesLinked, Linked
<1>5. ASSUME NEW r \in Receivers \ recycled PROVE Follows(r, base, live)'
  <2>1. Follows(r, base, live) /\ rx'[r] = rx[r] /\ TypeOK
    BY DEF Tied, IndInv
  <2>2. \A i \in 1..Len(out_shmems) :
            page'[out_shmems[i]].safe_to_unmap = page[out_shmems[i]].safe_to_unmap
    BY <1>1
  <2>3. ASSUME rx[r].pc \in {"recv", "read", "mark"}
        PROVE  /\ Grows(rx[r].page, base, live, base, live)
               /\ Leaves(rx[r].page, base, live, base, live)
               /\ rx[r].page # call'.new_map
    <3>1. rx[r].page \in Pages
      BY <2>3, OutPages
    <3>2. call'.new_map = NoPage
      BY DEF IndInv, NewMapOK
    <3>3. QED
      BY <2>1, <3>1, <3>2, GrowsIfLeft, OwnedPages
  <2>4. nsent' \in Nat /\ nsent <= nsent' /\ NewUnmarked'
    BY <1>1 DEF NewUnmarked
  <2>5. QED
    BY <2>1, <2>2, <2>3, <2>4, StaysTied
<1>6. NeverRecycled'
  BY DEF Tied, NeverRecycled
<1>7. QED
  BY <1>2, <1>3, <1>4, <1>5, <1>6 DEF Tied

\* Steps that only move between the stages of a call.
LEMMA ControlTied ==
    ASSUME IndInv, IndInv', NEW base, NEW live, Tied(base, live),
           \/ \E len \in Lens : SendBuf(len)
           \/ SendExiting \/ AllocPanics \/ PageFull \/ StackOverflow \/ SlowReceiver
           \/ NewShmemFails
    PROVE  Tied(base, live)'
<1>1. /\ UNCHANGED <<page, mem, out_shmems, last_msg_sent, nsent, rx, recycled>>
      /\ unused_shmem_cache' = unused_shmem_cache \/ unused_shmem_cache' = <<>>
      /\ pc # "exited" /\ pc' # "exited" /\ pc' # "eop"
  BY DEF SendBuf, SendExiting, AllocNext, AllocPanics, PageFull, StackOverflow, SlowReceiver,
         NewShmemFails, ReturnErr, txvars
<1>2. \A p \in Pages : Leaves(p, base, live, base, live)
  BY <1>1 DEF Tied, Chained, Leaves
<1>3. QED
  BY <1>1, <1>2, QuietStep

\* Where the next message goes, and that no committed message lies there or behind.
LEMMA EndOfChain ==
    ASSUME IndInv, NEW base, NEW live, Tied(base, live)
    PROVE  /\ EopPtr \in Nat
           /\ live[LastPage] \subseteq DOMAIN mem[LastPage]
           /\ live[LastPage] \subseteq Nat
           /\ \A o \in live[LastPage] : o < EopPtr
           /\ pc # "alloced" => page[LastPage].size_used = EopPtr
           /\ pc = "alloced" => call.msg = EopPtr
           /\ EopPtr \in DOMAIN mem[LastPage]
<1>1. LastPage \in Pages
  BY OutPages
<1>2. /\ MsgsTyped(mem[LastPage]) /\ Chained(LastPage, base, live) /\ AtEnd(base, live)
      /\ PlacedOK
  BY <1>1 DEF IndInv, TypeOK, Tied
<1>3. /\ live[LastPage] \subseteq DOMAIN mem[LastPage] /\ DOMAIN mem[LastPage] \subseteq Nat
      /\ \A o \in live[LastPage] : o < EopPtr
  BY <1>2 DEF Chained, AtEnd, MsgsTyped
<1>4. EopPtr \in DOMAIN mem[LastPage]
  BY <1>2 DEF PlacedOK
<1>5. QED
  BY <1>2, <1>3, <1>4 DEF PlacedOK

\* alloc_next_if_space and shrink_alloced write behind the last committed message.
LEMMA PlacedTied ==
    ASSUME IndInv, IndInv', NEW base, NEW live, Tied(base, live),
           NEW header \in Msg,
           mem' = [mem EXCEPT ![LastPage] = PlaceMsg(@, EopPtr, header)],
           UNCHANGED <<out_shmems, unused_shmem_cache, last_msg_sent, nsent, rx, recycled>>,
           \A p \in Pages : /\ page'[p].current_msg_id = page[p].current_msg_id
                            /\ page'[p].size_total = page[p].size_total
                            /\ page'[p].safe_to_unmap = page[p].safe_to_unmap,
           pc # "exited", pc' # "exited", pc' # "eop"
    PROVE  Tied(base, live)'
<1> DEFINE p == LastPage
           n == PlaceMsg(mem[p], EopPtr, header)
<1>1. p \in Pages /\ MsgsTyped(mem[p]) /\ DOMAIN mem = Pages
  BY OutPages DEF IndInv, TypeOK
<1>2. Placed(mem[p], EopPtr, header, n, NextMsgPtr(EopPtr, header.buf_len_padded))
  BY <1>1, EndOfChain, PlaceMsgFacts
<1>3. \A o \in live[p] : o \in DOMAIN n /\ n[o] = mem[p][o]
  BY <1>2, EndOfChain DEF Placed
<1> HIDE DEF n
<1>4. mem'[p] = n /\ \A q \in Pages \ {p} : mem'[q] = mem[q]
  BY <1>1 DEF n
<1>5. ASSUME NEW q \in Pages PROVE Leaves(q, base, live, base, live)
  <2>1. live[q] \subseteq DOMAIN mem[q]
    BY DEF Tied, Chained
  <2>2. QED
    BY <1>3, <1>4, <2>1 DEF Leaves
<1>6. QED
  BY <1>5, QuietStep

\* A message is allocated; nobody can see it yet.
LEMMA AllocTied ==
    ASSUME IndInv, IndInv', NEW base, NEW live, Tied(base, live), AllocNextIfSpace
    PROVE  Tied(base, live)'
<1> DEFINE p   == LastPage
           msg == page[p].size_used
           id  == IF last_msg_sent = Null THEN 1 ELSE mem[p][last_msg_sent].message_id + 1
           padded == PaddedLen(msg, call.len)
           header == [BlankMsg EXCEPT !.tag = "UNINITIALIZED", !.message_id = id,
                                      !.buf_len_padded = padded]
<1>1. /\ p \in Pages /\ msg \in Nat /\ page \in [Pages -> PageHeader]
  BY CurrentPage DEF IndInv, TypeOK
<1>2. padded \in Nat
  BY <1>1, PaddedLenFacts, ChannelAssumption DEF IndInv, TypeOK, CallState
<1>3. id \in Nat
  BY <1>1 DEF IndInv, PlacedOK, TypeOK, MsgsTyped, Msg
<1> HIDE DEF padded, id
<1>4. header \in Msg
  BY <1>2, <1>3 DEF BlankMsg, Msg, Tags
<1>5. msg = EopPtr
  BY EndOfChain DEF AllocNextIfSpace
<1> HIDE DEF header
<1>6. /\ mem' = [mem EXCEPT ![p] = PlaceMsg(@, msg, header)]
      /\ page' = [page EXCEPT ![p].size_used = msg + AllocLen(msg, call.len),
                              ![p].max_alloc_size = larger(@, AllocLen(msg, call.len))]
      /\ UNCHANGED <<out_shmems, unused_shmem_cache, last_msg_sent, nsent, rx, recycled>>
      /\ pc # "exited" /\ pc' # "exited" /\ pc' # "eop"
  BY DEF AllocNextIfSpace, header, padded, id
<1>7. \A q \in Pages : /\ page'[q].current_msg_id = page[q].current_msg_id
                       /\ page'[q].size_total = page[q].size_total
                       /\ page'[q].safe_to_unmap = page[q].safe_to_unmap
  BY <1>1, <1>6 DEF PageHeader
<1>8. QED
  BY <1>4, <1>5, <1>6, <1>7, PlacedTied

\* A message is shrunk before anybody can see it.
LEMMA ShrinkTied ==
    ASSUME IndInv, IndInv', NEW base, NEW live, Tied(base, live),
           NEW len \in Lens, ShrinkAlloced(len)
    PROVE  Tied(base, live)'
<1> DEFINE p   == LastPage
           msg == call.msg
           old == mem[p][msg].buf_len_padded
           new == PaddedLen(msg, len)
           header == [mem[p][msg] EXCEPT !.buf_len_padded = new]
<1>1. /\ p \in Pages /\ page \in [Pages -> PageHeader]
  BY CurrentPage DEF IndInv, TypeOK
<1>2. pc = "alloced" /\ msg \in Nat /\ mem[p][msg] \in Msg /\ msg = EopPtr
  BY AllocedMsg, EndOfChain DEF ShrinkAlloced
<1>3. new \in Nat
  BY <1>2, PaddedLenFacts, ChannelAssumption
<1> HIDE DEF new
<1>4. header \in Msg
  BY <1>2, <1>3 DEF Msg
<1> HIDE DEF header
<1>5. /\ mem' = [mem EXCEPT ![p] = PlaceMsg(@, msg, header)]
      /\ page' = [page EXCEPT ![p].size_used = @ - old + new]
      /\ UNCHANGED <<out_shmems, unused_shmem_cache, last_msg_sent, nsent, rx, recycled>>
      /\ pc' = pc
  BY DEF ShrinkAlloced, header, new, txvars
<1>6. \A q \in Pages : /\ page'[q].current_msg_id = page[q].current_msg_id
                       /\ page'[q].size_total = page[q].size_total
                       /\ page'[q].safe_to_unmap = page[q].safe_to_unmap
  BY <1>1, <1>5 DEF PageHeader
<1>7. QED
  BY <1>2, <1>4, <1>5, <1>6, PlacedTied

\* An allocated message is given back before anybody can see it.
LEMMA CancelTied ==
    ASSUME IndInv, IndInv', NEW base, NEW live, Tied(base, live), CancelSend
    PROVE  Tied(base, live)'
<1> DEFINE p == LastPage
<1>1. /\ p \in Pages /\ page \in [Pages -> PageHeader] /\ DOMAIN mem = Pages
  BY CurrentPage DEF IndInv, TypeOK
<1>2. /\ pc = "alloced" /\ pc' = "idle"
      /\ mem' = [mem EXCEPT ![p][call.msg].tag = "UNSET"]
      /\ page' = [page EXCEPT ![p].size_used = @ - GivenBack(p)]
      /\ UNCHANGED <<out_shmems, unused_shmem_cache, last_msg_sent, nsent, rx, recycled>>
  BY DEF CancelSend
<1>3. /\ call.msg = EopPtr /\ EopPtr \in Nat
      /\ live[p] \subseteq DOMAIN mem[p] /\ live[p] \subseteq Nat
      /\ \A o \in live[p] : o < EopPtr
  BY <1>2, EndOfChain
<1>4. \A o \in live[p] : o # call.msg
  BY <1>3
<1> HIDE DEF p
<1>5. \A o \in live[p] : o \in DOMAIN mem'[p] /\ mem'[p][o] = mem[p][o]
  BY <1>1, <1>2, <1>3, <1>4
<1>6. \A q \in Pages : /\ page'[q].current_msg_id = page[q].current_msg_id
                       /\ page'[q].size_total = page[q].size_total
                       /\ page'[q].safe_to_unmap = page[q].safe_to_unmap
  BY <1>1, <1>2 DEF PageHeader
<1>7. \A q \in Pages \ {p} : mem'[q] = mem[q]
  BY <1>1, <1>2
<1>8. ASSUME NEW q \in Pages PROVE Leaves(q, base, live, base, live)
  <2>1. live[q] \subseteq DOMAIN mem[q]
    BY DEF Tied, Chained
  <2>2. QED
    BY <1>5, <1>6, <1>7, <2>1 DEF Leaves
<1>9. QED
  BY <1>2, <1>6, <1>8, QuietStep

\* send() and alloc_eop write a header behind the last message and publish its id.
Commits(header, live, live2) ==
    /\ live2 = [live EXCEPT ![LastPage] = @ \cup {EopPtr}]
    /\ header.message_id = page[LastPage].current_msg_id + 1
    /\ header.tag \in CallTags \cup {"END_OF_PAGE"}
    /\ header.tag \in {"DATA", "SLOW_RECEIVER"} =>
           header.val = nsent + 1 /\ nsent' = nsent + 1
    /\ nsent' \in {nsent, nsent + 1}
    /\ InShmem(EopPtr, MapSize(LastPage), header.buf_len_padded)
    /\ mem' = [mem EXCEPT ![LastPage][EopPtr] = header]
    /\ page'[LastPage].current_msg_id = page[LastPage].current_msg_id + 1
    /\ \A q \in Pages \ {LastPage} : page'[q].current_msg_id = page[q].current_msg_id
    /\ \A q \in Pages : page'[q].size_total = page[q].size_total

\* What becomes of the chains
Committed(header, base, live, live2) ==
    /\ \A q \in Pages : Chained(q, base, live2)'
    /\ \A q \in Pages : Grows(q, base, live, base, live2)
    /\ \A q \in Pages \ {LastPage} : Leaves(q, base, live, base, live2)
    /\ mem'[LastPage][EopPtr] = header
    /\ \A o \in live[LastPage] :
          /\ mem'[LastPage][o] = mem[LastPage][o]
          /\ mem'[LastPage][o].message_id # header.message_id
    /\ live2[LastPage] = live[LastPage] \cup {EopPtr}

\* A committed message becomes part of the chain of its page.
LEMMA CommitChained ==
    ASSUME IndInv, NEW base \in [Pages -> Nat], NEW live \in [Pages -> SUBSET Nat],
           Tied(base, live), pc # "exited",
           NEW header \in Msg, NEW live2, Commits(header, live, live2)
    PROVE  Committed(header, base, live, live2)
<1>0. PICK p, e, cur : p = LastPage /\ e = EopPtr /\ cur = page[p].current_msg_id
  OBVIOUS
<1>1. /\ p \in Pages /\ cur \in Nat /\ nsent \in Nat /\ nsent' \in Nat /\ nsent <= nsent'
      /\ DOMAIN mem = Pages /\ MsgsTyped(mem[p]) /\ TypeOK
  <2>1. p \in Pages /\ cur \in Nat /\ nsent \in Nat /\ TypeOK
    BY <1>0, CurrentPage, OutPages DEF IndInv
  <2>2. nsent' \in {nsent, nsent + 1}
    BY DEF Commits
  <2>3. nsent' \in Nat /\ nsent <= nsent'
    BY <2>1, <2>2
  <2>4. QED
    BY <2>1, <2>3 DEF TypeOK
<1>2. /\ e \in Nat /\ live[p] \subseteq DOMAIN mem[p] /\ live[p] \subseteq Nat
      /\ \A o \in live[p] : o < e
      /\ e \in DOMAIN mem[p]
  BY <1>0, EndOfChain
<1>3. \A o \in live[p] : o # e
  BY <1>2
<1>4. Chained(p, base, live) /\ AtEnd(base, live)
  BY <1>1 DEF Tied
<1>4a. e = IF last_msg_sent = Null THEN 0 ELSE NextOf(p, last_msg_sent)
  BY <1>0 DEF EopPtr
<1>5. live2[p] = live[p] \cup {e} /\ \A q \in Pages \ {p} : live2[q] = live[q]
  BY <1>0, <1>1 DEF Commits
<1>6. /\ mem'[p][e] = header /\ DOMAIN mem'[p] = DOMAIN mem[p]
      /\ \A o \in live[p] : mem'[p][o] = mem[p][o]
      /\ \A q \in Pages \ {p} : mem'[q] = mem[q]
  BY <1>0, <1>1, <1>2, <1>3 DEF Commits
<1>7. page'[p].current_msg_id = cur + 1 /\ header.message_id = cur + 1
  BY <1>0 DEF Commits
<1>8. \A o \in live[p] : mem[p][o].message_id \in 1..cur
  BY <1>0, <1>4 DEF Chained
<1>9. ASSUME NEW q \in Pages \ {p} PROVE Leaves(q, base, live, base, live2)
  <2>1. live[q] \subseteq DOMAIN mem[q]
    BY DEF Tied, Chained
  <2>2. QED
    BY <1>5, <1>6, <1>9, <2>1, <1>0 DEF Leaves, Commits
<1>10. ASSUME NEW q \in Pages PROVE Grows(q, base, live, base, live2)
  <2>1. CASE q = p
    BY <1>1, <1>5, <1>6, <1>7, <2>1, <1>0 DEF Grows
  <2>2. CASE q # p
    BY <1>1, <1>9, <2>2, GrowsIfLeft
  <2>3. QED
    BY <2>1, <2>2
<1>11. Chained(p, base, live2)'
  <2>1. MapSize(p)' = MapSize(p)
    BY <1>0, <1>1 DEF MapSize, Commits
  <2>2. live2[p] \subseteq DOMAIN mem'[p]
    BY <1>2, <1>5, <1>6
  <2>3. 0 \in live2[p] /\ mem'[p][0].message_id = 1
    <3>1. CASE last_msg_sent = Null
      <4>1. e = 0 /\ cur = 0
        BY <1>4, <1>4a, <1>0, <3>1 DEF AtEnd
      <4>2. QED
        BY <1>5, <1>6, <1>7, <4>1
    <3>2. CASE last_msg_sent # Null
      <4>1. last_msg_sent \in live[p]
        BY <1>4, <1>0, <3>2 DEF AtEnd
      <4>2. cur > 0
        BY <1>1, <1>8, <4>1
      <4>3. 0 \in live[p] /\ mem[p][0].message_id = 1
        BY <1>0, <1>4, <4>2 DEF Chained
      <4>4. QED
        BY <1>5, <1>6, <4>3
    <3>3. QED
      BY <3>1, <3>2
  <2>4. ASSUME NEW o \in live2[p]
        PROVE  /\ mem'[p][o].message_id \in 1..page'[p].current_msg_id
               /\ InShmem(o, MapSize(p)', mem'[p][o].buf_len_padded)
               /\ mem'[p][o].tag \in CallTags \cup {"END_OF_PAGE"}
               /\ mem'[p][o].tag \in {"DATA", "SLOW_RECEIVER"} =>
                     /\ mem'[p][o].val = base[p] + mem'[p][o].message_id
                     /\ mem'[p][o].val <= nsent'
    <3>1. CASE o = e
      <4>1. nsent = base[p] + cur /\ base[p] \in Nat
        BY <1>1, <1>4, <1>0 DEF AtEnd
      <4>2. header.message_id \in 1..(cur + 1)
        BY <1>1, <1>7
      <4>3. ASSUME header.tag \in {"DATA", "SLOW_RECEIVER"}
            PROVE  header.val = base[p] + header.message_id /\ header.val <= nsent'
        <5>1. header.val = nsent + 1 /\ nsent' = nsent + 1
          BY <4>3 DEF Commits
        <5>2. QED
          BY <1>1, <1>7, <4>1, <5>1
      <4>4. InShmem(e, MapSize(p), header.buf_len_padded)
        BY <1>0 DEF Commits
      <4>5. header.tag \in CallTags \cup {"END_OF_PAGE"}
        BY DEF Commits
      <4>6. mem'[p][o] = header /\ page'[p].current_msg_id = cur + 1 /\ MapSize(p)' = MapSize(p)
        BY <1>6, <1>7, <2>1, <3>1
      <4>7. QED
        BY <3>1, <4>2, <4>3, <4>4, <4>5, <4>6
    <3>2. CASE o \in live[p]
      <4>1. /\ mem[p][o].message_id \in 1..cur
            /\ InShmem(o, MapSize(p), mem[p][o].buf_len_padded)
            /\ mem[p][o].tag \in CallTags \cup {"END_OF_PAGE"}
            /\ mem[p][o].tag \in {"DATA", "SLOW_RECEIVER"} =>
                  /\ mem[p][o].val = base[p] + mem[p][o].message_id
                  /\ mem[p][o].val <= nsent
        BY <1>0, <1>4, <3>2 DEF Chained
      <4>2. mem[p][o].val \in Nat
        BY <1>1, <1>2, <3>2 DEF MsgsTyped, Msg
      <4>3. mem[p][o].val <= nsent => mem[p][o].val <= nsent'
        BY <1>1, <4>2
      <4>4. mem[p][o].message_id \in 1..(cur + 1)
        BY <1>1, <4>1
      <4>5. QED
        BY <1>6, <1>7, <2>1, <3>2, <4>1, <4>3, <4>4
    <3>3. QED
      BY <1>5, <3>1, <3>2
  <2>5. ASSUME NEW o \in live2[p], mem'[p][o].message_id < page'[p].current_msg_id
        PROVE  /\ mem'[p][o].tag \in {"DATA", "SLOW_RECEIVER"}
               /\ NextOf(p, o)' \in live2[p]
               /\ mem'[p][NextOf(p, o)'].message_id = mem'[p][o].message_id + 1
               /\ NextInMap(NextOf(p, o)', MapSize(p)', MSG_HEADER_LEN)
    <3>1. o \in live[p]
      BY <1>1, <1>5, <1>6, <1>7, <2>5
    <3>2. NextOf(p, o)' = NextOf(p, o)
      BY <1>6, <3>1 DEF NextOf
    <3>3. CASE mem[p][o].message_id < cur
      <4>1. /\ mem[p][o].tag \in {"DATA", "SLOW_RECEIVER"}
            /\ NextOf(p, o) \in live[p]
            /\ mem[p][NextOf(p, o)].message_id = mem[p][o].message_id + 1
            /\ NextInMap(NextOf(p, o), MapSize(p), MSG_HEADER_LEN)
        BY <1>0, <1>4, <3>1, <3>3 DEF Chained
      <4>2. /\ mem'[p][o] = mem[p][o] /\ mem'[p][NextOf(p, o)] = mem[p][NextOf(p, o)]
            /\ NextOf(p, o) \in live2[p]
        BY <1>5, <1>6, <3>1, <4>1
      <4>3. QED
        BY <2>1, <3>2, <4>1, <4>2
    <3>4. CASE mem[p][o].message_id = cur
      <4>1. o = last_msg_sent
        BY <1>4, <1>0, <3>1, <3>4 DEF AtEnd
      <4>2. last_msg_sent # Null
        BY <1>2, <3>1, <4>1 DEF Null
      <4>3. mem[p][o].tag # "END_OF_PAGE" /\ mem[p][o].tag # "EXITING"
        BY <1>4, <1>0, <4>1, <4>2 DEF AtEnd
      <4>4. mem[p][o].tag \in CallTags \cup {"END_OF_PAGE"}
        BY <1>4, <3>1 DEF Chained
      <4>5. mem[p][o].tag \in {"DATA", "SLOW_RECEIVER"}
        BY <4>3, <4>4 DEF CallTags
      <4>6. NextOf(p, o) = e
        BY <1>4a, <4>1, <4>2
      <4>7. NextInMap(e, MapSize(p), MSG_HEADER_LEN)
        <5>1. InShmem(e, MapSize(p), header.buf_len_padded) /\ header.buf_len_padded \in Nat
          BY <1>0 DEF Msg, Commits
        <5>2. page[p].size_total \in Nat /\ MapSize(p) = page[p].size_total + 48
          BY <1>1 DEF TypeOK, PageHeader, MapSize, PAGE_HEADER_LEN
        <5>3. QED
          BY <1>2, <5>1, <5>2 DEF InShmem, NextInMap, MSG_HEADER_LEN, PAGE_HEADER_LEN
      <4>8. /\ mem'[p][o] = mem[p][o] /\ mem'[p][e].message_id = mem[p][o].message_id + 1
            /\ NextOf(p, o)' = e /\ e \in live2[p]
        BY <1>5, <1>6, <1>7, <3>1, <3>2, <3>4, <4>6
      <4>9. QED
        BY <2>1, <4>5, <4>7, <4>8
    <3>5. mem[p][o].message_id < cur \/ mem[p][o].message_id = cur
      <4>1. mem[p][o].message_id \in 1..cur
        BY <1>8, <3>1
      <4>2. \A d \in 1..cur : d < cur \/ d = cur
        BY <1>1
      <4>3. QED
        BY <4>1, <4>2
    <3>6. QED
      BY <3>3, <3>4, <3>5
  <2>6. QED
    BY <2>2, <2>3, <2>4, <2>5 DEF Chained, NextOf
<1>12. ASSUME NEW q \in Pages PROVE Chained(q, base, live2)'
  <2>1. CASE q = p
    BY <1>11, <2>1 DEF Chained
  <2>2. CASE q # p
    <3>1. Chained(q, base, live) /\ Leaves(q, base, live, base, live2)
      BY <1>9, <2>2 DEF Tied
    <3>2. QED
      BY <1>1, <3>1, ChainedKept
  <2>3. QED
    BY <2>1, <2>2
<1>13. \A o \in live[p] : mem'[p][o].message_id # header.message_id
  BY <1>1, <1>6, <1>7, <1>8
<1>14. QED
  BY <1>5, <1>6, <1>9, <1>10, <1>12, <1>13, <1>0 DEF Committed

\* send() commits a message, and a receiver at the end of the page can go on to it.
LEMMA SendTied ==
    ASSUME IndInv, IndInv', NEW base \in [Pages -> Nat], NEW live \in [Pages -> SUBSET Nat],
           Tied(base, live), Send
    PROVE  \E live2 \in [Pages -> SUBSET Nat] : Tied(base, live2)'
<1>0. PICK p, e, cur : p = LastPage /\ e = EopPtr /\ cur = page[p].current_msg_id
  OBVIOUS
<1> DEFINE live2 == [live EXCEPT ![p] = @ \cup {e}]
           val == IF call.tag = "EXITING" THEN 0 ELSE nsent + 1
           header == [mem[p][e] EXCEPT !.tag = call.tag, !.val = val, !.message_id = cur + 1]
<1>1. /\ pc = "alloced" /\ call.msg = e /\ e \in Nat /\ p \in Pages /\ cur \in Nat
      /\ nsent \in Nat /\ page \in [Pages -> PageHeader] /\ call.tag \in CallTags
      /\ mem[p][e] \in Msg
      /\ page[p].size_used = e + 40 + mem[p][e].buf_len_padded
      /\ mem[p][e].buf_len_padded \in Nat
  BY <1>0, CurrentPage, AllocedMsg, EndOfChain
     DEF Send, IndInv, TypeOK, CallState, MSG_HEADER_LEN
<1>2. live2 \in [Pages -> SUBSET Nat]
  BY <1>1
<1>3. val \in Nat
  BY <1>1
<1>4. /\ header \in Msg /\ header.tag = call.tag /\ header.val = val
      /\ header.message_id = cur + 1 /\ header.buf_len_padded = mem[p][e].buf_len_padded
  <2> HIDE DEF val
  <2>1. cur + 1 \in Nat /\ call.tag \in Tags
    BY <1>1 DEF Tags
  <2>2. QED
    BY <1>1, <1>3, <2>1 DEF Msg
<1>5. /\ mem' = [mem EXCEPT ![p][e] = header]
      /\ page' = [page EXCEPT ![p].current_msg_id = cur + 1]
      /\ last_msg_sent' = e
      /\ nsent' = IF call.tag = "EXITING" THEN nsent ELSE nsent + 1
      /\ pc' = CASE call.tag = "SLOW_RECEIVER" -> "panicked"
                 [] call.tag = "EXITING"       -> "exited"
                 [] OTHER                      -> "idle"
      /\ UNCHANGED <<out_shmems, unused_shmem_cache, rx, recycled>>
  BY <1>0, <1>1 DEF Send
<1>6. /\ page'[p].current_msg_id = cur + 1
      /\ \A q \in Pages \ {p} : page'[q].current_msg_id = page[q].current_msg_id
      /\ \A q \in Pages : /\ page'[q].size_total = page[q].size_total
                          /\ page'[q].safe_to_unmap = page[q].safe_to_unmap
  BY <1>1, <1>5 DEF PageHeader
<1>7. InShmem(e, MapSize(p), header.buf_len_padded)
  <2>1. /\ page[p].size_total \in Nat /\ MapSize(p) = page[p].size_total + 48
        /\ page[p].size_used + 128 <= page[p].size_total
    BY <1>0, <1>1, EopSize DEF PageHeader, MapSize, PAGE_HEADER_LEN, IndInv, EopFits
  <2>2. QED
    BY <1>1, <1>4, <2>1 DEF InShmem, MSG_HEADER_LEN, PAGE_HEADER_LEN
<1>8. /\ header.tag \in {"DATA", "SLOW_RECEIVER"} =>
             header.val = nsent + 1 /\ nsent' = nsent + 1
      /\ nsent' \in {nsent, nsent + 1} /\ nsent' \in Nat /\ nsent <= nsent'
  BY <1>1, <1>4, <1>5
<1> HIDE DEF live2, header, val
<1>9. /\ \A q \in Pages : Chained(q, base, live2)'
      /\ \A q \in Pages : Grows(q, base, live, base, live2)
      /\ \A q \in Pages \ {p} : Leaves(q, base, live, base, live2)
      /\ mem'[p][e] = header
      /\ \A o \in live[p] : mem'[p][o].message_id # cur + 1
      /\ live2[p] = live[p] \cup {e}
  <2>1. Commits(header, live, live2)
    BY <1>0, <1>1, <1>4, <1>5, <1>6, <1>7, <1>8 DEF Commits, live2
  <2>2. Committed(header, base, live, live2)
    BY <1>1, <1>4, <2>1, CommitChained
  <2>3. QED
    BY <1>0, <1>4, <2>2 DEF Committed
<1>10. AtEnd(base, live2)'
  <2>1. LastPage' = p
    BY <1>0, <1>5 DEF LastPage
  <2>2. EopPtr' = e + 40 + header.buf_len_padded
    BY <1>1, <1>5, <1>9, <2>1 DEF EopPtr, NextOf, NextMsgPtr, MSG_HEADER_LEN, Null
  <2>3. /\ live[p] \subseteq Nat /\ \A o \in live[p] : o < e
    BY <1>0, EndOfChain
  <2>4. \A o \in live2[p] : o < EopPtr'
    BY <1>1, <1>4, <1>9, <2>2, <2>3
  <2>5. \A o \in live2[p] : mem'[p][o].message_id = cur + 1 => o = e
    BY <1>9
  <2>6. e \in live2[p] /\ e # Null
    BY <1>1, <1>9 DEF Null
  <2>7. header.tag # "END_OF_PAGE" /\ (header.tag = "EXITING" => pc' = "exited") /\ pc' # "eop"
    BY <1>1, <1>4, <1>5 DEF CallTags
  <2>8. nsent = base[p] + cur /\ base[p] \in Nat
    BY <1>0, <1>1 DEF Tied, AtEnd
  <2>9. pc' # "exited" => nsent' = base[p] + (cur + 1)
    BY <1>1, <1>5, <2>8
  <2>10. QED
    BY <1>4, <1>5, <1>6, <1>9, <2>1, <2>4, <2>5, <2>6, <2>7, <2>9 DEF AtEnd
<1>11. PagesLinked(base, live2)'
  <2>1. ASSUME NEW i \in 1..(Len(out_shmems) - 1)
        PROVE  Linked(out_shmems[i], out_shmems[i + 1], base, live2)'
    <3>1. PICK x, y : x = out_shmems[i] /\ y = out_shmems[i + 1]
      OBVIOUS
    <3>2. Linked(x, y, base, live)
      BY <3>1 DEF Tied, PagesLinked
    <3>3. x \in Pages \ {p}
      <4>1. /\ i \in 1..Len(out_shmems) /\ Len(out_shmems) \in 1..Len(out_shmems)
            /\ i # Len(out_shmems)
            /\ LastPage = out_shmems[Len(out_shmems)] /\ out_shmems[i] \in Pages
        BY OutPages
      <4>2. \A j, k \in 1..Len(out_shmems) : out_shmems[j] = out_shmems[k] => j = k
        BY DEF IndInv, PagesOwnedOnce
      <4>3. QED
        BY <1>0, <3>1, <4>1, <4>2
    <3>4. Linked(x, y, base, live2)'
      BY <1>9, <3>2, <3>3, LinkedKept
    <3>5. out_shmems' = out_shmems
      BY <1>5
    <3>6. QED
      BY <3>1, <3>4, <3>5 DEF Linked
  <2>2. QED
    BY <1>5, <2>1 DEF PagesLinked, Linked
<1>12. ASSUME NEW r \in Receivers \ recycled PROVE Follows(r, base, live2)'
  <2>1. Follows(r, base, live) /\ rx'[r] = rx[r] /\ out_shmems' = out_shmems
    BY <1>5 DEF Tied
  <2>2. \A i \in 1..Len(out_shmems) :
            page'[out_shmems[i]].safe_to_unmap = page[out_shmems[i]].safe_to_unmap
    BY <1>6, OutPages
  <2>3. NewUnmarked'
    BY <1>5, <1>1 DEF NewUnmarked, CallTags
  <2>4. ASSUME rx[r].pc \in {"recv", "read", "mark"}
        PROVE  /\ Grows(rx[r].page, base, live, base, live2)
               /\ (\A i \in 1..Len(out_shmems) : rx[r].page # out_shmems[i]) =>
                     /\ Leaves(rx[r].page, base, live, base, live2)
                     /\ rx[r].page # call'.new_map
    <3>1. rx[r].page \in Pages
      BY <2>4, OutPages
    <3>2. (\A i \in 1..Len(out_shmems) : rx[r].page # out_shmems[i]) => rx[r].page # p
      BY <1>0, OutPages
    <3>3. rx[r].page # call'.new_map
      BY <1>1, <1>5, <3>1, OwnedPages DEF IndInv, NewMapOK, CallTags
    <3>4. QED
      BY <1>9, <3>1, <3>2, <3>3
  <2>5. QED
    BY <1>8, <2>1, <2>2, <2>3, <2>4, StaysTied
<1>13. NeverRecycled'
  BY <1>5 DEF Tied, NeverRecycled
<1>14. Tied(base, live2)'
  BY <1>5, <1>9, <1>10, <1>11, <1>12, <1>13 DEF Tied
<1>15. QED
  BY <1>2, <1>14

\* handle_out_eop has its new map.
LEMMA NewMapIsPage == ASSUME IndInv, pc = "eop" PROVE call.new_map \in Pages
BY ChannelAssumption DEF IndInv, NewMapOK, TypeOK, CallState, Pages, NoPage

\* END_OF_PAGE is committed; the old page leads to the new one, which is still unread.
LEMMA SendEopTied ==
    ASSUME IndInv, IndInv', NEW base \in [Pages -> Nat], NEW live \in [Pages -> SUBSET Nat],
           Tied(base, live), SendEop
    PROVE  \E live2 \in [Pages -> SUBSET Nat] : Tied(base, live2)'
<1>0. PICK p, e, cur, new, n :
          /\ p = LastPage /\ e = EopPtr /\ cur = page[p].current_msg_id
          /\ new = call.new_map /\ n = Len(out_shmems)
  OBVIOUS
<1> DEFINE live2 == [live EXCEPT ![p] = @ \cup {e}]
           header == [BlankMsg EXCEPT !.tag = "END_OF_PAGE", !.message_id = cur + 1,
                                      !.buf_len_padded = SHMEM_INFO_LEN, !.next = new]
<1>1. /\ pc = "eop" /\ e \in Nat /\ p \in Pages /\ cur \in Nat /\ n \in Nat \ {0}
      /\ nsent \in Nat /\ page \in [Pages -> PageHeader]
      /\ page[p].size_used = e /\ new \in Pages /\ out_shmems \in Seq(Pages)
      /\ \A i \in 1..n : out_shmems[i] \in Pages /\ out_shmems[i] # new
      /\ p = out_shmems[n] /\ n \in 1..n
  <2>1. /\ pc = "eop" /\ TypeOK /\ PagesOwnedOnce /\ new \in Pages
    <3>1. pc = "eop"
      BY DEF SendEop
    <3>2. QED
      BY <1>0, <3>1, NewMapIsPage DEF IndInv
  <2>2. n \in Nat \ {0} /\ n \in 1..n /\ p = out_shmems[n] /\ nsent \in Nat
    BY <1>0, OutPages
  <2>3. p \in Pages /\ cur \in Nat
    BY <1>0, CurrentPage DEF IndInv
  <2>4. e \in Nat /\ page[p].size_used = e
    BY <1>0, <2>1, EndOfChain
  <2>5. \A i \in 1..n : out_shmems[i] \in Pages /\ out_shmems[i] # new
    BY <1>0, <2>1, OutPages DEF PagesOwnedOnce
  <2>6. QED
    BY <2>1, <2>2, <2>3, <2>4, <2>5 DEF TypeOK
<1>2. live2 \in [Pages -> SUBSET Nat]
  BY <1>1
<1>3. /\ header \in Msg /\ header.tag = "END_OF_PAGE" /\ header.message_id = cur + 1
      /\ header.buf_len_padded = 32 /\ header.next = new
  <2>1. cur + 1 \in Nat
    BY <1>1
  <2>2. QED
    BY <1>1, <2>1 DEF BlankMsg, Msg, Tags, SHMEM_INFO_LEN
<1> HIDE DEF header
<1>4. /\ mem' = [mem EXCEPT ![p][e] = header]
      /\ page' = [page EXCEPT ![p].size_used = @ + EOP_MSG_SIZE, ![p].current_msg_id = cur + 1]
      /\ out_shmems' = Append(out_shmems, new)
      /\ last_msg_sent' = Null /\ pc' = "retry"
      /\ UNCHANGED <<unused_shmem_cache, nsent, rx, recycled>>
  BY <1>0 DEF SendEop, header
<1>5. /\ page'[p].current_msg_id = cur + 1
      /\ \A q \in Pages \ {p} : page'[q].current_msg_id = page[q].current_msg_id
      /\ \A q \in Pages : /\ page'[q].size_total = page[q].size_total
                          /\ page'[q].safe_to_unmap = page[q].safe_to_unmap
  <2>1. page[p] \in PageHeader /\ \A q \in Pages \ {p} : page'[q] = page[q]
    BY <1>1, <1>4
  <2>2. page'[p] = [page[p] EXCEPT !.size_used = @ + EOP_MSG_SIZE, !.current_msg_id = cur + 1]
    BY <1>1, <1>4
  <2>3. /\ page'[p].current_msg_id = cur + 1 /\ page'[p].size_total = page[p].size_total
        /\ page'[p].safe_to_unmap = page[p].safe_to_unmap
    BY <2>1, <2>2 DEF PageHeader
  <2>4. QED
    BY <2>1, <2>3
<1>6. InShmem(e, MapSize(p), header.buf_len_padded)
  <2>1. /\ page[p].size_total \in Nat /\ MapSize(p) = page[p].size_total + 48
        /\ page[p].size_used + 128 <= page[p].size_total
    BY <1>0, <1>1, EopSize DEF PageHeader, MapSize, PAGE_HEADER_LEN, IndInv, EopFits
  <2>2. PICK size \in Nat : size = page[p].size_total
    BY <2>1
  <2>3. e + 128 <= size /\ MapSize(p) = size + 48
    BY <1>1, <2>1, <2>2
  <2>4. QED
    BY <1>1, <1>3, <2>3 DEF InShmem, MSG_HEADER_LEN, PAGE_HEADER_LEN
<1> HIDE DEF live2
<1>7. /\ \A q \in Pages : Chained(q, base, live2)'
      /\ \A q \in Pages : Grows(q, base, live, base, live2)
      /\ \A q \in Pages \ {p} : Leaves(q, base, live, base, live2)
      /\ mem'[p][e] = header
      /\ \A o \in live[p] : mem'[p][o].message_id # cur + 1
      /\ live2[p] = live[p] \cup {e}
  <2>1. Commits(header, live, live2)
    BY <1>0, <1>1, <1>3, <1>4, <1>5, <1>6 DEF Commits, live2
  <2>2. Committed(header, base, live, live2)
    BY <1>1, <1>3, <2>1, CommitChained
  <2>3. QED
    BY <1>0, <1>3, <2>2 DEF Committed
<1>8. /\ Len(out_shmems') = n + 1 /\ out_shmems'[n + 1] = new
      /\ \A i \in 1..n : out_shmems'[i] = out_shmems[i]
  BY <1>0, <1>1, <1>4, AppendProperties
<1>9. /\ nsent = base[p] + cur /\ base[new] = nsent /\ page[new].current_msg_id = 0
      /\ base[p] \in Nat
  BY <1>0, <1>1 DEF Tied, AtEnd
<1>10. p # new /\ page'[new].current_msg_id = 0
  BY <1>1, <1>5, <1>9
<1>11. AtEnd(base, live2)'
  <2>1. LastPage' = new
    BY <1>8 DEF LastPage
  <2>2. Chained(new, base, live2)'
    BY <1>1, <1>7
  <2>3. live2[new] = {}
    <3>1. ASSUME NEW o \in live2[new] PROVE FALSE
      <4>1. mem'[new][o].message_id \in 1..0
        BY <1>10, <2>2 DEF Chained
      <4>2. QED
        BY <4>1
    <3>2. QED
      BY <3>1
  <2>4. nsent' = base[new] + page'[new].current_msg_id
    BY <1>1, <1>4, <1>9, <1>10
  <2>5. QED
    BY <1>4, <1>10, <2>1, <2>3, <2>4 DEF AtEnd
<1>12. PagesLinked(base, live2)'
  <2>1. ASSUME NEW i \in 1..(Len(out_shmems') - 1)
        PROVE  \E x, y : /\ x = out_shmems'[i] /\ y = out_shmems'[i + 1]
                         /\ Linked(x, y, base, live2)'
    <3>1. i \in 1..n /\ i + 1 \in 1..(n + 1)
      BY <1>1, <1>8
    <3>2. PICK x, y : x = out_shmems'[i] /\ y = out_shmems'[i + 1]
      OBVIOUS
    <3>3. CASE i = n
      <4>1. x = p /\ y = new
        BY <1>1, <1>8, <3>2, <3>3
      <4>2. base[new] + 1 = base[p] + (cur + 1)
        <5>1. PICK b \in Nat : b = base[p]
          BY <1>9
        <5>2. base[new] = b + cur
          BY <1>9, <5>1
        <5>3. cur \in Nat /\ b + cur + 1 = b + (cur + 1)
          BY <1>1
        <5>4. QED
          BY <5>1, <5>2, <5>3
      <4>3. Linked(x, y, base, live2)'
        BY <1>3, <1>5, <1>7, <4>1, <4>2 DEF Linked
      <4>4. QED
        BY <3>2, <4>3
    <3>4. CASE i # n
      <4>1. i \in 1..(n - 1) /\ i + 1 \in 1..n
        BY <1>1, <3>1, <3>4
      <4>2. x = out_shmems[i] /\ y = out_shmems[i + 1]
        BY <1>8, <3>1, <3>2, <4>1
      <4>3. Linked(x, y, base, live)
        BY <1>0, <4>1, <4>2 DEF Tied, PagesLinked
      <4>4. x \in Pages \ {p}
        BY <1>0, <1>1, <3>1, <3>4, <4>2 DEF IndInv, PagesOwnedOnce
      <4>5. Linked(x, y, base, live2)'
        BY <1>7, <4>3, <4>4, LinkedKept
      <4>6. QED
        BY <3>2, <4>5
    <3>5. QED
      BY <3>3, <3>4
  <2>2. ASSUME NEW i \in 1..(Len(out_shmems') - 1)
        PROVE  Linked(out_shmems[i], out_shmems[i + 1], base, live2)'
    <3>1. PICK x, y : /\ x = out_shmems'[i] /\ y = out_shmems'[i + 1]
                      /\ Linked(x, y, base, live2)'
      BY <2>1
    <3>2. QED
      BY <3>1 DEF Linked
  <2>3. QED
    BY <2>2 DEF PagesLinked
<1>13. ASSUME NEW r \in Receivers \ recycled PROVE Follows(r, base, live2)'
  <2>1. Follows(r, base, live) /\ rx'[r] = rx[r] /\ TypeOK
    BY <1>4 DEF Tied, IndInv
  <2>2. KeepPagesForever \/ ~page[new].safe_to_unmap
    BY <1>0, <1>1, <2>1 DEF Follows, NewUnmarked
  <2>3. ASSUME NEW i \in 1..(n + 1), UnmarkedFrom(i) PROVE UnmarkedFrom(i)'
    <3>1. ASSUME ~KeepPagesForever, NEW j \in i..(n + 1)
          PROVE  ~page'[out_shmems'[j]].safe_to_unmap
      <4>1. CASE j = n + 1
        BY <1>1, <1>5, <1>8, <2>2, <3>1, <4>1
      <4>2. CASE j # n + 1
        <5>1. j \in i..n /\ j \in 1..n
          BY <1>1, <4>2
        <5>2. ~page[out_shmems[j]].safe_to_unmap
          BY <1>0, <2>3, <3>1, <5>1 DEF UnmarkedFrom
        <5>3. QED
          BY <1>1, <1>5, <1>8, <5>1, <5>2
      <4>3. QED
        BY <4>1, <4>2
    <3>2. QED
      BY <1>8, <3>1 DEF UnmarkedFrom
  <2>4. ASSUME rx[r].pc \in {"recv", "read", "mark"}
        PROVE  /\ OnTrack(rx[r].page, base, live2)'
               /\ Grows(rx[r].page, base, live, base, live2)
    <3>1. PICK x : x = rx[r].page
      OBVIOUS
    <3>2. rx'[r].page = x /\ OnTrack(x, base, live) /\ x \in Pages
      BY <2>1, <2>4, <3>1, OutPages DEF Follows
    <3>3. CASE \E i \in 1..n : x = out_shmems[i] /\ UnmarkedFrom(i + 1)
      <4>1. PICK i \in 1..n : x = out_shmems[i] /\ UnmarkedFrom(i + 1)
        BY <3>3
      <4>2. i \in 1..(n + 1) /\ i + 1 \in 1..(n + 1)
        BY <1>1
      <4>3. UnmarkedFrom(i + 1)'
        BY <2>3, <4>1, <4>2
      <4>4. i \in 1..Len(out_shmems') /\ x = out_shmems'[i]
        BY <1>8, <4>1, <4>2
      <4>5. QED
        BY <1>7, <3>1, <3>2, <4>3, <4>4 DEF OnTrack, UnmarkedFrom
    <3>4. CASE /\ ~KeepPagesForever
               /\ x # new /\ \A i \in 1..n : x # out_shmems[i]
               /\ Linked(x, out_shmems[1], base, live)
               /\ UnmarkedFrom(1)
      <4>1. x \in Pages \ {p}
        BY <1>1, <3>2, <3>4
      <4>2. Leaves(x, base, live, base, live2)
        BY <1>7, <4>1
      <4>3. 1 \in 1..n /\ 1 \in 1..(n + 1)
        BY <1>1
      <4>4. out_shmems'[1] = out_shmems[1]
        BY <1>8, <4>3
      <4>5. Linked(x, out_shmems[1], base, live2)'
        BY <3>4, <4>2, <4>4 DEF Linked, Leaves
      <4>6. UnmarkedFrom(1)'
        BY <2>3, <3>4, <4>3
      <4>7. \A i \in 1..Len(out_shmems') : x # out_shmems'[i]
        <5>1. \A i \in 1..(n + 1) : i \in 1..n \/ i = n + 1
          BY <1>1
        <5>2. QED
          BY <1>8, <3>4, <5>1
      <4>8. x # call'.new_map
        BY <1>4, <3>2, OwnedPages DEF IndInv, NewMapOK
      <4>9. QED
        BY <1>7, <3>1, <3>2, <3>4, <4>4, <4>5, <4>6, <4>7, <4>8 DEF OnTrack, Linked
    <3>5. QED
      BY <1>0, <3>2, <3>3, <3>4 DEF OnTrack
  <2>5. rx[r].pc = "detached" => out_shmems'[1] = 1 /\ UnmarkedFrom(1)'
    <3>1. 1 \in 1..n /\ 1 \in 1..(n + 1)
      BY <1>1
    <3>2. QED
      BY <1>8, <2>1, <2>3, <3>1 DEF Follows
  <2>6. ASSUME rx[r].pc = "map"
        PROVE  \E i \in 1..Len(out_shmems') : rx[r].next = out_shmems'[i] /\ UnmarkedFrom(i)'
    <3>1. PICK i \in 1..n : rx[r].next = out_shmems[i] /\ UnmarkedFrom(i)
      BY <1>0, <2>1, <2>6 DEF Follows
    <3>2. i \in 1..(n + 1) /\ out_shmems'[i] = out_shmems[i]
      BY <1>1, <1>8
    <3>3. UnmarkedFrom(i)'
      BY <2>3, <3>1, <3>2
    <3>4. QED
      BY <1>8, <3>1, <3>2, <3>3
  <2>7. nsent' \in Nat /\ nsent <= nsent' /\ NewUnmarked'
    BY <1>1, <1>4 DEF NewUnmarked
  <2>8. QED
    BY <2>1, <2>4, <2>5, <2>6, <2>7, FollowsKept
<1>14. NeverRecycled'
  BY <1>4 DEF Tied, NeverRecycled
<1>15. Tied(base, live2)'
  BY <1>4, <1>7, <1>11, <1>12, <1>13, <1>14 DEF Tied
<1>16. QED
  BY <1>2, <1>15

\* prune_old_pages and a restart take the first n pages from the sender. The reader is
\* past them, or on the last of them.
LEMMA DropTied ==
    ASSUME IndInv, IndInv', NEW base, NEW live, Tied(base, live),
           NEW n \in 0..(Len(out_shmems) - 1),
           Len(out_shmems') = Len(out_shmems) - n,
           \A i \in 1..(Len(out_shmems) - n) : out_shmems'[i] = out_shmems[n + i],
           KeepPagesForever => n = 0 /\ unused_shmem_cache' = unused_shmem_cache,
           n # 0 => \E m \in {n, n + 1} : page[out_shmems[m]].safe_to_unmap,
           UNCHANGED <<mem, last_msg_sent, nsent, rx, recycled>>,
           \A p \in Pages : /\ page'[p].current_msg_id = page[p].current_msg_id
                            /\ page'[p].size_total = page[p].size_total
                            /\ page'[p].safe_to_unmap = page[p].safe_to_unmap,
           pc # "exited", pc' # "exited", pc' # "eop"
    PROVE  Tied(base, live)'
<1>0. PICK len : len = Len(out_shmems)
  OBVIOUS
<1>1. /\ len \in Nat \ {0} /\ out_shmems \in Seq(Pages)
      /\ \A i \in 1..len : out_shmems[i] \in Pages
      /\ LastPage = out_shmems[len] /\ n \in Nat /\ n < len
      /\ nsent \in Nat /\ TypeOK
  BY <1>0, OutPages DEF IndInv, TypeOK
<1>2. /\ Len(out_shmems') = len - n
      /\ \A i \in 1..(len - n) : out_shmems'[i] = out_shmems[n + i]
  BY <1>0, <1>1
<1>3. LastPage' = LastPage
  <2>1. len - n \in 1..(len - n) /\ n + (len - n) = len
    BY <1>1
  <2>2. QED
    BY <1>1, <1>2, <2>1 DEF LastPage
<1>4. \A p \in Pages : Leaves(p, base, live, base, live)
  BY DEF Tied, Chained, Leaves
<1>5. \A p \in Pages : Chained(p, base, live)'
  <2>1. \A p \in Pages : Chained(p, base, live)
    BY DEF Tied
  <2>2. nsent' \in Nat /\ nsent <= nsent'
    BY <1>1
  <2>3. QED
    BY <1>1, <1>4, <2>1, <2>2, ChainedKept
<1>6. AtEnd(base, live)'
  <2>1. Leaves(LastPage, base, live, base, live)
    BY <1>4, OutPages
  <2>2. QED
    BY <1>3, <2>1, AtEndKept
<1>7. PagesLinked(base, live)'
  <2>1. ASSUME NEW i \in 1..(Len(out_shmems') - 1)
        PROVE  Linked(out_shmems[i], out_shmems[i + 1], base, live)'
    <3>1. /\ i \in 1..(len - n) /\ i + 1 \in 1..(len - n) /\ n + (i + 1) = (n + i) + 1
          /\ n + i \in 1..(len - 1) /\ n + i \in 1..len
      BY <1>1, <1>2
    <3>2. PICK x, y : x = out_shmems'[i] /\ y = out_shmems'[i + 1]
      OBVIOUS
    <3>3. x = out_shmems[n + i] /\ y = out_shmems[(n + i) + 1]
      BY <1>2, <3>1, <3>2
    <3>4. Linked(x, y, base, live) /\ x \in Pages
      BY <1>0, <1>1, <3>1, <3>3 DEF Tied, PagesLinked
    <3>5. Linked(x, y, base, live)'
      BY <1>4, <3>4, LinkedKept
    <3>6. QED
      BY <3>2, <3>5 DEF Linked
  <2>2. QED
    BY <2>1 DEF PagesLinked
<1>8. ASSUME NEW i \in 1..(len + 1), UnmarkedFrom(i)
      PROVE  n < i /\ i - n \in Nat /\ UnmarkedFrom(i - n)'
  <2>1. n < i
    <3>1. CASE KeepPagesForever
      BY <1>1, <3>1
    <3>2. CASE ~KeepPagesForever /\ n >= i
      <4>1. PICK m \in {n, n + 1} : page[out_shmems[m]].safe_to_unmap
        BY <1>1, <3>2
      <4>2. m \in i..len
        BY <1>1, <3>2
      <4>3. QED
        BY <1>0, <1>8, <3>2, <4>1, <4>2 DEF UnmarkedFrom
    <3>3. QED
      BY <1>1, <3>1, <3>2
  <2>2. ASSUME ~KeepPagesForever, NEW j \in (i - n)..(len - n)
        PROVE  ~page'[out_shmems'[j]].safe_to_unmap
    <3>1. j \in 1..(len - n) /\ n + j \in i..len /\ n + j \in 1..len
      BY <1>1, <2>1
    <3>2. ~page[out_shmems[n + j]].safe_to_unmap
      BY <1>0, <1>8, <2>2, <3>1 DEF UnmarkedFrom
    <3>3. QED
      BY <1>1, <1>2, <3>1, <3>2
  <2>3. i - n \in Nat
    BY <1>1, <2>1
  <2>4. UnmarkedFrom(i - n)'
    BY <1>2, <2>2 DEF UnmarkedFrom
  <2>5. QED
    BY <2>1, <2>3, <2>4
<1>9. 1 \in 1..(len + 1) /\ 1 \in 1..len
  BY <1>1
<1>10. ASSUME UnmarkedFrom(1)
       PROVE  n = 0 /\ UnmarkedFrom(1)' /\ out_shmems'[1] = out_shmems[1] /\ Len(out_shmems') = len
  <2>1. n = 0 /\ UnmarkedFrom(1 - n)' /\ 1 - n = 1
    BY <1>1, <1>8, <1>9, <1>10
  <2>2. QED
    BY <1>1, <1>2, <1>9, <2>1
<1>11. ASSUME NEW r \in Receivers \ recycled PROVE Follows(r, base, live)'
  <2>1. Follows(r, base, live) /\ rx'[r] = rx[r]
    BY DEF Tied
  <2>2. ASSUME rx[r].pc \in {"recv", "read", "mark"}
        PROVE  \E x : /\ x = rx[r].page /\ x \in Pages /\ OnTrack(x, base, live)'
    <3>1. PICK x : x = rx[r].page
      OBVIOUS
    <3>2. /\ x \in Pages /\ OnTrack(x, base, live) /\ x # call'.new_map
      <4>1. x \in Pages
        BY <2>2, <3>1, OutPages
      <4>2. call'.new_map = NoPage
        BY DEF IndInv, NewMapOK
      <4>3. QED
        BY <1>1, <1>4, <2>1, <2>2, <3>1, <4>1, <4>2, OwnedPages DEF Follows
    <3>3. CASE \E i \in 1..len : x = out_shmems[i] /\ UnmarkedFrom(i + 1)
      <4>1. PICK i \in 1..len : x = out_shmems[i] /\ UnmarkedFrom(i + 1)
        BY <3>3
      <4>2. i + 1 \in 1..(len + 1)
        BY <1>1
      <4>3. n < i + 1 /\ UnmarkedFrom((i + 1) - n)'
        BY <1>8, <4>1, <4>2
      <4>4. CASE n < i
        <5>1. i - n \in 1..(len - n) /\ n + (i - n) = i /\ (i + 1) - n = (i - n) + 1
          BY <1>1, <4>4
        <5>2. i - n \in 1..Len(out_shmems') /\ x = out_shmems'[i - n]
          BY <1>2, <4>1, <5>1
        <5>3. UnmarkedFrom((i - n) + 1)'
          BY <4>3, <5>1
        <5>4. OnTrack(x, base, live)'
          BY <5>2, <5>3 DEF OnTrack
        <5>5. QED
          BY <3>1, <3>2, <5>4
      <4>5. CASE n = i
        <5>1. UnmarkedFrom(1)' /\ ~KeepPagesForever
          <6>1. (i + 1) - n = 1 /\ n # 0
            BY <1>1, <4>5
          <6>2. QED
            BY <4>3, <6>1
        <5>2. /\ i \in 1..(len - 1) /\ 1 \in 1..(len - n)
              /\ \A j \in 1..(len - n) : n + j \in 1..len /\ n + j # i
          BY <1>1, <4>5
        <5>3. \A j \in 1..Len(out_shmems') : x # out_shmems'[j]
          <6>1. \A j \in 1..len : out_shmems[j] = out_shmems[i] => j = i
            BY <1>0 DEF IndInv, PagesOwnedOnce
          <6>2. QED
            BY <1>2, <4>1, <5>2, <6>1
        <5>4. PICK y : y = out_shmems'[1]
          OBVIOUS
        <5>5. y = out_shmems[i + 1]
          BY <1>2, <4>5, <5>2, <5>4
        <5>6. Linked(x, y, base, live)
          BY <1>0, <4>1, <5>2, <5>5 DEF Tied, PagesLinked
        <5>7. Linked(x, y, base, live)'
          BY <1>4, <3>2, <5>6, LinkedKept
        <5>8. OnTrack(x, base, live)'
          BY <3>2, <5>1, <5>3, <5>4, <5>7 DEF OnTrack, Linked
        <5>9. QED
          BY <3>1, <3>2, <5>8
      <4>6. QED
        BY <1>1, <4>3, <4>4, <4>5
    <3>4. CASE /\ ~KeepPagesForever
               /\ x # call.new_map /\ \A i \in 1..len : x # out_shmems[i]
               /\ Linked(x, out_shmems[1], base, live)
               /\ UnmarkedFrom(1)
      <4>1. /\ n = 0 /\ UnmarkedFrom(1)' /\ out_shmems'[1] = out_shmems[1]
            /\ Len(out_shmems') = len
        BY <1>10, <3>4
      <4>2. \A j \in 1..Len(out_shmems') : x # out_shmems'[j]
        BY <1>1, <1>2, <3>4, <4>1
      <4>3. PICK y : y = out_shmems'[1]
        OBVIOUS
      <4>4. Linked(x, y, base, live)'
        BY <1>4, <3>2, <3>4, <4>1, <4>3, LinkedKept
      <4>5. OnTrack(x, base, live)'
        BY <3>2, <3>4, <4>1, <4>2, <4>3, <4>4 DEF OnTrack, Linked
      <4>6. QED
        BY <3>1, <3>2, <4>5
    <3>5. QED
      BY <1>0, <3>1, <3>2, <3>3, <3>4 DEF OnTrack
  <2>9. ASSUME rx[r].pc \in {"recv", "read", "mark"}
         PROVE  /\ OnTrack(rx[r].page, base, live)'
                /\ Grows(rx[r].page, base, live, base, live)
    <3>1. PICK x : x = rx[r].page /\ x \in Pages /\ OnTrack(x, base, live)'
      BY <2>2, <2>9
    <3>2. rx[r].page = x /\ rx'[r].page = x
      BY <2>1, <3>1
    <3>3. OnTrack(rx[r].page, base, live)'
      BY <3>1, <3>2, OnTrackAfter
    <3>4. QED
      BY <1>1, <1>4, <3>1, <3>2, <3>3, GrowsIfLeft
  <2>3. rx[r].pc = "detached" => out_shmems'[1] = 1 /\ UnmarkedFrom(1)'
    BY <1>10, <2>1 DEF Follows
  <2>4. ASSUME rx[r].pc = "map"
        PROVE  \E i \in 1..Len(out_shmems') : rx[r].next = out_shmems'[i] /\ UnmarkedFrom(i)'
    <3>1. PICK i \in 1..len : rx[r].next = out_shmems[i] /\ UnmarkedFrom(i)
      BY <1>0, <2>1, <2>4 DEF Follows
    <3>2. n < i /\ UnmarkedFrom(i - n)'
      BY <1>1, <1>8, <3>1
    <3>3. i - n \in 1..(len - n) /\ n + (i - n) = i
      BY <1>1, <3>2
    <3>4. QED
      BY <1>2, <3>1, <3>2, <3>3
  <2>5. nsent' \in Nat /\ nsent <= nsent' /\ NewUnmarked'
    BY <1>1 DEF NewUnmarked
  <2>6. QED
    BY <1>1, <2>1, <2>9, <2>3, <2>4, <2>5, FollowsKept
<1>12. NeverRecycled'
  BY DEF Tied, NeverRecycled
<1>13. QED
  BY <1>5, <1>6, <1>7, <1>11, <1>12 DEF Tied

\* prune_old_pages takes marked pages only.
LEMMA PrunedAreMarked ==
    ASSUME TypeOK, Prunable # 0
    PROVE  page[out_shmems[Prunable]].safe_to_unmap
<1>1. PICK n : n = Prunable
  OBVIOUS
<1> DEFINE S == {k \in 1..(Len(out_shmems) - 1) :
                    \A i \in 1..k : page[out_shmems[i]].safe_to_unmap}
           T == 1..(n - 1)
<1>2. n \in Nat \ {0} /\ n - 1 \in Nat /\ n = Cardinality(S)
  BY <1>1, PrunableFacts DEF Prunable
<1>3. SUFFICES ASSUME ~page[out_shmems[n]].safe_to_unmap PROVE FALSE
  BY <1>1
<1>4. S \in SUBSET T
  <2>1. ASSUME NEW k \in S, ~(k \in T) PROVE FALSE
    <3>1. k \in Nat /\ k >= n /\ n \in 1..k
      BY <1>2, <2>1
    <3>2. QED
      BY <1>3, <3>1
  <2>2. QED
    BY <2>1
<1>5. IsFiniteSet(T) /\ Cardinality(T) = n - 1
  <2>1. ASSUME NEW m \in Nat PROVE IsFiniteSet(1..m) /\ Cardinality(1..m) = m
    BY FS_Interval
  <2>2. QED
    BY <1>2, <2>1
<1> HIDE DEF S, T
<1>6. Cardinality(S) <= Cardinality(T)
  BY <1>4, <1>5, FS_Subset
<1>7. QED
  BY <1>2, <1>5, <1>6

\* prune_old_pages: the reader has left the pages or is about to.
LEMMA PruneTied ==
    ASSUME IndInv, IndInv', NEW base, NEW live, Tied(base, live), PruneOldPages
    PROVE  Tied(base, live)'
<1>1. PICK n, len : n = (IF KeepPagesForever THEN 0 ELSE Prunable) /\ len = Len(out_shmems)
  OBVIOUS
<1>2. n \in 0..(len - 1) /\ len \in Nat /\ len > 0 /\ TypeOK
  BY <1>1, PrunableFacts, OwnedPages DEF IndInv
<1>3. /\ pc = "prune" /\ pc' = "map"
      /\ page' = [p \in Pages |->
                     IF \E i \in 1..n : out_shmems[i] = p
                     THEN [page[p] EXCEPT !.magic = "DEINITIALIZED"] ELSE page[p]]
      /\ out_shmems' = SubSeq(out_shmems, n + 1, len)
      /\ unused_shmem_cache' = unused_shmem_cache \o SubSeq(out_shmems, 1, n)
      /\ UNCHANGED <<mem, last_msg_sent, nsent, rx, recycled>>
  BY <1>1 DEF PruneOldPages
<1>4. /\ Len(out_shmems') = len - n
      /\ \A i \in 1..(len - n) : out_shmems'[i] = out_shmems[n + i]
  <2>1. \A i \in (n + 1)..len : out_shmems[i] \in Pages
    BY <1>1, <1>2, OutPages
  <2>2. /\ Len(out_shmems') = IF n + 1 <= len THEN len - (n + 1) + 1 ELSE 0
        /\ \A i \in 1..(len - (n + 1) + 1) : out_shmems'[i] = out_shmems[(n + 1) + i - 1]
    BY <1>2, <1>3, <2>1, SubSeqProperties
  <2>3. QED
    BY <1>2, <2>2
<1>5. ASSUME KeepPagesForever PROVE n = 0 /\ unused_shmem_cache' = unused_shmem_cache
  <2>1. n = 0 /\ unused_shmem_cache = <<>>
    BY <1>1, <1>5 DEF Tied, NeverRecycled
  <2>2. out_shmems \in Seq(Pages)
    BY <1>2 DEF TypeOK
  <2>3. SubSeq(out_shmems, 1, 0) = <<>>
    BY <2>2
  <2>4. QED
    BY <1>3, <2>1, <2>3
<1>6. n # 0 => \E m \in {n, n + 1} : page[out_shmems[m]].safe_to_unmap
  BY <1>1, <1>2, PrunedAreMarked
<1>7. \A p \in Pages : /\ page'[p].current_msg_id = page[p].current_msg_id
                       /\ page'[p].size_total = page[p].size_total
                       /\ page'[p].safe_to_unmap = page[p].safe_to_unmap
  <2>1. page \in [Pages -> PageHeader]
    BY <1>2 DEF TypeOK
  <2>2. QED
    BY <1>3, <2>1 DEF PageHeader
<1>8. /\ n \in 0..(Len(out_shmems) - 1)
      /\ Len(out_shmems') = Len(out_shmems) - n
      /\ \A i \in 1..(Len(out_shmems) - n) : out_shmems'[i] = out_shmems[n + i]
      /\ pc # "exited" /\ pc' # "exited" /\ pc' # "eop"
      /\ UNCHANGED <<mem, last_msg_sent, nsent, rx, recycled>>
  BY <1>1, <1>2, <1>3, <1>4
<1>9. QED
  BY <1>5, <1>6, <1>7, <1>8, DropTied

\* A client restarts only when the broker is on its current page.
LEMMA ReattachTied ==
    ASSUME IndInv, IndInv', NEW base, NEW live, Tied(base, live), Reattach
    PROVE  Tied(base, live)'
<1>1. PICK n, len : len = Len(out_shmems) /\ n = len - 1
  OBVIOUS
<1>2. n \in 0..(len - 1) /\ len \in Nat \ {0} /\ n + 1 = len /\ LastPage = out_shmems[len]
  BY <1>1, OutPages
<1>3. /\ pc = "idle" /\ pc' = pc /\ ~KeepPagesForever
      /\ page[LastPage].safe_to_unmap
      /\ out_shmems' = <<LastPage>>
      /\ UNCHANGED <<page, mem, last_msg_sent, nsent, rx, recycled>>
  BY DEF Reattach
<1>4. Len(out_shmems') = len - n /\ \A i \in 1..(len - n) : out_shmems'[i] = out_shmems[n + i]
  <2>1. len - n = 1
    BY <1>2
  <2>2. Len(out_shmems') = 1 /\ out_shmems'[1] = out_shmems[n + 1]
    BY <1>2, <1>3
  <2>3. QED
    BY <2>1, <2>2
<1>5. n # 0 => \E m \in {n, n + 1} : page[out_shmems[m]].safe_to_unmap
  BY <1>2, <1>3
<1>6. QED
  BY <1>1, <1>2, <1>3, <1>4, <1>5, DropTied

\* handle_out_eop starts page q: nobody reads it but receivers that count as recycled.
LEMMA StartTied ==
    ASSUME IndInv, IndInv', NEW base \in [Pages -> Nat], NEW live \in [Pages -> SUBSET Nat],
           Tied(base, live), pc = "map",
           NEW q \in Pages, NEW size, StartPage(q, size),
           \A i \in 1..Len(out_shmems) : out_shmems[i] # q,
           UNCHANGED <<out_shmems, last_msg_sent, nsent, rx>>,
           KeepPagesForever => unused_shmem_cache' = <<>>
    PROVE  \E base2 \in [Pages -> Nat], live2 \in [Pages -> SUBSET Nat] : Tied(base2, live2)'
<1>1. /\ nsent \in Nat /\ LastPage \in Pages /\ LastPage' = LastPage /\ TypeOK
      /\ Len(out_shmems) \in Nat \ {0} /\ LastPage # q
      /\ \A i \in 1..Len(out_shmems) : out_shmems[i] \in Pages \ {q}
  BY OutPages DEF LastPage, IndInv
<1>2. PICK base2 \in [Pages -> Nat], live2 \in [Pages -> SUBSET Nat] :
          base2 = [base EXCEPT ![q] = nsent] /\ live2 = [live EXCEPT ![q] = {}]
  <2>1. /\ [base EXCEPT ![q] = nsent] \in [Pages -> Nat]
        /\ [live EXCEPT ![q] = {}] \in [Pages -> SUBSET Nat]
    BY <1>1
  <2>2. QED
    BY <2>1
<1>3. /\ base2[q] = nsent /\ live2[q] = {}
      /\ \A p \in Pages \ {q} : base2[p] = base[p] /\ live2[p] = live[p]
  BY <1>2
<1>4. /\ page'[q].current_msg_id = 0 /\ page'[q].safe_to_unmap = FALSE
      /\ \A p \in Pages \ {q} : page'[p] = page[p] /\ mem'[p] = mem[p]
      /\ call'.new_map = q /\ pc' = "eop"
      /\ recycled' = recycled \cup {r \in Receivers : rx[r].page = q /\ rx[r].pc # "map"}
  BY <1>1 DEF StartPage, InitHeader, TypeOK, CallState
<1>5. ASSUME NEW p \in Pages \ {q} PROVE Leaves(p, base, live, base2, live2)
  <2>1. live[p] \subseteq DOMAIN mem[p]
    BY DEF Tied, Chained
  <2>2. QED
    BY <1>3, <1>4, <2>1 DEF Leaves
<1>6. ASSUME NEW p \in Pages PROVE Chained(p, base2, live2)'
  <2>1. CASE p = q
    BY <1>3, <1>4, <2>1 DEF Chained
  <2>2. CASE p # q
    <3>1. Chained(p, base, live) /\ Leaves(p, base, live, base2, live2)
      BY <1>5, <2>2 DEF Tied
    <3>2. nsent' \in Nat /\ nsent <= nsent'
      BY <1>1
    <3>3. QED
      BY <1>1, <3>1, <3>2, ChainedKept
  <2>3. QED
    BY <2>1, <2>2
<1>7. AtEnd(base2, live2)'
  BY <1>1, <1>3, <1>4, <1>5, AtEndKept
<1>8. PagesLinked(base2, live2)'
  <2>1. ASSUME NEW i \in 1..(Len(out_shmems') - 1)
        PROVE  Linked(out_shmems[i], out_shmems[i + 1], base2, live2)'
    <3>1. i \in 1..Len(out_shmems) /\ i + 1 \in 1..Len(out_shmems)
      BY <1>1
    <3>2. PICK x, y : x = out_shmems[i] /\ y = out_shmems[i + 1]
      OBVIOUS
    <3>3. Linked(x, y, base, live) /\ x \in Pages \ {q} /\ y \in Pages \ {q}
      BY <1>1, <3>1, <3>2 DEF Tied, PagesLinked
    <3>4. Linked(x, y, base2, live2)'
      BY <1>3, <1>5, <3>3, LinkedKept
    <3>5. QED
      BY <3>2, <3>4 DEF Linked
  <2>2. QED
    BY <2>1 DEF PagesLinked
<1>9. ASSUME NEW r \in Receivers \ recycled' PROVE Follows(r, base2, live2)'
  <2>1. Follows(r, base, live) /\ rx'[r] = rx[r]
    BY <1>4 DEF Tied
  <2>2. \A i \in 1..Len(out_shmems) :
            page'[out_shmems[i]].safe_to_unmap = page[out_shmems[i]].safe_to_unmap
    BY <1>1, <1>4
  <2>3. NewUnmarked'
    BY <1>4 DEF NewUnmarked
  <2>4. \A i \in 1..Len(out_shmems) : base2[out_shmems[i]] = base[out_shmems[i]]
    BY <1>1, <1>3
  <2>5. ASSUME rx[r].pc \in {"recv", "read", "mark"}
        PROVE  /\ Grows(rx[r].page, base, live, base2, live2)
               /\ Leaves(rx[r].page, base, live, base2, live2)
               /\ rx[r].page # call'.new_map
    <3>1. rx[r].page \in Pages \ {q}
      BY <1>4, <1>9, <2>5, OutPages
    <3>2. Leaves(rx[r].page, base, live, base2, live2)
      BY <1>5, <3>1
    <3>3. Grows(rx[r].page, base, live, base2, live2)
      BY <1>1, <3>1, <3>2, GrowsIfLeft
    <3>4. QED
      BY <1>4, <3>1, <3>2, <3>3
  <2>6. nsent' \in Nat /\ nsent <= nsent' /\ out_shmems' = out_shmems
    BY <1>1
  <2>7. QED
    BY <2>1, <2>2, <2>3, <2>4, <2>5, <2>6, StaysTied
<1>10. NeverRecycled'
  <2>1. SUFFICES ASSUME KeepPagesForever PROVE recycled' = {}
    BY DEF NeverRecycled
  <2>2. recycled = {}
    BY <2>1 DEF Tied, NeverRecycled
  <2>3. ASSUME NEW r \in Receivers, rx[r].page = q, rx[r].pc # "map" PROVE FALSE
    <3>1. Follows(r, base, live)
      BY <2>2 DEF Tied
    <3>2. q # NoPage
      BY OwnedPages DEF Pages, NoPage
    <3>3. rx[r].pc \in {"recv", "read", "mark"}
      BY <2>3, <3>1, <3>2 DEF Follows
    <3>4. OnTrack(q, base, live)
      BY <2>3, <3>1, <3>3 DEF Follows
    <3>5. QED
      BY <2>1, <3>4 DEF OnTrack
  <2>4. QED
    BY <1>4, <2>2, <2>3
<1>11. Tied(base2, live2)'
  BY <1>6, <1>7, <1>8, <1>9, <1>10 DEF Tied
<1>12. QED
  BY <1>2, <1>11

\* The page comes from the cache, or from the provider.
LEMMA NewPageTied ==
    ASSUME IndInv, IndInv', NEW base \in [Pages -> Nat], NEW live \in [Pages -> SUBSET Nat],
           Tied(base, live), UnusedShmem \/ NewShmem
    PROVE  \E base2 \in [Pages -> Nat], live2 \in [Pages -> SUBSET Nat] : Tied(base2, live2)'
<1>1. CASE UnusedShmem
  <2>1. PICK i \in CachedFit(NextMapSize) :
            /\ StartPage(unused_shmem_cache[i], MapSize(unused_shmem_cache[i]))
            /\ unused_shmem_cache' = CacheBelow(i)
    BY <1>1 DEF UnusedShmem
  <2>2. PICK q, size : q = unused_shmem_cache[i] /\ size = MapSize(unused_shmem_cache[i])
    OBVIOUS
  <2>3. i \in 1..Len(unused_shmem_cache) /\ unused_shmem_cache \in Seq(Pages)
    BY DEF CachedFit, IndInv, TypeOK
  <2>4. q \in Pages /\ \A j \in 1..Len(out_shmems) : out_shmems[j] # q
    <3>1. q \in Pages
      BY <2>2, <2>3
    <3>2. page[q].magic = "DEINITIALIZED"
      BY <2>2, <2>3 DEF IndInv, PagesOwnedOnce
    <3>3. \A j \in 1..Len(out_shmems) : page[out_shmems[j]].magic = "INITIALIZED"
      BY DEF IndInv, PagesOwnedOnce
    <3>4. QED
      BY <3>1, <3>2, <3>3
  <2>5. ~KeepPagesForever
    BY <2>3 DEF Tied, NeverRecycled
  <2>6. pc = "map" /\ UNCHANGED <<out_shmems, last_msg_sent, nsent, rx>> /\ StartPage(q, size)
    BY <1>1, <2>1, <2>2 DEF UnusedShmem
  <2>7. QED
    BY <2>4, <2>5, <2>6, StartTied
<1>2. CASE NewShmem
  <2>1. PICK q, size : q = maps + 1 /\ size = NextMapSize
    OBVIOUS
  <2>2. /\ maps < MaxPages /\ maps \in Nat /\ MaxPages \in Nat
        /\ \A j \in 1..Len(out_shmems) : out_shmems[j] <= maps /\ out_shmems[j] \in Nat
    <3>1. MaxPages \in Nat /\ maps \in 1..MaxPages /\ maps < MaxPages
      BY <1>2, ChannelAssumption DEF NewShmem, IndInv, TypeOK, Pages
    <3>2. \A j \in 1..Len(out_shmems) : out_shmems[j] <= maps /\ out_shmems[j] \in 1..MaxPages
      BY OutPages DEF IndInv, OwnedExist, Pages
    <3>3. QED
      BY <3>1, <3>2
  <2>3. q \in Pages /\ \A j \in 1..Len(out_shmems) : out_shmems[j] # q
    BY <2>1, <2>2 DEF Pages
  <2>4. /\ pc = "map" /\ UNCHANGED <<out_shmems, last_msg_sent, nsent, rx>> /\ StartPage(q, size)
        /\ unused_shmem_cache' = <<>>
    BY <1>2, <2>1 DEF NewShmem
  <2>5. QED
    BY <2>3, <2>4, StartTied
<1>3. QED
  BY <1>1, <1>2

-----------------------------------------------------------------------------
(* The steps of a receiver.                                                *)

\* A receiver that moves leaves the chains alone, and the other receivers where they are.
LEMMA ReceiverTied ==
    ASSUME IndInv, IndInv', NEW base, NEW live, Tied(base, live),
           NEW r \in Receivers, UNCHANGED <<mem, txvars, pc, recycled>>,
           \A p \in Pages : /\ page'[p].current_msg_id = page[p].current_msg_id
                            /\ page'[p].size_total = page[p].size_total,
           \A s \in Receivers \ {r} : rx'[s] = rx[s],
           r \in recycled \/ Follows(r, base, live)'
    PROVE  Tied(base, live)'
<1>1. /\ Len(out_shmems) \in Nat \ {0} /\ LastPage \in Pages /\ LastPage' = LastPage
      /\ \A i \in 1..Len(out_shmems) : out_shmems[i] \in Pages
      /\ nsent \in Nat /\ TypeOK
      /\ UNCHANGED <<out_shmems, unused_shmem_cache, last_msg_sent, call, nsent>>
  BY OutPages DEF LastPage, IndInv, txvars
<1>2. \A p \in Pages : Leaves(p, base, live, base, live)
  BY DEF Tied, Chained, Leaves
<1>3. \A p \in Pages : Chained(p, base, live)'
  <2>1. \A p \in Pages : Chained(p, base, live)
    BY DEF Tied
  <2>2. nsent' \in Nat /\ nsent <= nsent'
    BY <1>1
  <2>3. QED
    BY <1>1, <1>2, <2>1, <2>2, ChainedKept
<1>4. AtEnd(base, live)'
  <2>1. ASSUME pc = "eop"
        PROVE  base[call.new_map] = nsent /\ page'[call.new_map].current_msg_id = 0
    <3>1. base[call.new_map] = nsent /\ page[call.new_map].current_msg_id = 0
      BY <2>1 DEF Tied, AtEnd
    <3>2. call.new_map \in Pages
      BY <2>1, NewMapIsPage
    <3>3. QED
      BY <3>1, <3>2
  <2>2. Leaves(LastPage, base, live, base, live)
    BY <1>1, <1>2
  <2>3. QED
    BY <1>1, <2>1, <2>2, AtEndKept
<1>5. PagesLinked(base, live)'
  <2>1. ASSUME NEW i \in 1..(Len(out_shmems') - 1)
        PROVE  Linked(out_shmems[i], out_shmems[i + 1], base, live)'
    <3>1. i \in 1..Len(out_shmems) /\ i \in 1..(Len(out_shmems) - 1)
      BY <1>1
    <3>2. PICK x, y : x = out_shmems[i] /\ y = out_shmems[i + 1]
      OBVIOUS
    <3>3. Linked(x, y, base, live) /\ x \in Pages
      BY <1>1, <3>1, <3>2 DEF Tied, PagesLinked
    <3>4. Linked(x, y, base, live)'
      BY <1>2, <3>3, LinkedKept
    <3>5. QED
      BY <1>1, <3>2, <3>4 DEF Linked
  <2>2. QED
    BY <2>1 DEF PagesLinked
<1>6. ASSUME NEW s \in Receivers \ recycled, s # r PROVE Follows(s, base, live)'
  <2>1. Follows(s, base, live) /\ rx'[s] = rx[s]
    BY <1>6 DEF Tied
  <2>2. KeepPagesForever
    BY <1>6, ChannelAssumption
  <2>3. NewUnmarked' /\ \A i : UnmarkedFrom(i)'
    BY <2>2 DEF NewUnmarked, UnmarkedFrom
  <2>4. ASSUME rx[s].pc \in {"recv", "read", "mark"}
        PROVE  /\ OnTrack(rx[s].page, base, live)'
               /\ Grows(rx[s].page, base, live, base, live)
    <3>1. rx[s].page \in Pages
      BY <2>4, OutPages
    <3>2. \E i \in 1..Len(out_shmems) : rx[s].page = out_shmems[i]
      BY <2>1, <2>2, <2>4 DEF Follows, OnTrack
    <3>3. OnTrack(rx[s].page, base, live)'
      BY <1>1, <2>1, <2>3, <3>2 DEF OnTrack
    <3>4. QED
      BY <1>1, <1>2, <3>1, <3>3, GrowsIfLeft
  <2>5. rx[s].pc = "detached" => out_shmems'[1] = 1 /\ UnmarkedFrom(1)'
    BY <1>1, <2>1, <2>3 DEF Follows
  <2>6. rx[s].pc = "map" =>
            \E i \in 1..Len(out_shmems') : rx[s].next = out_shmems'[i] /\ UnmarkedFrom(i)'
    BY <1>1, <2>1, <2>3 DEF Follows
  <2>7. nsent' \in Nat /\ nsent <= nsent'
    BY <1>1
  <2>8. QED
    BY <1>1, <2>1, <2>3, <2>4, <2>5, <2>6, <2>7, FollowsKept
<1>7. NeverRecycled'
  BY <1>1 DEF Tied, NeverRecycled
<1>8. QED
  BY <1>3, <1>4, <1>5, <1>6, <1>7 DEF Tied

\* Marking page x leaves the other marks alone.
LEMMA MarkKeeps ==
    ASSUME TypeOK, NEW x, NEW k \in Nat, UnmarkedFrom(k), NewUnmarked,
           page' = [page EXCEPT ![x].safe_to_unmap = TRUE],
           UNCHANGED <<txvars, pc>>, x # call.new_map,
           \A j \in k..Len(out_shmems) : out_shmems[j] # x
    PROVE  UnmarkedFrom(k)' /\ NewUnmarked'
<1>1. /\ UNCHANGED <<out_shmems, call, pc>>
      /\ DOMAIN page = Pages
  BY DEF txvars, TypeOK
<1>2. \A p : p # x => page'[p] = page[p]
  OBVIOUS
<1>3. QED
  BY <1>1, <1>2 DEF UnmarkedFrom, NewUnmarked

\* What is known of a receiver that looks at a page.
LEMMA AtPage ==
    ASSUME IndInv, NEW base \in [Pages -> Nat], NEW live \in [Pages -> SUBSET Nat],
           Tied(base, live), NEW r \in Receivers \ recycled,
           rx[r].pc \in {"recv", "read", "mark"}
    PROVE  /\ rx[r] \in RxState /\ nsent \in Nat /\ rx[r].page \in Pages
           /\ page[rx[r].page].current_msg_id \in Nat
           /\ MsgsTyped(mem[rx[r].page])
           /\ Chained(rx[r].page, base, live)
           /\ rx[r].last_msg_recvd # Null => rx[r].last_msg_recvd \in live[rx[r].page]
           /\ Got(r) \in 0..page[rx[r].page].current_msg_id
           /\ OnTrack(rx[r].page, base, live)
           /\ Follows(r, base, live)
<1>1. Follows(r, base, live) /\ TypeOK /\ RxOK
  BY DEF Tied, IndInv
<1>2. /\ rx[r] \in RxState /\ nsent \in Nat /\ rx[r].page \in Pages
      /\ OnTrack(rx[r].page, base, live)
      /\ rx[r].last_msg_recvd # Null => rx[r].last_msg_recvd \in live[rx[r].page]
  BY <1>1 DEF TypeOK, RxOK, Follows
<1>3. /\ page[rx[r].page].current_msg_id \in Nat /\ MsgsTyped(mem[rx[r].page])
  BY <1>1, <1>2 DEF TypeOK, PageHeader
<1>4. Chained(rx[r].page, base, live)
  BY <1>2 DEF Tied
<1>5. Got(r) \in 0..page[rx[r].page].current_msg_id
  <2>1. PICK p, cur : p = rx[r].page /\ cur = page[p].current_msg_id
    OBVIOUS
  <2>2. \A o \in live[p] : mem[p][o].message_id \in 1..cur
    BY <1>4, <2>1 DEF Chained
  <2>3. \A d \in 1..cur : d \in 0..cur
    BY <1>3, <2>1
  <2>4. Got(r) = 0 \/ \E o \in live[p] : Got(r) = mem[p][o].message_id
    BY <1>2, <2>1 DEF Got, LastId
  <2>5. cur \in Nat /\ 0 \in 0..cur
    BY <1>3, <2>1
  <2>6. Got(r) \in 0..cur
    BY <2>2, <2>3, <2>4, <2>5
  <2>7. QED
    BY <2>1, <2>6
<1>6. QED
  BY <1>1, <1>2, <1>3, <1>4, <1>5

\* The receiver maps the sender's first page.
LEMMA AttachFollows ==
    ASSUME IndInv, NEW base \in [Pages -> Nat], NEW live \in [Pages -> SUBSET Nat],
           Tied(base, live), NEW r \in Receivers \ recycled, Attach(r)
    PROVE  Follows(r, base, live)'
<1>1. /\ Follows(r, base, live) /\ TypeOK /\ rx[r] \in RxState /\ rx[r].pc = "detached"
      /\ 1 \in Pages /\ Len(out_shmems) \in Nat \ {0} /\ nsent \in Nat
  BY OutPages DEF Tied, IndInv, TypeOK, Attach
<1>2. /\ rx[r].last_msg_recvd = Null /\ rx[r].highest_msg_id = 0 /\ rx[r].seen = 0
      /\ base[1] = 0 /\ out_shmems[1] = 1 /\ UnmarkedFrom(1) /\ NewUnmarked
  BY <1>1 DEF Follows
<1>3. /\ rx'[r] = [rx[r] EXCEPT !.pc = "recv", !.page = 1]
      /\ page' = [page EXCEPT ![1].safe_to_unmap = @ \/ ~KeepPagesForever]
      /\ UNCHANGED <<mem, txvars, pc, recycled>>
      /\ UNCHANGED <<out_shmems, call, nsent>>
  BY <1>1 DEF Attach, TypeOK, txvars
<1>4. /\ rx'[r].pc = "recv" /\ rx'[r].page = 1 /\ rx'[r].last_msg_recvd = Null
      /\ rx'[r].highest_msg_id = 0 /\ rx'[r].seen = 0
  BY <1>1, <1>2, <1>3 DEF RxState
<1>5. /\ page'[1].current_msg_id \in Nat /\ \A p \in Pages \ {1} : page'[p] = page[p]
      /\ DOMAIN page = Pages
  BY <1>1, <1>3 DEF TypeOK, PageHeader
<1>6. UnmarkedFrom(2)' /\ NewUnmarked'
  <2>1. CASE KeepPagesForever
    BY <2>1 DEF UnmarkedFrom, NewUnmarked
  <2>2. CASE ~KeepPagesForever
    <3>1. page' = [page EXCEPT ![1].safe_to_unmap = TRUE]
      BY <1>3, <2>2
    <3>2. UnmarkedFrom(2)
      BY <1>1, <1>2 DEF UnmarkedFrom
    <3>3. /\ \A j \in 2..Len(out_shmems) : out_shmems[j] # 1
          /\ 1 # call.new_map
      <4>1. \A j \in 2..Len(out_shmems) : j \in 1..Len(out_shmems) /\ j # 1
        BY <1>1
      <4>2. 1 \in 1..Len(out_shmems)
        BY <1>1
      <4>3. QED
        BY <1>2, <4>1, <4>2 DEF IndInv, PagesOwnedOnce
    <3>4. QED
      BY <1>1, <1>2, <1>3, <3>1, <3>2, <3>3, MarkKeeps
  <2>3. QED
    BY <2>1, <2>2
<1>7. OnTrack(rx[r].page, base, live)'
  <2>1. 1 \in 1..Len(out_shmems')
    BY <1>1, <1>3
  <2>2. QED
    BY <1>2, <1>3, <1>4, <1>6, <2>1 DEF OnTrack, UnmarkedFrom
<1>8. rx'[r].seen = base[rx'[r].page] + Got(r)'
  BY <1>2, <1>4 DEF Got
<1>9. rx'[r].highest_msg_id <= page'[rx'[r].page].current_msg_id /\ rx'[r].seen <= nsent'
  BY <1>1, <1>3, <1>4, <1>5
<1>10. QED
  BY <1>4, <1>6, <1>7, <1>8, <1>9 DEF Follows

\* recv finds the message after the one read last, or nothing.
LEMMA RecvLoadFollows ==
    ASSUME IndInv, NEW base \in [Pages -> Nat], NEW live \in [Pages -> SUBSET Nat],
           Tied(base, live), NEW r \in Receivers \ recycled, RecvLoad(r)
    PROVE  Follows(r, base, live)'
<1>0. PICK p, last, cur, id :
          /\ p = rx[r].page /\ last = rx[r].last_msg_recvd
          /\ cur = page[p].current_msg_id /\ id = CurrentMsgId(r)
  OBVIOUS
<1> DEFINE none == NothingNew(r)
           next == IF last = Null THEN 0 ELSE NextOf(p, last)
           ok   == last = Null \/ NextInMap(next, MapSize(p), MSG_HEADER_LEN)
<1>1. rx[r].pc = "recv"
  BY DEF RecvLoad
<1>2. /\ rx[r] \in RxState /\ p \in Pages /\ cur \in Nat /\ Chained(p, base, live)
      /\ last # Null => last \in live[p]
      /\ Got(r) \in 0..cur /\ OnTrack(p, base, live) /\ Follows(r, base, live)
  BY <1>0, <1>1, AtPage
<1>3. /\ rx'[r] = [rx[r] EXCEPT !.highest_msg_id = id,
                                !.msg = IF none \/ ~ok THEN Null ELSE next,
                                !.pc = IF none THEN "recv" ELSE IF ok THEN "read" ELSE "failed"]
      /\ UNCHANGED <<page, mem, txvars, pc>>
      /\ UNCHANGED <<out_shmems, call, nsent>>
  BY <1>0 DEF RecvLoad, IndInv, TypeOK, txvars
<1>4. id \in Nat /\ id <= cur
  <2>1. /\ rx[r].highest_msg_id \in Nat /\ rx[r].highest_msg_id <= cur
    BY <1>0, <1>1, <1>2 DEF Follows, RxState
  <2>2. QED
    BY <1>0, <1>2, <2>1 DEF CurrentMsgId
<1>5. ASSUME ~none
      PROVE  ok /\ next \in live[p] /\ mem[p][next].message_id = Got(r) + 1
  <2>1. id # 0 /\ (last # Null => LastId(r) # id)
    BY <1>0, <1>5 DEF NothingNew
  <2>2. CASE last = Null
    <3>1. cur > 0 /\ Got(r) = 0 /\ next = 0
      BY <1>0, <1>2, <1>4, <2>1, <2>2 DEF Got
    <3>2. QED
      BY <1>0, <1>2, <2>2, <3>1 DEF Chained
  <2>3. CASE last # Null
    <3>1. PICK m : m = LastId(r)
      OBVIOUS
    <3>2. Got(r) = m /\ m = mem[p][last].message_id /\ m \in 0..cur
      BY <1>0, <1>2, <2>3, <3>1 DEF Got, LastId
    <3>3. m < cur
      <4>1. rx[r].highest_msg_id \in Nat
        BY <1>2 DEF RxState
      <4>2. id = IF rx[r].highest_msg_id > m THEN rx[r].highest_msg_id ELSE cur
        BY <1>0, <2>3, <3>1 DEF CurrentMsgId
      <4>3. QED
        BY <1>2, <1>4, <2>1, <2>3, <3>1, <3>2, <4>1, <4>2
    <3>4. /\ NextOf(p, last) \in live[p]
          /\ mem[p][NextOf(p, last)].message_id = m + 1
          /\ NextInMap(NextOf(p, last), MapSize(p), MSG_HEADER_LEN)
      BY <1>0, <1>2, <2>3, <3>2, <3>3 DEF Chained
    <3>5. QED
      BY <2>3, <3>2, <3>4
  <2>4. QED
    BY <2>2, <2>3
<1> HIDE DEF none, ok, next
<1>6. /\ rx'[r].page = p /\ rx'[r].last_msg_recvd = last /\ rx'[r].highest_msg_id = id
      /\ rx'[r].seen = rx[r].seen
      /\ rx'[r].pc \in {"recv", "read"}
      /\ rx'[r].pc = "read" => ~none /\ rx'[r].msg = next
  BY <1>0, <1>2, <1>3, <1>5 DEF RxState
<1>7. Got(r)' = Got(r)
  BY <1>0, <1>3, <1>6 DEF Got, LastId
<1>8. OnTrack(p, base, live)'
  BY <1>2, <1>3 DEF OnTrack, Linked, UnmarkedFrom
<1>9. OnTrack(rx[r].page, base, live)'
  BY <1>6, <1>8, OnTrackAfter
<1>10. NewUnmarked'
  BY <1>2, <1>3 DEF Follows, NewUnmarked
<1>11. /\ rx'[r].seen = base[p] + Got(r)' /\ rx'[r].seen <= nsent'
       /\ rx'[r].highest_msg_id <= page'[p].current_msg_id
  BY <1>0, <1>1, <1>2, <1>3, <1>4, <1>6, <1>7 DEF Follows
<1>12. rx'[r].pc = "read" => rx'[r].msg \in live[p] /\ mem'[p][rx'[r].msg].message_id = Got(r)' + 1
  BY <1>3, <1>5, <1>6, <1>7
<1>13. QED
  BY <1>2, <1>6, <1>9, <1>10, <1>11, <1>12 DEF Follows

\* A receiver that goes on from its page marks it, and nothing after it.
LEMMA MarkOwnPage ==
    ASSUME IndInv, NEW base, NEW live, NEW p, OnTrack(p, base, live), NewUnmarked,
           page' = [page EXCEPT ![p].safe_to_unmap = TRUE],
           UNCHANGED <<mem, txvars, pc>>
    PROVE  OnTrack(p, base, live)' /\ NewUnmarked'
<1>1. /\ UNCHANGED <<out_shmems, call>> /\ TypeOK /\ Len(out_shmems) \in Nat \ {0}
      /\ PagesOwnedOnce
  BY OutPages DEF txvars, IndInv
<1>2. CASE \E i \in 1..Len(out_shmems) : p = out_shmems[i] /\ UnmarkedFrom(i + 1)
  <2>1. PICK i \in 1..Len(out_shmems) : p = out_shmems[i] /\ UnmarkedFrom(i + 1)
    BY <1>2
  <2>2. i + 1 \in Nat /\ \A j \in (i + 1)..Len(out_shmems) : j \in 1..Len(out_shmems) /\ j # i
    BY <1>1
  <2>3. p # call.new_map /\ \A j \in (i + 1)..Len(out_shmems) : out_shmems[j] # p
    BY <1>1, <2>1, <2>2 DEF PagesOwnedOnce
  <2>4. UnmarkedFrom(i + 1)' /\ NewUnmarked'
    BY <1>1, <2>1, <2>2, <2>3, MarkKeeps
  <2>5. QED
    BY <1>1, <2>1, <2>4 DEF OnTrack
<1>3. CASE /\ ~KeepPagesForever
           /\ p # call.new_map /\ \A i \in 1..Len(out_shmems) : p # out_shmems[i]
           /\ Linked(p, out_shmems[1], base, live)
           /\ UnmarkedFrom(1)
  <2>1. UnmarkedFrom(1)' /\ NewUnmarked'
    BY <1>1, <1>3, MarkKeeps
  <2>2. page'[p].current_msg_id = page[p].current_msg_id
    OBVIOUS
  <2>3. Linked(p, out_shmems[1], base, live)'
    BY <1>1, <1>3, <2>2 DEF Linked
  <2>4. QED
    BY <1>1, <1>3, <2>1, <2>3 DEF OnTrack
<1>4. QED
  BY <1>2, <1>3 DEF OnTrack

\* The message at offset o of page p leads to a page of the sender after p.
LeadsOn(p, o, base) ==
    \E i \in 1..Len(out_shmems) :
        /\ mem[p][o].next = out_shmems[i] /\ UnmarkedFrom(i)
        /\ base[out_shmems[i]] + 1 = base[p] + mem[p][o].message_id
        /\ p # call.new_map /\ \A j \in i..Len(out_shmems) : out_shmems[j] # p

\* An END_OF_PAGE that was read does so.
LEMMA EopLeadsOn ==
    ASSUME IndInv, NEW base \in [Pages -> Nat], NEW live \in [Pages -> SUBSET Nat],
           Tied(base, live), NEW p \in Pages, OnTrack(p, base, live),
           NEW o \in live[p], mem[p][o].tag = "END_OF_PAGE"
    PROVE  LeadsOn(p, o, base)
<1>1. /\ Len(out_shmems) \in Nat \ {0} /\ PagesOwnedOnce /\ TypeOK
      /\ LastPage = out_shmems[Len(out_shmems)]
  BY OutPages DEF IndInv
<1>2. Chained(p, base, live) /\ page[p].current_msg_id \in Nat
  BY <1>1 DEF Tied, TypeOK, PageHeader
<1>3. mem[p][o].message_id = page[p].current_msg_id
  <2>1. mem[p][o].message_id \in 1..page[p].current_msg_id
    BY <1>2 DEF Chained
  <2>2. ~(mem[p][o].message_id < page[p].current_msg_id)
    BY <1>2 DEF Chained
  <2>3. QED
    BY <1>2, <2>1, <2>2
<1>4. p # LastPage
  <2>1. SUFFICES ASSUME p = LastPage PROVE FALSE
    OBVIOUS
  <2>2. o = last_msg_sent
    BY <1>3, <2>1 DEF Tied, AtEnd
  <2>3. o # Null
    BY DEF Null
  <2>4. QED
    BY <2>1, <2>2, <2>3 DEF Tied, AtEnd
<1>5. CASE \E i \in 1..Len(out_shmems) : p = out_shmems[i] /\ UnmarkedFrom(i + 1)
  <2>1. PICK i \in 1..Len(out_shmems) : p = out_shmems[i] /\ UnmarkedFrom(i + 1)
    BY <1>5
  <2>2. i # Len(out_shmems)
    BY <1>1, <1>4, <2>1
  <2>3. /\ i \in 1..(Len(out_shmems) - 1) /\ i + 1 \in 1..Len(out_shmems)
        /\ \A j \in (i + 1)..Len(out_shmems) : j \in 1..Len(out_shmems) /\ j # i
    BY <1>1, <2>2
  <2>4. Linked(p, out_shmems[i + 1], base, live)
    BY <2>1, <2>3 DEF Tied, PagesLinked
  <2>5. p # call.new_map /\ \A j \in (i + 1)..Len(out_shmems) : out_shmems[j] # p
    BY <1>1, <2>1, <2>3 DEF PagesOwnedOnce
  <2>6. QED
    BY <1>3, <2>1, <2>3, <2>4, <2>5 DEF Linked, LeadsOn
<1>6. CASE /\ ~KeepPagesForever
           /\ p # call.new_map /\ \A i \in 1..Len(out_shmems) : p # out_shmems[i]
           /\ Linked(p, out_shmems[1], base, live)
           /\ UnmarkedFrom(1)
  <2>1. 1 \in 1..Len(out_shmems)
    BY <1>1
  <2>2. QED
    BY <1>3, <1>6, <2>1 DEF Linked, LeadsOn
<1>7. QED
  BY <1>5, <1>6 DEF OnTrack

\* recv returns the message, goes on to the next page or closes the channel.
LEMMA RecvReadFollows ==
    ASSUME IndInv, NEW base \in [Pages -> Nat], NEW live \in [Pages -> SUBSET Nat],
           Tied(base, live), NEW r \in Receivers \ recycled, RecvRead(r)
    PROVE  Follows(r, base, live)' /\ rx'[r].seen \in {rx[r].seen, rx[r].seen + 1}
<1>0. PICK p, o, m, cur :
          /\ p = rx[r].page /\ o = rx[r].msg /\ m = mem[p][o]
          /\ cur = page[p].current_msg_id
  OBVIOUS
<1> DEFINE done == [rx[r] EXCEPT !.msg = Null]
<1>1. rx[r].pc = "read"
  BY DEF RecvRead
<1>2. /\ rx[r] \in RxState /\ p \in Pages /\ cur \in Nat /\ Chained(p, base, live)
      /\ Got(r) \in 0..cur /\ OnTrack(p, base, live) /\ Follows(r, base, live)
      /\ nsent \in Nat
  BY <1>0, <1>1, AtPage
<1>3. /\ o \in live[p] /\ m.message_id = Got(r) + 1
      /\ rx[r].seen = base[p] + Got(r) /\ rx[r].highest_msg_id <= cur
      /\ rx[r].seen <= nsent /\ NewUnmarked
  BY <1>0, <1>1, <1>2 DEF Follows
<1>4. /\ InShmem(o, MapSize(p), m.buf_len_padded)
      /\ m.tag \in {"DATA", "EXITING", "SLOW_RECEIVER", "END_OF_PAGE"}
      /\ m.tag \in {"DATA", "SLOW_RECEIVER"} => m.val = base[p] + m.message_id /\ m.val <= nsent
  BY <1>0, <1>2, <1>3 DEF Chained, CallTags
<1>5. /\ rx'[r] = CASE m.tag = "EXITING"     -> [done EXCEPT !.pc = "closed", !.page = NoPage]
                    [] m.tag = "END_OF_PAGE" ->
                          [done EXCEPT !.pc = "map", !.next = m.next,
                                       !.last_msg_recvd = Null, !.highest_msg_id = 0]
                    [] OTHER -> [done EXCEPT !.pc = "recv", !.last_msg_recvd = o, !.seen = m.val]
      /\ page' = IF m.tag = "END_OF_PAGE"
                 THEN [page EXCEPT ![p].safe_to_unmap = TRUE] ELSE page
      /\ UNCHANGED <<mem, txvars, pc>>
      /\ UNCHANGED <<out_shmems, call, nsent>>
  BY <1>0, <1>4 DEF RecvRead, IndInv, TypeOK, txvars
<1>6. CASE m.tag = "EXITING"
  <2>1. /\ rx'[r].pc = "closed" /\ rx'[r].page = NoPage /\ rx'[r].seen = rx[r].seen
        /\ page' = page
    BY <1>2, <1>5, <1>6 DEF RxState
  <2>2. NewUnmarked'
    BY <1>3, <1>5, <2>1 DEF NewUnmarked
  <2>3. QED
    BY <1>3, <1>5, <2>1, <2>2 DEF Follows
<1>7. CASE m.tag = "END_OF_PAGE"
  <2>1. /\ rx'[r].pc = "map" /\ rx'[r].next = m.next /\ rx'[r].last_msg_recvd = Null
        /\ rx'[r].highest_msg_id = 0 /\ rx'[r].seen = rx[r].seen
        /\ page' = [page EXCEPT ![p].safe_to_unmap = TRUE]
    BY <1>2, <1>5, <1>7 DEF RxState
  <2>2. PICK i \in 1..Len(out_shmems) :
            /\ m.next = out_shmems[i] /\ UnmarkedFrom(i)
            /\ base[out_shmems[i]] + 1 = base[p] + m.message_id
            /\ p # call.new_map /\ \A j \in i..Len(out_shmems) : out_shmems[j] # p
    <3>1. mem[p][o].tag = "END_OF_PAGE" /\ p \in Pages /\ OnTrack(p, base, live) /\ o \in live[p]
      BY <1>0, <1>2, <1>3, <1>7
    <3>2. LeadsOn(p, o, base)
      BY <3>1, EopLeadsOn
    <3>3. QED
      BY <1>0, <3>2 DEF LeadsOn
  <2>3. UnmarkedFrom(i)' /\ NewUnmarked'
    <3>1. i \in Nat /\ TypeOK
      BY OutPages DEF IndInv
    <3>2. QED
      BY <1>3, <1>5, <2>1, <2>2, <3>1, MarkKeeps
  <2>4. rx'[r].seen = base[rx'[r].next]
    <3>1. out_shmems[i] \in Pages
      BY OutPages
    <3>2. base[out_shmems[i]] \in Nat /\ base[p] \in Nat
      BY <1>2, <3>1
    <3>3. base[out_shmems[i]] = base[p] + Got(r)
      <4>1. PICK a, b, g \in Nat : a = base[out_shmems[i]] /\ b = base[p] /\ g = Got(r)
        BY <1>2, <3>2
      <4>2. a + 1 = b + (g + 1)
        BY <1>3, <2>2, <4>1
      <4>3. a = b + g
        BY <4>2
      <4>4. QED
        BY <4>1, <4>3
    <3>4. QED
      BY <1>3, <2>1, <2>2, <3>3
  <2>5. QED
    BY <1>3, <1>5, <2>1, <2>2, <2>3, <2>4 DEF Follows
<1>8. CASE m.tag \in {"DATA", "SLOW_RECEIVER"}
  <2>1. /\ rx'[r].pc = "recv" /\ rx'[r].page = p /\ rx'[r].last_msg_recvd = o
        /\ rx'[r].highest_msg_id = rx[r].highest_msg_id /\ rx'[r].seen = m.val
        /\ page' = page
    BY <1>0, <1>2, <1>5, <1>8 DEF RxState
  <2>2. o # Null
    BY <1>2, <1>3 DEF Null
  <2>3. Got(r)' = m.message_id
    BY <1>0, <1>5, <2>1, <2>2 DEF Got, LastId
  <2>4. rx'[r].seen = base[p] + Got(r)' /\ rx'[r].seen <= nsent'
    BY <1>4, <1>5, <1>8, <2>1, <2>3
  <2>5. rx'[r].seen = rx[r].seen + 1
    <3>1. base[p] \in Nat /\ Got(r) \in Nat
      BY <1>2
    <3>2. QED
      BY <1>3, <2>3, <2>4, <3>1
  <2>6. OnTrack(p, base, live)'
    BY <1>2, <1>5, <2>1 DEF OnTrack, Linked, UnmarkedFrom
  <2>7. OnTrack(rx[r].page, base, live)'
    BY <2>1, <2>6, OnTrackAfter
  <2>8. NewUnmarked'
    BY <1>3, <1>5, <2>1 DEF NewUnmarked
  <2>9. Follows(r, base, live)'
    BY <1>0, <1>3, <2>1, <2>4, <2>7, <2>8 DEF Follows
  <2>10. QED
    BY <2>5, <2>9
<1>9. QED
  BY <1>4, <1>6, <1>7, <1>8

\* The announced page is mapped; it is the sender's and was not marked before.
LEMMA RecvMapFollows ==
    ASSUME IndInv, NEW base \in [Pages -> Nat], NEW live \in [Pages -> SUBSET Nat],
           Tied(base, live), NEW r \in Receivers \ recycled, RecvMap(r)
    PROVE  Follows(r, base, live)'
<1>1. /\ rx[r].pc = "map" /\ Follows(r, base, live) /\ rx[r] \in RxState /\ TypeOK
      /\ PagesOwnedOnce /\ nsent \in Nat
  BY DEF RecvMap, Tied, IndInv, TypeOK
<1>2. PICK p : p = rx[r].next
  OBVIOUS
<1>3. PICK i \in 1..Len(out_shmems) : p = out_shmems[i] /\ UnmarkedFrom(i)
  BY <1>1, <1>2 DEF Follows
<1>4. /\ rx[r].last_msg_recvd = Null /\ rx[r].highest_msg_id = 0 /\ rx[r].seen = base[p]
      /\ rx[r].seen <= nsent /\ NewUnmarked
  BY <1>1, <1>2 DEF Follows
<1>5. Mapped(p) /\ page[p].magic = "INITIALIZED"
  BY <1>1, <1>3 DEF Mapped, PagesOwnedOnce
<1>6. /\ rx'[r] = [rx[r] EXCEPT !.pc = "mark", !.page = p, !.next = NoPage]
      /\ UNCHANGED <<page, mem, txvars, pc>>
      /\ UNCHANGED <<out_shmems, call, nsent>>
  BY <1>1, <1>2, <1>5 DEF RecvMap, TypeOK, txvars
<1>7. /\ rx'[r].pc = "mark" /\ rx'[r].page = p /\ rx'[r].last_msg_recvd = Null
      /\ rx'[r].highest_msg_id = 0 /\ rx'[r].seen = base[p]
  BY <1>1, <1>4, <1>6 DEF RxState
<1>8. UnmarkedFrom(i + 1)' /\ NewUnmarked'
  <2>1. \A j \in (i + 1)..Len(out_shmems) : j \in i..Len(out_shmems)
    BY OutPages
  <2>2. QED
    BY <1>3, <1>4, <1>6, <2>1 DEF UnmarkedFrom, NewUnmarked
<1>9. OnTrack(rx[r].page, base, live)'
  BY <1>3, <1>6, <1>7, <1>8 DEF OnTrack
<1>10. p \in Pages /\ page'[p].current_msg_id \in Nat /\ base[p] \in Nat
  <2>1. p \in Pages
    BY <1>3, OutPages
  <2>2. QED
    BY <1>1, <1>6, <2>1 DEF TypeOK, PageHeader
<1>11. rx'[r].seen = base[rx'[r].page] + Got(r)'
  BY <1>7, <1>10 DEF Got
<1>12. rx'[r].highest_msg_id <= page'[rx'[r].page].current_msg_id /\ rx'[r].seen <= nsent'
  BY <1>4, <1>6, <1>7, <1>10
<1>13. QED
  BY <1>7, <1>8, <1>9, <1>11, <1>12 DEF Follows

\* The new page is marked; the receiver stays on it.
LEMMA RecvMarkFollows ==
    ASSUME IndInv, NEW base \in [Pages -> Nat], NEW live \in [Pages -> SUBSET Nat],
           Tied(base, live), NEW r \in Receivers \ recycled, RecvMark(r)
    PROVE  Follows(r, base, live)'
<1>0. PICK p : p = rx[r].page
  OBVIOUS
<1>1. rx[r].pc = "mark"
  BY DEF RecvMark
<1>2. /\ rx[r] \in RxState /\ p \in Pages /\ page[p].current_msg_id \in Nat
      /\ OnTrack(p, base, live) /\ Follows(r, base, live) /\ nsent \in Nat /\ TypeOK
  BY <1>0, <1>1, AtPage DEF IndInv
<1>3. /\ rx[r].last_msg_recvd # Null => rx[r].last_msg_recvd \in live[p]
      /\ rx[r].seen = base[p] + Got(r) /\ rx[r].highest_msg_id <= page[p].current_msg_id
      /\ rx[r].seen <= nsent /\ NewUnmarked
  BY <1>0, <1>1, <1>2 DEF Follows
<1>4. /\ rx'[r] = [rx[r] EXCEPT !.pc = "recv"]
      /\ page' = [page EXCEPT ![p].safe_to_unmap = TRUE]
      /\ UNCHANGED <<mem, txvars, pc>> /\ UNCHANGED nsent
  BY <1>0, <1>2 DEF RecvMark, TypeOK, txvars
<1>5. /\ rx'[r].pc = "recv" /\ rx'[r].page = p /\ rx'[r].last_msg_recvd = rx[r].last_msg_recvd
      /\ rx'[r].highest_msg_id = rx[r].highest_msg_id /\ rx'[r].seen = rx[r].seen
      /\ page'[p].current_msg_id = page[p].current_msg_id
  BY <1>0, <1>2, <1>4 DEF RxState, TypeOK, PageHeader
<1>6. OnTrack(p, base, live)' /\ NewUnmarked'
  BY <1>2, <1>3, <1>4, MarkOwnPage
<1>7. OnTrack(rx[r].page, base, live)'
  BY <1>5, <1>6, OnTrackAfter
<1>8. Got(r)' = Got(r)
  BY <1>0, <1>4, <1>5 DEF Got, LastId
<1>9. QED
  BY <1>3, <1>4, <1>5, <1>6, <1>7, <1>8 DEF Follows

\* Only a receiver whose page was recycled can meet payload bytes.
LEMMA UndefinedIsRecycled ==
    ASSUME IndInv, NEW base \in [Pages -> Nat], NEW live \in [Pages -> SUBSET Nat],
           Tied(base, live), NEW r \in Receivers \ recycled
    PROVE  ~RecvUndefined(r)
<1>1. SUFFICES ASSUME RecvUndefined(r) PROVE FALSE
  OBVIOUS
<1>2. rx[r].pc \in {"recv", "read"}
  BY <1>1 DEF RecvUndefined
<1>3. /\ Chained(rx[r].page, base, live) /\ Follows(r, base, live)
      /\ rx[r].last_msg_recvd # Null => rx[r].last_msg_recvd \in live[rx[r].page]
  BY <1>2, AtPage
<1>4. /\ rx[r].pc = "read" => rx[r].msg \in live[rx[r].page]
      /\ live[rx[r].page] \subseteq DOMAIN mem[rx[r].page]
  BY <1>3 DEF Follows, Chained
<1>5. QED
  BY <1>1, <1>3, <1>4 DEF RecvUndefined, ReadsPayload

\* Every step of a receiver keeps it tied to the sender.
LEMMA RecvTied ==
    ASSUME IndInv, IndInv', NEW base \in [Pages -> Nat], NEW live \in [Pages -> SUBSET Nat],
           Tied(base, live), NEW r \in Receivers, Attach(r) \/ Recv(r)
    PROVE  Tied(base, live)'
<1>1. /\ UNCHANGED <<mem, txvars, pc, recycled>> /\ TypeOK
      /\ \A s \in Receivers \ {r} : rx'[s] = rx[s]
  BY DEF Attach, Recv, RecvLoad, RecvRead, RecvUndefined, RecvMap, RecvMark, IndInv, TypeOK
<1>2. \A p \in Pages : /\ page'[p].current_msg_id = page[p].current_msg_id
                       /\ page'[p].size_total = page[p].size_total
  <2>1. \/ page' = page
        \/ \E x : page' = [page EXCEPT ![x].safe_to_unmap = TRUE]
        \/ page' = [page EXCEPT ![1].safe_to_unmap = @ \/ ~KeepPagesForever]
    BY DEF Attach, Recv, RecvLoad, RecvRead, RecvUndefined, RecvMap, RecvMark
  <2>2. page \in [Pages -> PageHeader]
    BY <1>1 DEF TypeOK
  <2>3. CASE page' = page
    BY <2>3
  <2>4. CASE \E x : page' = [page EXCEPT ![x].safe_to_unmap = TRUE]
    BY <2>2, <2>4 DEF PageHeader
  <2>5. CASE page' = [page EXCEPT ![1].safe_to_unmap = @ \/ ~KeepPagesForever]
    BY <2>2, <2>5 DEF PageHeader
  <2>6. QED
    BY <2>1, <2>3, <2>4, <2>5
<1>3. r \in recycled \/ Follows(r, base, live)'
  <2>1. SUFFICES ASSUME r \in Receivers \ recycled PROVE Follows(r, base, live)'
    OBVIOUS
  <2>2. ~RecvUndefined(r)
    BY <2>1, UndefinedIsRecycled
  <2>3. QED
    BY <2>1, <2>2, AttachFollows, RecvLoadFollows, RecvReadFollows, RecvMapFollows,
       RecvMarkFollows DEF Recv
<1>4. QED
  BY <1>1, <1>2, <1>3, ReceiverTied

\* Receivers and sender are tied together by some history of the pages.
TiedInv ==
    \E base \in [Pages -> Nat], live \in [Pages -> SUBSET Nat] : Tied(base, live)

\* And so they stay.
LEMMA NextTied ==
    ASSUME IndInv, IndInv', TiedInv, [Next]_vars
    PROVE  TiedInv'
<1>1. PICK base \in [Pages -> Nat], live \in [Pages -> SUBSET Nat] : Tied(base, live)
  BY DEF TiedInv
<1>2. CASE UNCHANGED vars
  <2>1. /\ UNCHANGED <<page, mem, out_shmems, last_msg_sent, call, nsent, pc, rx>>
        /\ UNCHANGED <<unused_shmem_cache, recycled>>
    BY <1>2 DEF vars, txvars
  <2>2. \A p \in Pages : Chained(p, base, live)'
    BY <1>1, <2>1 DEF Tied, Chained, NextOf, MapSize
  <2>3. AtEnd(base, live)'
    BY <1>1, <2>1 DEF Tied, AtEnd, LastPage, EopPtr, NextOf
  <2>4. PagesLinked(base, live)'
    BY <1>1, <2>1 DEF Tied, PagesLinked, Linked
  <2>5. ASSUME NEW r \in Receivers \ recycled PROVE Follows(r, base, live)'
    <3>1. Follows(r, base, live)
      BY <1>1 DEF Tied
    <3>2. OnTrack(rx[r].page, base, live) => OnTrack(rx[r].page, base, live)'
      BY <2>1 DEF OnTrack, Linked, UnmarkedFrom
    <3>3. /\ NewUnmarked => NewUnmarked' /\ Got(r)' = Got(r)
          /\ \A i : UnmarkedFrom(i) => UnmarkedFrom(i)'
      BY <2>1 DEF NewUnmarked, UnmarkedFrom, Got, LastId
    <3>4. QED
      BY <2>1, <3>1, <3>2, <3>3 DEF Follows
  <2>6. NeverRecycled'
    BY <1>1, <2>1 DEF Tied, NeverRecycled
  <2>7. Tied(base, live)'
    BY <2>1, <2>2, <2>3, <2>4, <2>5, <2>6 DEF Tied
  <2>8. QED
    BY <2>7 DEF TiedInv
<1>3. CASE \/ \E len \in Lens : SendBuf(len)
           \/ SendExiting \/ AllocPanics \/ PageFull \/ StackOverflow \/ SlowReceiver
           \/ NewShmemFails
  BY <1>1, <1>3, ControlTied DEF TiedInv
<1>4. CASE AllocNextIfSpace
  BY <1>1, <1>4, AllocTied DEF TiedInv
<1>5. CASE \E len \in Lens : ShrinkAlloced(len)
  BY <1>1, <1>5, ShrinkTied DEF TiedInv
<1>6. CASE CancelSend
  BY <1>1, <1>6, CancelTied DEF TiedInv
<1>7. CASE Send
  BY <1>1, <1>7, SendTied DEF TiedInv
<1>8. CASE SendEop
  BY <1>1, <1>8, SendEopTied DEF TiedInv
<1>9. CASE PruneOldPages
  BY <1>1, <1>9, PruneTied DEF TiedInv
<1>10. CASE Reattach
  BY <1>1, <1>10, ReattachTied DEF TiedInv
<1>11. CASE UnusedShmem \/ NewShmem
  BY <1>1, <1>11, NewPageTied DEF TiedInv
<1>12. CASE \E r \in Receivers : Attach(r) \/ Recv(r)
  BY <1>1, <1>12, RecvTied DEF TiedInv
<1>13. CASE Terminated
  BY <1>2, <1>13 DEF Terminated
<1>14. QED
  BY <1>2, <1>3, <1>4, <1>5, <1>6, <1>7, <1>8, <1>9, <1>10, <1>11, <1>12, <1>13
     DEF Next, Caller, SenderStep

\* The history invariant holds of the whole channel.
LEMMA AlwaysTied == Spec => [](IndInv /\ TiedInv)
<1>1. Init => IndInv /\ TiedInv
  BY InitInv, InitTied DEF TiedInv
<1>2. IndInv /\ TiedInv /\ [Next]_vars => (IndInv /\ TiedInv)'
  BY NextInv, NextTied
<1>3. QED
  BY <1>1, <1>2, PTL DEF Spec

\* recv never meets an unallocated message, one out of bounds or a page that is gone
\* (RecvNeverFails), however often the sender switches, prunes and recycles pages,
\* restarts or gives up, unless it recycled the page the receiver was reading.
THEOREM RecvAlwaysWorks == Spec => []RecvNeverFails
<1>1. TiedInv => RecvNeverFails
  <2>1. SUFFICES ASSUME TiedInv, NEW r \in Receivers \ recycled
                 PROVE  /\ rx[r].pc \notin {"failed", "panicked", "undefined"}
                        /\ rx[r].seen <= nsent
    BY DEF RecvNeverFails
  <2>2. PICK base \in [Pages -> Nat], live \in [Pages -> SUBSET Nat] : Tied(base, live)
    BY <2>1 DEF TiedInv
  <2>3. Follows(r, base, live)
    BY <2>2 DEF Tied
  <2>4. QED
    BY <2>3 DEF Follows
<1>2. QED
  BY <1>1, AlwaysTied, PTL

\* Only send() adds to what was sent, only Attach lets a receiver in, only recv of an
\* ordinary message hands one out.
LEMMA OtherSteps ==
    ASSUME IndInv, [Next]_vars, ~Send, \A r \in Receivers : ~Attach(r) /\ ~RecvRead(r)
    PROVE  /\ nsent' = nsent
           /\ \A r \in Receivers : /\ rx'[r].seen = rx[r].seen
                                   /\ rx'[r].pc = "detached" <=> rx[r].pc = "detached"
<1>0. rx \in [Receivers -> RxState]
  BY DEF IndInv, TypeOK
<1>1. CASE UNCHANGED vars
  BY <1>1 DEF vars, txvars
<1>2. CASE Caller
  BY <1>2 DEF Caller, SendBuf, ShrinkAlloced, SendExiting, CancelSend, Reattach, AllocNext, txvars
<1>3. CASE SenderStep
  BY <1>3 DEF SenderStep, AllocNextIfSpace, AllocPanics, PageFull, PruneOldPages, SlowReceiver,
     StackOverflow, UnusedShmem, NewShmem, NewShmemFails, SendEop, txvars
<1>4. CASE \E r \in Receivers : Attach(r) \/ Recv(r)
  <2>1. PICK r \in Receivers : Recv(r)
    BY <1>4
  <2>2. /\ nsent' = nsent
        /\ \E c \in {"recv", "read", "failed", "undefined", "panicked", "mark"} :
              rx[r].pc # "detached" /\ rx'[r].pc = c /\ rx'[r].seen = rx[r].seen
        /\ \A s \in Receivers \ {r} : rx'[s] = rx[s]
    <3>1. CASE RecvLoad(r)
      BY <1>0, <3>1 DEF RecvLoad, RxState, txvars
    <3>2. CASE RecvUndefined(r)
      BY <1>0, <3>2 DEF RecvUndefined, RxState, txvars
    <3>3. CASE RecvMap(r)
      BY <1>0, <3>3 DEF RecvMap, RxState, txvars
    <3>4. CASE RecvMark(r)
      BY <1>0, <3>4 DEF RecvMark, RxState, txvars
    <3>5. QED
      BY <2>1, <3>1, <3>2, <3>3, <3>4 DEF Recv
  <2>3. QED
    BY <2>2
<1>5. CASE Terminated
  BY <1>1, <1>5 DEF Terminated
<1>6. QED
  BY <1>1, <1>2, <1>3, <1>4, <1>5 DEF Next

\* What the three steps do with it.
LEMMA VisibleSteps ==
    ASSUME IndInv, TiedInv
    PROVE  /\ Send => nsent' \in {nsent, nsent + 1} /\ UNCHANGED <<rx, recycled>>
           /\ \A r \in Receivers : Attach(r) =>
                 /\ UNCHANGED <<nsent, recycled>> /\ rx'[r].seen = rx[r].seen
                 /\ rx[r].pc = "detached" /\ rx'[r].pc # "detached"
                 /\ \A s \in Receivers \ {r} : rx'[s] = rx[s]
           /\ \A r \in Receivers : RecvRead(r) =>
                 /\ UNCHANGED <<nsent, recycled>>
                 /\ rx[r].pc # "detached" /\ rx'[r].pc # "detached"
                 /\ \A s \in Receivers \ {r} : rx'[s] = rx[s]
                 /\ r \notin recycled =>
                       /\ rx'[r].seen \in {rx[r].seen, rx[r].seen + 1}
                       /\ rx'[r].seen <= nsent
<1>0. rx \in [Receivers -> RxState]
  BY DEF IndInv, TypeOK
<1>1. Send => nsent' \in {nsent, nsent + 1} /\ UNCHANGED <<rx, recycled>>
  BY DEF Send
<1>2. ASSUME NEW r \in Receivers, Attach(r)
      PROVE  /\ UNCHANGED <<nsent, recycled>> /\ rx'[r].seen = rx[r].seen
             /\ rx[r].pc = "detached" /\ rx'[r].pc # "detached"
             /\ \A s \in Receivers \ {r} : rx'[s] = rx[s]
  BY <1>0, <1>2 DEF Attach, RxState, txvars
<1>3. ASSUME NEW r \in Receivers, RecvRead(r)
      PROVE  /\ UNCHANGED <<nsent, recycled>>
             /\ rx[r].pc # "detached" /\ rx'[r].pc # "detached"
             /\ \A s \in Receivers \ {r} : rx'[s] = rx[s]
  BY <1>0, <1>3 DEF RecvRead, RxState, txvars
<1>4. ASSUME NEW r \in Receivers \ recycled, RecvRead(r)
      PROVE  rx'[r].seen \in {rx[r].seen, rx[r].seen + 1} /\ rx'[r].seen <= nsent
  <2>1. PICK base \in [Pages -> Nat], live \in [Pages -> SUBSET Nat] : Tied(base, live)
    BY DEF TiedInv
  <2>2. Follows(r, base, live)' /\ rx'[r].seen \in {rx[r].seen, rx[r].seen + 1}
    BY <1>4, <2>1, RecvReadFollows
  <2>3. rx'[r].seen <= nsent'
    BY <2>2 DEF Follows
  <2>4. QED
    BY <1>3, <1>4, <2>2, <2>3
<1>5. QED
  BY <1>1, <1>2, <1>3, <1>4

\* recv returns the messages in the order of sending, none lost and none twice
\* (RecvInOrder), across page switches, cancelled and shrunk messages and restarts.
THEOREM RecvAlwaysInOrder == Spec => RecvInOrder
<1> DEFINE A == \A r \in Receivers \ recycled' : rx'[r].seen \in {rx[r].seen, rx[r].seen + 1}
<1>1. ASSUME IndInv, TiedInv, [Next]_vars PROVE A
  <2>1. CASE Send
    BY <1>1, <2>1, VisibleSteps
  <2>2. ASSUME NEW r \in Receivers, Attach(r) \/ RecvRead(r) PROVE A
    <3>1. /\ recycled' = recycled /\ \A s \in Receivers \ {r} : rx'[s] = rx[s]
          /\ r \notin recycled => rx'[r].seen \in {rx[r].seen, rx[r].seen + 1}
      BY <1>1, <2>2, VisibleSteps
    <3>2. QED
      BY <3>1
  <2>3. CASE ~Send /\ \A r \in Receivers : ~Attach(r) /\ ~RecvRead(r)
    BY <1>1, <2>3, OtherSteps
  <2>4. QED
    BY <2>1, <2>2, <2>3
<1>2. QED
  BY <1>1, AlwaysTied, PTL DEF Spec, RecvInOrder

\* The broker's broadcast map behaves as the log of LlmpBroadcast: whenever a reader
\* joins, it is handed every message from the first on, one by one, and none before it
\* was sent.
THEOREM BroadcastIsLog == ASSUME KeepPagesForever PROVE Spec => Log!SafeSpec
<1>1. Init => Log!Init
  BY DEF Init, Log!Init
<1>2. ASSUME IndInv, TiedInv, [Next]_vars PROVE [Log!Next]_(Log!vars)
  <2> DEFINE joined == {r \in Receivers : rx[r].pc # "detached"}
             seen == [r \in Receivers |-> rx[r].seen]
  <2>0. /\ rx \in [Receivers -> RxState] /\ nsent \in Nat /\ recycled = {}
        /\ \A r \in Receivers : rx[r].seen \in Nat
    BY <1>2 DEF IndInv, TypeOK, TiedInv, Tied, NeverRecycled, RxState
  <2>1. CASE Send
    <3>1. joined' = joined /\ seen' = seen /\ nsent' \in {nsent, nsent + 1}
      BY <1>2, <2>1, VisibleSteps
    <3>2. QED
      BY <3>1 DEF Log!Next, Log!Append, Log!vars
  <2>2. ASSUME NEW r \in Receivers, Attach(r) PROVE Log!Next
    <3>1. r \notin joined /\ joined' = joined \cup {r} /\ seen' = seen /\ nsent' = nsent
      BY <1>2, <2>2, VisibleSteps
    <3>2. QED
      BY <3>1 DEF Log!Next, Log!Join
  <2>3. ASSUME NEW r \in Receivers, RecvRead(r) PROVE [Log!Next]_(Log!vars)
    <3>1. /\ nsent' = nsent /\ rx[r].pc # "detached" /\ rx'[r].pc # "detached"
          /\ \A s \in Receivers \ {r} : rx'[s] = rx[s]
          /\ rx'[r].seen \in {rx[r].seen, rx[r].seen + 1} /\ rx'[r].seen <= nsent
      BY <1>2, <2>0, <2>3, VisibleSteps
    <3>2. r \in joined /\ joined' = joined
      BY <3>1
    <3>3. CASE rx'[r].seen = rx[r].seen
      <4>1. seen' = seen
        BY <3>1, <3>3
      <4>2. QED
        BY <3>1, <3>2, <4>1 DEF Log!vars
    <3>4. CASE rx'[r].seen = rx[r].seen + 1
      <4>1. seen' = [seen EXCEPT ![r] = @ + 1]
        BY <3>1, <3>4
      <4>2. seen[r] < nsent
        BY <2>0, <3>1, <3>4
      <4>3. QED
        BY <3>1, <3>2, <4>1, <4>2 DEF Log!Next, Log!Deliver
    <3>5. QED
      BY <3>1, <3>3, <3>4
  <2>4. CASE ~Send /\ \A r \in Receivers : ~Attach(r) /\ ~RecvRead(r)
    <3>1. joined' = joined /\ seen' = seen /\ nsent' = nsent
      BY <1>2, <2>4, OtherSteps
    <3>2. QED
      BY <3>1 DEF Log!vars
  <2>5. QED
    BY <2>1, <2>2, <2>3, <2>4
<1>3. QED
  BY <1>1, <1>2, AlwaysTied, PTL DEF Spec, Log!SafeSpec
=============================================================================

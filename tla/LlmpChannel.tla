---------------------------- MODULE LlmpChannel ----------------------------
(***************************************************************************)
(* One unidirectional LLMP channel (libafl/src/bolts/llmp.rs): an          *)
(* LlmpSender that appends messages to shared pages, and the LlmpReceivers *)
(* that poll them without any lock.                                        *)
(*                                                                         *)
(* KeepPagesForever = TRUE is the broker's broadcast map, read by every    *)
(* client; FALSE is a client's map, read by the broker alone, whose old    *)
(* pages are pruned and recycled.                                          *)
(*                                                                         *)
(* The sender runs alloc_next / handle_out_eop / send in steps (pc); each  *)
(* receiver runs recv in steps (rx[r].pc). A message payload is its number *)
(* in the order of sending (nsent); rx[r].seen is the payload that recv    *)
(* returned last, so "in order, none lost, none twice" is seen going up by *)
(* one.                                                                    *)
(***************************************************************************)
EXTENDS LlmpLayout, Sequences, FiniteSets

CONSTANTS
    Receivers,         \* the readers of this channel
    KeepPagesForever,  \* LlmpSender::keep_pages_forever
    MaxPages,          \* how many maps the shmem provider grants
    MaxCalls,          \* bound: send_buf calls in a behaviour
    Lens               \* bound: the buf_len values requested

ASSUME ChannelAssumption ==
    /\ KeepPagesForever \in BOOLEAN
    /\ KeepPagesForever \/ \E r \in Receivers : Receivers = {r}
    /\ MaxPages \in Nat \ {0}
    /\ MaxCalls \in Nat
    /\ Lens \subseteq Nat
    /\ 0 \in Lens

\* Every size computed from a requested length stays below MaxMapSize.
ASSUME SizeAssumption ==
    /\ INITIAL_MAP_SIZE <= MaxMapSize
    /\ \A len \in Lens :
          2 * (MSG_HEADER_LEN + len + LLMP_CFG_ALIGNNMENT) + EOP_MSG_SIZE
              + PAGE_HEADER_LEN <= MaxMapSize

MAX_PENDING_UNREAD_PAGES == 3

Pages  == 1..MaxPages
Null   == -1           \* a null message pointer
NoPage == 0

CallTags == {"DATA", "EXITING", "SLOW_RECEIVER"}
Tags == CallTags \cup {"UNSET", "UNINITIALIZED", "END_OF_PAGE"}

VARIABLES
    page,       \* page headers, by map
    mem,        \* message headers on each map, by offset
    maps,       \* how many maps the provider created
    out_shmems, unused_shmem_cache, last_msg_sent, has_unsent_message,
    pc,         \* where the sender is in alloc_next / handle_out_eop
    call,       \* arguments and locals of the call in progress
    ncalls,     \* send_buf calls so far
    nsent,      \* messages committed so far
    rx,         \* the receivers
    recycled    \* receivers whose page was initialised again while they read it

txvars == <<out_shmems, unused_shmem_cache, last_msg_sent, has_unsent_message, call,
            nsent, ncalls>>
vars   == <<page, mem, maps, txvars, pc, rx, recycled>>

LastPage == out_shmems[Len(out_shmems)]
MapSize(p) == page[p].size_total + PAGE_HEADER_LEN

Msg == [tag : Tags, message_id : Nat, buf_len_padded : Nat,
        val : Nat,                     \* the payload; 0 until it is written
        next : Pages \cup {NoPage}]    \* LlmpPayloadSharedMapInfo of an EOP

BlankMsg == [tag |-> "UNSET", message_id |-> 0, buf_len_padded |-> 0,
             val |-> 0, next |-> NoPage]

UnmappedPage == [magic |-> "ZERO", safe_to_unmap |-> FALSE, current_msg_id |-> 0,
                 size_total |-> 0, size_used |-> 0, max_alloc_size |-> 0]

\* llmp_page_init writes the header and the first message's tag and id; what
\* else an earlier use left on the map stays there.
InitHeader(map_size) ==
    [magic |-> "INITIALIZED", safe_to_unmap |-> FALSE, current_msg_id |-> 0,
     size_total |-> map_size - PAGE_HEADER_LEN, size_used |-> 0, max_alloc_size |-> 0]
HeaderAt(m, o) == IF o \in DOMAIN m THEN m[o] ELSE BlankMsg
InitMem(m) ==
    [o \in DOMAIN m \cup {0} |->
        IF o = 0 THEN [HeaderAt(m, 0) EXCEPT !.tag = "UNSET", !.message_id = 0] ELSE m[o]]

NoCall == [tag |-> "DATA", len |-> 0, msg |-> Null, slow |-> FALSE, new_map |-> NoPage]

Init ==
    /\ page = [p \in Pages |-> IF p = 1 THEN InitHeader(INITIAL_MAP_SIZE) ELSE UnmappedPage]
    /\ mem = [p \in Pages |-> IF p = 1 THEN InitMem(<<>>) ELSE <<>>]
    /\ maps = 1
    /\ out_shmems = <<1>>
    /\ unused_shmem_cache = <<>>
    /\ last_msg_sent = Null
    /\ has_unsent_message = FALSE
    /\ pc = "idle"
    /\ call = NoCall
    /\ ncalls = 0
    /\ nsent = 0
    /\ rx = [r \in Receivers |-> [pc |-> "detached", page |-> NoPage, last_msg_recvd |-> Null,
                                  highest_msg_id |-> 0, msg |-> Null, next |-> NoPage,
                                  seen |-> 0]]
    /\ recycled = {}

-----------------------------------------------------------------------------
(* The sender.                                                             *)

NextOf(p, msg) == NextMsgPtr(msg, mem[p][msg].buf_len_padded)

HasSpaceFor(len) == HasSpace(page[LastPage].size_used, page[LastPage].size_total, len)

\* The last message was not committed: its id is not the page's.
NeverCommitted ==
    /\ last_msg_sent # Null
    /\ mem[LastPage][last_msg_sent].message_id # page[LastPage].current_msg_id

\* A header placed at msg, as alloc_next_if_space and shrink_alloced do, the UNSET tag
\* behind it, and no other header of an earlier use of the map in between.
PlaceMsg(m, msg, header) ==
    LET next == NextMsgPtr(msg, header.buf_len_padded)
    IN  [o \in {x \in DOMAIN m : x <= msg \/ x >= next} \cup {msg, next} |->
            IF o = msg THEN header
            ELSE IF o = next THEN [HeaderAt(m, next) EXCEPT !.tag = "UNSET"]
            ELSE m[o]]

\* The public entry points begin a call: send_buf, send_exiting, alloc_next.
AllocNext(tag, len) ==
    /\ pc = "idle"
    /\ pc' = "alloc"
    /\ call' = [NoCall EXCEPT !.tag = tag, !.len = len]
    /\ UNCHANGED <<page, mem, maps, out_shmems, unused_shmem_cache, last_msg_sent,
                   has_unsent_message, nsent, rx, recycled>>

SendBuf(len) ==
    /\ ncalls < MaxCalls
    /\ ncalls' = ncalls + 1
    /\ AllocNext("DATA", len)

SendExiting ==
    /\ AllocNext("EXITING", 0)
    /\ UNCHANGED ncalls

\* An Err result reaches the caller, or the unwrap() of the slow-receiver path.
ReturnErr ==
    IF call.slow THEN pc' = "panicked" /\ UNCHANGED call
                 ELSE pc' = "idle" /\ call' = NoCall

\* alloc_next_if_space: called first on the current page ("alloc"), then once
\* more on the page that handle_out_eop started ("retry").
AllocNextIfSpace ==
    LET p   == LastPage
        msg == page[p].size_used
        id  == IF last_msg_sent = Null THEN 1 ELSE mem[p][last_msg_sent].message_id + 1
        header == [BlankMsg EXCEPT !.tag = "UNINITIALIZED", !.message_id = id,
                                   !.buf_len_padded = PaddedLen(msg, call.len)]
    IN  /\ pc \in {"alloc", "retry"}
        /\ ~has_unsent_message
        /\ HasSpaceFor(call.len)
        /\ ~NeverCommitted
        /\ page' = [page EXCEPT ![p].size_used = msg + AllocLen(msg, call.len),
                                ![p].max_alloc_size = larger(@, AllocLen(msg, call.len))]
        /\ mem' = [mem EXCEPT ![p] = PlaceMsg(@, msg, header)]
        /\ call' = [call EXCEPT !.msg = msg]
        /\ has_unsent_message' = TRUE
        /\ pc' = "alloced"
        /\ UNCHANGED <<maps, out_shmems, unused_shmem_cache, last_msg_sent, nsent, ncalls,
                       rx, recycled>>

\* "Called alloc without calling send inbetween", "never got committed"
AllocPanics ==
    /\ pc \in {"alloc", "retry"}
    /\ has_unsent_message \/ (HasSpaceFor(call.len) /\ NeverCommitted)
    /\ pc' = "panicked"
    /\ UNCHANGED <<page, mem, maps, txvars, rx, recycled>>

\* Mutant of PageFull: tries one page after the other.
PageFullLoops ==
    /\ pc \in {"alloc", "retry"}
    /\ ~has_unsent_message
    /\ ~HasSpaceFor(call.len)
    /\ pc' = "prune"
    /\ UNCHANGED <<page, mem, maps, txvars, rx, recycled>>

\* alloc_next: a full page leads to handle_out_eop, a second failure to an Err.
PageFull ==
    /\ pc \in {"alloc", "retry"}
    /\ ~has_unsent_message
    /\ ~HasSpaceFor(call.len)
    /\ IF pc = "alloc" THEN pc' = "prune" /\ UNCHANGED call ELSE ReturnErr
    /\ UNCHANGED <<page, mem, maps, out_shmems, unused_shmem_cache, last_msg_sent,
                   has_unsent_message, nsent, ncalls, rx, recycled>>

\* Tag and fill the message, then commit it: send() publishes the message by
\* storing its id in current_msg_id.
Send ==
    LET p   == LastPage
        id  == page[p].current_msg_id + 1
        val == IF call.tag = "EXITING" THEN 0 ELSE nsent + 1
    IN  /\ pc = "alloced"
        /\ MsgInPage(call.msg, page[p].size_total)
        /\ mem' = [mem EXCEPT ![p][call.msg] =
                        [@ EXCEPT !.tag = call.tag, !.val = val, !.message_id = id]]
        /\ page' = [page EXCEPT ![p].current_msg_id = id]
        /\ last_msg_sent' = call.msg
        /\ has_unsent_message' = FALSE
        /\ nsent' = IF call.tag = "EXITING" THEN nsent ELSE nsent + 1
        /\ pc' = CASE call.tag = "SLOW_RECEIVER" -> "panicked"
                   [] call.tag = "EXITING"       -> "exited"
                   [] OTHER                      -> "idle"
        /\ call' = IF call.tag = "DATA" THEN NoCall ELSE call
        /\ UNCHANGED <<maps, out_shmems, unused_shmem_cache, ncalls, rx, recycled>>

\* Mutant of GivenBack: the header of the cancelled message is forgotten.
GivenBackWithoutHeader(p) == mem[p][call.msg].buf_len_padded

\* What cancel_send takes off size_used
GivenBack(p) == mem[p][call.msg].buf_len_padded + MSG_HEADER_LEN

\* cancel_send leaves has_unsent_message as it is.
CancelSend ==
    LET p == LastPage
    IN  /\ pc = "alloced"
        /\ call.tag = "DATA"
        /\ mem' = [mem EXCEPT ![p][call.msg].tag = "UNSET"]
        /\ page' = [page EXCEPT ![p].size_used = @ - GivenBack(p)]
        /\ pc' = "idle"
        /\ call' = NoCall
        /\ UNCHANGED <<maps, out_shmems, unused_shmem_cache, last_msg_sent,
                       has_unsent_message, nsent, ncalls, rx, recycled>>

\* shrink_alloced; a length that pads to more than before is refused with an Err.
ShrinkAlloced(len) ==
    LET p   == LastPage
        old == mem[p][call.msg].buf_len_padded
        new == PaddedLen(call.msg, len)
        header == [mem[p][call.msg] EXCEPT !.buf_len_padded = new]
    IN  /\ pc = "alloced"
        /\ call.tag = "DATA"
        /\ has_unsent_message
        /\ new <= old
        /\ mem' = [mem EXCEPT ![p] = PlaceMsg(@, call.msg, header)]
        /\ page' = [page EXCEPT ![p].size_used = @ - old + new]
        /\ UNCHANGED <<maps, txvars, pc, rx, recycled>>

\* Mutant of Prunable: the current page is counted as well.
PrunableWithCurrent ==
    Cardinality({n \in 1..Len(out_shmems) :
                    \A i \in 1..n : page[out_shmems[i]].safe_to_unmap})

\* How many leading pages, never the current one, a receiver marked.
Prunable ==
    Cardinality({n \in 1..(Len(out_shmems) - 1) :
                    \A i \in 1..n : page[out_shmems[i]].safe_to_unmap})

\* Mutant of ReceiverTooSlow: gives up one page too late.
ReceiverTooSlowLate == Prunable = 0 /\ Len(out_shmems) > MAX_PENDING_UNREAD_PAGES + 1

\* Nothing to prune and more than MAX_PENDING_UNREAD_PAGES pages in use
ReceiverTooSlow == Prunable = 0 /\ Len(out_shmems) > MAX_PENDING_UNREAD_PAGES

\* handle_out_eop begins; prune_old_pages moves marked pages to the cache.
PruneOldPages ==
    LET n == IF KeepPagesForever THEN 0 ELSE Prunable
        pruned == SubSeq(out_shmems, 1, n)
    IN  /\ pc = "prune"
        /\ KeepPagesForever \/ ~ReceiverTooSlow
        /\ page' = [p \in Pages |->
                       IF \E i \in 1..n : out_shmems[i] = p
                       THEN [page[p] EXCEPT !.magic = "DEINITIALIZED"] ELSE page[p]]
        /\ out_shmems' = SubSeq(out_shmems, n + 1, Len(out_shmems))
        /\ unused_shmem_cache' = unused_shmem_cache \o pruned
        /\ pc' = "map"
        /\ UNCHANGED <<mem, maps, last_msg_sent, has_unsent_message, call, nsent, ncalls,
                       rx, recycled>>

\* The receiver is too slow: send_buf(LLMP_SLOW_RECEIVER_PANIC, &[]) and panic.
\* That call may find the page full and come back here.
SlowReceiver ==
    /\ pc = "prune"
    /\ ~KeepPagesForever
    /\ ReceiverTooSlow
    /\ ~call.slow
    /\ call' = [NoCall EXCEPT !.tag = "SLOW_RECEIVER", !.slow = TRUE]
    /\ pc' = "alloc"
    /\ UNCHANGED <<page, mem, maps, out_shmems, unused_shmem_cache, last_msg_sent,
                   has_unsent_message, nsent, ncalls, rx, recycled>>

\* The nested send_buf found no room either and nothing can be pruned: the
\* functions call each other until a receiver marks a page or the stack ends.
StackOverflow ==
    /\ pc = "prune"
    /\ ~KeepPagesForever
    /\ ReceiverTooSlow
    /\ call.slow
    /\ pc' = "panicked"
    /\ UNCHANGED <<page, mem, maps, txvars, rx, recycled>>

\* new_or_unused_shmem takes the newest cached page that is large enough and
\* drops the ones it passes over.
CachedFit(size) ==
    {i \in 1..Len(unused_shmem_cache) :
        /\ MapSize(unused_shmem_cache[i]) >= size
        /\ \A j \in (i + 1)..Len(unused_shmem_cache) : MapSize(unused_shmem_cache[j]) < size}

\* Mutant of CacheBelow: the page that was taken stays in the cache.
CacheUpTo(i) == SubSeq(unused_shmem_cache, 1, i)

\* The cache after taking page i
CacheBelow(i) == SubSeq(unused_shmem_cache, 1, i - 1)

\* handle_out_eop gets the new page, with no messages and the old max_alloc_size.
StartPage(p, map_size) ==
    /\ page' = [page EXCEPT ![p] = [InitHeader(map_size) EXCEPT
                                       !.max_alloc_size = page[LastPage].max_alloc_size]]
    /\ mem' = [mem EXCEPT ![p] = InitMem(@)]
    /\ call' = [call EXCEPT !.new_map = p]
    /\ recycled' = recycled \cup {r \in Receivers : rx[r].page = p /\ rx[r].pc # "map"}
    /\ pc' = "eop"

NextMapSize == next_shmem_size(page[LastPage].max_alloc_size)

UnusedShmem ==
    /\ pc = "map"
    /\ \E i \in CachedFit(NextMapSize) :
          /\ StartPage(unused_shmem_cache[i], MapSize(unused_shmem_cache[i]))
          /\ unused_shmem_cache' = CacheBelow(i)
    /\ UNCHANGED <<maps, out_shmems, last_msg_sent, has_unsent_message, nsent, ncalls, rx>>

NewShmem ==
    /\ pc = "map"
    /\ CachedFit(NextMapSize) = {}
    /\ maps < MaxPages
    /\ StartPage(maps + 1, NextMapSize)
    /\ maps' = maps + 1
    /\ unused_shmem_cache' = <<>>
    /\ UNCHANGED <<out_shmems, last_msg_sent, has_unsent_message, nsent, ncalls, rx>>

\* The provider grants no further map: the Err leaves the full page current.
NewShmemFails ==
    /\ pc = "map"
    /\ CachedFit(NextMapSize) = {}
    /\ maps = MaxPages
    /\ unused_shmem_cache' = <<>>
    /\ ReturnErr
    /\ UNCHANGED <<page, mem, maps, out_shmems, last_msg_sent, has_unsent_message,
                   nsent, ncalls, rx, recycled>>

EopFits == page[LastPage].size_used + EOP_MSG_SIZE <= page[LastPage].size_total

\* Where alloc_eop puts the message, from last_msg_sent instead of size_used
EopPtr == IF last_msg_sent = Null THEN 0 ELSE NextOf(LastPage, last_msg_sent)

\* alloc_eop, send(EOP), and the new page becomes the current one
SendEop ==
    LET p  == LastPage
        id == page[p].current_msg_id + 1
        header == [BlankMsg EXCEPT !.tag = "END_OF_PAGE", !.message_id = id,
                                   !.buf_len_padded = SHMEM_INFO_LEN, !.next = call.new_map]
    IN  /\ pc = "eop"
        /\ EopFits
        /\ NextInMap(EopPtr, MapSize(p), EOP_MSG_SIZE)
        /\ mem[p][EopPtr].tag # "UNINITIALIZED"
        /\ MsgInPage(EopPtr, page[p].size_total)
        /\ mem' = [mem EXCEPT ![p][EopPtr] = header]
        /\ page' = [page EXCEPT ![p].size_used = @ + EOP_MSG_SIZE,
                                ![p].current_msg_id = id]
        /\ out_shmems' = Append(out_shmems, call.new_map)
        /\ last_msg_sent' = Null
        /\ has_unsent_message' = FALSE
        /\ call' = [call EXCEPT !.new_map = NoPage]
        /\ pc' = "retry"
        /\ UNCHANGED <<maps, unused_shmem_cache, nsent, ncalls, rx, recycled>>

\* A client that restarts: describe() in the old process, once its current page
\* is safe_to_unmap, on_existing_from_description in the new one.
Reattach ==
    /\ pc = "idle"
    /\ ~KeepPagesForever
    /\ page[LastPage].safe_to_unmap
    /\ out_shmems' = <<LastPage>>
    /\ unused_shmem_cache' = <<>>
    /\ has_unsent_message' = FALSE
    /\ UNCHANGED <<page, mem, maps, last_msg_sent, pc, call, nsent, ncalls, rx, recycled>>

-----------------------------------------------------------------------------
(* The receivers.                                                          *)

\* A map exists as long as one side keeps it mapped.
Mapped(p) ==
    \/ \E i \in 1..Len(out_shmems) : out_shmems[i] = p
    \/ \E i \in 1..Len(unused_shmem_cache) : unused_shmem_cache[i] = p
    \/ \E r \in Receivers : rx[r].page = p

\* Mutant of Attach: the receiver starts at the page the sender is on now.
AttachToCurrent(r) ==
    /\ rx[r].pc = "detached"
    /\ rx' = [rx EXCEPT ![r].pc = "recv", ![r].page = LastPage]
    /\ page' = [page EXCEPT ![LastPage].safe_to_unmap = @ \/ ~KeepPagesForever]
    /\ UNCHANGED <<mem, maps, txvars, pc, recycled>>

\* The receiver gets the description of the sender's first map: the broker by
\* register_client or a NEW_SHM_CLIENT message, which marks the page, a client
\* by on_existing_shmem, which does not.
Attach(r) ==
    /\ rx[r].pc = "detached"
    /\ Mapped(1)
    /\ page[1].magic = "INITIALIZED"
    /\ rx' = [rx EXCEPT ![r].pc = "recv", ![r].page = 1]
    /\ page' = [page EXCEPT ![1].safe_to_unmap = @ \/ ~KeepPagesForever]
    /\ UNCHANGED <<mem, maps, txvars, pc, recycled>>

LastId(r) == mem[rx[r].page][rx[r].last_msg_recvd].message_id

\* Reading a header where an earlier use of the map had one, and the payload of
\* a later message lies now.
ReadsPayload(r, msg) == msg # Null /\ msg \notin DOMAIN mem[rx[r].page]

\* Mutant of CurrentMsgId: the cached id is used once too often.
CurrentMsgIdCached(r) ==
    IF rx[r].last_msg_recvd # Null /\ rx[r].highest_msg_id >= LastId(r)
    THEN rx[r].highest_msg_id
    ELSE page[rx[r].page].current_msg_id

\* The message id recv compares with: cached, or loaded from the page.
CurrentMsgId(r) ==
    IF rx[r].last_msg_recvd # Null /\ rx[r].highest_msg_id > LastId(r)
    THEN rx[r].highest_msg_id
    ELSE page[rx[r].page].current_msg_id

\* Mutant of NothingNew: the message read last is not compared.
NothingNewOnEmptyPage(r) == CurrentMsgId(r) = 0

\* The page has no message yet, or the newest one was read last.
NothingNew(r) ==
    \/ CurrentMsgId(r) = 0
    \/ rx[r].last_msg_recvd # Null /\ LastId(r) = CurrentMsgId(r)

\* recv, first half: is there a message, and where?
RecvLoad(r) ==
    LET p    == rx[r].page
        last == rx[r].last_msg_recvd
        none == NothingNew(r)
        next == IF last = Null THEN 0 ELSE NextOf(p, last)
        ok   == last = Null \/ NextInMap(next, MapSize(p), MSG_HEADER_LEN)
    IN  /\ rx[r].pc = "recv"
        /\ ~ReadsPayload(r, last)
        /\ rx' = [rx EXCEPT ![r].highest_msg_id = CurrentMsgId(r),
                            ![r].msg = IF none \/ ~ok THEN Null ELSE next,
                            ![r].pc = IF none THEN "recv" ELSE IF ok THEN "read" ELSE "failed"]
        /\ UNCHANGED <<page, mem, maps, txvars, pc, recycled>>

\* recv, second half: look at the message. An ordinary one is returned, also
\* one whose tag is still UNINITIALIZED.
RecvRead(r) ==
    LET p   == rx[r].page
        m   == mem[p][rx[r].msg]
        bad == ~InShmem(rx[r].msg, MapSize(p), m.buf_len_padded)
        done == [rx[r] EXCEPT !.msg = Null]
    IN  /\ rx[r].pc = "read"
        /\ ~ReadsPayload(r, rx[r].msg)
        /\ rx' = [rx EXCEPT ![r] =
              CASE bad                   -> [done EXCEPT !.pc = "failed"]
                [] ~bad /\ m.tag = "UNSET"       -> [done EXCEPT !.pc = "panicked"]
                [] ~bad /\ m.tag = "EXITING"     -> [done EXCEPT !.pc = "closed", !.page = NoPage]
                [] ~bad /\ m.tag = "END_OF_PAGE" ->
                      [done EXCEPT !.pc = "map", !.next = m.next,
                                   !.last_msg_recvd = Null, !.highest_msg_id = 0]
                [] OTHER ->
                      [done EXCEPT !.pc = "recv", !.last_msg_recvd = rx[r].msg, !.seen = m.val]]
        /\ page' = IF ~bad /\ m.tag = "END_OF_PAGE"
                   THEN [page EXCEPT ![p].safe_to_unmap = TRUE] ELSE page
        /\ UNCHANGED <<mem, maps, txvars, pc, recycled>>

\* The page under the receiver was recycled and now holds payload bytes where
\* the receiver expects a header: anything may follow.
RecvUndefined(r) ==
    /\ \/ rx[r].pc = "recv" /\ ReadsPayload(r, rx[r].last_msg_recvd)
       \/ rx[r].pc = "read" /\ ReadsPayload(r, rx[r].msg)
    /\ rx' = [rx EXCEPT ![r].pc = "undefined"]
    /\ UNCHANGED <<page, mem, maps, txvars, pc, recycled>>

\* After END_OF_PAGE: map the announced page (LlmpSharedMap::existing asserts
\* its magic) and let go of the old one.
RecvMap(r) ==
    LET p == rx[r].next
    IN  /\ rx[r].pc = "map"
        /\ rx' = [rx EXCEPT ![r] =
              IF ~Mapped(p) THEN [@ EXCEPT !.pc = "failed"]
              ELSE IF page[p].magic # "INITIALIZED" THEN [@ EXCEPT !.pc = "panicked"]
              ELSE [@ EXCEPT !.pc = "mark", !.page = p, !.next = NoPage]]
        /\ UNCHANGED <<page, mem, maps, txvars, pc, recycled>>

\* Mark the new page safe to unmap and call recv again.
RecvMark(r) ==
    /\ rx[r].pc = "mark"
    /\ rx' = [rx EXCEPT ![r].pc = "recv"]
    /\ page' = [page EXCEPT ![rx[r].page].safe_to_unmap = TRUE]
    /\ UNCHANGED <<mem, maps, txvars, pc, recycled>>

-----------------------------------------------------------------------------
SenderStep ==
    \/ AllocNextIfSpace \/ AllocPanics \/ PageFull \/ Send
    \/ PruneOldPages \/ SlowReceiver \/ StackOverflow
    \/ UnusedShmem \/ NewShmem \/ NewShmemFails \/ SendEop

Caller ==
    \/ \E len \in Lens : SendBuf(len) \/ ShrinkAlloced(len)
    \/ SendExiting \/ CancelSend \/ Reattach

Recv(r) == RecvLoad(r) \/ RecvRead(r) \/ RecvUndefined(r) \/ RecvMap(r) \/ RecvMark(r)

\* Both sides are gone.
Terminated ==
    /\ pc \in {"exited", "panicked"}
    /\ \A r \in Receivers : rx[r].pc \in {"closed", "failed", "panicked", "undefined"}
    /\ UNCHANGED vars

Next ==
    \/ Caller
    \/ SenderStep
    \/ \E r \in Receivers : Attach(r) \/ Recv(r)
    \/ Terminated

Spec == Init /\ [][Next]_vars

\* A sender inside a call runs on, a receiver polls; nobody has to send.
Fairness ==
    /\ WF_vars(SenderStep)
    /\ \A r \in Receivers : WF_vars(Recv(r))

FairSpec == Spec /\ Fairness

-----------------------------------------------------------------------------
(* Properties.                                                             *)

PageHeader == [magic : {"ZERO", "INITIALIZED", "DEINITIALIZED"}, safe_to_unmap : BOOLEAN,
               current_msg_id : Nat, size_total : Nat, size_used : Nat, max_alloc_size : Nat]

MsgsTyped(m) == DOMAIN m \subseteq Nat /\ \A o \in DOMAIN m : m[o] \in Msg

CallState == [tag : CallTags, len : Lens, msg : Nat \cup {Null}, slow : BOOLEAN,
              new_map : Pages \cup {NoPage}]

RxState == [pc : {"detached", "recv", "read", "map", "mark", "closed", "failed", "panicked",
                  "undefined"},
            page : Pages \cup {NoPage}, last_msg_recvd : Nat \cup {Null}, highest_msg_id : Nat,
            msg : Nat \cup {Null}, next : Pages \cup {NoPage}, seen : Nat]

\* Type invariant of the pages, of LlmpSender and of every LlmpReceiver.
TypeOK ==
    /\ page \in [Pages -> PageHeader]
    /\ DOMAIN mem = Pages
    /\ \A p \in Pages : MsgsTyped(mem[p])
    /\ maps \in Pages
    /\ out_shmems \in Seq(Pages) /\ Len(out_shmems) > 0
    /\ unused_shmem_cache \in Seq(Pages)
    /\ last_msg_sent \in Nat \cup {Null}
    /\ has_unsent_message \in BOOLEAN
    /\ pc \in {"idle", "alloc", "alloced", "prune", "map", "eop", "retry", "exited", "panicked"}
    /\ call \in CallState
    /\ ncalls \in 0..MaxCalls
    /\ nsent \in Nat
    /\ rx \in [Receivers -> RxState]
    /\ recycled \subseteq Receivers

\* The "EOP does not fit in page" abort of alloc_eop cannot happen: whatever was
\* allocated, shrunk or cancelled, the current page has room for one more
\* END_OF_PAGE message.
EopAlwaysFits == EopFits

\* The sender allocates at size_used, alloc_eop places END_OF_PAGE behind
\* last_msg_sent, and a receiver looks behind the padded length of the message
\* it read last. These three places are the same one at all times, and none of
\* the checks that alloc_eop and send() make of it fails.
PlacementAgrees ==
    /\ pc # "alloced" => page[LastPage].size_used = EopPtr
    /\ pc = "alloced" => /\ call.msg = EopPtr
                         /\ page[LastPage].size_used = NextOf(LastPage, call.msg)
    /\ pc = "eop" => /\ NextInMap(EopPtr, MapSize(LastPage), EOP_MSG_SIZE)
                     /\ mem[LastPage][EopPtr].tag = "UNSET"
    /\ MsgInPage(EopPtr, page[LastPage].size_total)

\* No page is owned twice: the sender's pages, its cache of pruned pages and the
\* page being started are disjoint, and their magic says which is which, so
\* neither "Tried to initialize page twice" nor "Tried to free uninitialized
\* shared map" can fire.
PagesOwnedOnce ==
    /\ \A i, j \in 1..Len(out_shmems) : out_shmems[i] = out_shmems[j] => i = j
    /\ \A i, j \in 1..Len(unused_shmem_cache) :
          unused_shmem_cache[i] = unused_shmem_cache[j] => i = j
    /\ \A i \in 1..Len(out_shmems) :
          page[out_shmems[i]].magic = "INITIALIZED" /\ out_shmems[i] # call.new_map
    /\ \A i \in 1..Len(unused_shmem_cache) :
          page[unused_shmem_cache[i]].magic = "DEINITIALIZED"

\* A client keeps a bounded number of pages the broker has not caught up with:
\* beyond that prune_old_pages gives up instead of growing (OOM).
PendingPagesBounded ==
    KeepPagesForever \/ Len(out_shmems) <= MAX_PENDING_UNREAD_PAGES + 1

\* recv never meets an unallocated message, one out of the map's bounds, or an
\* END_OF_PAGE that leads to a map that is gone or not initialised, unless the
\* page was recycled under the receiver.
RecvNeverFails ==
    \A r \in Receivers \ recycled :
        /\ rx[r].pc \notin {"failed", "panicked", "undefined"}
        /\ rx[r].seen <= nsent

\* recv returns the messages in the order of sending, each exactly once and
\* across page switches, unless the page was recycled under the receiver.
RecvInOrder ==
    [][\A r \in Receivers \ recycled' : rx'[r].seen \in {rx[r].seen, rx[r].seen + 1}]_vars

\* A page is handed back to the cache for reuse only when no receiver reads it
\* any more ("no potential readers are left", LlmpSender::unused_shmem_cache).
CachedPagesHaveNoReaders ==
    \A i \in 1..Len(unused_shmem_cache), r \in Receivers :
        rx[r].page = unused_shmem_cache[i] => rx[r].pc = "map"

\* A call of the sender comes to an end, also through handle_out_eop.
CallsReturn == pc \in {"alloc", "prune", "map", "eop", "retry"}
                  ~> pc \in {"idle", "alloced", "exited", "panicked"}

\* What a client commits reaches an attached broker that keeps polling, also
\* over page switches and restarts, unless its page is recycled under it.
CommittedIsReceived ==
    \A r \in Receivers, k \in 1..MaxCalls :
        nsent >= k /\ rx[r].pc # "detached" ~> rx[r].seen >= k \/ r \in recycled

\* The broadcast map is a log that every reader gets in full (LlmpBroadcast).
Log == INSTANCE LlmpBroadcast WITH
          Readers <- Receivers,
          sent    <- nsent,
          joined  <- {r \in Receivers : rx[r].pc # "detached"},
          seen    <- [r \in Receivers |-> rx[r].seen]

ImplementsLog == Log!Spec
=============================================================================

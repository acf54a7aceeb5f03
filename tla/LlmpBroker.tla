----------------------------- MODULE LlmpBroker -----------------------------
(***************************************************************************)
(* The LLMP broker process (LlmpBroker of libafl/src/bolts/llmp.rs): its   *)
(* polling loop over the clients, the TCP listener thread that announces   *)
(* new clients, registration, ids, removal, time-outs and the clean exit;  *)
(* and the client processes around it.                                     *)
(*                                                                         *)
(* Channels are what LlmpBroadcast promises of them: a client's out map is *)
(* the sequence chan[c] of messages the broker has not read yet, the       *)
(* broadcast map is the log `out`, of which every client has read a prefix.*)
(***************************************************************************)
EXTENDS Naturals, Sequences, FiniteSets

CONSTANTS
    Clients,           \* client processes
    Listener,          \* the listener thread, itself a client of the broker
    ExitCleanlyAfter,  \* LlmpBroker::exit_cleanly_after
    LoopForever,       \* TRUE: loop_forever, FALSE: loop_with_timeouts
    MaxMsgs,           \* bound: events all clients together send
    MaxBacklog         \* unread messages after which a client gives up

ASSUME BrokerAssumption ==
    /\ IsFiniteSet(Clients)
    /\ Listener \notin Clients
    /\ ExitCleanlyAfter \in Nat \ {0}
    /\ LoopForever \in BOOLEAN
    /\ MaxMsgs \in Nat
    /\ MaxBacklog \in Nat \ {0}

VARIABLES
    llmp_clients,       \* the broker's receivers, in registration order
    num_clients_total,
    clients_to_remove,
    bpc,                \* where the broker is in its loop
    once,               \* locals of once() and handle_new_msgs()
    out,                \* the broadcast log
    current_client_id,  \* the listener's counter
    chan,               \* unread messages, by sender
    cl,                 \* the client processes
    clash               \* two receivers of the broker had the same id

broker == <<llmp_clients, num_clients_total, clients_to_remove, bpc, once, out>>
vars   == <<broker, current_client_id, chan, cl, clash>>

Senders == Clients \cup {Listener}

Receiver(id, sender) == [id |-> id, from |-> sender, old |-> FALSE]

NoOnce == [i |-> 0, n |-> 0, client_id |-> 0, next_id |-> 0, new |-> FALSE]

\* A broker that launched its listener: launch_listener registers it as client 0.
Init ==
    /\ llmp_clients = <<Receiver(0, Listener)>>
    /\ num_clients_total = 1
    /\ clients_to_remove = <<>>
    /\ bpc = "loop"
    /\ once = NoOnce
    /\ out = <<>>
    /\ current_client_id = 1
    /\ chan = [s \in Senders |-> <<>>]
    /\ cl = [c \in Clients |-> [pc |-> "new", id |-> 0, sent |-> 0, read |-> 0]]
    /\ clash = FALSE

listeners == {0}

-----------------------------------------------------------------------------
(* Clients and the listener thread.                                        *)

\* create_attach_to_tcp on one side, handle_tcp_request(LocalClientHello) on the
\* other: the listener announces the map, then hands out its next id.
Connect(c) ==
    /\ cl[c].pc = "new"
    /\ bpc \notin {"quit", "panicked"}
    /\ chan' = [chan EXCEPT ![Listener] = Append(@, [kind |-> "NEW_SHM_CLIENT", client |-> c])]
    /\ cl' = [cl EXCEPT ![c].pc = "running", ![c].id = current_client_id]
    /\ current_client_id' = current_client_id + 1
    /\ UNCHANGED <<broker, clash>>

\* The events that were sent, each by its client and its number
Events == {e \in Clients \X (1..MaxMsgs) : e[2] <= cl[e[1]].sent}

Post(c, msg) == chan' = [chan EXCEPT ![c] = Append(@, msg)]

SendEvent(c) ==
    /\ cl[c].pc = "running"
    /\ Cardinality(Events) < MaxMsgs
    /\ Len(chan[c]) < MaxBacklog
    /\ Post(c, [kind |-> "EVENT", client |-> c, n |-> cl[c].sent + 1])
    /\ cl' = [cl EXCEPT ![c].sent = @ + 1]
    /\ UNCHANGED <<broker, current_client_id, clash>>

SendExiting(c) ==
    /\ cl[c].pc = "running"
    /\ Post(c, [kind |-> "EXITING", client |-> c])
    /\ cl' = [cl EXCEPT ![c].pc = "exited"]
    /\ UNCHANGED <<broker, current_client_id, clash>>

\* A client whose out map is full of unread pages (LlmpChannel, SlowReceiver)
GiveUp(c) ==
    /\ cl[c].pc = "running"
    /\ Len(chan[c]) = MaxBacklog
    /\ Post(c, [kind |-> "SLOW_RECEIVER_PANIC", client |-> c])
    /\ cl' = [cl EXCEPT ![c].pc = "dead"]
    /\ UNCHANGED <<broker, current_client_id, clash>>

\* The process is killed and says nothing.
Crash(c) ==
    /\ cl[c].pc = "running"
    /\ cl' = [cl EXCEPT ![c].pc = "dead"]
    /\ UNCHANGED <<broker, current_client_id, chan, clash>>

\* The client reads the broadcast map; EXITING ends it (Error::ShuttingDown).
ReadBroadcast(c) ==
    /\ cl[c].pc = "running"
    /\ cl[c].read < Len(out)
    /\ cl' = [cl EXCEPT ![c].read = @ + 1,
                        ![c].pc = IF out[cl[c].read + 1].kind = "EXITING" THEN "told" ELSE @]
    /\ UNCHANGED <<broker, current_client_id, chan, clash>>

-----------------------------------------------------------------------------
(* The broker loop.                                                        *)

\* once(): the range of clients is fixed when it starts.
OnceBegin ==
    /\ bpc = "loop"
    /\ once' = [NoOnce EXCEPT !.i = 1, !.n = Len(llmp_clients)]
    /\ bpc' = "client"
    /\ UNCHANGED <<llmp_clients, num_clients_total, clients_to_remove, out,
                   current_client_id, chan, cl, clash>>

\* once() turns to client i and calls handle_new_msgs with its id.
HandleNewMsgs ==
    /\ bpc = "client"
    /\ once.i <= once.n
    /\ once' = [once EXCEPT !.client_id = llmp_clients[once.i].id,
                            !.next_id = Len(llmp_clients), !.new = FALSE]
    /\ bpc' = "recv"
    /\ UNCHANGED <<llmp_clients, num_clients_total, clients_to_remove, out,
                   current_client_id, chan, cl, clash>>

\* Where handle_new_msgs looks for the client: at the position that equals the
\* id if the id matches, else at the first one that has the id.
Pos ==
    LET id == once.client_id
    IN  IF id < Len(llmp_clients) /\ llmp_clients[id + 1].id = id
        THEN id + 1
        ELSE CHOOSE k \in 1..Len(llmp_clients) :
                /\ llmp_clients[k].id = id
                /\ \A j \in 1..(k - 1) : llmp_clients[j].id # id

Unread == chan[llmp_clients[Pos].from]

\* The message at the head of the channel, of the given kind, is received.
Receives(kind) == bpc = "recv" /\ Unread # <<>> /\ Head(Unread).kind = kind

Consume == chan' = [chan EXCEPT ![llmp_clients[Pos].from] = Tail(@)]

\* Mutant of OnNewMsg: the newest message is taken first.
OnNewMsgNewest ==
    LET from == llmp_clients[Pos].from
        newest == Unread[Len(Unread)]
    IN  /\ Receives("EVENT") /\ newest.kind = "EVENT"
        /\ chan' = [chan EXCEPT ![from] = SubSeq(@, 1, Len(@) - 1)]
        /\ out' = Append(out, newest)
        /\ once' = [once EXCEPT !.new = TRUE]
        /\ UNCHANGED <<llmp_clients, num_clients_total, clients_to_remove, bpc,
                       current_client_id, cl, clash>>

\* Any other message goes to the on_new_msg hook, which handles it in the
\* broker or has it forwarded to all clients. If the hook, try_as_slice or
\* forward_msg fails, once() returns the Err and the loop panics on it.
OnNewMsg ==
    /\ Receives("EVENT")
    /\ Consume
    /\ \/ out' = Append(out, Head(Unread)) /\ UNCHANGED bpc
       \/ UNCHANGED <<out, bpc>>
       \/ bpc' = "panicked" /\ UNCHANGED out
    /\ once' = [once EXCEPT !.new = TRUE]
    /\ UNCHANGED <<llmp_clients, num_clients_total, clients_to_remove,
                   current_client_id, cl, clash>>

\* NEW_SHM_CLIENT: map the announced page and poll it from the next once() on.
\* Its id comes from the length of llmp_clients.
NewShmClient ==
    /\ Receives("NEW_SHM_CLIENT")
    /\ Consume
    /\ llmp_clients' = Append(llmp_clients, Receiver(once.next_id, Head(Unread).client))
    /\ num_clients_total' = num_clients_total + 1
    /\ once' = [once EXCEPT !.new = TRUE, !.next_id = @ + 1]
    /\ clash' = (clash \/ \E k \in 1..Len(llmp_clients) : llmp_clients[k].id = once.next_id)
    /\ UNCHANGED <<clients_to_remove, bpc, out, current_client_id, cl>>

\* The announced map is gone with the process that owned it: "Ignoring".
NewShmClientIgnored ==
    /\ Receives("NEW_SHM_CLIENT")
    /\ cl[Head(Unread).client].pc \in {"exited", "dead"}
    /\ Consume
    /\ once' = [once EXCEPT !.new = TRUE]
    /\ UNCHANGED <<llmp_clients, num_clients_total, clients_to_remove, bpc, out,
                   current_client_id, cl, clash>>

\* The client gave up: once() returns the Err and the loop panics on it.
SlowReceiverPanic ==
    /\ Receives("SLOW_RECEIVER_PANIC")
    /\ bpc' = "panicked"
    /\ UNCHANGED <<llmp_clients, num_clients_total, clients_to_remove, once, out,
                   current_client_id, chan, cl, clash>>

NextClient == bpc' = "client" /\ once' = [once EXCEPT !.i = @ + 1]

\* Mutants of ClientShutsDown: the id is taken for the position, or nothing is noted.
ClientShutsDownById ==
    /\ Receives("EXITING")
    /\ clients_to_remove' = Append(clients_to_remove, once.client_id)
    /\ NextClient
    /\ UNCHANGED <<llmp_clients, num_clients_total, out, current_client_id, chan, cl, clash>>
ClientShutsDownForgotten ==
    /\ Receives("EXITING")
    /\ NextClient
    /\ UNCHANGED <<llmp_clients, num_clients_total, clients_to_remove, out,
                   current_client_id, chan, cl, clash>>

\* EXITING: recv returns Err(ShuttingDown) and does not step over the message.
ClientShutsDown ==
    /\ Receives("EXITING")
    /\ clients_to_remove' = Append(clients_to_remove, once.i)
    /\ NextClient
    /\ UNCHANGED <<llmp_clients, num_clients_total, out, current_client_id, chan, cl, clash>>

\* No further message: refresh last_msg_time of the client that was read, or
\* remove client i if it has been silent for CLIENT_TIMEOUT.
NoMoreMsgs ==
    /\ bpc = "recv"
    /\ Unread = <<>>
    /\ llmp_clients' = IF once.new THEN [llmp_clients EXCEPT ![Pos].old = FALSE]
                                   ELSE llmp_clients
    /\ clients_to_remove' =
          IF ~once.new /\ once.client_id \notin listeners /\ llmp_clients[once.i].old
          THEN Append(clients_to_remove, once.i) ELSE clients_to_remove
    /\ NextClient
    /\ UNCHANGED <<num_clients_total, out, current_client_id, chan, cl, clash>>

\* The elements of s at the given positions, in their order
AtPositions(s, kept) ==
    LET Rank(i) == Cardinality({j \in kept : j <= i})
    IN  [n \in 1..Cardinality(kept) |-> s[CHOOSE i \in kept : Rank(i) = n]]

\* Clients are removed from the last offset in clients_to_remove to the first. The
\* offsets ascend, so that none of them moves before its turn.
WithoutOffsets(s, offsets) ==
    AtPositions(s, DOMAIN s \ {offsets[k] : k \in DOMAIN offsets})

WithoutRemoved == WithoutOffsets(llmp_clients, clients_to_remove)

\* Mutant of CleanExit: one more client than asked for has to join.
CleanExitStrict(remaining) ==
    /\ Len(remaining) <= Cardinality(listeners)
    /\ num_clients_total - Cardinality(listeners) > ExitCleanlyAfter

\* The exit condition of the two loops
CleanExit(remaining) ==
    LET joined == num_clients_total - Cardinality(listeners)
    IN  /\ Len(remaining) <= Cardinality(listeners)
        /\ IF LoopForever THEN joined > ExitCleanlyAfter ELSE joined >= ExitCleanlyAfter

\* Mutant of OnceEnd: clients_to_remove is not cleared.
OnceEndKeepsList ==
    /\ bpc = "client"
    /\ once.i > once.n
    /\ llmp_clients' = WithoutRemoved
    /\ once' = NoOnce
    /\ bpc' = "loop"
    /\ UNCHANGED <<num_clients_total, clients_to_remove, out, current_client_id, chan, cl, clash>>

\* once() ends by removing clients; then the loop checks whether it is done.
OnceEnd ==
    /\ bpc = "client"
    /\ once.i > once.n
    /\ llmp_clients' = WithoutRemoved
    /\ clients_to_remove' = <<>>
    /\ once' = NoOnce
    /\ IF CleanExit(WithoutRemoved)
       THEN bpc' = "quit" /\ out' = Append(out, [kind |-> "EXITING", client |-> Listener])
       ELSE bpc' = "loop" /\ UNCHANGED out
    /\ UNCHANGED <<num_clients_total, current_client_id, chan, cl, clash>>

\* Mutant of Interrupt: the loop ends without telling the clients.
InterruptSilently ==
    /\ bpc = "loop"
    /\ bpc' = "quit"
    /\ UNCHANGED <<llmp_clients, num_clients_total, clients_to_remove, once, out,
                   current_client_id, chan, cl, clash>>

\* SIGINT, SIGTERM or SIGQUIT: the loop ends before the next once().
Interrupt ==
    /\ bpc = "loop"
    /\ bpc' = "quit"
    /\ out' = Append(out, [kind |-> "EXITING", client |-> Listener])
    /\ UNCHANGED <<llmp_clients, num_clients_total, clients_to_remove, once,
                   current_client_id, chan, cl, clash>>

\* CLIENT_TIMEOUT passes without a message from any client.
TimePasses ==
    /\ bpc = "loop"
    /\ \E k \in 1..Len(llmp_clients) : ~llmp_clients[k].old
    /\ llmp_clients' = [k \in 1..Len(llmp_clients) |-> [llmp_clients[k] EXCEPT !.old = TRUE]]
    /\ UNCHANGED <<num_clients_total, clients_to_remove, bpc, once, out,
                   current_client_id, chan, cl, clash>>

-----------------------------------------------------------------------------
BrokerStep ==
    \/ OnceBegin \/ HandleNewMsgs \/ OnNewMsg \/ NewShmClient \/ NewShmClientIgnored
    \/ SlowReceiverPanic \/ ClientShutsDown \/ NoMoreMsgs \/ OnceEnd

ClientStep(c) ==
    \/ Connect(c) \/ SendEvent(c) \/ SendExiting(c) \/ GiveUp(c) \/ Crash(c) \/ ReadBroadcast(c)

\* The broker is gone and every client has ended or can read no more.
Terminated ==
    /\ bpc \in {"quit", "panicked"}
    /\ \A c \in Clients : cl[c].pc # "running"
    /\ UNCHANGED vars

Next == BrokerStep \/ Interrupt \/ TimePasses \/ (\E c \in Clients : ClientStep(c)) \/ Terminated

Spec == Init /\ [][Next]_vars

\* The broker loop and the clock run on; a running client polls its broadcast map.
Fairness ==
    /\ WF_vars(BrokerStep)
    /\ SF_vars(TimePasses)
    /\ \A c \in Clients : WF_vars(ReadBroadcast(c))

FairSpec == Spec /\ Fairness

-----------------------------------------------------------------------------
(* Properties.                                                             *)

Gone(c) == cl[c].pc \in {"exited", "dead", "told"}

\* Type invariant of the broker, the listener and the clients.
TypeOK ==
    /\ llmp_clients \in Seq([id : Nat, from : Senders, old : BOOLEAN])
    /\ num_clients_total \in 1..(Cardinality(Clients) + 1)
    /\ clients_to_remove \in Seq(1..Len(llmp_clients))
    /\ bpc \in {"loop", "client", "recv", "quit", "panicked"}
    /\ once \in [i : Nat, n : Nat, client_id : Nat, next_id : Nat, new : BOOLEAN]
    /\ current_client_id \in 1..(Cardinality(Clients) + 1)
    /\ cl \in [Clients -> [pc : {"new", "running", "exited", "dead", "told"}, id : Nat,
                           sent : 0..MaxMsgs, read : 0..Len(out)]]
    /\ clash \in BOOLEAN

\* The broadcast map carries the events of one client in the order it sent them,
\* none twice, whatever the broker handles itself and however the polling of
\* several clients interleaves with joins and removals.
ForwardedInOrder ==
    \A j, k \in 1..Len(out) :
        /\ j < k
        /\ out[j].kind = "EVENT" /\ out[k].kind = "EVENT"
        /\ out[j].client = out[k].client
        => out[j].n < out[k].n

\* A client leaves llmp_clients only if it said EXITING and all it sent before
\* was read, or if it has been silent for CLIENT_TIMEOUT; unless ids clashed.
RemovedOnlyWhenDone ==
    [][\A k \in 1..Len(llmp_clients) :
          LET c == llmp_clients[k]
          IN  /\ ~clash
              /\ \A j \in 1..Len(llmp_clients') : llmp_clients'[j].from # c.from
              => \/ c.old
                 \/ chan[c.from] # <<>> /\ Head(chan[c.from]).kind = "EXITING"]_vars

\* set_exit_cleanly_after(n): "it will quit after client 2 connected and
\* disconnected": once n clients have joined and all have gone, the broker ends.
QuitsAfterLastClient ==
    (num_clients_total - Cardinality(listeners) >= ExitCleanlyAfter /\ \A c \in Clients : Gone(c))
        ~> bpc \in {"quit", "panicked"}

\* A broker that quits tells everyone: each client it leaves behind, also one
\* that was accepted over TCP but never registered, reads EXITING.
QuitReachesEveryClient ==
    \A c \in Clients : bpc = "quit" /\ cl[c].pc = "running" ~> Gone(c)

\* A client that exits is eventually forgotten by a broker that goes on.
ExitedClientsAreRemoved ==
    \A c \in Clients :
        cl[c].pc = "exited" ~> \/ bpc \in {"quit", "panicked"}
                               \/ \A k \in 1..Len(llmp_clients) : llmp_clients[k].from # c
=============================================================================

---------------------------- MODULE ShMemServer ----------------------------
(***************************************************************************)
(* The shared-memory service of libafl/src/bolts/os/unix_shmem_server.rs   *)
(* and its clients: ServedShMemProvider inside the RcShMemProvider of      *)
(* libafl/src/bolts/shmem.rs, in processes that map, release, fork (as the *)
(* launcher and the fork executors do) and die.                            *)
(*                                                                         *)
(* The server is one thread of the process that started it. It keeps, for  *)
(* each connection, the maps its client uses, and for each client that is  *)
(* about to fork a copy of them, for the child. A map is named by the      *)
(* number of its file at the server: the number is used again once nobody  *)
(* holds the map.                                                          *)
(***************************************************************************)
EXTENDS Integers, Sequences, FiniteSets, FiniteSetsExt

CONSTANTS
    Procs,          \* the processes, natural numbers above 0
    First,          \* those that are there from the start; the others are forked
    ForkExecutors,  \* those that wait for the end of the child they forked
    Fds,            \* numbers for the server's ends of connections
    Ids,            \* numbers for maps
    MaxMaps,        \* bound: maps made
    MaxHeld,        \* bound: how often one process has one map
    MaxCalls,       \* bound: calls of the provider
    MaxKills        \* bound: processes that are killed

ASSUME ShMemServerAssumption ==
    /\ Procs \subseteq Nat \ {0} /\ First \subseteq Procs /\ ForkExecutors \subseteq Procs
    /\ Fds \subseteq Nat \ {0} /\ Ids \subseteq Nat \ {0}
    \* numbers do not run out
    /\ IsFiniteSet(Procs) /\ IsFiniteSet(Fds) /\ Cardinality(Procs) < Cardinality(Fds)
    /\ IsFiniteSet(Ids) /\ MaxMaps <= Cardinality(Ids)
    /\ MaxMaps \in Nat /\ MaxHeld \in Nat /\ MaxCalls \in Nat /\ MaxKills \in Nat

Maps   == 1..MaxMaps
NoMaps == [m \in Maps |-> 0]
Exiter == 0               \* the connection that asks the service to exit
Conns  == Procs \cup {Exiter}

VARIABLES
    server,   \* its state, its process, what poll reported and is not handled yet, and
              \* the new connection whose first request it waits for
    clients,  \* number -> the connection and how often its client has each map
    forking,  \* forking_clients: number of the parent -> copy of its maps
    idOf,     \* the number of each map made so far, 0 for the others
    conn,     \* the connections, by the process that opened them
    backlog,  \* connections the server has not accepted
    procs,    \* the processes
    pipe,     \* by child: what was written to parent_child_pipe and child_parent_pipe
    count     \* history: calls of the provider, processes killed, copies in forking that
              \* were replaced before their child got them, and the connections on which a
              \* request was refused

vars == <<server, clients, forking, idOf, conn, backlog, procs, pipe, count>>

NoConn == [ends |-> {}, fd |-> 0, req |-> "none", arg |-> 0, resp |-> "none", val |-> 0]
NoProc == [pc |-> "unborn", stream |-> 0, id |-> 0, held |-> NoMaps, child |-> 0]

Init ==
    /\ server = [state |-> "none", owner |-> 0, todo |-> {}, reads |-> 0]
    /\ clients = <<>> /\ forking = <<>>
    /\ idOf = NoMaps
    /\ conn = [c \in Conns |-> NoConn] /\ backlog = <<>>
    /\ procs = [p \in Procs |-> [NoProc EXCEPT !.pc = IF p \in First THEN "start" ELSE "unborn"]]
    /\ pipe = [p \in Procs |-> [parent_done |-> FALSE, child_done |-> FALSE]]
    /\ count = [calls |-> 0, kills |-> 0, lost |-> 0, refused |-> {}]

Running == server.state = "running"
Live(p) == procs[p].pc \notin {"unborn", "dead"}

\* functions whose domain changes
With(f, k, v) == [x \in DOMAIN f \cup {k} |-> IF x = k THEN v ELSE f[x]]
Without(f, k) == [x \in DOMAIN f \ {k} |-> f[x]]

\* An Rc of the map is left, in given tables
Kept(cl, fo, m) ==
    \/ \E k \in DOMAIN cl : cl[k].maps[m] > 0
    \/ \E k \in DOMAIN fo : fo[k][m] > 0
InUse(m)    == Kept(clients, forking, m)
MadeMaps    == {m \in Maps : idOf[m] # 0}
\* all_shmems: the map made last under this number, alive or not
AllShMems(id) == Max({m \in MadeMaps : idOf[m] = id})

-----------------------------------------------------------------------------
(* Clients.                                                                *)

Go(p, pc) == procs' = [procs EXCEPT ![p].pc = pc]

\* ShMemService::start, once; whoever comes later finds the name bound.
Start(p) ==
    /\ procs[p].pc = "start"
    /\ server' = IF server.state = "none"
                 THEN [server EXCEPT !.state = "running", !.owner = p] ELSE server
    /\ Go(p, "connect")
    /\ UNCHANGED <<clients, forking, idOf, conn, backlog, pipe, count>>

\* The stream of a forked child replaces its copy of the parent's.
Connect(p) ==
    /\ procs[p].pc = "connect" /\ Running
    /\ LET left == IF procs[p].stream = 0 THEN conn
                   ELSE [conn EXCEPT ![procs[p].stream].ends = @ \ {p}]
       IN  conn' = [left EXCEPT ![p] = [NoConn EXCEPT !.ends = {p}]]
    /\ backlog' = Append(backlog, p)
    /\ procs' = [procs EXCEPT ![p].pc = "hello", ![p].stream = p]
    /\ UNCHANGED <<server, clients, forking, idOf, pipe, count>>

Call(p) ==
    /\ procs[p].pc = "idle" /\ count.calls < MaxCalls
    /\ count' = [count EXCEPT !.calls = @ + 1]

\* send_receive, first half
Send(p, req, arg) ==
    conn' = [conn EXCEPT ![procs[p].stream].req = req, ![procs[p].stream].arg = arg]

Hello(p) ==
    /\ procs[p].pc = "hello"
    /\ IF procs[p].id = 0 THEN Send(p, "Hello", 0) ELSE Send(p, "PostForkChildHello", procs[p].id)
    /\ Go(p, "wait_hello")
    /\ UNCHANGED <<server, clients, forking, idOf, backlog, pipe, count>>

NewShMem(p) ==
    /\ Call(p) /\ Send(p, "NewMap", 0) /\ Go(p, "wait_map")
    /\ UNCHANGED <<server, clients, forking, idOf, backlog, pipe>>

\* shmem_from_id_and_size, of a description that some process once had
ShMemFromId(p, m) ==
    /\ Call(p) /\ m \in MadeMaps /\ procs[p].held[m] < MaxHeld
    /\ Send(p, "ExistingMap", idOf[m]) /\ Go(p, "wait_map")
    /\ UNCHANGED <<server, clients, forking, idOf, backlog, pipe>>

\* shmem_from_id_and_size, of a description that is empty or of a map that another made
ShMemFromUnknown(p) ==
    /\ Call(p) /\ Send(p, "ExistingMap", 0) /\ Go(p, "wait_map")
    /\ UNCHANGED <<server, clients, forking, idOf, backlog, pipe>>

\* drop of an RcShMem. Whether the local mapping is dropped too depends on the answer.
ReleaseShMem(p, m) ==
    /\ Call(p) /\ procs[p].held[m] > 0
    /\ Send(p, "Deregister", idOf[m])
    /\ procs' = [procs EXCEPT ![p].pc = "wait_release", ![p].held[m] = @ - 1]
    /\ UNCHANGED <<server, clients, forking, idOf, backlog, pipe>>

PreFork(p) ==
    /\ Call(p)
    /\ Send(p, "PreFork", 0) /\ Go(p, "wait_prefork")
    /\ UNCHANGED <<server, clients, forking, idOf, backlog, pipe>>

\* send_receive, second half. A child that is registered tells its parent.
Receive(p) ==
    /\ Live(p) /\ procs[p].stream # 0
    /\ LET c == conn[procs[p].stream]
       IN  /\ c.resp # "none"
           /\ CASE procs[p].pc = "wait_hello" ->
                     /\ procs' = [procs EXCEPT ![p].id = c.val, ![p].pc = "idle"]
                     /\ pipe' = [pipe EXCEPT ![p].child_done = @ \/ procs[p].id # 0]
                [] procs[p].pc = "wait_map" ->
                     /\ procs' = [procs EXCEPT ![p].held[c.val] = @ + 1, ![p].pc = "idle"]
                     /\ UNCHANGED pipe
                [] procs[p].pc = "wait_release" -> Go(p, "idle") /\ UNCHANGED pipe
                [] procs[p].pc = "wait_prefork" -> Go(p, "fork") /\ UNCHANGED pipe
                [] OTHER -> FALSE
    /\ conn' = [conn EXCEPT ![procs[p].stream].resp = "none", ![procs[p].stream].val = 0]
    /\ UNCHANGED <<server, clients, forking, idOf, backlog, count>>

Fork(p, c) ==
    /\ procs[p].pc = "fork" /\ procs[c].pc = "unborn"
    /\ procs' = [procs EXCEPT ![c] = [procs[p] EXCEPT !.pc = "await_parent", !.child = 0],
                              ![p].pc = "set_parent_done", ![p].child = c]
    /\ conn' = [conn EXCEPT ![procs[p].stream].ends = @ \cup {c}]
    /\ UNCHANGED <<server, clients, forking, idOf, backlog, pipe, count>>

\* fork fails: the copy of the maps stays at the server.
ForkFails(p) ==
    /\ procs[p].pc = "fork" /\ Go(p, "idle")
    /\ UNCHANGED <<server, clients, forking, idOf, conn, backlog, pipe, count>>

\* mutant: the parent goes on to wait without a word
SetParentDoneSilent(p) ==
    /\ procs[p].pc = "set_parent_done"
    /\ Go(p, "await_child")
    /\ UNCHANGED <<server, clients, forking, idOf, conn, backlog, pipe, count>>

\* RcShMemProvider::post_fork of the parent and of the child. Either one has both ends
\* of both pipes, so it waits for ever for another that is dead.
SetParentDone(p) ==
    /\ procs[p].pc = "set_parent_done"
    /\ pipe' = [pipe EXCEPT ![procs[p].child].parent_done = TRUE]
    /\ Go(p, "await_child")
    /\ UNCHANGED <<server, clients, forking, idOf, conn, backlog, count>>

AwaitChildDone(p) ==
    /\ procs[p].pc = "await_child" /\ pipe[procs[p].child].child_done
    /\ Go(p, IF p \in ForkExecutors THEN "waitpid" ELSE "idle")
    /\ UNCHANGED <<server, clients, forking, idOf, conn, backlog, pipe, count>>

AwaitParentDone(p) ==
    /\ procs[p].pc = "await_parent" /\ pipe[p].parent_done
    /\ Go(p, "connect")
    /\ UNCHANGED <<server, clients, forking, idOf, conn, backlog, pipe, count>>

\* run_target of a fork executor goes on when the child is gone.
Waitpid(p) ==
    /\ procs[p].pc = "waitpid" /\ ~Live(procs[p].child)
    /\ Go(p, "idle")
    /\ UNCHANGED <<server, clients, forking, idOf, conn, backlog, pipe, count>>

\* drop of ShMemServiceThread in the process that has the join handle
StopService(p) ==
    /\ procs[p].pc = "idle" /\ p = server.owner /\ Running
    /\ conn' = [conn EXCEPT ![Exiter] = [NoConn EXCEPT !.ends = {p}, !.req = "Exit"]]
    /\ backlog' = Append(backlog, Exiter)
    /\ Go(p, "join")
    /\ UNCHANGED <<server, clients, forking, idOf, pipe, count>>

Joined(p) ==
    /\ procs[p].pc = "join" /\ ~Running /\ Go(p, "dead")
    /\ conn' = [c \in Conns |-> [conn[c] EXCEPT !.ends = @ \ {p}]]
    /\ UNCHANGED <<server, clients, forking, idOf, backlog, pipe, count>>

\* The process is killed, with the server if that is one of its threads; or it exits at
\* the end of its run, which as little tells the server.
Kill(p) ==
    /\ Live(p) /\ count.kills < MaxKills
    /\ count' = [count EXCEPT !.kills = @ + 1]
    /\ procs' = [procs EXCEPT ![p] = [NoProc EXCEPT !.pc = "dead"]]
    /\ conn' = [c \in Conns |-> [conn[c] EXCEPT !.ends = @ \ {p}]]
    /\ server' = IF p = server.owner
                 THEN [server EXCEPT !.state = "stopped", !.todo = {}, !.reads = 0] ELSE server
    /\ UNCHANGED <<clients, forking, idOf, backlog, pipe>>

-----------------------------------------------------------------------------
(* The server.                                                             *)

Listener == 0

Ready ==
    (IF backlog # <<>> THEN {[fd |-> Listener, hup |-> FALSE]} ELSE {})
        \cup {[fd |-> f, hup |-> conn[clients[f].conn].ends = {}] :
                f \in {g \in DOMAIN clients : LET c == conn[clients[g].conn]
                                             IN c.ends = {} \/ c.req # "none"}}

Poll ==
    /\ Running /\ server.reads = 0 /\ server.todo = {} /\ Ready # {}
    /\ server' = [server EXCEPT !.todo = Ready]
    /\ UNCHANGED <<clients, forking, idOf, conn, backlog, procs, pipe, count>>

\* What poll reported is worked off, the listener first.
Turn(e) ==
    /\ Running /\ server.reads = 0 /\ e \in server.todo
    /\ e.fd # Listener => \A o \in server.todo : o.fd # Listener

\* mutant: the connection is forgotten, its maps are not
HupKeepsMaps(e) ==
    /\ Turn(e) /\ e.hup
    /\ server' = [server EXCEPT !.todo = @ \ {e}]
    /\ UNCHANGED <<clients, forking, idOf, conn, backlog, procs, pipe, count>>

Hup(e) ==
    /\ Turn(e) /\ e.hup
    /\ clients' = Without(clients, e.fd)
    /\ conn' = [conn EXCEPT ![clients[e.fd].conn] = NoConn]
    /\ server' = [server EXCEPT !.todo = @ \ {e}]
    /\ UNCHANGED <<forking, idOf, backlog, procs, pipe, count>>

\* One connection is accepted, and its first request waited for. The number is the
\* lowest that is free.
Accept(e) ==
    /\ Turn(e) /\ e.fd = Listener
    /\ LET f == Min(Fds \ DOMAIN clients)
       IN  /\ clients' = With(clients, f, [conn |-> Head(backlog), maps |-> NoMaps])
           /\ conn' = [conn EXCEPT ![Head(backlog)].fd = f]
           /\ server' = [server EXCEPT !.todo = @ \ {e}, !.reads = f]
    /\ backlog' = Tail(backlog)
    /\ UNCHANGED <<forking, idOf, procs, pipe, count>>

\* read_exact at the end of a connection that never asked for anything
EndOfStream ==
    /\ Running /\ server.reads # 0
    /\ LET c == conn[clients[server.reads].conn] IN c.ends = {} /\ c.req = "none"
    /\ server' = [server EXCEPT !.reads = 0]
    /\ UNCHANGED <<clients, forking, idOf, conn, backlog, procs, pipe, count>>

Asks(f, req) == conn[clients[f].conn].req = req
Arg(f)       == conn[clients[f].conn].arg

\* The client whose request is read: the new one, or one that poll reported
Handles(f, req) ==
    /\ \/ Running /\ server.reads = f
       \/ Turn([fd |-> f, hup |-> FALSE])
    /\ f \in DOMAIN clients /\ Asks(f, req)

HandledServer(f) ==
    IF server.reads = f THEN [server EXCEPT !.reads = 0]
    ELSE [server EXCEPT !.todo = @ \ {[fd |-> f, hup |-> FALSE]}]

\* send_fds fails if nobody is at the other end
Sent(f) == conn[clients[f].conn].ends # {}
Answer(f, resp, val) ==
    /\ conn' = [conn EXCEPT ![clients[f].conn] =
                IF Sent(f) THEN [@ EXCEPT !.req = "none", !.arg = 0, !.resp = resp, !.val = val]
                ELSE [@ EXCEPT !.req = "none", !.arg = 0]]
    /\ server' = HandledServer(f)

Panic(why) ==
    /\ server' = [server EXCEPT !.state = why, !.todo = {}, !.reads = 0]
    /\ UNCHANGED <<clients, forking, idOf, conn>>

HandleHello(f) ==
    /\ Handles(f, "Hello")
    /\ Answer(f, "Id", f)
    /\ UNCHANGED <<clients, forking, idOf, backlog, procs, pipe, count>>

\* The child c has yet to be given the copy under the number f.
Expects(c, f) ==
    \/ procs[c].pc \in {"await_parent", "connect", "hello"} /\ procs[c].id = f
    \/ conn[c].req = "PostForkChildHello" /\ conn[c].arg = f

\* Another's child does: its parent is gone, and so the number was used again.
Replaces(f) == \E c \in Procs : Expects(c, f) /\ procs[clients[f].conn].child # c

\* mutant: the copy for a fork that was given up is not replaced
HandlePreForkOnce(f) ==
    /\ Handles(f, "PreFork")
    /\ forking' = IF f \in DOMAIN forking THEN forking ELSE With(forking, f, clients[f].maps)
    /\ Answer(f, "Id", f)
    /\ UNCHANGED <<clients, idOf, backlog, procs, pipe, count>>

HandlePreFork(f) ==
    /\ Handles(f, "PreFork")
    /\ forking' = With(forking, f, clients[f].maps)
    /\ count' = [count EXCEPT !.lost = IF Replaces(f) THEN @ + 1 ELSE @]
    /\ Answer(f, "Id", f)
    /\ UNCHANGED <<clients, idOf, backlog, procs, pipe>>

HandlePostForkChildHello(f) ==
    /\ Handles(f, "PostForkChildHello")
    /\ IF Arg(f) \in DOMAIN forking
       THEN /\ clients' = [clients EXCEPT ![f].maps = forking[Arg(f)]]
            /\ forking' = Without(forking, Arg(f))
            /\ Answer(f, "Id", f)
            /\ UNCHANGED idOf
       ELSE Panic("no copy")
    /\ UNCHANGED <<backlog, procs, pipe, count>>

\* The answer carries the map; the server keeps it for the client once it is sent.
Map(f, m) ==
    /\ Answer(f, "Mapping", m)
    /\ clients' = IF Sent(f) THEN [clients EXCEPT ![f].maps[m] = @ + 1] ELSE clients

\* handle_request returns an Err: the loop writes it to the log, and nobody answers the client.
Refuse(f) ==
    /\ conn' = [conn EXCEPT ![clients[f].conn].req = "none", ![clients[f].conn].arg = 0]
    /\ server' = HandledServer(f)
    /\ count' = [count EXCEPT !.refused = @ \cup {clients[f].conn}]
    /\ UNCHANGED <<clients, forking, idOf>>

HandleNewMap(f) ==
    /\ Handles(f, "NewMap")
    /\ LET m  == Cardinality(MadeMaps) + 1
           id == Min(Ids \ {idOf[l] : l \in {k \in MadeMaps : InUse(k)}})
       IN  m \in Maps /\ Map(f, m) /\ idOf' = [idOf EXCEPT ![m] = id]
    /\ UNCHANGED <<forking, backlog, procs, pipe, count>>

\* new_shmem of the server's own provider fails
HandleNewMapFails(f) ==
    /\ Handles(f, "NewMap")
    /\ Refuse(f)
    /\ UNCHANGED <<backlog, procs, pipe>>

\* all_shmems has the number
Known(id) == \E m \in MadeMaps : idOf[m] = id

\* The map of this number, if it is still there
HandleExistingMap(f) ==
    /\ Handles(f, "ExistingMap") /\ Known(Arg(f))
    /\ IF InUse(AllShMems(Arg(f)))
       THEN Map(f, AllShMems(Arg(f))) /\ UNCHANGED <<forking, idOf>>
       ELSE Panic("no map")
    /\ UNCHANGED <<backlog, procs, pipe, count>>

\* The id is empty, or not one of this server
HandleUnknownMap(f) ==
    /\ Handles(f, "ExistingMap") /\ ~Known(Arg(f))
    /\ Refuse(f)
    /\ UNCHANGED <<backlog, procs, pipe>>

\* The answer is Rc::strong_count before the drop, of which the client asks whether it is
\* 1; a 2 stands for all that is more.
HandleDeregister(f) ==
    /\ Handles(f, "Deregister")
    /\ LET mine == {m \in MadeMaps : idOf[m] = Arg(f) /\ clients[f].maps[m] > 0}
       IN  IF mine = {} THEN Answer(f, "RefCount", 0) /\ UNCHANGED clients
           ELSE LET m    == Max(mine)
                    left == [clients EXCEPT ![f].maps[m] = @ - 1]
                IN  /\ Answer(f, "RefCount", IF Kept(left, forking, m) THEN 2 ELSE 1)
                    /\ clients' = left
    /\ UNCHANGED <<forking, idOf, backlog, procs, pipe, count>>

\* Only on a new connection does the request to exit end the loop.
HandleExit(f) ==
    /\ Handles(f, "Exit") /\ server.reads = f
    /\ server' = [server EXCEPT !.state = "stopped", !.todo = {}, !.reads = 0]
    /\ UNCHANGED <<clients, forking, idOf, conn, backlog, procs, pipe, count>>

Serve(f) ==
    \/ HandleHello(f) \/ HandlePreFork(f) \/ HandlePostForkChildHello(f)
    \/ HandleNewMap(f) \/ HandleNewMapFails(f) \/ HandleExistingMap(f) \/ HandleUnknownMap(f)
    \/ HandleDeregister(f) \/ HandleExit(f)

Server ==
    \/ Poll \/ EndOfStream
    \/ \E e \in server.todo : Hup(e) \/ Accept(e)
    \/ \E f \in Fds : Serve(f)

-----------------------------------------------------------------------------

\* maps that are made or asked for
Asked == Cardinality(MadeMaps) + Cardinality({c \in Conns : conn[c].req = "NewMap"})

\* what a process starts of itself, and what follows from it
Begin(p) ==
    \/ NewShMem(p) /\ Asked < MaxMaps
    \/ \E m \in Maps : ShMemFromId(p, m) \/ ReleaseShMem(p, m)
    \/ ShMemFromUnknown(p)
    \/ PreFork(p) /\ \E c \in Procs : procs[c].pc = "unborn"
    \/ StopService(p)
    \/ Kill(p)

Follow(p) ==
    \/ Start(p) \/ Connect(p) \/ Hello(p) \/ Receive(p)
    \/ (\E c \in Procs : Fork(p, c)) \/ ForkFails(p)
    \/ SetParentDone(p) \/ AwaitChildDone(p) \/ AwaitParentDone(p) \/ Waitpid(p) \/ Joined(p)

Next == Server \/ \E p \in Procs : Begin(p) \/ Follow(p)

Spec == Init /\ [][Next]_vars

\* The server's thread and the processes are scheduled.
FairSpec == Spec /\ WF_vars(Server) /\ \A p \in Procs : WF_vars(Follow(p))

-----------------------------------------------------------------------------
(* Properties.                                                             *)

\* Maps kept at the server for a process: those of its connection, or, between a fork
\* and the child's first answer, the copy made for the child.
Unregistered(p) ==
    procs[p].pc \in {"await_parent", "connect", "hello"}
        \/ (procs[p].pc = "wait_hello" /\ conn[p].req = "PostForkChildHello")
KeptFor(p) ==
    IF Unregistered(p)
    THEN IF procs[p].id \in DOMAIN forking THEN forking[procs[p].id] ELSE NoMaps
    ELSE IF conn[p].fd \in DOMAIN clients /\ clients[conn[p].fd].conn = p
         THEN clients[conn[p].fd].maps ELSE NoMaps

\* As long as a process uses a map the server keeps it, for that process and as often as
\* the process has it, and under its number; through forks, the death of the parent and
\* the reuse of the numbers of connections and of maps. And a forked child finds the copy
\* that was made for it. The exception is a copy that was replaced before its child came
\* for it, when the parent was killed and its number given to another process that forks:
\* from then on children may get the maps of others, or none. It takes five processes.
HeldMapsAreKept ==
    count.lost = 0 =>
        /\ server.state # "no copy"
        /\ Running => \A p \in Procs, m \in Maps : procs[p].held[m] > 0 =>
             /\ KeptFor(p)[m] >= procs[p].held[m]
             /\ AllShMems(idOf[m]) = m

\* Maps of processes that are gone are freed: again and again the server keeps only what
\* some live process is connected for, and the copies for forks that were given up.
HasClient(m) ==
    \A f \in DOMAIN clients : clients[f].maps[m] > 0 =>
        \E p \in Procs : Live(p) /\ procs[p].stream = clients[f].conn
FreedWhenGone == []<>(Running => \A m \in Maps : HasClient(m))

\* Every call to the service returns, and every fork does in both processes, as long as
\* the service runs and the other process of a fork is not killed. The exception is a
\* process that asked for a map the server could not make, or does not know: it is never
\* told (Refuse), and waits in recv_fds for ever.
Waits(p) ==
    /\ Running
    /\ \/ procs[p].pc \in {"wait_hello", "wait_map", "wait_release", "wait_prefork"}
             /\ p \notin count.refused
       \/ procs[p].pc = "await_child" /\ Live(procs[p].child)
CallsReturn == \A p \in Procs : []<>~Waits(p)

\* "even if the parent dies before the child sends its `PostFork`, we should be good": a
\* child that is forked gets to run while the service does.
ChildGetsGoing ==
    \A p \in Procs :
        procs[p].pc = "await_parent" ~> procs[p].pc # "await_parent" \/ ~Running
=============================================================================

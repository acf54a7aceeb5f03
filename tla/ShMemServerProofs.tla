------------------------- MODULE ShMemServerProofs -------------------------
(***************************************************************************)
(* The shared-memory service keeps what its clients hold, for any number   *)
(* of processes, maps, calls and kills.                                    *)
(***************************************************************************)
EXTENDS ShMemServer, FiniteSetTheorems, SequenceTheorems, WellFoundedInduction, TLAPS

-----------------------------------------------------------------------------
(* Types.                                                                  *)

Pcs == {"unborn", "start", "connect", "hello", "wait_hello", "idle", "wait_map",
        "wait_release", "wait_prefork", "fork", "set_parent_done", "await_child",
        "await_parent", "waitpid", "join", "dead"}
Requests  == {"none", "Hello", "PostForkChildHello", "NewMap", "ExistingMap", "Deregister",
              "PreFork", "Exit"}
Responses == {"none", "Id", "Mapping", "RefCount"}
Counts    == [Maps -> Nat]

ServerTypes == [state : {"none", "running", "stopped", "no copy", "no map"},
                owner : Procs \cup {0},
                todo : SUBSET [fd : Fds \cup {Listener}, hup : BOOLEAN], reads : Fds \cup {0}]
ClientTypes == [conn : Conns, maps : Counts]
ConnTypes   == [ends : SUBSET Procs, fd : Fds \cup {0}, req : Requests, arg : Nat,
                resp : Responses, val : Nat]
ProcTypes   == [pc : Pcs, stream : Procs \cup {0}, id : Fds \cup {0}, held : Counts,
                child : Procs \cup {0}]
CountTypes  == [calls : Nat, kills : Nat, lost : Nat, refused : SUBSET Conns]

Types ==
    /\ server \in ServerTypes
    /\ DOMAIN clients \subseteq Fds /\ clients \in [DOMAIN clients -> ClientTypes]
    /\ DOMAIN forking \subseteq Fds /\ forking \in [DOMAIN forking -> Counts]
    /\ idOf \in [Maps -> Ids \cup {0}]
    /\ conn \in [Conns -> ConnTypes]
    /\ backlog \in Seq(Conns)
    /\ procs \in [Procs -> ProcTypes]
    /\ pipe \in [Procs -> [parent_done : BOOLEAN, child_done : BOOLEAN]]
    /\ count \in CountTypes

-----------------------------------------------------------------------------
(* Connections.                                                            *)

\* The process has no connection of its own yet.
Before(p) == procs[p].pc \in {"unborn", "start", "await_parent", "connect"}
Opened(p) == Live(p) /\ ~Before(p)
\* The server has not answered its first request yet, or it has not read the answer.
Greeting(p) == procs[p].pc \in {"hello", "wait_hello"}

\* A connection is in the backlog at most once, or has one number at the server.
Table ==
    /\ \A f \in DOMAIN clients : conn[clients[f].conn].fd = f
    /\ \A i \in 1..Len(backlog) : conn[backlog[i]].fd = 0
    /\ \A i, j \in 1..Len(backlog) : backlog[i] = backlog[j] => i = j
    /\ \A p \in Procs : Before(p) =>
          conn[p] = NoConn /\ \A i \in 1..Len(backlog) : backlog[i] # p

\* The service asks itself to exit once, when its owner waits for the end of it.
Owner ==
    /\ server.owner = 0 => server.state = "none"
    /\ server.state = "none" => server.owner = 0 /\ DOMAIN clients = {}
    /\ \A p \in Procs : procs[p].pc = "join" => p = server.owner
    /\ conn[Exiter].req \in {"none", "Exit"}
    /\ server.owner = 0 \/ procs[server.owner].pc \notin {"join", "dead"} =>
          conn[Exiter] = NoConn /\ \A i \in 1..Len(backlog) : backlog[i] # Exiter

\* What poll reported is still so: who hung up stays away.
Reported ==
    /\ \A e \in server.todo :
          /\ e.fd # Listener => e.fd \in DOMAIN clients
          /\ e.fd = Listener => ~e.hup
          /\ e.hup => conn[clients[e.fd].conn].ends = {}
    /\ \A e, o \in server.todo : e.fd = o.fd => e = o
    /\ server.reads # 0 => server.reads \in DOMAIN clients
    /\ [fd |-> Listener, hup |-> FALSE] \in server.todo => backlog # <<>>

\* A process that has a connection is at its end, and is known at the server by the
\* number that it was told.
Connected(p) ==
    /\ Opened(p) => procs[p].stream = p /\ p \in conn[p].ends
    /\ Opened(p) /\ conn[p].fd # 0 =>
          conn[p].fd \in DOMAIN clients /\ clients[conn[p].fd].conn = p
    /\ Opened(p) /\ ~Greeting(p) => conn[p].fd # 0 /\ procs[p].id = conn[p].fd

\* Nothing is in the hands of a process that was not born, has not said hello or is dead.
EmptyHanded(p) ==
    /\ procs[p].pc \in {"unborn", "start"} => procs[p].id = 0 /\ procs[p].stream = 0
    /\ procs[p].pc = "await_parent" => procs[p].id # 0
    /\ procs[p].id = 0 => procs[p].held = NoMaps
    /\ procs[p].pc = "dead" /\ server.state \in {"none", "running"} =>
          procs[p].held = NoMaps /\ procs[p].id = 0 /\ procs[p].child = 0

\* The request or the answer that is on its way, by what the process waits for
Asking(p, reqs)    == conn[p].req \in reqs /\ conn[p].resp = "none"
Answered(p, resp)  == conn[p].req = "none" /\ conn[p].resp = resp
Talking(p) ==
    LET pc == procs[p].pc
    IN  /\ pc = "wait_hello" =>
              \/ Asking(p, {"Hello"}) /\ procs[p].id = 0
              \/ Asking(p, {"PostForkChildHello"}) /\ procs[p].id # 0
                    /\ conn[p].arg = procs[p].id
              \/ Answered(p, "Id") /\ conn[p].fd # 0 /\ conn[p].val = conn[p].fd
        /\ pc = "wait_map" =>
              \/ Asking(p, {"NewMap", "ExistingMap"})
              \/ Answered(p, "Mapping") /\ conn[p].val \in Maps
              \/ Answered(p, "none")     \* it was refused
        /\ pc = "wait_release" => Asking(p, {"Deregister"}) \/ Answered(p, "RefCount")
        /\ pc = "wait_prefork" => Asking(p, {"PreFork"}) \/ Answered(p, "Id")
        /\ Opened(p)
              /\ pc \notin {"wait_hello", "wait_map", "wait_release", "wait_prefork"} =>
              Answered(p, "none")

\* Who was told that the child is done knows that it was given its copy.
Forked(p) ==
    /\ pipe[p].child_done =>
          /\ ~Before(p) /\ ~Greeting(p)
          /\ conn[p].req # "PostForkChildHello"
    /\ conn[p].req = "PostForkChildHello" => conn[p].arg \in Fds
    /\ procs[p].pc \in {"set_parent_done", "await_child"} => procs[p].child # 0
    /\ procs[p].child # 0 /\ procs[p].pc \notin {"set_parent_done", "await_child", "dead"} =>
          pipe[procs[p].child].child_done

-----------------------------------------------------------------------------
(* Maps.                                                                   *)

\* Maps are made one after the other, and a map in use is the last one of its number.
Made == \E k \in 0..MaxMaps : MadeMaps = 1..k
Newest(m) == idOf[m] # 0 /\ \A l \in Maps : idOf[l] = idOf[m] => l <= m
UsedAreNewest == \A m \in Maps : InUse(m) => Newest(m)

AtLeast(a, b) == \A m \in Maps : a[m] >= b[m]

\* There is one copy for each child that has yet to come for it.
Copies ==
    /\ \A c \in Procs, f \in Fds : Expects(c, f) =>
          /\ f \in DOMAIN forking
          /\ Live(c) => AtLeast(forking[f], procs[c].held)
    /\ \A c, d \in Procs, f \in Fds : Expects(c, f) /\ Expects(d, f) => c = d

\* A process that is about to fork has a copy that no other child expects.
ToFork(p) ==
    procs[p].pc = "fork" \/ (procs[p].pc = "wait_prefork" /\ conn[p].req = "none") =>
        /\ procs[p].id \in DOMAIN forking
        /\ AtLeast(forking[procs[p].id], procs[p].held)
        /\ \A c \in Procs : ~Expects(c, procs[p].id)

\* The server keeps what a process holds, is about to hold, or is about to give back.
Keeps(p) ==
    Opened(p) /\ conn[p].fd # 0 /\ ~Unregistered(p) =>
        LET maps == clients[conn[p].fd].maps
        IN  /\ AtLeast(maps, procs[p].held)
            /\ conn[p].resp = "Mapping" => maps[conn[p].val] > procs[p].held[conn[p].val]
            /\ conn[p].req = "Deregister" =>
                  \E m \in Maps : idOf[m] = conn[p].arg /\ maps[m] > procs[p].held[m]

Sound == Copies /\ (\A p \in Procs : ToFork(p) /\ Keeps(p)) /\ server.state # "no copy"

IInv ==
    /\ Types /\ Table /\ Owner /\ Reported
    /\ \A p \in Procs : Connected(p) /\ EmptyHanded(p) /\ Talking(p) /\ Forked(p)
    /\ Made /\ UsedAreNewest
    /\ count.lost = 0 => Sound

-----------------------------------------------------------------------------
(* Numbers.                                                                *)

\* Every set of natural numbers that has an element has a smallest one.
LEMMA SmallestIn ==
  ASSUME NEW S, S \subseteq Nat, S # {}
  PROVE  Min(S) \in S
<1>1. PICK n \in S : \A m \in S : <<m, n>> \notin OpToRel(<, Nat)
  BY NatLessThanWellFounded, WFMin
<1>2. \A m \in S : ~(m < n)
  BY <1>1 DEF OpToRel
<1>3. \A m \in S : n <= m
  BY <1>2
<1> QED BY <1>3 DEF Min

\* A set of maps that has an element has a largest one.
LEMMA LargestIn ==
  ASSUME NEW S, S \subseteq Maps, S # {}
  PROVE  Max(S) \in S /\ \A m \in S : m <= Max(S)
<1> DEFINE T == {n \in 0..MaxMaps : MaxMaps - n \in S}
<1>0. MaxMaps \in Nat
  BY ShMemServerAssumption
<1>1. T \subseteq Nat /\ T # {}
  <2>1. PICK m \in S : TRUE
    OBVIOUS
  <2>2. MaxMaps - m \in 0..MaxMaps /\ MaxMaps - (MaxMaps - m) = m
    BY <1>0 DEF Maps
  <2>3. MaxMaps - m \in T
    BY <2>1, <2>2
  <2> QED BY <2>3, <1>0
<1>2. PICK n \in T : \A m \in T : <<m, n>> \notin OpToRel(<, Nat)
  BY <1>1, NatLessThanWellFounded, WFMin
<1>3. \A m \in T : n <= m
  <2> HIDE DEF T
  <2>1. \A m \in T : ~(m < n)
    BY <1>1, <1>2 DEF OpToRel
  <2> QED BY <1>1, <2>1
<1>4. \A m \in S : m <= MaxMaps - n
  <2> SUFFICES ASSUME NEW m \in S PROVE m <= MaxMaps - n
    OBVIOUS
  <2>1. MaxMaps - m \in 0..MaxMaps /\ MaxMaps - (MaxMaps - m) = m
    BY <1>0 DEF Maps
  <2>2. MaxMaps - m \in T
    BY <2>1
  <2> QED BY <1>0, <1>3, <2>1, <2>2
<1>5. MaxMaps - n \in S
  BY <1>2
<1>6. \E x \in S : \A y \in S : x >= y
  BY <1>0, <1>4, <1>5 DEF Maps
<1>7. Max(S) \in S /\ \A m \in S : Max(S) >= m
  BY <1>6 DEF Max
<1> QED BY <1>0, <1>7 DEF Maps

\* The maps that were made under a number: the newest is the one AllShMems finds.
LEMMA NewestFound ==
  ASSUME Types, NEW m \in Maps, Newest(m)
  PROVE  AllShMems(idOf[m]) = m
<1> DEFINE S == {l \in MadeMaps : idOf[l] = idOf[m]}
<1>1. m \in S /\ S \subseteq Maps
  BY DEF Newest, MadeMaps
<1>2. Max(S) \in S /\ m <= Max(S)
  BY <1>1, LargestIn
<1>3. Max(S) <= m
  BY <1>2 DEF Newest, MadeMaps
<1>4. Max(S) = m
  BY <1>1, <1>2, <1>3 DEF Maps
<1> QED BY <1>4 DEF AllShMems

\* What a number stands for was made, and is the newest of that number.
LEMMA FoundIsNewest ==
  ASSUME Types, NEW n, \E m \in MadeMaps : idOf[m] = n
  PROVE  /\ AllShMems(n) \in Maps /\ idOf[AllShMems(n)] = n
         /\ Newest(AllShMems(n))
<1> DEFINE S == {l \in MadeMaps : idOf[l] = n}
<1>1. S # {} /\ S \subseteq Maps
  BY DEF MadeMaps
<1>2. Max(S) \in S /\ \A m \in S : m <= Max(S)
  BY <1>1, LargestIn
<1>3. AllShMems(n) = Max(S)
  BY DEF AllShMems
<1> HIDE DEF S
<1>4. AllShMems(n) \in Maps /\ idOf[AllShMems(n)] = n /\ idOf[AllShMems(n)] # 0
  BY <1>2, <1>3 DEF S, MadeMaps
<1>5. \A l \in Maps : idOf[l] = n => l \in S
  BY <1>4 DEF S, MadeMaps
<1> QED BY <1>2, <1>3, <1>4, <1>5 DEF Newest

-----------------------------------------------------------------------------
(* Steps of a process on its own connection.                               *)

\* What the numbers and names are
LEMMA ConnFacts ==
  /\ Procs \subseteq Conns /\ Exiter \in Conns /\ Exiter \notin Procs /\ Exiter = 0
  /\ Conns = Procs \cup {Exiter}
  BY ShMemServerAssumption DEF Conns, Exiter

LEMMA ZeroFacts == 0 \notin Procs /\ 0 \notin Fds /\ 0 \notin Ids
  BY ShMemServerAssumption

LEMMA NatFacts == Fds \subseteq Nat /\ Ids \subseteq Nat /\ MaxMaps \in Nat
  BY ShMemServerAssumption

LEMMA NoMapsFacts == NoMaps \in Counts /\ \A m \in Maps : NoMaps[m] = 0
  BY DEF NoMaps, Counts

\* A process with an open connection changes nothing but itself and what is on it.
Own(p) ==
    /\ UNCHANGED <<server, clients, forking, idOf, backlog>>
    /\ Types'
    /\ Opened(p) /\ Opened(p)' /\ procs[p].pc # "join" /\ procs'[p].pc # "join"
    /\ \A q \in Procs \ {p} : procs'[q] = procs[q] /\ pipe'[q].child_done = pipe[q].child_done
    /\ \A c \in Conns \ {p} : conn'[c] = conn[c]
    /\ conn'[p].ends = conn[p].ends /\ conn'[p].fd = conn[p].fd
    /\ pipe[p].child_done => pipe'[p].child_done
    /\ count'.lost = count.lost

\* And it comes to expect no other copy than it did.
ExpectsNoMore(p) ==
    \A f \in Fds : Expects(p, f)' => Expects(p, f) /\ procs'[p].held = procs[p].held

LEMMA OwnTable ==
  ASSUME IInv, NEW p \in Procs, Own(p)
  PROVE  Table' /\ Owner' /\ Reported'
<1> USE ConnFacts, ZeroFacts
<1>0. Types /\ Table /\ Owner /\ Reported
  BY DEF IInv
<1>1. /\ UNCHANGED <<server, clients, forking, idOf, backlog>> /\ Types'
      /\ \A q \in Procs \ {p} : procs'[q] = procs[q]
      /\ \A c \in Conns \ {p} : conn'[c] = conn[c]
      /\ conn'[p].ends = conn[p].ends /\ conn'[p].fd = conn[p].fd
      /\ ~Before(p) /\ ~Before(p)'
      /\ procs[p].pc \notin {"join", "dead"} /\ procs'[p].pc \notin {"join", "dead"}
  BY DEF Own, Opened, Live
<1>2. \A c \in Conns : conn'[c].fd = conn[c].fd /\ conn'[c].ends = conn[c].ends
  BY <1>1
<1>3. \A q \in Procs : Before(q)' => Before(q) /\ conn'[q] = conn[q]
  BY <1>1 DEF Before
<1>4. \A f \in DOMAIN clients : clients[f].conn \in Conns
  BY <1>0 DEF Types, ClientTypes
<1>5. \A i \in 1..Len(backlog) : backlog[i] \in Conns
  BY <1>0 DEF Types
<1>6. Table'
  <2>0. clients' = clients /\ backlog' = backlog
    BY <1>1
  <2>1. \A f \in DOMAIN clients' : conn'[clients'[f].conn].fd = f
    <3>1. \A f \in DOMAIN clients : conn[clients[f].conn].fd = f
      BY <1>0 DEF Table
    <3> QED BY <1>2, <1>4, <2>0, <3>1
  <2>2. \A i \in 1..Len(backlog') : conn'[backlog'[i]].fd = 0
    BY <1>0, <1>1, <1>2, <1>5 DEF Table
  <2>3. \A q \in Procs : Before(q)' =>
           conn'[q] = NoConn /\ \A i \in 1..Len(backlog') : backlog'[i] # q
    BY <1>0, <1>1, <1>3 DEF Table
  <2> QED BY <1>0, <1>1, <2>1, <2>2, <2>3 DEF Table
<1>7. Reported'
  BY <1>0, <1>1, <1>2, <1>4 DEF Reported
<1>8. Owner'
  <2>1. conn'[Exiter] = conn[Exiter]
    BY <1>1
  <2>2. \A q \in Procs : procs'[q].pc \in {"join", "dead"} <=> procs[q].pc \in {"join", "dead"}
    BY <1>1
  <2>3. \A q \in Procs : procs'[q].pc = "join" => procs[q].pc = "join"
    BY <1>1
  <2>4. server.owner \in Procs \cup {0}
    BY <1>0 DEF Types, ServerTypes
  <2> QED BY <1>0, <1>1, <2>1, <2>2, <2>3, <2>4 DEF Owner
<1> QED BY <1>6, <1>7, <1>8

\* What holds of the others still does.
LEMMA OwnOthers ==
  ASSUME IInv, NEW p \in Procs, Own(p), NEW q \in Procs, q # p
  PROVE  Connected(q)' /\ EmptyHanded(q)' /\ Talking(q)' /\ Forked(q)'
<1> USE ConnFacts, ZeroFacts
<1>1. /\ procs'[q] = procs[q] /\ conn'[q] = conn[q] /\ pipe'[q].child_done = pipe[q].child_done
      /\ UNCHANGED <<server, clients>>
  BY DEF Own
<1>2. \A r \in Procs : pipe[r].child_done => pipe'[r].child_done
  BY DEF Own
<1>3. Connected(q) /\ EmptyHanded(q) /\ Talking(q) /\ Forked(q)
  BY DEF IInv
<1>4. Connected(q)' /\ EmptyHanded(q)'
  BY <1>1, <1>3 DEF Connected, EmptyHanded, Opened, Live, Before, Greeting
<1>5. Talking(q)'
  BY <1>1, <1>3 DEF Talking, Asking, Answered, Opened, Live, Before
<1>6. procs[q].child \in Procs \cup {0}
  BY DEF IInv, Types, ProcTypes
<1>7. Forked(q)'
  BY <1>1, <1>2, <1>3, <1>6 DEF Forked, Before, Greeting
<1> QED BY <1>4, <1>5, <1>7

LEMMA OwnMaps ==
  ASSUME IInv, NEW p \in Procs, Own(p)
  PROVE  Made' /\ UsedAreNewest'
  BY DEF IInv, Own, Made, MadeMaps, UsedAreNewest, InUse, Kept, Newest

LEMMA OwnSound ==
  ASSUME IInv, NEW p \in Procs, Own(p), Sound, ToFork(p)', Keeps(p)', ExpectsNoMore(p)
  PROVE  Sound'
<1> USE ConnFacts, ZeroFacts
<1>1. /\ UNCHANGED <<server, clients, forking, idOf>>
      /\ Live(p) /\ Live(p)'
      /\ \A q \in Procs \ {p} : procs'[q] = procs[q] /\ conn'[q] = conn[q]
  BY DEF Own, Opened
<1>2. \A c \in Procs, f \in Fds : Expects(c, f)' =>
          Expects(c, f) /\ procs'[c].held = procs[c].held
  BY <1>1 DEF ExpectsNoMore, Expects
<1>3. \A c \in Procs : Live(c)' => Live(c)
  BY <1>1 DEF Live
<1>4. Copies'
  BY <1>1, <1>2, <1>3 DEF Sound, Copies, AtLeast
<1>5. ASSUME NEW q \in Procs, q # p PROVE ToFork(q)' /\ Keeps(q)'
  <2>1. ToFork(q) /\ Keeps(q) /\ procs'[q] = procs[q] /\ conn'[q] = conn[q]
    BY <1>1, <1>5 DEF Sound
  <2>2. procs[q].pc \in {"fork", "wait_prefork"} => procs[q].id \in Fds
    BY DEF IInv, Connected, Opened, Live, Before, Greeting, Types, ConnTypes
  <2>3. ToFork(q)'
    BY <1>1, <1>2, <2>1, <2>2 DEF ToFork, AtLeast
  <2>4. Keeps(q)'
    BY <1>1, <2>1 DEF Keeps, AtLeast, Unregistered, Opened, Live, Before
  <2> QED BY <2>3, <2>4
<1> QED BY <1>1, <1>4, <1>5 DEF Sound

LEMMA OwnStep ==
  ASSUME IInv, NEW p \in Procs, Own(p),
         Connected(p)', EmptyHanded(p)', Talking(p)', Forked(p)',
         Sound => ToFork(p)' /\ Keeps(p)' /\ ExpectsNoMore(p)
  PROVE  IInv'
<1>1. Types' /\ count'.lost = count.lost
  BY DEF Own
<1>2. \A q \in Procs : Connected(q)' /\ EmptyHanded(q)' /\ Talking(q)' /\ Forked(q)'
  BY OwnOthers
<1>3. count'.lost = 0 => Sound'
  BY <1>1, OwnSound DEF IInv
<1> QED BY <1>1, <1>2, <1>3, OwnTable, OwnMaps DEF IInv

-----------------------------------------------------------------------------
\* Sending a request, and going on without one

\* A process with an open connection writes to that one.
LEMMA OpenStream ==
  ASSUME IInv, NEW p \in Procs, Opened(p)
  PROVE  procs[p].stream = p /\ p \in conn[p].ends
  BY DEF IInv, Connected

\* p sends a request and goes to pc; what it holds may become less.
Sends(p, req, arg, pc, held) ==
    /\ UNCHANGED <<server, clients, forking, idOf, backlog, pipe>>
    /\ conn' = [conn EXCEPT ![p].req = req, ![p].arg = arg]
    /\ procs' = [procs EXCEPT ![p].pc = pc, ![p].held = held]
    /\ count' \in CountTypes /\ count'.lost = count.lost

LEMMA SendsOwn ==
  ASSUME IInv, NEW p \in Procs, Opened(p), procs[p].pc # "join",
         NEW req \in Requests, NEW arg \in Nat, NEW pc \in Pcs, NEW held \in Counts,
         Sends(p, req, arg, pc, held),
         pc \notin {"join", "unborn", "dead", "start", "await_parent", "connect"}
  PROVE  /\ Own(p)
         /\ procs'[p].pc = pc /\ procs'[p].id = procs[p].id /\ procs'[p].held = held
         /\ procs'[p].stream = procs[p].stream /\ procs'[p].child = procs[p].child
         /\ conn'[p].req = req /\ conn'[p].arg = arg /\ conn'[p].resp = conn[p].resp
         /\ conn'[p].ends = conn[p].ends /\ conn'[p].fd = conn[p].fd
<1>0. Types /\ p \in Conns
  BY ConnFacts DEF IInv
<1>1. /\ procs'[p] = [procs[p] EXCEPT !.pc = pc, !.held = held]
      /\ conn'[p] = [conn[p] EXCEPT !.req = req, !.arg = arg]
      /\ \A q \in Procs \ {p} : procs'[q] = procs[q]
      /\ \A c \in Conns \ {p} : conn'[c] = conn[c]
  BY <1>0 DEF Sends, Types
<1>2. procs' \in [Procs -> ProcTypes] /\ conn' \in [Conns -> ConnTypes]
  <2>1. procs'[p] \in ProcTypes
    BY <1>0, <1>1 DEF Types, ProcTypes
  <2>2. conn'[p] \in ConnTypes
    BY <1>0, <1>1 DEF Types, ConnTypes
  <2> QED BY <1>0, <1>1, <2>1, <2>2 DEF Sends, Types
<1>3. Types'
  BY <1>0, <1>2 DEF Sends, Types
<1>4. /\ procs'[p].pc = pc /\ procs'[p].id = procs[p].id /\ procs'[p].held = held
      /\ procs'[p].stream = procs[p].stream /\ procs'[p].child = procs[p].child
      /\ conn'[p].req = req /\ conn'[p].arg = arg /\ conn'[p].resp = conn[p].resp
      /\ conn'[p].ends = conn[p].ends /\ conn'[p].fd = conn[p].fd
  BY <1>0, <1>1 DEF Types, ProcTypes, ConnTypes
<1>5. Opened(p)'
  BY <1>4 DEF Opened, Live, Before
<1> QED BY <1>1, <1>3, <1>4, <1>5 DEF Own, Sends

\* Hello, and PostForkChildHello of a forked child
LEMMA HelloIInv ==
  ASSUME IInv, NEW p \in Procs, Hello(p)
  PROVE  IInv'
<1>0. Types /\ Connected(p) /\ EmptyHanded(p) /\ Talking(p) /\ Forked(p)
  BY DEF IInv
<1>1. procs[p].pc = "hello" /\ Opened(p) /\ procs[p].stream = p
  BY OpenStream DEF Hello, Opened, Live, Before
<1>2. /\ procs[p] \in ProcTypes /\ conn[p] \in ConnTypes
      /\ procs[p].id \in Nat /\ procs[p].held \in Counts
  BY <1>0, ConnFacts, NatFacts DEF Types, ProcTypes
<1>3. PICK req \in Requests, arg \in Nat, held \in Counts :
          /\ Sends(p, req, arg, "wait_hello", held) /\ held = procs[p].held
          /\ procs[p].id = 0 => req = "Hello"
          /\ procs[p].id # 0 => req = "PostForkChildHello" /\ arg = procs[p].id
  <2>1. /\ procs' = [procs EXCEPT ![p].pc = "wait_hello", ![p].held = procs[p].held]
        /\ UNCHANGED <<server, clients, forking, idOf, backlog, pipe, count>>
    BY <1>0, <1>1 DEF Hello, Go, Types, ProcTypes
  <2>2. CASE procs[p].id = 0
    <3>1. Sends(p, "Hello", 0, "wait_hello", procs[p].held)
      BY <1>0, <1>1, <2>1, <2>2 DEF Sends, Hello, Send, Types
    <3> QED BY <1>2, <2>2, <3>1 DEF Requests
  <2>3. CASE procs[p].id # 0
    <3>1. Sends(p, "PostForkChildHello", procs[p].id, "wait_hello", procs[p].held)
      BY <1>0, <1>1, <2>1, <2>3 DEF Sends, Hello, Send, Types
    <3> QED BY <1>2, <2>3, <3>1 DEF Requests
  <2> QED BY <2>2, <2>3
<1>4. Own(p)
  BY <1>1, <1>3, SendsOwn DEF Pcs
<1>5. /\ procs'[p].pc = "wait_hello" /\ procs'[p].id = procs[p].id
      /\ procs'[p].held = procs[p].held /\ procs'[p].stream = procs[p].stream
      /\ procs'[p].child = procs[p].child
      /\ conn'[p].req = req /\ conn'[p].arg = arg /\ conn'[p].resp = conn[p].resp
      /\ conn'[p].ends = conn[p].ends /\ conn'[p].fd = conn[p].fd
  BY <1>1, <1>3, SendsOwn DEF Pcs
<1>6. UNCHANGED <<server, clients, forking, idOf, pipe>> /\ conn[p].resp = "none"
  BY <1>0, <1>1, <1>3 DEF Sends, Talking, Answered
<1>7. Connected(p)'
  BY <1>0, <1>1, <1>3, <1>5, <1>6 DEF Connected, Opened, Live, Before, Greeting
<1>8. EmptyHanded(p)'
  BY <1>0, <1>1, <1>3, <1>5, <1>6 DEF EmptyHanded
<1>9. Talking(p)'
  BY <1>0, <1>1, <1>3, <1>5, <1>6 DEF Talking, Asking, Answered, Opened, Live, Before
<1>10. Forked(p)'
  <2>1. req = "PostForkChildHello" => arg \in Fds
    BY <1>2, <1>3 DEF ProcTypes
  <2> QED BY <1>0, <1>1, <1>3, <1>5, <1>6, <2>1 DEF Forked, Before, Greeting
<1>12. ASSUME Sound PROVE ToFork(p)' /\ Keeps(p)' /\ ExpectsNoMore(p)
  <2>1. ToFork(p)'
    BY <1>5 DEF ToFork
  <2>2. ExpectsNoMore(p)
    BY <1>1, <1>3, <1>5, ZeroFacts DEF ExpectsNoMore, Expects
  <2>3. Keeps(p)'
    <3>1. CASE procs[p].id # 0
      BY <1>3, <1>5, <3>1 DEF Keeps, Unregistered
    <3>2. CASE procs[p].id = 0
      <4>1. procs'[p].held = NoMaps /\ conn'[p].req = "Hello" /\ conn'[p].resp = "none"
        BY <1>0, <1>3, <1>5, <1>6, <3>2 DEF EmptyHanded
      <4>2. \A f \in DOMAIN clients : clients[f].maps \in Counts
        BY <1>0 DEF Types, ClientTypes
      <4>3. \A f \in DOMAIN clients : AtLeast(clients[f].maps, NoMaps)
        BY <4>2 DEF AtLeast, NoMaps, Counts
      <4> QED BY <1>6, <1>7, <4>1, <4>3 DEF Keeps, Connected, AtLeast
    <3> QED BY <3>1, <3>2
  <2> QED BY <2>1, <2>2, <2>3
<1> QED BY <1>4, <1>7, <1>8, <1>9, <1>10, <1>12, OwnStep

\* A call of a process that is between calls
LEMMA CallFacts ==
  ASSUME IInv, NEW p \in Procs, procs[p].pc = "idle"
  PROVE  /\ Opened(p) /\ procs[p].stream = p /\ conn[p].req = "none" /\ conn[p].resp = "none"
         /\ conn[p].fd # 0 /\ conn[p].fd \in DOMAIN clients /\ clients[conn[p].fd].conn = p
         /\ procs[p].id = conn[p].fd /\ procs[p].id # 0
         /\ clients[conn[p].fd].maps \in Counts /\ procs[p] \in ProcTypes /\ conn[p] \in ConnTypes
         /\ Sound => AtLeast(clients[conn[p].fd].maps, procs[p].held)
<1>1. Types /\ Connected(p) /\ Talking(p) /\ Opened(p)
  BY DEF IInv, Opened, Live, Before
<1>2. /\ procs[p].stream = p /\ conn[p].req = "none" /\ conn[p].resp = "none"
      /\ conn[p].fd # 0 /\ conn[p].fd \in DOMAIN clients /\ clients[conn[p].fd].conn = p
      /\ procs[p].id = conn[p].fd
  BY <1>1 DEF Connected, Talking, Answered, Greeting
<1>3. clients[conn[p].fd].maps \in Counts /\ procs[p] \in ProcTypes /\ conn[p] \in ConnTypes
  BY <1>1, <1>2 DEF Types, ClientTypes
<1>4. Sound => AtLeast(clients[conn[p].fd].maps, procs[p].held)
  BY <1>1, <1>2 DEF Sound, Keeps, Unregistered
<1> QED BY <1>1, <1>2, <1>3, <1>4

\* The request of a call is on its way.
LEMMA CallSends ==
  ASSUME IInv, NEW p \in Procs, procs[p].pc = "idle",
         NEW req \in Requests, NEW arg \in Nat, NEW pc \in Pcs, NEW held \in Counts,
         Sends(p, req, arg, pc, held),
         \/ pc = "wait_map" /\ req \in {"NewMap", "ExistingMap"} /\ held = procs[p].held
         \/ pc = "wait_release" /\ req = "Deregister"
         \/ pc = "wait_prefork" /\ req = "PreFork" /\ held = procs[p].held,
         AtLeast(procs[p].held, held),
         req = "Deregister" =>
             \E m \in Maps : idOf[m] = arg /\ procs[p].held[m] > held[m]
  PROVE  IInv'
<1>0. Types /\ Connected(p) /\ EmptyHanded(p) /\ Talking(p) /\ Forked(p)
  BY DEF IInv
<1>1. /\ Opened(p) /\ procs[p].stream = p /\ conn[p].req = "none" /\ conn[p].resp = "none"
      /\ conn[p].fd # 0 /\ conn[p].fd \in DOMAIN clients /\ clients[conn[p].fd].conn = p
      /\ procs[p].id = conn[p].fd /\ procs[p].id # 0
      /\ clients[conn[p].fd].maps \in Counts /\ procs[p] \in ProcTypes /\ conn[p] \in ConnTypes
      /\ Sound => AtLeast(clients[conn[p].fd].maps, procs[p].held)
  BY CallFacts
<1>2. pc \notin {"join", "unborn", "dead", "start", "await_parent", "connect"}
  OBVIOUS
<1>3. /\ Own(p)
      /\ procs'[p].pc = pc /\ procs'[p].id = procs[p].id /\ procs'[p].held = held
      /\ procs'[p].stream = procs[p].stream /\ procs'[p].child = procs[p].child
      /\ conn'[p].req = req /\ conn'[p].arg = arg /\ conn'[p].resp = conn[p].resp
      /\ conn'[p].ends = conn[p].ends /\ conn'[p].fd = conn[p].fd
  BY <1>1, <1>2, SendsOwn
<1>4. UNCHANGED <<server, clients, forking, idOf, pipe>>
  BY DEF Sends
<1>5. Connected(p)'
  BY <1>0, <1>1, <1>3, <1>4 DEF Connected, Opened, Live, Before, Greeting
<1>6. EmptyHanded(p)'
  BY <1>1, <1>3, <1>4 DEF EmptyHanded
<1>7. Talking(p)'
  BY <1>1, <1>3 DEF Talking, Asking, Opened, Live, Before
<1>8. Forked(p)'
  BY <1>0, <1>3, <1>4 DEF Forked, Before, Greeting
<1>10. ASSUME Sound PROVE ToFork(p)' /\ Keeps(p)' /\ ExpectsNoMore(p)
  <2>1. ToFork(p)'
    BY <1>3 DEF ToFork
  <2>2. ExpectsNoMore(p)
    BY <1>3 DEF ExpectsNoMore, Expects
  <2>3. \A m \in Maps : /\ clients[conn[p].fd].maps[m] \in Nat /\ procs[p].held[m] \in Nat
                        /\ held[m] \in Nat
    BY <1>1 DEF Counts, ProcTypes
  <2>4. AtLeast(clients[conn[p].fd].maps, held)
    BY <1>1, <1>10, <2>3 DEF AtLeast
  <2>5. req = "Deregister" =>
           \E m \in Maps : idOf[m] = arg /\ clients[conn[p].fd].maps[m] > held[m]
    BY <1>1, <1>10, <2>3 DEF AtLeast
  <2>6. Keeps(p)'
    BY <1>1, <1>3, <1>4, <2>4, <2>5 DEF Keeps, AtLeast
  <2> QED BY <2>1, <2>2, <2>6
<1> QED BY <1>3, <1>5, <1>6, <1>7, <1>8, <1>10, OwnStep

\* new_shmem, shmem_from_id_and_size, release_shmem and pre_fork send theirs.
LEMMA CallsIInv ==
  ASSUME IInv, NEW p \in Procs,
         \/ NewShMem(p) \/ PreFork(p) \/ ShMemFromUnknown(p)
         \/ \E m \in Maps : ShMemFromId(p, m) \/ ReleaseShMem(p, m)
  PROVE  IInv'
<1>0. Types /\ procs[p].pc = "idle"
      /\ count' \in CountTypes /\ count'.lost = count.lost
  <2>1. Types
    BY DEF IInv
  <2>2. Call(p)
    BY DEF NewShMem, PreFork, ShMemFromUnknown, ShMemFromId, ReleaseShMem
  <2>3. count \in CountTypes
    BY <2>1 DEF Types
  <2>4. count' \in CountTypes /\ count'.lost = count.lost
    BY <2>2, <2>3 DEF Call, CountTypes
  <2> QED BY <2>1, <2>2, <2>4 DEF Call
<1>1. procs[p].stream = p /\ procs[p] \in ProcTypes /\ procs[p].held \in Counts
  BY <1>0, CallFacts DEF ProcTypes
<1>2. AtLeast(procs[p].held, procs[p].held)
  <2>1. \A m \in Maps : procs[p].held[m] \in Nat
    BY <1>1 DEF Counts
  <2> QED BY <2>1 DEF AtLeast
<1>3. \A pc \in Pcs : Go(p, pc) =>
          procs' = [procs EXCEPT ![p].pc = pc, ![p].held = procs[p].held]
  BY <1>0 DEF Go, Types, ProcTypes
<1>4. CASE NewShMem(p)
  <2>1. Sends(p, "NewMap", 0, "wait_map", procs[p].held)
    BY <1>0, <1>1, <1>3, <1>4 DEF NewShMem, Sends, Send, Pcs
  <2> QED BY <1>0, <1>1, <1>2, <2>1, CallSends DEF Requests, Pcs
<1>5. CASE PreFork(p)
  <2>1. Sends(p, "PreFork", 0, "wait_prefork", procs[p].held)
    BY <1>0, <1>1, <1>3, <1>5 DEF PreFork, Sends, Send, Pcs
  <2> QED BY <1>0, <1>1, <1>2, <2>1, CallSends DEF Requests, Pcs
<1>6. ASSUME NEW m \in Maps, ShMemFromId(p, m)
      PROVE  IInv'
  <2>1. Sends(p, "ExistingMap", idOf[m], "wait_map", procs[p].held)
    BY <1>0, <1>1, <1>3, <1>6 DEF ShMemFromId, Sends, Send, Pcs
  <2>2. m \in MadeMaps /\ idOf[m] \in Nat
    BY <1>0, <1>6, NatFacts DEF ShMemFromId, Types
  <2> QED BY <1>0, <1>1, <1>2, <2>1, <2>2, CallSends DEF Requests, Pcs
<1>7. ASSUME NEW m \in Maps, ReleaseShMem(p, m)
      PROVE  IInv'
  <2> DEFINE held == [procs[p].held EXCEPT ![m] = @ - 1]
  <2>1. procs[p].held[m] > 0 /\ procs[p].held[m] \in Nat
    BY <1>1, <1>7 DEF ReleaseShMem, Counts
  <2>2. held \in Counts /\ AtLeast(procs[p].held, held) /\ procs[p].held[m] > held[m]
    <3>1. \A l \in Maps : procs[p].held[l] \in Nat
      BY <1>1 DEF Counts
    <3>2. /\ held \in [Maps -> Nat] /\ held[m] = procs[p].held[m] - 1
          /\ \A l \in Maps \ {m} : held[l] = procs[p].held[l]
      BY <1>1, <2>1 DEF Counts
    <3> HIDE DEF held
    <3>3. \A l \in Maps : procs[p].held[l] >= held[l]
      BY <2>1, <3>1, <3>2
    <3> QED BY <2>1, <3>2, <3>3 DEF Counts, AtLeast
  <2>3. procs' = [procs EXCEPT ![p].pc = "wait_release", ![p].held = held]
    BY <1>0, <1>1, <1>7 DEF ReleaseShMem, Types, ProcTypes
  <2>4. Sends(p, "Deregister", idOf[m], "wait_release", held)
    BY <1>0, <1>1, <1>7, <2>3 DEF ReleaseShMem, Sends, Send
  <2>5. idOf[m] \in Nat
    BY <1>0, NatFacts DEF Types
  <2> HIDE DEF held
  <2> QED BY <1>0, <2>2, <2>4, <2>5, CallSends DEF Requests, Pcs
<1>8. CASE ShMemFromUnknown(p)
  <2>1. Sends(p, "ExistingMap", 0, "wait_map", procs[p].held)
    BY <1>0, <1>1, <1>3, <1>8 DEF ShMemFromUnknown, Sends, Send, Pcs
  <2> QED BY <1>0, <1>1, <1>2, <2>1, CallSends DEF Requests, Pcs
<1> QED BY <1>4, <1>5, <1>6, <1>7, <1>8

\* The answer is read.
LEMMA ReceiveIInv ==
  ASSUME IInv, NEW p \in Procs, Receive(p)
  PROVE  IInv'
<1>0. Types /\ Connected(p) /\ EmptyHanded(p) /\ Talking(p) /\ Forked(p) /\ p \in Conns
  BY ConnFacts DEF IInv
<1>1. /\ procs[p].pc \in {"wait_hello", "wait_map", "wait_release", "wait_prefork"}
      /\ conn[procs[p].stream].resp # "none"
      /\ UNCHANGED <<server, clients, forking, idOf, backlog, count>>
  BY DEF Receive
<1>2. Opened(p) /\ procs[p].stream = p
  BY <1>1, OpenStream DEF Opened, Live, Before
<1>3. conn[p].req = "none" /\ conn[p].resp # "none"
  BY <1>0, <1>1, <1>2 DEF Talking, Asking, Answered
<1>4. procs[p] \in ProcTypes /\ conn[p] \in ConnTypes /\ procs[p].held \in Counts
  BY <1>0 DEF Types, ProcTypes
<1>5. conn' = [conn EXCEPT ![p].resp = "none", ![p].val = 0]
  BY <1>2 DEF Receive
<1>6. /\ conn'[p].req = "none" /\ conn'[p].resp = "none" /\ conn'[p].arg = conn[p].arg
      /\ conn'[p].ends = conn[p].ends /\ conn'[p].fd = conn[p].fd
      /\ \A c \in Conns \ {p} : conn'[c] = conn[c]
      /\ conn' \in [Conns -> ConnTypes]
  <2>0. PICK zero \in Nat, none \in Responses : zero = 0 /\ none = "none"
    BY DEF Responses
  <2>1. /\ conn'[p] = [conn[p] EXCEPT !.resp = none, !.val = zero]
        /\ \A c \in Conns \ {p} : conn'[c] = conn[c]
    BY <1>0, <1>5, <2>0 DEF Types
  <2>3. /\ conn'[p].req = "none" /\ conn'[p].resp = "none" /\ conn'[p].arg = conn[p].arg
        /\ conn'[p].ends = conn[p].ends /\ conn'[p].fd = conn[p].fd
    BY <1>3, <1>4, <2>0, <2>1 DEF ConnTypes
  <2>4. conn'[p] \in ConnTypes
    BY <1>4, <2>1 DEF ConnTypes
  <2> QED BY <1>0, <1>5, <2>1, <2>3, <2>4 DEF Types
<1>8. \A f \in Fds : ~Expects(p, f)' \/ procs'[p].pc \in {"await_parent", "connect", "hello"}
  BY <1>6 DEF Expects
\* What is left to show once the process has gone on
<1>9. ASSUME NEW pc \in {"idle", "fork"}, procs'[p].pc = pc,
             procs'[p].stream = p, procs'[p].child = procs[p].child,
             procs' \in [Procs -> ProcTypes],
             pipe' \in [Procs -> [parent_done : BOOLEAN, child_done : BOOLEAN]],
             \A q \in Procs \ {p} : procs'[q] = procs[q] /\ pipe'[q] = pipe[q],
             pipe[p].child_done => pipe'[p].child_done,
             procs'[p].id = conn[p].fd, conn[p].fd # 0,
             Sound => ToFork(p)' /\ AtLeast(clients[conn[p].fd].maps, procs'[p].held)
      PROVE  IInv'
  <2>1. Opened(p)' /\ procs'[p].pc # "join" /\ procs[p].pc # "join"
    BY <1>1, <1>9 DEF Opened, Live, Before
  <2>2. Own(p)
    BY <1>0, <1>1, <1>2, <1>6, <1>9, <2>1 DEF Own, Types
  <2>3. Connected(p)'
    BY <1>0, <1>1, <1>2, <1>6, <1>9 DEF Connected, Opened, Live, Before, Greeting
  <2>4. EmptyHanded(p)'
    BY <1>9 DEF EmptyHanded
  <2>5. Talking(p)'
    BY <1>6, <1>9 DEF Talking, Answered
  <2>6. Forked(p)'
    <3>1. procs[p].child \in Procs \cup {0}
      BY <1>4 DEF ProcTypes
    <3>2. \A q \in Procs : pipe[q].child_done => pipe'[q].child_done
      BY <1>9
    <3> QED BY <1>0, <1>1, <1>6, <1>9, <3>1, <3>2 DEF Forked, Before, Greeting
  <2>7. ASSUME Sound PROVE ToFork(p)' /\ Keeps(p)' /\ ExpectsNoMore(p)
    BY <1>1, <1>6, <1>8, <1>9, <2>7 DEF Keeps, AtLeast, ExpectsNoMore
  <2> QED BY <2>2, <2>3, <2>4, <2>5, <2>6, <2>7, OwnStep
<1>10. Sound /\ conn[p].fd # 0 => AtLeast(clients[conn[p].fd].maps, procs[p].held)
  <2>1. ~Unregistered(p)
    BY <1>1, <1>3 DEF Unregistered
  <2> QED BY <1>2, <2>1 DEF Sound, Keeps
<1>11. CASE procs[p].pc = "wait_hello"
  <2>1. /\ procs' = [procs EXCEPT ![p].id = conn[p].val, ![p].pc = "idle"]
        /\ pipe' = [pipe EXCEPT ![p].child_done = @ \/ procs[p].id # 0]
    BY <1>2, <1>11 DEF Receive
  <2>2. conn[p].fd # 0 /\ conn[p].val = conn[p].fd /\ conn[p].val \in Fds
    BY <1>0, <1>3, <1>4, <1>11 DEF Talking, Asking, Answered, ConnTypes
  <2>3. /\ procs'[p].pc = "idle" /\ procs'[p].stream = p /\ procs'[p].child = procs[p].child
        /\ procs'[p].id = conn[p].fd /\ procs'[p].held = procs[p].held
        /\ \A q \in Procs \ {p} : procs'[q] = procs[q]
    BY <1>0, <1>2, <2>1, <2>2 DEF Types, ProcTypes
  <2>4. procs' \in [Procs -> ProcTypes]
    <3>1. procs'[p] = [procs[p] EXCEPT !.id = conn[p].val, !.pc = "idle"]
      BY <1>0, <2>1 DEF Types
    <3>2. "idle" \in Pcs
      BY DEF Pcs
    <3>3. procs'[p] \in ProcTypes
      BY <1>4, <2>2, <3>1, <3>2 DEF ProcTypes
    <3> QED BY <1>0, <2>1, <2>3, <3>3 DEF Types
  <2>5. /\ pipe' \in [Procs -> [parent_done : BOOLEAN, child_done : BOOLEAN]]
        /\ \A q \in Procs \ {p} : pipe'[q] = pipe[q]
        /\ pipe[p].child_done => pipe'[p].child_done
    BY <1>0, <2>1 DEF Types
  <2>6. Sound => ToFork(p)'
    BY <2>3 DEF ToFork
  <2> QED BY <1>9, <1>10, <2>2, <2>3, <2>4, <2>5, <2>6
<1>12. procs[p].pc # "wait_hello" => conn[p].fd # 0 /\ procs[p].id = conn[p].fd
  BY <1>0, <1>1, <1>2 DEF Connected, Greeting
<1>13. CASE procs[p].pc = "wait_map"
  <2>1. /\ procs' = [procs EXCEPT ![p].held[conn[p].val] = @ + 1, ![p].pc = "idle"]
        /\ UNCHANGED pipe
    BY <1>2, <1>13 DEF Receive
  <2>2. conn[p].val \in Maps /\ conn[p].resp = "Mapping"
    BY <1>0, <1>3, <1>13 DEF Talking, Asking, Answered
  <2>3. PICK v \in Maps : v = conn[p].val
    BY <2>2
  <2>4. PICK held \in Counts : held = [procs[p].held EXCEPT ![v] = @ + 1]
    <3>1. procs[p].held[v] + 1 \in Nat
      BY <1>4 DEF Counts
    <3>2. [procs[p].held EXCEPT ![v] = procs[p].held[v] + 1] \in Counts
      BY <1>4, <3>1 DEF Counts
    <3> QED BY <3>2
  <2>5. procs'[p] = [procs[p] EXCEPT !.held = held, !.pc = "idle"]
        /\ \A q \in Procs \ {p} : procs'[q] = procs[q]
    BY <1>0, <1>4, <2>1, <2>3, <2>4 DEF Types, ProcTypes
  <2>6. /\ procs'[p].pc = "idle" /\ procs'[p].stream = p /\ procs'[p].child = procs[p].child
        /\ procs'[p].id = procs[p].id /\ procs'[p].held = held /\ procs'[p] \in ProcTypes
    BY <1>2, <1>4, <2>5 DEF ProcTypes, Pcs
  <2>7. procs' \in [Procs -> ProcTypes]
    BY <1>0, <2>1, <2>5, <2>6 DEF Types
  <2>8. Sound => ToFork(p)'
    BY <2>6 DEF ToFork
  <2>9. ASSUME Sound PROVE AtLeast(clients[conn[p].fd].maps, held)
    <3>1. Keeps(p) /\ ~Unregistered(p) /\ conn[p].fd # 0
      BY <1>12, <1>13, <2>9 DEF Sound, Unregistered
    <3>2. AtLeast(clients[conn[p].fd].maps, procs[p].held)
          /\ clients[conn[p].fd].maps[v] > procs[p].held[v]
      BY <1>2, <2>2, <2>3, <3>1 DEF Keeps
    <3>3. clients[conn[p].fd].maps \in Counts
      BY <1>0, <1>2, <3>1 DEF Connected, Types, ClientTypes
    <3>4. \A m \in Maps : /\ clients[conn[p].fd].maps[m] \in Nat /\ procs[p].held[m] \in Nat
                          /\ held[m] = IF m = v THEN procs[p].held[m] + 1 ELSE procs[p].held[m]
      BY <1>4, <2>4, <3>3 DEF Counts
    <3> QED BY <3>2, <3>4 DEF AtLeast
  <2>10. /\ pipe' \in [Procs -> [parent_done : BOOLEAN, child_done : BOOLEAN]]
         /\ \A q \in Procs \ {p} : procs'[q] = procs[q] /\ pipe'[q] = pipe[q]
         /\ pipe[p].child_done => pipe'[p].child_done
    BY <1>0, <2>1, <2>5 DEF Types
  <2> QED BY <1>9, <1>12, <1>13, <2>6, <2>7, <2>8, <2>9, <2>10
<1>14. CASE procs[p].pc \in {"wait_release", "wait_prefork"}
  <2>1. PICK pc \in {"idle", "fork"} :
            /\ procs' = [procs EXCEPT ![p].pc = pc]
            /\ pc = "fork" => procs[p].pc = "wait_prefork"
            /\ UNCHANGED pipe
    BY <1>2, <1>14 DEF Receive, Go
  <2>2. /\ procs'[p].pc = pc /\ procs'[p].stream = p /\ procs'[p].child = procs[p].child
        /\ procs'[p].id = procs[p].id /\ procs'[p].held = procs[p].held
        /\ \A q \in Procs \ {p} : procs'[q] = procs[q]
    BY <1>0, <1>2, <2>1 DEF Types, ProcTypes
  <2>3. procs' \in [Procs -> ProcTypes]
    <3>1. procs'[p] = [procs[p] EXCEPT !.pc = pc]
      BY <1>0, <2>1 DEF Types
    <3>2. pc \in Pcs
      BY DEF Pcs
    <3>3. procs'[p] \in ProcTypes
      BY <1>4, <3>1, <3>2 DEF ProcTypes
    <3> QED BY <1>0, <2>1, <2>2, <3>3 DEF Types
  <2>4. /\ pipe' \in [Procs -> [parent_done : BOOLEAN, child_done : BOOLEAN]]
        /\ \A q \in Procs \ {p} : procs'[q] = procs[q] /\ pipe'[q] = pipe[q]
        /\ pipe[p].child_done => pipe'[p].child_done
    BY <1>0, <2>1, <2>2 DEF Types
  <2>5. ASSUME Sound PROVE ToFork(p)'
    <3>1. CASE pc = "idle"
      BY <2>2, <3>1 DEF ToFork
    <3>2. CASE pc = "fork"
      <4>1. ToFork(p) /\ procs[p].pc = "wait_prefork" /\ conn[p].req = "none"
        BY <1>3, <2>1, <2>5, <3>2 DEF Sound
      <4>2. \A c \in Procs, f \in Fds : Expects(c, f)' => Expects(c, f)
        <5>1. \A c \in Procs \ {p} : procs'[c] = procs[c] /\ conn'[c] = conn[c]
          BY <1>6, <2>2, ConnFacts
        <5>2. \A f \in Fds : ~Expects(p, f)'
          BY <1>8, <2>2, <3>2
        <5> QED BY <5>1, <5>2 DEF Expects
      <4>3. procs[p].id \in Fds
        BY <1>4, <1>12, <4>1 DEF ProcTypes
      <4> QED BY <1>1, <2>2, <4>1, <4>2, <4>3 DEF ToFork, AtLeast
    <3> QED BY <3>1, <3>2
  <2> QED BY <1>9, <1>10, <1>12, <1>14, <2>2, <2>3, <2>4, <2>5
<1> QED BY <1>1, <1>11, <1>13, <1>14

\* A process goes on without a word to the server.
LEMMA MovesIInv ==
  ASSUME IInv, NEW p \in Procs, NEW pc \in {"idle", "await_child", "waitpid"},
         procs[p].pc \in {"fork", "set_parent_done", "await_child", "waitpid"},
         UNCHANGED <<server, clients, forking, idOf, conn, backlog, count>>,
         procs' = [procs EXCEPT ![p].pc = pc],
         pipe' \in [Procs -> [parent_done : BOOLEAN, child_done : BOOLEAN]],
         \A q \in Procs : pipe'[q].child_done = pipe[q].child_done,
         procs[p].pc \in {"set_parent_done", "await_child"} =>
             pc = "await_child" \/ pipe[procs[p].child].child_done,
         pc = "await_child" => procs[p].child # 0
  PROVE  IInv'
<1>0. Types /\ Connected(p) /\ EmptyHanded(p) /\ Talking(p) /\ Forked(p) /\ p \in Conns
  BY ConnFacts DEF IInv
<1>1. Opened(p) /\ procs[p].stream = p
  BY OpenStream DEF Opened, Live, Before
<1>2. /\ procs'[p].pc = pc /\ procs'[p].stream = p /\ procs'[p].child = procs[p].child
      /\ procs'[p].id = procs[p].id /\ procs'[p].held = procs[p].held
      /\ \A q \in Procs \ {p} : procs'[q] = procs[q]
      /\ procs' \in [Procs -> ProcTypes]
  <2>1. /\ procs'[p] = [procs[p] EXCEPT !.pc = pc] /\ procs[p] \in ProcTypes
        /\ \A q \in Procs \ {p} : procs'[q] = procs[q]
    BY <1>0 DEF Types
  <2>2. pc \in Pcs
    BY DEF Pcs
  <2>3. procs'[p] \in ProcTypes
    BY <2>1, <2>2 DEF ProcTypes
  <2>4. /\ procs'[p].pc = pc /\ procs'[p].stream = p /\ procs'[p].child = procs[p].child
        /\ procs'[p].id = procs[p].id /\ procs'[p].held = procs[p].held
    BY <1>1, <2>1 DEF ProcTypes
  <2> QED BY <1>0, <2>1, <2>3, <2>4 DEF Types
<1>3. conn[p].req = "none" /\ conn[p].resp = "none"
  BY <1>0, <1>1 DEF Talking, Answered
<1>4. Opened(p)' /\ procs'[p].pc # "join"
  BY <1>2 DEF Opened, Live, Before
<1>5. Own(p)
  BY <1>0, <1>1, <1>2, <1>4 DEF Own, Types
<1>6. Connected(p)' /\ EmptyHanded(p)'
  BY <1>0, <1>1, <1>2 DEF Connected, EmptyHanded, Opened, Live, Before, Greeting
<1>7. Talking(p)'
  BY <1>2, <1>3 DEF Talking, Answered
<1>8. Forked(p)'
  <2>1. procs[p].child \in Procs \cup {0}
    BY <1>0 DEF Types, ProcTypes
  <2> QED BY <1>0, <1>2, <1>3, <2>1 DEF Forked, Before, Greeting
<1>10. ASSUME Sound PROVE ToFork(p)' /\ Keeps(p)' /\ ExpectsNoMore(p)
  <2>1. ToFork(p)'
    BY <1>2 DEF ToFork
  <2>2. ExpectsNoMore(p)
    BY <1>2, <1>3 DEF ExpectsNoMore, Expects
  <2>3. Keeps(p) /\ conn[p].fd # 0 /\ ~Unregistered(p)
    BY <1>0, <1>1, <1>10 DEF Sound, Connected, Greeting, Unregistered
  <2>4. Keeps(p)'
    BY <1>1, <1>2, <1>3, <2>3 DEF Keeps, AtLeast
  <2> QED BY <2>1, <2>2, <2>4
<1> QED BY <1>5, <1>6, <1>7, <1>8, <1>10, OwnStep

LEMMA ForkStepsIInv ==
  ASSUME IInv, NEW p \in Procs,
         ForkFails(p) \/ SetParentDone(p) \/ AwaitChildDone(p) \/ Waitpid(p)
  PROVE  IInv'
<1>0. Types /\ Forked(p)
  BY DEF IInv
<1>1. CASE ForkFails(p)
  BY <1>0, <1>1, MovesIInv DEF ForkFails, Go, Types
<1>2. CASE SetParentDone(p)
  <2>1. procs[p].pc = "set_parent_done" /\ procs[p].child # 0
    BY <1>0, <1>2 DEF SetParentDone, Forked
  <2>2. procs[p].child \in Procs
    BY <1>0, <2>1 DEF Types, ProcTypes
  <2>3. /\ pipe' \in [Procs -> [parent_done : BOOLEAN, child_done : BOOLEAN]]
        /\ \A q \in Procs : pipe'[q].child_done = pipe[q].child_done
    BY <1>0, <1>2, <2>2 DEF SetParentDone, Types
  <2>4. procs' = [procs EXCEPT ![p].pc = "await_child"]
        /\ UNCHANGED <<server, clients, forking, idOf, conn, backlog, count>>
    BY <1>2 DEF SetParentDone, Go
  <2> QED BY <2>1, <2>3, <2>4, MovesIInv
<1>3. CASE AwaitChildDone(p)
  <2>1. PICK pc \in {"idle", "waitpid"} : Go(p, pc)
    BY <1>3 DEF AwaitChildDone
  <2>2. /\ procs[p].pc = "await_child" /\ pipe[procs[p].child].child_done
        /\ procs' = [procs EXCEPT ![p].pc = pc]
        /\ UNCHANGED <<server, clients, forking, idOf, conn, backlog, pipe, count>>
    BY <1>3, <2>1 DEF AwaitChildDone, Go
  <2>3. /\ pipe' \in [Procs -> [parent_done : BOOLEAN, child_done : BOOLEAN]]
        /\ \A q \in Procs : pipe'[q].child_done = pipe[q].child_done
    BY <1>0, <2>2 DEF Types
  <2> QED BY <2>2, <2>3, MovesIInv
<1>4. CASE Waitpid(p)
  BY <1>0, <1>4, MovesIInv DEF Waitpid, Go, Types
<1> QED BY <1>1, <1>2, <1>3, <1>4

-----------------------------------------------------------------------------
(* Steps of a process with others' connections, or with none.              *)

\* What changes when a process goes on, and what does not
LEMMA GoFacts ==
  ASSUME Types, NEW p \in Procs, NEW pc \in Pcs, Go(p, pc)
  PROVE  /\ procs' \in [Procs -> ProcTypes] /\ \A q \in Procs \ {p} : procs'[q] = procs[q]
         /\ procs'[p].pc = pc /\ procs'[p].stream = procs[p].stream
         /\ procs'[p].id = procs[p].id /\ procs'[p].held = procs[p].held
         /\ procs'[p].child = procs[p].child
<1>1. /\ procs'[p] = [procs[p] EXCEPT !.pc = pc] /\ procs[p] \in ProcTypes
      /\ \A q \in Procs \ {p} : procs'[q] = procs[q]
  BY DEF Types, Go
<1>2. /\ procs'[p].pc = pc /\ procs'[p].stream = procs[p].stream
      /\ procs'[p].id = procs[p].id /\ procs'[p].held = procs[p].held
      /\ procs'[p].child = procs[p].child
  BY <1>1 DEF ProcTypes
<1>3. procs'[p] \in ProcTypes
  BY <1>1 DEF ProcTypes
<1>4. procs' \in [Procs -> ProcTypes]
  BY <1>1, <1>3 DEF Types, Go
<1> QED BY <1>1, <1>2, <1>4

\* What a process is, and what is on its connection, stays.
Same(q) ==
    /\ procs'[q] = procs[q]
    /\ conn'[q].req = conn[q].req /\ conn'[q].arg = conn[q].arg
    /\ conn'[q].resp = conn[q].resp /\ conn'[q].val = conn[q].val /\ conn'[q].fd = conn[q].fd
    /\ q \in conn[q].ends => q \in conn'[q].ends

\* A step of the processes P
Step(P) ==
    /\ UNCHANGED <<clients, forking, idOf, pipe>> /\ count'.lost = count.lost
    /\ server'.state \in {"none", "running"} => server.state \in {"none", "running"}
    /\ server'.state = "no copy" => server.state = "no copy" \/ count.lost # 0
    /\ \A q \in Procs \ P : Same(q)

LEMMA StepOthers ==
  ASSUME IInv, NEW P, Step(P), NEW q \in Procs \ P
  PROVE  /\ Connected(q)' /\ EmptyHanded(q)' /\ Talking(q)' /\ Forked(q)'
         /\ Sound => Keeps(q)'
<1>0. Connected(q) /\ EmptyHanded(q) /\ Talking(q) /\ Forked(q)
  BY DEF IInv
<1>1. /\ Same(q) /\ UNCHANGED <<clients, forking, idOf, pipe>>
      /\ server'.state \in {"none", "running"} => server.state \in {"none", "running"}
  BY DEF Step
<1>2. Connected(q)' /\ EmptyHanded(q)'
  BY <1>0, <1>1 DEF Same, Connected, EmptyHanded, Opened, Live, Before, Greeting
<1>3. Talking(q)'
  BY <1>0, <1>1 DEF Same, Talking, Asking, Answered, Opened, Live, Before
<1>4. Forked(q)'
  BY <1>0, <1>1 DEF Same, Forked, Before, Greeting
<1>5. ASSUME Sound PROVE Keeps(q)'
  <2>1. Keeps(q)
    BY <1>5 DEF Sound
  <2> QED BY <1>1, <2>1 DEF Same, Keeps, AtLeast, Unregistered, Opened, Live, Before
<1> QED BY <1>2, <1>3, <1>4, <1>5

LEMMA StepIInv ==
  ASSUME IInv, NEW P \in SUBSET Procs, Step(P),
         Types', Table', Owner', Reported',
         \A q \in P : Connected(q)' /\ EmptyHanded(q)' /\ Talking(q)' /\ Forked(q)',
         Sound => Copies' /\ (\A q \in P : Keeps(q)') /\ \A q \in Procs : ToFork(q)'
  PROVE  IInv'
<1>1. \A q \in Procs : Connected(q)' /\ EmptyHanded(q)' /\ Talking(q)' /\ Forked(q)'
  BY StepOthers
<1>2. Made' /\ UsedAreNewest'
  BY DEF IInv, Step, Made, MadeMaps, UsedAreNewest, InUse, Kept, Newest
<1>3. ASSUME count'.lost = 0 PROVE Sound'
  <2>1. Sound
    BY <1>3 DEF IInv, Step
  <2>2. \A q \in Procs : Keeps(q)' /\ ToFork(q)'
    BY <2>1, StepOthers
  <2>3. server'.state # "no copy"
    BY <1>3, <2>1 DEF Sound, Step
  <2> QED BY <2>1, <2>2, <2>3 DEF Sound
<1> QED BY <1>1, <1>2, <1>3 DEF IInv

\* A copy is expected by no more processes, and no more is held of it.
LEMMA StepCopies ==
  ASSUME IInv, Sound, UNCHANGED forking,
         \A c \in Procs, f \in Fds : Expects(c, f)' =>
             Expects(c, f) /\ (Live(c)' => Live(c) /\ procs'[c].held = procs[c].held)
  PROVE  /\ Copies'
         /\ \A q \in Procs : procs'[q] = procs[q] /\ conn'[q].req = conn[q].req => ToFork(q)'
<1>1. Copies'
  BY DEF Sound, Copies, AtLeast
<1>2. ASSUME NEW q \in Procs, procs'[q] = procs[q], conn'[q].req = conn[q].req
      PROVE  ToFork(q)'
  <2>1. ToFork(q)
    BY DEF Sound
  <2>2. procs[q].pc \in {"fork", "wait_prefork"} => procs[q].id \in Fds
    BY DEF IInv, Connected, Opened, Live, Before, Greeting, Types, ConnTypes
  <2> QED BY <1>2, <2>1, <2>2 DEF ToFork, AtLeast
<1> QED BY <1>1, <1>2

\* A process goes on whose connection is not open yet.
LEMMA BeforeIInv ==
  ASSUME IInv, NEW p \in Procs, procs[p].pc \in {"start", "await_parent"},
         Go(p, "connect"), UNCHANGED <<clients, forking, idOf, conn, backlog, pipe, count>>,
         server' \in ServerTypes, Owner',
         server'.todo = server.todo /\ server'.reads = server.reads,
         server'.state \in {"none", "running"} => server.state \in {"none", "running"},
         server'.state = "no copy" => server.state = "no copy"
  PROVE  IInv'
<1>0. Types /\ EmptyHanded(p) /\ Forked(p) /\ Table /\ Reported
  BY DEF IInv
<1>1. "connect" \in Pcs
  BY DEF Pcs
<1>2. /\ procs' \in [Procs -> ProcTypes] /\ \A q \in Procs \ {p} : procs'[q] = procs[q]
      /\ procs'[p].pc = "connect" /\ procs'[p].stream = procs[p].stream
      /\ procs'[p].id = procs[p].id /\ procs'[p].held = procs[p].held
      /\ procs'[p].child = procs[p].child
  BY <1>0, <1>1, GoFacts
<1>5. Types'
  BY <1>0, <1>2 DEF Types
<1>6. Table'
  <2>1. \A q \in Procs : Before(q)' => Before(q)
    BY <1>2 DEF Before
  <2> QED BY <1>0, <2>1 DEF Table
<1>7. Reported'
  BY <1>0 DEF Reported
<1>8. Step({p})
  BY <1>2 DEF Step, Same
<1>9. Connected(p)' /\ EmptyHanded(p)' /\ Talking(p)' /\ Forked(p)'
  BY <1>0, <1>2 DEF Connected, EmptyHanded, Talking, Forked, Opened, Before
<1>11. ASSUME Sound PROVE Copies' /\ Keeps(p)' /\ \A q \in Procs : ToFork(q)'
  <2>1. Keeps(p)' /\ ToFork(p)'
    BY <1>2 DEF Keeps, ToFork, Opened, Before
  <2>2. \A f \in Fds : Expects(p, f)' => Expects(p, f)
    BY <1>0, <1>2, ZeroFacts, ZenonT(60) DEF EmptyHanded, Expects
  <2>3. \A c \in Procs \ {p}, f \in Fds : Expects(c, f)' => Expects(c, f)
    BY <1>2 DEF Expects
  <2>4. \A c \in Procs : Live(c)' => Live(c) /\ procs'[c].held = procs[c].held
    BY <1>2 DEF Live
  <2>5. \A c \in Procs, f \in Fds : Expects(c, f)' =>
            Expects(c, f) /\ (Live(c)' => Live(c) /\ procs'[c].held = procs[c].held)
    BY <2>2, <2>3, <2>4
  <2>6. Copies' /\ \A q \in Procs : procs'[q] = procs[q] /\ conn'[q].req = conn[q].req => ToFork(q)'
    BY <1>11, <2>5, StepCopies
  <2>7. \A q \in Procs : ToFork(q)'
    BY <1>2, <2>1, <2>6
  <2> QED BY <2>1, <2>6, <2>7
<1> QED BY <1>5, <1>6, <1>7, <1>8, <1>9, <1>11, StepIInv

\* The service is started once.
LEMMA StartIInv ==
  ASSUME IInv, NEW p \in Procs, Start(p)
  PROVE  IInv'
<1>0. Types /\ Owner /\ p # 0
  BY ZeroFacts DEF IInv
<1>1. /\ procs[p].pc = "start" /\ Go(p, "connect")
      /\ UNCHANGED <<clients, forking, idOf, conn, backlog, pipe, count>>
  BY DEF Start
<1>2. /\ procs'[p].pc = "connect"
      /\ \A q \in Procs \ {p} : procs'[q] = procs[q]
  <2>1. "connect" \in Pcs
    BY DEF Pcs
  <2> QED BY <1>0, <1>1, <2>1, GoFacts
<1>3. CASE server.state = "none"
  <2>1. server' = [server EXCEPT !.state = "running", !.owner = p] /\ server \in ServerTypes
    BY <1>0, <1>3 DEF Start, Types
  <2>2. /\ server'.state = "running" /\ server'.owner = p
        /\ server'.todo = server.todo /\ server'.reads = server.reads
    BY <2>1 DEF ServerTypes
  <2>3. server' \in ServerTypes
    BY <2>1 DEF ServerTypes
  <2>4. server.owner = 0
    BY <1>0, <1>3 DEF Owner
  <2>5. \A q \in Procs : procs[q].pc # "join"
    BY <1>0, <2>4, ZeroFacts DEF Owner
  <2>6. Owner'
    BY <1>0, <1>1, <1>2, <2>2, <2>4, <2>5 DEF Owner
  <2> QED BY <1>1, <1>3, <2>2, <2>3, <2>6, BeforeIInv
<1>4. CASE server.state # "none"
  <2>1. server' = server
    BY <1>4 DEF Start
  <2>2. server.owner \in Procs \cup {0}
    BY <1>0 DEF Types, ServerTypes
  <2>3. \A q \in Procs : procs'[q].pc \in {"join", "dead"} <=> procs[q].pc \in {"join", "dead"}
    BY <1>1, <1>2
  <2>4. \A q \in Procs : procs'[q].pc = "join" => procs[q].pc = "join"
    BY <1>1, <1>2
  <2>5. Owner'
    BY <1>0, <1>1, <2>1, <2>2, <2>3, <2>4 DEF Owner
  <2> QED BY <1>0, <1>1, <2>1, <2>5, BeforeIInv DEF Types
<1> QED BY <1>3, <1>4

\* A child that was told that its parent is done
LEMMA AwaitParentDoneIInv ==
  ASSUME IInv, NEW p \in Procs, AwaitParentDone(p)
  PROVE  IInv'
<1>0. Types /\ Owner
  BY DEF IInv
<1>1. /\ procs[p].pc = "await_parent" /\ Go(p, "connect")
      /\ UNCHANGED <<server, clients, forking, idOf, conn, backlog, pipe, count>>
  BY DEF AwaitParentDone
<1>2. /\ procs'[p].pc = "connect"
      /\ \A q \in Procs \ {p} : procs'[q] = procs[q]
  <2>1. "connect" \in Pcs
    BY DEF Pcs
  <2> QED BY <1>0, <1>1, <2>1, GoFacts
<1>3. server.owner \in Procs \cup {0}
  BY <1>0 DEF Types, ServerTypes
<1>4. \A q \in Procs : procs'[q].pc \in {"join", "dead"} <=> procs[q].pc \in {"join", "dead"}
  BY <1>1, <1>2
<1>5. \A q \in Procs : procs'[q].pc = "join" => procs[q].pc = "join"
  BY <1>1, <1>2
<1>6. Owner'
  BY <1>0, <1>1, <1>3, <1>4, <1>5 DEF Owner
<1> QED BY <1>0, <1>1, <1>6, BeforeIInv DEF Types

\* A connection is queued for the server.
LEMMA Queued ==
  ASSUME IInv, NEW c \in Conns, conn[c].fd = 0, \A i \in 1..Len(backlog) : backlog[i] # c,
         backlog' = Append(backlog, c), UNCHANGED clients,
         \A d \in Conns : conn'[d].fd = conn[d].fd,
         \A q \in Procs : Before(q)' => Before(q) /\ q # c /\ conn'[q] = NoConn
  PROVE  /\ backlog' \in Seq(Conns) /\ backlog' # <<>> /\ Table'
         /\ \A x : x # c /\ (\A i \in 1..Len(backlog) : backlog[i] # x) =>
                \A i \in 1..Len(backlog') : backlog'[i] # x
<1>0. Types /\ Table /\ backlog \in Seq(Conns)
  BY DEF IInv, Types
<1>1. backlog' \in Seq(Conns) /\ backlog' # <<>> /\ Len(backlog') = Len(backlog) + 1
  BY <1>0
<1>2. \A i \in 1..Len(backlog') :
          \/ i \in 1..Len(backlog) /\ backlog'[i] = backlog[i]
          \/ i = Len(backlog) + 1 /\ backlog'[i] = c
  BY <1>0
<1>3. \A x : x # c /\ (\A i \in 1..Len(backlog) : backlog[i] # x) =>
          \A i \in 1..Len(backlog') : backlog'[i] # x
  BY <1>2
<1>4. \A i \in 1..Len(backlog) : backlog[i] \in Conns
  BY <1>0
<1>5. \A f \in DOMAIN clients : clients[f].conn \in Conns
  BY <1>0 DEF Types, ClientTypes
<1>6. \A f \in DOMAIN clients' : conn'[clients'[f].conn].fd = f
  BY <1>0, <1>5 DEF Table
<1>7. \A i \in 1..Len(backlog') : conn'[backlog'[i]].fd = 0
  BY <1>0, <1>2, <1>4 DEF Table
<1>8. \A i, j \in 1..Len(backlog') : backlog'[i] = backlog'[j] => i = j
  BY <1>0, <1>2 DEF Table
<1>9. \A q \in Procs : Before(q)' =>
          conn'[q] = NoConn /\ \A i \in 1..Len(backlog') : backlog'[i] # q
  BY <1>0, <1>3 DEF Table
<1> QED BY <1>1, <1>3, <1>6, <1>7, <1>8, <1>9 DEF Table

LEMMA NoConnFacts ==
  /\ NoConn \in ConnTypes
  /\ NoConn.ends = {} /\ NoConn.fd = 0 /\ NoConn.req = "none" /\ NoConn.arg = 0
  /\ NoConn.resp = "none" /\ NoConn.val = 0
  BY DEF NoConn, ConnTypes, Requests, Responses

\* A new stream to the server
LEMMA ConnectIInv ==
  ASSUME IInv, NEW p \in Procs, Connect(p)
  PROVE  IInv'
<1>0. /\ Types /\ Table /\ Owner /\ Reported /\ EmptyHanded(p) /\ Forked(p)
      /\ p \in Conns /\ p # Exiter
  BY ConnFacts DEF IInv
<1>1. /\ procs[p].pc = "connect" /\ backlog' = Append(backlog, p)
      /\ procs' = [procs EXCEPT ![p].pc = "hello", ![p].stream = p]
      /\ UNCHANGED <<server, clients, forking, idOf, pipe, count>>
  BY DEF Connect
<1>2. conn[p] = NoConn /\ \A i \in 1..Len(backlog) : backlog[i] # p
  BY <1>0, <1>1 DEF Table, Before
<1>3. PICK new : new = [NoConn EXCEPT !.ends = {p}]
  OBVIOUS
<1>4. /\ new \in ConnTypes /\ new.ends = {p} /\ new.fd = 0 /\ new.req = "none"
      /\ new.arg = 0 /\ new.resp = "none" /\ new.val = 0
  BY <1>3 DEF NoConn, ConnTypes, Requests, Responses
<1>5. PICK left \in [Conns -> ConnTypes] :
          /\ conn' = [left EXCEPT ![p] = new]
          /\ \A c \in Conns :
                \/ left[c] = conn[c]
                \/ c = procs[p].stream /\ c # 0 /\ left[c] = [conn[c] EXCEPT !.ends = @ \ {p}]
  <2>1. CASE procs[p].stream = 0
    BY <1>0, <1>3, <2>1 DEF Connect, Types
  <2>2. CASE procs[p].stream # 0
    <3>1. procs[p].stream \in Procs /\ procs[p].stream \in Conns
      BY <1>0, <2>2, ConnFacts DEF Types, ProcTypes
    <3>2. PICK s \in Conns : s = procs[p].stream
      BY <3>1
    <3>3. PICK ends : ends = conn[s].ends \ {p}
      OBVIOUS
    <3>4. [conn[s] EXCEPT !.ends = ends] \in ConnTypes
      BY <1>0, <3>3 DEF Types, ConnTypes
    <3>5. PICK left : left = [conn EXCEPT ![s] = [conn[s] EXCEPT !.ends = ends]]
      OBVIOUS
    <3>6. /\ left \in [Conns -> ConnTypes] /\ left[s] = [conn[s] EXCEPT !.ends = ends]
          /\ \A c \in Conns \ {s} : left[c] = conn[c]
      BY <1>0, <3>4, <3>5 DEF Types
    <3>7. conn' = [left EXCEPT ![p] = new]
      BY <1>3, <2>2, <3>2, <3>3, <3>5 DEF Connect
    <3> QED BY <2>2, <3>2, <3>3, <3>6, <3>7
  <2> QED BY <2>1, <2>2
<1>6. conn' \in [Conns -> ConnTypes] /\ conn'[p] = new /\ \A c \in Conns \ {p} : conn'[c] = left[c]
  BY <1>0, <1>4, <1>5
<1>7. ASSUME NEW c \in Conns, c # p
      PROVE  /\ conn'[c].req = conn[c].req /\ conn'[c].arg = conn[c].arg
             /\ conn'[c].resp = conn[c].resp /\ conn'[c].val = conn[c].val
             /\ conn'[c].fd = conn[c].fd
             /\ conn'[c].ends \subseteq conn[c].ends
             /\ \A q \in Procs \ {p} : q \in conn[c].ends => q \in conn'[c].ends
             /\ conn[c].ends = {} => conn'[c] = conn[c]
  <2>0. conn[c] \in ConnTypes
    BY <1>0 DEF Types
  <2>1. CASE conn'[c] = conn[c]
    BY <2>0, <2>1
  <2>2. CASE conn'[c] = [conn[c] EXCEPT !.ends = conn[c].ends \ {p}]
    BY <2>0, <2>2 DEF ConnTypes
  <2> QED BY <1>5, <1>6, <1>7, <2>1, <2>2
<1>8. conn'[Exiter] = conn[Exiter]
  BY <1>0, <1>5, <1>6, ConnFacts
<1>9. /\ procs' \in [Procs -> ProcTypes] /\ \A q \in Procs \ {p} : procs'[q] = procs[q]
      /\ procs'[p].pc = "hello" /\ procs'[p].stream = p /\ procs'[p].id = procs[p].id
      /\ procs'[p].held = procs[p].held /\ procs'[p].child = procs[p].child
  <2>0. PICK pc \in Pcs, stream \in Procs \cup {0} : pc = "hello" /\ stream = p
    BY DEF Pcs
  <2>1. /\ procs'[p] = [procs[p] EXCEPT !.pc = pc, !.stream = stream] /\ procs[p] \in ProcTypes
        /\ \A q \in Procs \ {p} : procs'[q] = procs[q]
    BY <1>0, <1>1, <2>0 DEF Types
  <2>2. procs'[p] \in ProcTypes
    BY <2>1 DEF ProcTypes
  <2>3. /\ procs'[p].pc = pc /\ procs'[p].stream = stream /\ procs'[p].id = procs[p].id
        /\ procs'[p].held = procs[p].held /\ procs'[p].child = procs[p].child
    BY <2>1 DEF ProcTypes
  <2> QED BY <1>0, <1>1, <2>0, <2>1, <2>2, <2>3 DEF Types
<1>10. \A d \in Conns : conn'[d].fd = conn[d].fd
  BY <1>2, <1>4, <1>6, <1>7, NoConnFacts
<1>11. \A q \in Procs : Before(q)' => Before(q) /\ q # p /\ conn'[q] = NoConn
  <2>1. \A q \in Procs : Before(q)' => Before(q) /\ q # p
    BY <1>9 DEF Before
  <2>2. \A q \in Procs : Before(q) => conn[q] = NoConn
    BY <1>0 DEF Table
  <2> QED BY <1>7, <2>1, <2>2, NoConnFacts, ConnFacts
<1>12. /\ backlog' \in Seq(Conns) /\ backlog' # <<>> /\ Table'
       /\ \A x : x # p /\ (\A i \in 1..Len(backlog) : backlog[i] # x) =>
              \A i \in 1..Len(backlog') : backlog'[i] # x
  BY <1>0, <1>1, <1>2, <1>10, <1>11, NoConnFacts, Queued
<1>13. Types'
  BY <1>0, <1>1, <1>6, <1>9, <1>12 DEF Types
<1>14. Owner'
  <2>1. server.owner \in Procs \cup {0}
    BY <1>0 DEF Types, ServerTypes
  <2>2. \A q \in Procs : procs'[q].pc \in {"join", "dead"} <=> procs[q].pc \in {"join", "dead"}
    BY <1>1, <1>9
  <2>3. \A q \in Procs : procs'[q].pc = "join" => procs[q].pc = "join"
    BY <1>9
  <2> QED BY <1>0, <1>1, <1>8, <1>12, <2>1, <2>2, <2>3 DEF Owner
<1>15. Reported'
  <2>1. \A f \in DOMAIN clients : clients[f].conn \in Conns /\ clients[f].conn # p
    BY <1>0, <1>2, NoConnFacts, ZeroFacts DEF Types, ClientTypes, Table
  <2>2. \A e \in server.todo : e.hup => conn'[clients[e.fd].conn].ends = {}
    <3>1. ASSUME NEW e \in server.todo, e.hup PROVE conn'[clients[e.fd].conn].ends = {}
      <4>1. e.fd \in DOMAIN clients /\ conn[clients[e.fd].conn].ends = {}
        BY <1>0, <3>1 DEF Reported
      <4> QED BY <1>7, <2>1, <4>1
    <3> QED BY <3>1
  <2> QED BY <1>0, <1>1, <1>12, <2>2 DEF Reported
<1>16. Step({p})
  BY <1>1, <1>7, <1>9, ConnFacts DEF Step, Same
<1>18. Connected(p)' /\ EmptyHanded(p)' /\ Talking(p)' /\ Forked(p)'
  <2>1. Connected(p)'
    BY <1>4, <1>6, <1>9 DEF Connected, Greeting
  <2>2. EmptyHanded(p)'
    BY <1>0, <1>9 DEF EmptyHanded
  <2>3. Talking(p)'
    BY <1>4, <1>6, <1>9 DEF Talking, Answered
  <2>4. ~pipe[p].child_done
    BY <1>0, <1>1 DEF Forked, Before
  <2>5. Forked(p)'
    BY <1>0, <1>1, <1>4, <1>6, <1>9, <2>4 DEF Forked
  <2> QED BY <2>1, <2>2, <2>3, <2>5
<1>19. ASSUME Sound PROVE Copies' /\ Keeps(p)' /\ \A q \in Procs : ToFork(q)'
  <2>1. Keeps(p)' /\ ToFork(p)'
    BY <1>4, <1>6, <1>9 DEF Keeps, ToFork
  <2>2. \A f \in Fds : Expects(p, f)' => Expects(p, f)
    BY <1>1, <1>4, <1>6, <1>9 DEF Expects
  <2>3. \A c \in Procs \ {p}, f \in Fds : Expects(c, f)' => Expects(c, f)
    BY <1>7, <1>9, ConnFacts DEF Expects
  <2>4. \A c \in Procs : Live(c)' => Live(c) /\ procs'[c].held = procs[c].held
    BY <1>1, <1>9 DEF Live
  <2>5. \A c \in Procs, f \in Fds : Expects(c, f)' =>
            Expects(c, f) /\ (Live(c)' => Live(c) /\ procs'[c].held = procs[c].held)
    BY <2>2, <2>3, <2>4
  <2>6. Copies' /\ \A q \in Procs : procs'[q] = procs[q] /\ conn'[q].req = conn[q].req => ToFork(q)'
    BY <1>1, <1>19, <2>5, StepCopies
  <2>7. \A q \in Procs : ToFork(q)'
    BY <1>7, <1>9, <2>1, <2>6, ConnFacts
  <2> QED BY <2>1, <2>6, <2>7
<1> QED BY <1>12, <1>13, <1>14, <1>15, <1>16, <1>18, <1>19, StepIInv

\* A child comes into being with what its parent has.
LEMMA ForkIInv ==
  ASSUME IInv, NEW p \in Procs, NEW c \in Procs, Fork(p, c)
  PROVE  IInv'
<1>0. /\ Types /\ Table /\ Owner /\ Reported /\ Connected(p) /\ Talking(p) /\ Forked(p)
      /\ EmptyHanded(c) /\ Forked(c)
      /\ p \in Conns /\ c \in Conns /\ p # Exiter
  BY ConnFacts DEF IInv
<1>1. /\ procs[p].pc = "fork" /\ procs[c].pc = "unborn" /\ p # c
      /\ UNCHANGED <<server, clients, forking, idOf, backlog, pipe, count>>
  BY DEF Fork
<1>2. Opened(p) /\ procs[p].stream = p /\ p \in conn[p].ends
  BY <1>1, OpenStream DEF Opened, Live, Before
<1>3. /\ conn[p].req = "none" /\ conn[p].resp = "none" /\ conn[p].fd # 0
      /\ conn[p].fd \in DOMAIN clients /\ clients[conn[p].fd].conn = p
      /\ procs[p].id = conn[p].fd /\ procs[p].id # 0
  BY <1>0, <1>1, <1>2 DEF Talking, Answered, Connected, Greeting
<1>4. conn[c] = NoConn /\ ~pipe[c].child_done
  BY <1>0, <1>1 DEF Table, Before, Forked
<1>5. /\ conn' \in [Conns -> ConnTypes] /\ \A d \in Conns \ {p} : conn'[d] = conn[d]
      /\ conn'[p].req = "none" /\ conn'[p].arg = conn[p].arg /\ conn'[p].resp = "none"
      /\ conn'[p].fd = conn[p].fd /\ p \in conn'[p].ends
  <2>1. PICK ends \in SUBSET Procs : ends = conn[p].ends \cup {c}
    BY <1>0 DEF Types, ConnTypes
  <2>2. /\ conn'[p] = [conn[p] EXCEPT !.ends = ends] /\ conn[p] \in ConnTypes
        /\ \A d \in Conns \ {p} : conn'[d] = conn[d]
    BY <1>0, <1>2, <2>1 DEF Fork, Types
  <2>3. conn'[p] \in ConnTypes
    BY <2>2 DEF ConnTypes
  <2>4. /\ conn'[p].req = "none" /\ conn'[p].arg = conn[p].arg /\ conn'[p].resp = "none"
        /\ conn'[p].fd = conn[p].fd /\ conn'[p].ends = ends
    BY <1>3, <2>2 DEF ConnTypes
  <2>5. conn' = [conn EXCEPT ![p] = [conn[p] EXCEPT !.ends = ends]]
    BY <1>2, <2>1 DEF Fork
  <2> QED BY <1>0, <1>2, <2>1, <2>2, <2>3, <2>4, <2>5 DEF Types
<1>6. /\ procs' \in [Procs -> ProcTypes] /\ \A q \in Procs \ {p, c} : procs'[q] = procs[q]
      /\ procs'[p].pc = "set_parent_done" /\ procs'[p].stream = p /\ procs'[p].id = procs[p].id
      /\ procs'[p].held = procs[p].held /\ procs'[p].child = c
      /\ procs'[c].pc = "await_parent" /\ procs'[c].stream = p /\ procs'[c].id = procs[p].id
      /\ procs'[c].held = procs[p].held /\ procs'[c].child = 0
  <2>0. PICK pc \in Pcs, pd \in Pcs, none \in Procs \cup {0}, ch \in Procs \cup {0} :
            pc = "await_parent" /\ pd = "set_parent_done" /\ none = 0 /\ ch = c
    BY DEF Pcs
  <2>1. /\ procs'[c] = [procs[p] EXCEPT !.pc = pc, !.child = none]
        /\ procs'[p] = [procs[p] EXCEPT !.pc = pd, !.child = ch]
        /\ procs[p] \in ProcTypes
        /\ \A q \in Procs \ {p, c} : procs'[q] = procs[q]
    BY <1>0, <1>1, <2>0 DEF Fork, Types
  <2>2. procs'[c] \in ProcTypes /\ procs'[p] \in ProcTypes
    BY <2>1 DEF ProcTypes
  <2>3. /\ procs'[p].pc = pd /\ procs'[p].stream = procs[p].stream /\ procs'[p].id = procs[p].id
        /\ procs'[p].held = procs[p].held /\ procs'[p].child = ch
    BY <2>1 DEF ProcTypes
  <2>4. /\ procs'[c].pc = pc /\ procs'[c].stream = procs[p].stream /\ procs'[c].id = procs[p].id
        /\ procs'[c].held = procs[p].held /\ procs'[c].child = none
    BY <2>1 DEF ProcTypes
  <2>5. procs' \in [Procs -> ProcTypes]
    BY <1>0, <2>1, <2>2 DEF Fork, Types
  <2> QED BY <1>2, <2>0, <2>1, <2>3, <2>4, <2>5
<1>7. Types'
  BY <1>0, <1>1, <1>5, <1>6 DEF Types
<1>8. \A f \in DOMAIN clients : clients[f].conn \in Conns
  BY <1>0 DEF Types, ClientTypes
<1>9. Table'
  <2>1. \A d \in Conns : conn'[d].fd = conn[d].fd
    BY <1>5
  <2>2. \A q \in Procs : Before(q)' => Before(q) /\ conn'[q] = conn[q]
    BY <1>1, <1>5, <1>6, ConnFacts DEF Before
  <2>3. \A i \in 1..Len(backlog) : backlog[i] \in Conns
    BY <1>0 DEF Types
  <2>4. \A f \in DOMAIN clients' : conn'[clients'[f].conn].fd = f
    BY <1>0, <1>1, <1>8, <2>1 DEF Table
  <2>5. \A i \in 1..Len(backlog') : conn'[backlog'[i]].fd = 0
    BY <1>0, <1>1, <2>1, <2>3 DEF Table
  <2>6. \A q \in Procs : Before(q)' =>
            conn'[q] = NoConn /\ \A i \in 1..Len(backlog') : backlog'[i] # q
    BY <1>0, <1>1, <2>2 DEF Table
  <2> QED BY <1>0, <1>1, <2>4, <2>5, <2>6 DEF Table
<1>10. Owner'
  <2>1. server.owner \in Procs \cup {0} /\ conn'[Exiter] = conn[Exiter]
    BY <1>0, <1>5, ConnFacts DEF Types, ServerTypes
  <2>2. \A q \in Procs : procs'[q].pc \in {"join", "dead"} <=> procs[q].pc \in {"join", "dead"}
    BY <1>1, <1>6
  <2>3. \A q \in Procs : procs'[q].pc = "join" => procs[q].pc = "join"
    BY <1>6
  <2> QED BY <1>0, <1>1, <2>1, <2>2, <2>3 DEF Owner
<1>11. Reported'
  <2>1. \A d \in Conns : conn[d].ends = {} => conn'[d].ends = {}
    BY <1>2, <1>5
  <2>2. \A e \in server.todo : e.hup => conn'[clients[e.fd].conn].ends = {}
    BY <1>0, <1>8, <2>1 DEF Reported
  <2> QED BY <1>0, <1>1, <2>2 DEF Reported
<1>12. Step({p, c})
  BY <1>1, <1>5, <1>6, ConnFacts DEF Step, Same
<1>14. Connected(p)' /\ EmptyHanded(p)' /\ Talking(p)' /\ Forked(p)'
  <2>1. Connected(p)' /\ EmptyHanded(p)'
    BY <1>1, <1>3, <1>5, <1>6 DEF Connected, EmptyHanded
  <2>2. Talking(p)'
    BY <1>5, <1>6 DEF Talking, Answered
  <2>3. c # 0
    BY ZeroFacts
  <2>4. Forked(p)'
    BY <1>0, <1>1, <1>5, <1>6, <2>3 DEF Forked, Before, Greeting
  <2> QED BY <2>1, <2>2, <2>4
<1>15. Connected(c)' /\ EmptyHanded(c)' /\ Talking(c)' /\ Forked(c)'
  <2>1. Connected(c)' /\ Talking(c)'
    BY <1>6 DEF Connected, Talking, Opened, Before
  <2>2. EmptyHanded(c)'
    BY <1>3, <1>6 DEF EmptyHanded
  <2>3. Forked(c)'
    <3>1. conn'[c].req = "none"
      BY <1>0, <1>1, <1>4, <1>5, NoConnFacts
    <3> QED BY <1>1, <1>4, <1>6, <3>1 DEF Forked
  <2> QED BY <2>1, <2>2, <2>3
<1>16. ASSUME Sound
       PROVE  Copies' /\ Keeps(p)' /\ Keeps(c)' /\ \A q \in Procs : ToFork(q)'
  <2>1. Keeps(c)' /\ ToFork(c)' /\ ToFork(p)'
    BY <1>6 DEF Keeps, ToFork, Opened, Before
  <2>2. Keeps(p)'
    <3>1. Keeps(p) /\ ~Unregistered(p)
      BY <1>1, <1>16 DEF Sound, Unregistered
    <3>2. AtLeast(clients[conn[p].fd].maps, procs[p].held)
      BY <1>2, <1>3, <3>1 DEF Keeps
    <3> QED BY <1>1, <1>5, <1>6, <3>2 DEF Keeps, AtLeast
  <2>3. /\ procs[p].id \in DOMAIN forking /\ AtLeast(forking[procs[p].id], procs[p].held)
        /\ \A d \in Procs : ~Expects(d, procs[p].id)
    BY <1>1, <1>16 DEF Sound, ToFork
  <2>4. \A f \in Fds : ~Expects(p, f)'
    BY <1>5, <1>6 DEF Expects
  <2>5. \A f \in Fds : Expects(c, f)' => f = procs[p].id
    <3>1. conn'[c].req = "none"
      BY <1>0, <1>1, <1>4, <1>5, NoConnFacts
    <3> QED BY <1>6, <3>1 DEF Expects
  <2>6. ASSUME NEW d \in Procs \ {p, c}, NEW f \in Fds, Expects(d, f)'
        PROVE  Expects(d, f) /\ f # procs[p].id /\ procs'[d] = procs[d]
    <3>1. Expects(d, f)
      BY <1>5, <1>6, <2>6, ConnFacts DEF Expects
    <3> QED BY <1>6, <2>3, <3>1
  <2>7. \A d \in Procs \ {p, c} : Live(d)' => Live(d)
    BY <1>6 DEF Live
  <2>8. \A d \in Procs, f \in Fds : Expects(d, f)' =>
            \/ d = c /\ f = procs[p].id
            \/ d \in Procs \ {p, c} /\ Expects(d, f) /\ f # procs[p].id /\ procs'[d] = procs[d]
    BY <2>4, <2>5, <2>6
  <2>9. Copies'
    <3>1. ASSUME NEW d \in Procs, NEW f \in Fds, Expects(d, f)'
          PROVE  f \in DOMAIN forking' /\ (Live(d)' => AtLeast(forking'[f], procs'[d].held))
      <4>1. CASE d = c /\ f = procs[p].id
        BY <1>1, <1>6, <2>3, <4>1 DEF AtLeast
      <4>2. CASE d \in Procs \ {p, c} /\ Expects(d, f) /\ procs'[d] = procs[d]
        BY <1>1, <1>16, <2>7, <4>2 DEF Sound, Copies, AtLeast
      <4> QED BY <2>8, <3>1, <4>1, <4>2
    <3>2. ASSUME NEW d \in Procs, NEW e \in Procs, NEW f \in Fds, Expects(d, f)', Expects(e, f)'
          PROVE  d = e
      BY <1>16, <2>8, <3>2 DEF Sound, Copies
    <3>3. \A d \in Procs, f \in Fds : Expects(d, f)' =>
              f \in DOMAIN forking' /\ (Live(d)' => AtLeast(forking'[f], procs'[d].held))
      BY <3>1
    <3>4. \A d, e \in Procs, f \in Fds : Expects(d, f)' /\ Expects(e, f)' => d = e
      BY <3>2
    <3> QED BY <3>3, <3>4 DEF Copies, AtLeast
  <2>10. ASSUME NEW q \in Procs \ {p, c} PROVE ToFork(q)'
    <3>1. ToFork(q) /\ procs'[q] = procs[q] /\ conn'[q] = conn[q]
      BY <1>5, <1>6, <1>16, ConnFacts DEF Sound
    <3>2. ASSUME procs[q].pc \in {"fork", "wait_prefork"}
          PROVE  procs[q].id \in Fds /\ procs[q].id # procs[p].id
      <4>1. Connected(q) /\ Opened(q) /\ ~Greeting(q)
        BY <3>2 DEF IInv, Opened, Live, Before, Greeting
      <4>2. procs[q].id = conn[q].fd /\ conn[q].fd # 0 /\ clients[conn[q].fd].conn = q
        BY <4>1 DEF Connected
      <4> QED BY <1>0, <1>3, <4>2, ConnFacts DEF Types, ConnTypes
    <3>3. CASE procs[q].pc \in {"fork", "wait_prefork"}
      <4>1. PICK f \in Fds : f = procs[q].id /\ f # procs[p].id
        BY <3>2, <3>3
      <4>2. \A d \in Procs : Expects(d, f)' => Expects(d, f)
        BY <2>8, <4>1
      <4> QED BY <1>1, <3>1, <4>1, <4>2 DEF ToFork, AtLeast
    <3>4. CASE procs[q].pc \notin {"fork", "wait_prefork"}
      BY <3>1, <3>4 DEF ToFork
    <3> QED BY <3>3, <3>4
  <2> QED BY <2>1, <2>2, <2>9, <2>10
<1>17. \A q \in {p, c} : Connected(q)' /\ EmptyHanded(q)' /\ Talking(q)' /\ Forked(q)'
  BY <1>14, <1>15
<1>18. Sound => Copies' /\ (\A q \in {p, c} : Keeps(q)') /\ \A q \in Procs : ToFork(q)'
  BY <1>16
<1> QED BY <1>7, <1>9, <1>10, <1>11, <1>12, <1>17, <1>18, StepIInv

\* The owner asks the service to exit.
LEMMA StopServiceIInv ==
  ASSUME IInv, NEW p \in Procs, StopService(p)
  PROVE  IInv'
<1>0. /\ Types /\ Table /\ Owner /\ Reported
      /\ Connected(p) /\ EmptyHanded(p) /\ Talking(p) /\ Forked(p)
      /\ p \in Conns /\ p # Exiter /\ Exiter \in Conns /\ p # 0
  BY ConnFacts DEF IInv
<1>1. /\ procs[p].pc = "idle" /\ p = server.owner /\ Running /\ Go(p, "join")
      /\ backlog' = Append(backlog, Exiter)
      /\ UNCHANGED <<server, clients, forking, idOf, pipe, count>>
  BY DEF StopService
<1>2. conn[Exiter] = NoConn /\ \A i \in 1..Len(backlog) : backlog[i] # Exiter
  BY <1>0, <1>1 DEF Owner
<1>3. PICK new : new = [NoConn EXCEPT !.ends = {p}, !.req = "Exit"]
  OBVIOUS
<1>4. new \in ConnTypes /\ new.ends = {p} /\ new.fd = 0 /\ new.req = "Exit"
  BY <1>3 DEF NoConn, ConnTypes, Requests, Responses
<1>5. /\ conn' \in [Conns -> ConnTypes] /\ conn'[Exiter] = new
      /\ \A c \in Conns \ {Exiter} : conn'[c] = conn[c]
  BY <1>0, <1>3, <1>4 DEF StopService, Types
<1>6. \A q \in Procs : conn'[q] = conn[q]
  BY <1>5, ConnFacts
<1>7. "join" \in Pcs
  BY DEF Pcs
<1>8. /\ procs' \in [Procs -> ProcTypes] /\ \A q \in Procs \ {p} : procs'[q] = procs[q]
      /\ procs'[p].pc = "join" /\ procs'[p].stream = procs[p].stream
      /\ procs'[p].id = procs[p].id /\ procs'[p].held = procs[p].held
      /\ procs'[p].child = procs[p].child
  BY <1>0, <1>1, <1>7, GoFacts
<1>9. \A d \in Conns : conn'[d].fd = conn[d].fd
  BY <1>2, <1>4, <1>5, NoConnFacts
<1>10. \A q \in Procs : Before(q)' => Before(q) /\ q # Exiter /\ conn'[q] = NoConn
  <2>1. \A q \in Procs : Before(q)' => Before(q)
    BY <1>8 DEF Before
  <2> QED BY <1>0, <1>6, <2>1, ConnFacts DEF Table
<1>11. backlog' \in Seq(Conns) /\ backlog' # <<>> /\ Table'
  BY <1>0, <1>1, <1>2, <1>9, <1>10, NoConnFacts, Queued
<1>12. Types'
  BY <1>0, <1>1, <1>5, <1>8, <1>11 DEF Types
<1>13. Owner'
  BY <1>0, <1>1, <1>4, <1>5, <1>8 DEF Owner
<1>14. Reported'
  <2>1. \A f \in DOMAIN clients : clients[f].conn \in Conns \ {Exiter}
    BY <1>0, <1>2, NoConnFacts, ZeroFacts DEF Types, ClientTypes, Table
  <2>2. \A e \in server.todo : e.hup => conn'[clients[e.fd].conn].ends = {}
    BY <1>0, <1>5, <2>1 DEF Reported
  <2> QED BY <1>0, <1>1, <1>11, <2>2 DEF Reported
<1>15. Step({p})
  BY <1>1, <1>6, <1>8 DEF Step, Same
<1>17. conn'[p] = conn[p] /\ Opened(p)
  BY <1>1, <1>6 DEF Opened, Live, Before
<1>18. Connected(p)' /\ EmptyHanded(p)' /\ Talking(p)' /\ Forked(p)'
  <2>1. Connected(p)' /\ EmptyHanded(p)'
    BY <1>0, <1>1, <1>8, <1>17 DEF Connected, EmptyHanded, Greeting
  <2>2. Talking(p)'
    BY <1>0, <1>1, <1>8, <1>17 DEF Talking, Answered
  <2>3. Forked(p)'
    BY <1>0, <1>1, <1>8, <1>17 DEF Forked, Before, Greeting
  <2> QED BY <2>1, <2>2, <2>3
<1>19. ASSUME Sound PROVE Copies' /\ Keeps(p)' /\ \A q \in Procs : ToFork(q)'
  <2>1. ToFork(p)'
    BY <1>8 DEF ToFork
  <2>2. Keeps(p)'
    <3>1. Keeps(p) /\ ~Unregistered(p)
      BY <1>1, <1>19 DEF Sound, Unregistered
    <3> QED BY <1>1, <1>8, <1>17, <3>1, ZenonT(60) DEF Keeps, AtLeast
  <2>3. \A c \in Procs, f \in Fds : Expects(c, f)' => Expects(c, f)
    BY <1>6, <1>8 DEF Expects
  <2>4. \A c \in Procs : Live(c)' => Live(c) /\ procs'[c].held = procs[c].held
    BY <1>1, <1>8 DEF Live
  <2>5. Copies' /\ \A q \in Procs : procs'[q] = procs[q] /\ conn'[q].req = conn[q].req => ToFork(q)'
    BY <1>1, <1>19, <2>3, <2>4, StepCopies
  <2>6. \A q \in Procs : ToFork(q)'
    BY <1>6, <1>8, <2>1, <2>5
  <2> QED BY <2>2, <2>5, <2>6
<1> QED BY <1>11, <1>12, <1>13, <1>14, <1>15, <1>18, <1>19, StepIInv

\* A process is gone: so are its ends of all the connections.
Hangs(p) == conn' = [c \in Conns |-> [conn[c] EXCEPT !.ends = @ \ {p}]]

LEMMA LeavesIInv ==
  ASSUME IInv, NEW p \in Procs, Live(p),
         NEW r \in ProcTypes, r.pc = "dead", procs' = [procs EXCEPT ![p] = r],
         Hangs(p),
         UNCHANGED <<clients, forking, idOf, backlog, pipe>>,
         count' \in CountTypes, count'.lost = count.lost,
         server' \in ServerTypes, server'.owner = server.owner,
         \/ server' = server
         \/ server'.todo = {} /\ server'.reads = 0 /\ server'.state = "stopped"
               /\ server.owner = p,
         r.id = 0 => r.held = NoMaps,
         server'.state \in {"none", "running"} => r.held = NoMaps /\ r.id = 0 /\ r.child = 0
  PROVE  IInv'
<1>0. Types /\ Table /\ Owner /\ Reported /\ Forked(p) /\ p \in Conns /\ p # 0
  BY ConnFacts DEF IInv
<1>1. /\ procs' \in [Procs -> ProcTypes] /\ procs'[p] = r
      /\ \A q \in Procs \ {p} : procs'[q] = procs[q]
  BY <1>0 DEF Types
<1>2. ASSUME NEW c \in Conns
      PROVE  /\ conn'[c].req = conn[c].req /\ conn'[c].arg = conn[c].arg
             /\ conn'[c].resp = conn[c].resp /\ conn'[c].val = conn[c].val
             /\ conn'[c].fd = conn[c].fd /\ conn'[c].ends = conn[c].ends \ {p}
             /\ conn'[c] \in ConnTypes
             /\ conn[c].ends = {} => conn'[c] = conn[c]
  <2>1. PICK ends \in SUBSET Procs : ends = conn[c].ends \ {p}
    BY <1>0 DEF Types, ConnTypes
  <2>2. conn'[c] = [conn[c] EXCEPT !.ends = ends] /\ conn[c] \in ConnTypes
    BY <1>0, <2>1 DEF Types, Hangs
  <2>3. conn'[c] \in ConnTypes
    BY <2>2 DEF ConnTypes
  <2>4. /\ conn'[c].req = conn[c].req /\ conn'[c].arg = conn[c].arg
        /\ conn'[c].resp = conn[c].resp /\ conn'[c].val = conn[c].val
        /\ conn'[c].fd = conn[c].fd /\ conn'[c].ends = ends
        /\ ends = conn[c].ends => conn'[c] = conn[c]
    BY <2>2 DEF ConnTypes
  <2> QED BY <2>1, <2>3, <2>4
<1>3. conn' \in [Conns -> ConnTypes]
  BY <1>2 DEF Hangs
<1>4. Types'
  BY <1>0, <1>1, <1>3 DEF Types
<1>5. \A f \in DOMAIN clients : clients[f].conn \in Conns
  BY <1>0 DEF Types, ClientTypes
<1>6. Table'
  <2>1. \A q \in Procs : Before(q)' => Before(q)
    BY <1>1 DEF Before
  <2>2. \A q \in Procs : Before(q) => conn'[q] = conn[q]
    BY <1>0, <1>2, ConnFacts, NoConnFacts DEF Table
  <2>3. \A i \in 1..Len(backlog) : backlog[i] \in Conns
    BY <1>0 DEF Types
  <2>4. \A f \in DOMAIN clients' : conn'[clients'[f].conn].fd = f
    BY <1>0, <1>2, <1>5 DEF Table
  <2>5. \A i \in 1..Len(backlog') : conn'[backlog'[i]].fd = 0
    BY <1>0, <1>2, <2>3 DEF Table
  <2>6. \A q \in Procs : Before(q)' =>
            conn'[q] = NoConn /\ \A i \in 1..Len(backlog') : backlog'[i] # q
    BY <1>0, <2>1, <2>2 DEF Table
  <2>7. \A i, j \in 1..Len(backlog') : backlog'[i] = backlog'[j] => i = j
    BY <1>0 DEF Table
  <2> QED BY <2>4, <2>5, <2>6, <2>7 DEF Table
<1>7. Owner'
  <2>1. server.owner \in Procs \cup {0} /\ Exiter \in Conns
    BY <1>0, ConnFacts DEF Types, ServerTypes
  <2>2. conn[Exiter] = NoConn => conn'[Exiter] = NoConn
    BY <1>2, <2>1, NoConnFacts
  <2>3. conn'[Exiter].req = conn[Exiter].req
    BY <1>2, <2>1
  <2>4. \A q \in Procs : procs'[q].pc = "join" => procs[q].pc = "join"
    BY <1>1
  <2>5. \A q \in Procs : procs'[q].pc \notin {"join", "dead"} => procs'[q] = procs[q]
    BY <1>1
  <2> QED BY <1>0, <2>1, <2>2, <2>3, <2>4, <2>5 DEF Owner
<1>8. Reported'
  <2>1. CASE server' = server
    <3>1. \A e \in server.todo : e.hup => conn'[clients[e.fd].conn].ends = {}
      <4>1. \A e \in server.todo : e.hup =>
                clients[e.fd].conn \in Conns /\ conn[clients[e.fd].conn].ends = {}
        BY <1>0, <1>5 DEF Reported
      <4> QED BY <1>2, <4>1
    <3> QED BY <1>0, <2>1, <3>1 DEF Reported
  <2>2. CASE server'.todo = {} /\ server'.reads = 0
    BY <2>2 DEF Reported
  <2> QED BY <2>1, <2>2
<1>9. Step({p})
  <2>1. \A q \in Procs \ {p} : Same(q)
    BY <1>1, <1>2, ConnFacts DEF Same
  <2>2. /\ server'.state \in {"none", "running"} => server.state \in {"none", "running"}
        /\ server'.state = "no copy" => server.state = "no copy"
    OBVIOUS
  <2> QED BY <2>1, <2>2 DEF Step
<1>11. Connected(p)' /\ EmptyHanded(p)' /\ Talking(p)' /\ Forked(p)'
  <2>1. Connected(p)' /\ Talking(p)'
    BY <1>1 DEF Connected, Talking, Opened, Live
  <2>2. EmptyHanded(p)'
    BY <1>1 DEF EmptyHanded
  <2>3. Forked(p)'
    BY <1>0, <1>1, <1>2 DEF Forked, Before, Greeting
  <2> QED BY <2>1, <2>2, <2>3
<1>12. ASSUME Sound PROVE Copies' /\ Keeps(p)' /\ \A q \in Procs : ToFork(q)'
  <2>1. Keeps(p)' /\ ToFork(p)' /\ ~Live(p)'
    BY <1>1 DEF Keeps, ToFork, Opened, Live
  <2>2. \A c \in Procs, f \in Fds : Expects(c, f)' => Expects(c, f)
    BY <1>1, <1>2, ConnFacts DEF Expects
  <2>3. \A c \in Procs : Live(c)' => Live(c) /\ procs'[c].held = procs[c].held
    BY <1>1, <2>1 DEF Live
  <2>4. Copies' /\ \A q \in Procs : procs'[q] = procs[q] /\ conn'[q].req = conn[q].req => ToFork(q)'
    BY <1>12, <2>2, <2>3, StepCopies
  <2>5. \A q \in Procs : ToFork(q)'
    BY <1>1, <1>2, <2>1, <2>4, ConnFacts
  <2> QED BY <2>1, <2>4, <2>5
<1> QED BY <1>4, <1>6, <1>7, <1>8, <1>9, <1>11, <1>12, StepIInv

\* The owner ends when its service has.
LEMMA JoinedIInv ==
  ASSUME IInv, NEW p \in Procs, Joined(p)
  PROVE  IInv'
<1>0. Types /\ Owner /\ EmptyHanded(p) /\ p # 0
  BY ZeroFacts DEF IInv
<1>1. /\ procs[p].pc = "join" /\ ~Running /\ Go(p, "dead")
      /\ Hangs(p)
      /\ UNCHANGED <<server, clients, forking, idOf, backlog, pipe, count>>
  BY DEF Joined, Hangs
<1>2. server.state \notin {"none", "running"}
  BY <1>0, <1>1 DEF Owner, Running
<1>3. PICK r \in ProcTypes : /\ r = [procs[p] EXCEPT !.pc = "dead"] /\ r.pc = "dead"
                             /\ r.id = procs[p].id /\ r.held = procs[p].held
  <2>1. PICK pc \in Pcs : pc = "dead"
    BY DEF Pcs
  <2>2. procs[p] \in ProcTypes
    BY <1>0 DEF Types
  <2>3. [procs[p] EXCEPT !.pc = pc] \in ProcTypes
    BY <2>2 DEF ProcTypes
  <2>4. PICK r \in ProcTypes : r = [procs[p] EXCEPT !.pc = pc]
    BY <2>3
  <2>5. r.pc = pc /\ r.id = procs[p].id /\ r.held = procs[p].held
    BY <2>2, <2>4 DEF ProcTypes
  <2> QED BY <2>1, <2>4, <2>5
<1>4. procs' = [procs EXCEPT ![p] = r]
  BY <1>1, <1>3 DEF Go
<1>5. r.id = 0 => r.held = NoMaps
  BY <1>0, <1>3 DEF EmptyHanded
<1>6. /\ Live(p) /\ server' \in ServerTypes
      /\ count' \in CountTypes /\ count'.lost = count.lost
  BY <1>0, <1>1 DEF Live, Types
<1> QED BY <1>1, <1>2, <1>3, <1>4, <1>5, <1>6, LeavesIInv

\* A process is killed.
LEMMA KillIInv ==
  ASSUME IInv, NEW p \in Procs, Kill(p)
  PROVE  IInv'
<1>0. Types
  BY DEF IInv
<1>1. /\ Live(p) /\ count' = [count EXCEPT !.kills = @ + 1]
      /\ procs' = [procs EXCEPT ![p] = [NoProc EXCEPT !.pc = "dead"]]
      /\ Hangs(p)
      /\ UNCHANGED <<clients, forking, idOf, backlog, pipe>>
  BY DEF Kill, Hangs
<1>2. count' \in CountTypes /\ count'.lost = count.lost
  BY <1>0, <1>1 DEF Types, CountTypes
<1>3. PICK r \in ProcTypes : /\ r = [NoProc EXCEPT !.pc = "dead"] /\ r.pc = "dead"
                             /\ r.id = 0 /\ r.held = NoMaps /\ r.child = 0
  <2>1. PICK r : r = [NoProc EXCEPT !.pc = "dead"]
    OBVIOUS
  <2>2. r = [pc |-> "dead", stream |-> 0, id |-> 0, held |-> NoMaps, child |-> 0]
    BY <2>1 DEF NoProc
  <2>3. r \in ProcTypes
    <3>1. "dead" \in Pcs
      BY DEF Pcs
    <3> QED BY <2>2, <3>1, NoMapsFacts DEF ProcTypes
  <2>4. r.pc = "dead" /\ r.id = 0 /\ r.held = NoMaps /\ r.child = 0
    BY <2>2
  <2> QED BY <2>1, <2>3, <2>4, Zenon
<1>4. CASE p = server.owner
  <2>1. PICK s \in {"none", "running", "stopped", "no copy", "no map"},
             t \in SUBSET [fd : Fds \cup {Listener}, hup : BOOLEAN], n \in Fds \cup {0} :
            s = "stopped" /\ t = {} /\ n = 0
    OBVIOUS
  <2>2. server' = [server EXCEPT !.state = s, !.todo = t, !.reads = n] /\ server \in ServerTypes
    BY <1>0, <1>4, <2>1 DEF Kill, Types
  <2>3. server' \in ServerTypes
    BY <2>2 DEF ServerTypes
  <2>4. server'.owner = server.owner /\ server'.state = s /\ server'.todo = t /\ server'.reads = n
    BY <2>2 DEF ServerTypes
  <2> QED BY <1>1, <1>2, <1>3, <1>4, <2>1, <2>3, <2>4, LeavesIInv
<1>5. CASE p # server.owner
  <2>1. server' = server /\ server' \in ServerTypes
    BY <1>0, <1>5 DEF Kill, Types
  <2> QED BY <1>1, <1>2, <1>3, <2>1, LeavesIInv
<1> QED BY <1>4, <1>5

-----------------------------------------------------------------------------
(* Steps of the server that answer no request.                             *)

LEMMA ServerFacts ==
  ASSUME IInv, Running
  PROVE  server.owner \in Procs /\ server.owner # 0 /\ server.state # "none"
<1>1. server.owner \in Procs \cup {0}
  BY DEF IInv, Types, ServerTypes
<1> QED BY <1>1, ZeroFacts DEF IInv, Owner, Running

\* Nothing but the server's own state changes.
LEMMA ServerOnlyIInv ==
  ASSUME IInv, Running,
         UNCHANGED <<clients, forking, idOf, conn, backlog, procs, pipe, count>>,
         server' \in ServerTypes, server'.owner = server.owner, server'.state # "none",
         server'.state = "no copy" => count.lost # 0,
         Reported'
  PROVE  IInv'
<1>0. Types /\ Table /\ Owner /\ server.state = "running"
  BY DEF IInv, Running
<1>1. Types'
  BY <1>0 DEF Types
<1>2. Table'
  BY <1>0 DEF Table, Before
<1>3. Owner'
  BY <1>0, ServerFacts DEF Owner
<1>4. Step({})
  BY <1>0 DEF Step, Same
<1>6. ASSUME Sound PROVE Copies' /\ \A q \in Procs : ToFork(q)'
  <2>1. \A c \in Procs, f \in Fds : Expects(c, f)' => Expects(c, f)
    BY DEF Expects
  <2>2. \A c \in Procs : Live(c)' => Live(c)
    BY DEF Live
  <2> QED BY <1>6, <2>1, <2>2, StepCopies
<1> QED BY <1>1, <1>2, <1>3, <1>4, <1>6, StepIInv

LEMMA PollIInv ==
  ASSUME IInv, Poll
  PROVE  IInv'
<1>0. Types /\ Running /\ server.reads = 0 /\ server \in ServerTypes
  BY DEF IInv, Types, Poll
<1>1. UNCHANGED <<clients, forking, idOf, conn, backlog, procs, pipe, count>>
  BY DEF Poll
<1>2. PICK ready : ready = Ready
  OBVIOUS
<1>3. \A e \in ready :
          \/ e = [fd |-> Listener, hup |-> FALSE] /\ backlog # <<>>
          \/ \E f \in DOMAIN clients : e = [fd |-> f, hup |-> conn[clients[f].conn].ends = {}]
  BY <1>2 DEF Ready
<1>4. \A f \in DOMAIN clients : f \in Fds /\ f # Listener
  BY <1>0, ZeroFacts DEF Types, Listener
<1>5. ready \subseteq [fd : Fds \cup {Listener}, hup : BOOLEAN]
  <2>1. \A f \in Fds \cup {Listener}, b \in BOOLEAN :
            [fd |-> f, hup |-> b] \in [fd : Fds \cup {Listener}, hup : BOOLEAN]
    OBVIOUS
  <2>2. ASSUME NEW e \in ready PROVE e \in [fd : Fds \cup {Listener}, hup : BOOLEAN]
    <3>1. CASE e = [fd |-> Listener, hup |-> FALSE]
      BY <2>1, <3>1
    <3>2. ASSUME NEW f \in DOMAIN clients,
                 e = [fd |-> f, hup |-> conn[clients[f].conn].ends = {}]
          PROVE  e \in [fd : Fds \cup {Listener}, hup : BOOLEAN]
      <4>1. PICK b \in BOOLEAN : b = (conn[clients[f].conn].ends = {})
        OBVIOUS
      <4> QED BY <1>4, <2>1, <3>2, <4>1
    <3> QED BY <1>3, <2>2, <3>1, <3>2
  <2> QED BY <2>2
<1>6. server' = [server EXCEPT !.todo = ready]
  BY <1>2 DEF Poll
<1>7. /\ server' \in ServerTypes /\ server'.owner = server.owner /\ server'.state = server.state
      /\ server'.todo = ready /\ server'.reads = server.reads
  <2>1. PICK t \in SUBSET [fd : Fds \cup {Listener}, hup : BOOLEAN] : t = ready
    BY <1>5
  <2>2. server' = [server EXCEPT !.todo = t]
    BY <1>6, <2>1
  <2> QED BY <1>0, <2>1, <2>2 DEF ServerTypes
<1>8. Reported'
  <2>1. \A e \in ready : \/ e.fd = Listener /\ e.hup = FALSE /\ backlog # <<>>
                         \/ /\ e.fd \in DOMAIN clients /\ e.fd # Listener
                            /\ e.hup = (conn[clients[e.fd].conn].ends = {})
    BY <1>3, <1>4
  <2>2. \A e, o \in ready : e.fd = o.fd => e = o
    <3>1. ASSUME NEW e \in ready, NEW o \in ready, e.fd = o.fd PROVE e = o
      <4>1. e = [fd |-> e.fd, hup |-> e.hup] /\ o = [fd |-> o.fd, hup |-> o.hup]
        BY <1>5
      <4>2. e.hup = o.hup
        BY <2>1, <3>1
      <4> QED BY <3>1, <4>1, <4>2, Zenon
    <3> QED BY <3>1
  <2>3. [fd |-> Listener, hup |-> FALSE] \in ready => backlog # <<>>
    <3>1. ASSUME NEW e \in ready, e = [fd |-> Listener, hup |-> FALSE]
          PROVE  backlog # <<>>
      BY <2>1, <3>1
    <3> QED BY <3>1
  <2> QED BY <1>0, <1>1, <1>7, <2>1, <2>2, <2>3 DEF Reported
<1>9. server'.state = "running"
  BY <1>0, <1>7 DEF Running
<1> QED BY <1>0, <1>1, <1>7, <1>8, <1>9, ServerOnlyIInv

\* The server is done with what it read from a new connection.
LEMMA EndOfStreamIInv ==
  ASSUME IInv, EndOfStream
  PROVE  IInv'
<1>0. Types /\ Reported /\ Running /\ server \in ServerTypes
  BY DEF IInv, Types, EndOfStream
<1>1. UNCHANGED <<clients, forking, idOf, conn, backlog, procs, pipe, count>>
  BY DEF EndOfStream
<1>2. PICK n \in Fds \cup {0} : n = 0
  OBVIOUS
<1>3. server' = [server EXCEPT !.reads = n]
  BY <1>2 DEF EndOfStream
<1>4. /\ server' \in ServerTypes /\ server'.owner = server.owner /\ server'.state = server.state
      /\ server'.todo = server.todo /\ server'.reads = 0
  BY <1>0, <1>2, <1>3 DEF ServerTypes
<1>5. Reported'
  BY <1>0, <1>1, <1>4 DEF Reported
<1>6. server'.state = "running"
  BY <1>0, <1>4 DEF Running
<1> QED BY <1>0, <1>1, <1>4, <1>5, <1>6, ServerOnlyIInv

\* The server ends: at a request to exit, or in a panic.
LEMMA EndsIInv ==
  ASSUME IInv, Running,
         UNCHANGED <<clients, forking, idOf, conn, backlog, procs, pipe, count>>,
         NEW s \in {"stopped", "no copy", "no map"}, s = "no copy" => count.lost # 0,
         server' = [server EXCEPT !.state = s, !.todo = {}, !.reads = 0]
  PROVE  IInv'
<1>0. server \in ServerTypes
  BY DEF IInv, Types
<1>1. PICK t \in SUBSET [fd : Fds \cup {Listener}, hup : BOOLEAN], n \in Fds \cup {0},
           u \in {"none", "running", "stopped", "no copy", "no map"} :
          t = {} /\ n = 0 /\ u = s
  OBVIOUS
<1>2. server' = [server EXCEPT !.state = u, !.todo = t, !.reads = n]
  BY <1>1
<1>3. server' \in ServerTypes
  BY <1>0, <1>2 DEF ServerTypes
<1>4. server'.owner = server.owner /\ server'.state = u /\ server'.todo = t /\ server'.reads = n
  BY <1>0, <1>2 DEF ServerTypes
<1>5. Reported'
  BY <1>1, <1>4 DEF Reported
<1> QED BY <1>1, <1>3, <1>4, <1>5, ServerOnlyIInv

\* A connection whose client is gone is forgotten.
LEMMA HupIInv ==
  ASSUME IInv, NEW e \in server.todo, Hup(e)
  PROVE  IInv'
<1>0. Types /\ Table /\ Owner /\ Reported
  BY DEF IInv
<1>1. /\ Running /\ server.reads = 0 /\ e.hup
      /\ clients' = Without(clients, e.fd)
      /\ conn' = [conn EXCEPT ![clients[e.fd].conn] = NoConn]
      /\ server' = [server EXCEPT !.todo = @ \ {e}]
      /\ UNCHANGED <<forking, idOf, backlog, procs, pipe, count>>
  BY DEF Hup, Turn
<1>2. e.fd # Listener /\ e.fd \in DOMAIN clients /\ conn[clients[e.fd].conn].ends = {}
  BY <1>0, <1>1 DEF Reported
<1>3. PICK f \in DOMAIN clients, c \in Conns : f = e.fd /\ c = clients[f].conn
  BY <1>0, <1>2 DEF Types, ClientTypes
<1>4. f \in Fds /\ f # 0 /\ conn[c].fd = f /\ conn[c].ends = {}
  BY <1>0, <1>2, <1>3, ZeroFacts DEF Types, Table
<1>5. /\ conn' \in [Conns -> ConnTypes] /\ conn'[c] = NoConn
      /\ \A d \in Conns \ {c} : conn'[d] = conn[d]
  BY <1>0, <1>1, <1>3, NoConnFacts DEF Types
<1>6. /\ DOMAIN clients' = DOMAIN clients \ {f}
      /\ \A g \in DOMAIN clients' : clients'[g] = clients[g]
      /\ clients' \in [DOMAIN clients' -> ClientTypes]
  BY <1>0, <1>1, <1>3 DEF Without, Types
<1>7. /\ server' \in ServerTypes /\ server'.state = server.state /\ server'.owner = server.owner
      /\ server'.reads = 0 /\ server'.todo = server.todo \ {e}
  <2>1. server \in ServerTypes
    BY <1>0 DEF Types
  <2>2. PICK t \in SUBSET [fd : Fds \cup {Listener}, hup : BOOLEAN] : t = server.todo \ {e}
    BY <2>1 DEF ServerTypes
  <2>3. server' = [server EXCEPT !.todo = t]
    BY <1>1, <2>2
  <2> QED BY <1>1, <2>1, <2>2, <2>3 DEF ServerTypes
<1>8. Types'
  BY <1>0, <1>1, <1>5, <1>6, <1>7 DEF Types
<1>9. \A g \in DOMAIN clients' : clients[g].conn \in Conns \ {c}
  <2>1. \A g \in DOMAIN clients : clients[g].conn \in Conns /\ conn[clients[g].conn].fd = g
    BY <1>0 DEF Types, ClientTypes, Table
  <2> QED BY <1>3, <1>4, <1>6, <2>1
<1>10. Table'
  <2>1. \A g \in DOMAIN clients' : conn'[clients'[g].conn].fd = g
    BY <1>0, <1>5, <1>6, <1>9 DEF Table
  <2>2. \A i \in 1..Len(backlog) : backlog[i] \in Conns \ {c}
    BY <1>0, <1>4 DEF Types, Table
  <2>3. \A i \in 1..Len(backlog') : conn'[backlog'[i]].fd = 0
    BY <1>0, <1>1, <1>5, <2>2 DEF Table
  <2>4. \A q \in Procs : Before(q)' => Before(q)
    BY <1>1 DEF Before
  <2>5. \A q \in Procs : Before(q)' =>
            conn'[q] = NoConn /\ \A i \in 1..Len(backlog') : backlog'[i] # q
    BY <1>0, <1>1, <1>5, <2>4, ConnFacts DEF Table
  <2> QED BY <1>0, <1>1, <2>1, <2>3, <2>5 DEF Table
<1>11. Owner'
  <2>1. conn'[Exiter] = conn[Exiter] \/ conn'[Exiter] = NoConn
    BY <1>5, ConnFacts
  <2>2. server'.state # "none" /\ server'.owner # 0
    BY <1>1, <1>7, ServerFacts
  <2> QED BY <1>0, <1>1, <1>7, <2>1, <2>2, NoConnFacts DEF Owner
<1>12. Reported'
  <2>1. \A o \in server'.todo : o \in server.todo /\ o.fd # f
    BY <1>0, <1>3, <1>7 DEF Reported
  <2>2. ASSUME NEW o \in server'.todo
        PROVE  /\ o.fd # Listener => o.fd \in DOMAIN clients'
               /\ o.fd = Listener => ~o.hup
               /\ o.hup => conn'[clients'[o.fd].conn].ends = {}
    <3>1. /\ o.fd # Listener => o.fd \in DOMAIN clients'
          /\ o.fd = Listener => ~o.hup
          /\ o.hup => conn[clients[o.fd].conn].ends = {}
      BY <1>0, <1>6, <2>1, <2>2 DEF Reported
    <3>2. o.hup => o.fd \in DOMAIN clients'
      BY <3>1
    <3> QED BY <1>5, <1>6, <1>9, <3>1, <3>2
  <2>3. \A o, u \in server'.todo : o.fd = u.fd => o = u
    BY <1>0, <2>1 DEF Reported
  <2>4. [fd |-> Listener, hup |-> FALSE] \in server'.todo => backlog' # <<>>
    BY <1>0, <1>1, <2>1 DEF Reported
  <2> QED BY <1>7, <2>2, <2>3, <2>4 DEF Reported
\* The process that opened it is dead.
<1>13. ASSUME NEW q \in Procs, Opened(q)
       PROVE  q # c /\ conn'[q] = conn[q] /\ conn[q].fd # f
  <2>1. Connected(q) /\ q \in Conns
    BY ConnFacts DEF IInv
  <2>2. q # c
    BY <1>4, <1>13, <2>1 DEF Connected
  <2>3. conn[q].fd # f
    BY <1>3, <1>4, <1>13, <2>1, <2>2 DEF Connected
  <2> QED BY <1>5, <2>1, <2>2, <2>3
<1>14. ASSUME NEW q \in Procs
       PROVE  Connected(q)' /\ EmptyHanded(q)' /\ Talking(q)' /\ Forked(q)'
  <2>0. Connected(q) /\ EmptyHanded(q) /\ Talking(q) /\ Forked(q) /\ procs'[q] = procs[q]
        /\ pipe' = pipe /\ procs' = procs
    BY <1>1 DEF IInv
  <2>1. Opened(q)' <=> Opened(q)
    BY <2>0 DEF Opened, Live, Before
  <2>2. Connected(q)'
    BY <1>6, <1>13, <2>0, <2>1 DEF Connected, Greeting
  <2>3. EmptyHanded(q)'
    BY <1>7, <2>0 DEF EmptyHanded
  <2>4. Talking(q)'
    <3>1. CASE Opened(q)
      BY <1>13, <2>0, <2>1, <3>1 DEF Talking, Asking, Answered
    <3>2. CASE ~Opened(q)
      BY <2>0, <2>1, <3>2 DEF Talking, Opened, Live, Before
    <3> QED BY <3>1, <3>2
  <2>5. conn'[q] = conn[q] \/ conn'[q].req = "none"
    BY <1>5, ConnFacts, NoConnFacts
  <2>6. Forked(q)'
    BY <2>0, <2>5 DEF Forked, Before, Greeting
  <2> QED BY <2>2, <2>3, <2>4, <2>6
<1>15. Made' /\ UsedAreNewest'
  <2>1. \A m \in Maps : InUse(m)' => InUse(m)
    BY <1>1, <1>6 DEF InUse, Kept
  <2> QED BY <1>1, <2>1 DEF IInv, Made, MadeMaps, UsedAreNewest, Newest
<1>17. ASSUME Sound PROVE Sound'
  <2>1. \A d \in Procs, g \in Fds : Expects(d, g)' => Expects(d, g)
    <3>1. \A d \in Procs : conn'[d].req = "PostForkChildHello" => conn'[d] = conn[d]
      BY <1>5, ConnFacts, NoConnFacts
    <3> QED BY <1>1, <3>1 DEF Expects
  <2>2. \A d \in Procs : Live(d)' => Live(d) /\ procs'[d].held = procs[d].held
    BY <1>1 DEF Live
  <2>3. Copies' /\ \A q \in Procs : procs'[q] = procs[q] /\ conn'[q].req = conn[q].req => ToFork(q)'
    BY <1>1, <1>17, <2>1, <2>2, StepCopies
  <2>4. ASSUME NEW q \in Procs PROVE ToFork(q)' /\ Keeps(q)'
    <3>0. procs'[q] = procs[q] /\ Keeps(q) /\ (Opened(q)' <=> Opened(q)) /\ procs' = procs
      BY <1>1, <1>17 DEF Sound, Opened, Live, Before
    <3>1. CASE Opened(q)
      <4>1. conn'[q] = conn[q] /\ conn[q].fd # f
        BY <1>13, <3>1
      <4>2. conn[q].fd # 0 => conn[q].fd \in DOMAIN clients'
        BY <1>6, <3>1, <4>1 DEF IInv, Connected
      <4>3. Keeps(q)'
        BY <1>1, <1>6, <3>0, <3>1, <4>1, <4>2, ZenonT(60) DEF Keeps, AtLeast, Unregistered
      <4> QED BY <2>3, <3>0, <4>1, <4>3
    <3>2. CASE ~Opened(q)
      BY <3>0, <3>2 DEF ToFork, Keeps, Opened, Live, Before
    <3> QED BY <3>1, <3>2
  <2> QED BY <1>7, <1>17, <2>3, <2>4 DEF Sound
<1> QED BY <1>1, <1>8, <1>10, <1>11, <1>12, <1>14, <1>15, <1>17 DEF IInv

\* A number is left for a connection that waits: the others have one each at most.
LEMMA NumberLeft ==
  ASSUME IInv, backlog # <<>>
  PROVE  Fds \ DOMAIN clients # {}
<1>0. Types /\ Table
  BY DEF IInv
<1>1. Head(backlog) \in Conns /\ conn[Head(backlog)].fd = 0
  <2>1. Len(backlog) \in Nat \ {0} /\ Head(backlog) = backlog[1]
    BY <1>0 DEF Types
  <2> QED BY <1>0, <2>1 DEF Types, Table
<1>2. PICK c \in Conns : c = Head(backlog) /\ conn[c].fd = 0
  BY <1>1
<1>3. IsFiniteSet(Conns \ {c}) /\ Cardinality(Conns \ {c}) < Cardinality(Fds)
  <2>1. IsFiniteSet(Procs) /\ Cardinality(Procs) < Cardinality(Fds) /\ Exiter \notin Procs
    BY ShMemServerAssumption, ConnFacts
  <2>2. IsFiniteSet(Conns) /\ Cardinality(Conns) = Cardinality(Procs) + 1
    BY <2>1, FS_AddElement DEF Conns
  <2>3. IsFiniteSet(Conns \ {c}) /\ Cardinality(Conns \ {c}) = Cardinality(Conns) - 1
    BY <2>2, FS_RemoveElement
  <2>4. Cardinality(Procs) \in Nat
    BY <2>1, FS_CardinalityType
  <2> QED BY <2>1, <2>2, <2>3, <2>4
<1>4. SUFFICES ASSUME Fds \subseteq DOMAIN clients PROVE FALSE
  OBVIOUS
<1>5. \A f \in Fds : clients[f].conn \in Conns \ {c} /\ conn[clients[f].conn].fd = f
  BY <1>0, <1>2, <1>4, ZeroFacts DEF Types, ClientTypes, Table
<1> DEFINE of == [f \in Fds |-> clients[f].conn]
<1>6. of \in [Fds -> Conns \ {c}]
  BY <1>5
<1>7. IsFiniteSet(Fds)
  BY ShMemServerAssumption
<1> HIDE DEF of
<1>8. PICK x \in Fds, y \in Fds : x # y /\ of[x] = of[y]
  BY <1>3, <1>6, <1>7, FS_PigeonHole
<1> QED BY <1>5, <1>8 DEF of

\* A connection is accepted, under a number that nobody has.
LEMMA AcceptIInv ==
  ASSUME IInv, NEW e \in server.todo, Accept(e)
  PROVE  IInv'
<1>0. Types /\ Table /\ Owner /\ Reported
  BY DEF IInv
<1>1. Running /\ server.reads = 0 /\ e.fd = Listener
      /\ UNCHANGED <<forking, idOf, procs, pipe, count>> /\ backlog' = Tail(backlog)
  BY DEF Accept, Turn
<1>2. backlog # <<>>
  <2>1. e = [fd |-> Listener, hup |-> FALSE]
    <3>1. e \in [fd : Fds \cup {Listener}, hup : BOOLEAN] /\ ~e.hup
      BY <1>0, <1>1 DEF Types, ServerTypes, Reported
    <3> QED BY <1>1, <3>1
  <2> QED BY <1>0, <2>1 DEF Reported
<1>3. PICK f \in Fds \ DOMAIN clients : f = Min(Fds \ DOMAIN clients)
  <2>1. Fds \ DOMAIN clients \subseteq Nat /\ Fds \ DOMAIN clients # {}
    BY <1>2, NatFacts, NumberLeft
  <2> QED BY <2>1, SmallestIn
<1>4. /\ Len(backlog) \in Nat \ {0} /\ Head(backlog) = backlog[1] /\ backlog[1] \in Conns
      /\ backlog' \in Seq(Conns) /\ Len(backlog') = Len(backlog) - 1
      /\ \A i \in 1..Len(backlog') : backlog'[i] = backlog[i + 1] /\ i + 1 \in 1..Len(backlog)
  <2>1. backlog \in Seq(Conns) /\ Len(backlog) \in Nat \ {0}
    BY <1>0, <1>2 DEF Types
  <2> QED BY <1>1, <2>1
<1>5. PICK c \in Conns : c = Head(backlog) /\ c = backlog[1] /\ conn[c].fd = 0
  BY <1>0, <1>4 DEF Table
<1>6. f # 0
  BY ZeroFacts
<1>7. /\ conn' \in [Conns -> ConnTypes] /\ \A d \in Conns \ {c} : conn'[d] = conn[d]
      /\ conn'[c].fd = f /\ conn'[c].ends = conn[c].ends /\ conn'[c].req = conn[c].req
      /\ conn'[c].arg = conn[c].arg /\ conn'[c].resp = conn[c].resp /\ conn'[c].val = conn[c].val
  <2>1. conn' = [conn EXCEPT ![c].fd = f]
    BY <1>3, <1>5 DEF Accept
  <2>2. PICK n \in Fds \cup {0} : n = f
    OBVIOUS
  <2>3. /\ conn'[c] = [conn[c] EXCEPT !.fd = n] /\ conn[c] \in ConnTypes
        /\ \A d \in Conns \ {c} : conn'[d] = conn[d]
    BY <1>0, <2>1, <2>2 DEF Types
  <2>4. conn'[c] \in ConnTypes
    BY <2>3 DEF ConnTypes
  <2>5. /\ conn'[c].fd = n /\ conn'[c].ends = conn[c].ends /\ conn'[c].req = conn[c].req
        /\ conn'[c].arg = conn[c].arg /\ conn'[c].resp = conn[c].resp
        /\ conn'[c].val = conn[c].val
    BY <2>3 DEF ConnTypes
  <2> QED BY <1>0, <2>1, <2>2, <2>3, <2>4, <2>5 DEF Types
<1>8. PICK v \in ClientTypes : v = [conn |-> c, maps |-> NoMaps] /\ v.conn = c /\ v.maps = NoMaps
  <2>1. PICK v : v = [conn |-> c, maps |-> NoMaps]
    OBVIOUS
  <2>2. v \in ClientTypes
    BY <2>1, NoMapsFacts DEF ClientTypes
  <2>3. v.conn = c /\ v.maps = NoMaps
    BY <2>1
  <2> QED BY <2>1, <2>2, <2>3, Zenon
<1>9. /\ DOMAIN clients' = DOMAIN clients \cup {f}
      /\ clients'[f].conn = c /\ clients'[f].maps = NoMaps
      /\ \A g \in DOMAIN clients : clients'[g] = clients[g]
      /\ clients' \in [DOMAIN clients' -> ClientTypes]
  <2>1. clients' = [x \in DOMAIN clients \cup {f} |-> IF x = f THEN v ELSE clients[x]]
    BY <1>3, <1>5, <1>8 DEF Accept, With
  <2>2. clients \in [DOMAIN clients -> ClientTypes]
    BY <1>0 DEF Types
  <2>3. DOMAIN clients' = DOMAIN clients \cup {f} /\ clients'[f] = v
        /\ \A g \in DOMAIN clients : clients'[g] = clients[g]
    BY <1>3, <2>1
  <2>4. clients' \in [DOMAIN clients' -> ClientTypes]
    BY <2>1, <2>2
  <2> QED BY <1>8, <2>3, <2>4
<1>10. /\ server' \in ServerTypes /\ server'.state = server.state /\ server'.owner = server.owner
       /\ server'.reads = f /\ server'.todo = server.todo \ {e}
  <2>1. server \in ServerTypes
    BY <1>0 DEF Types
  <2>2. PICK t \in SUBSET [fd : Fds \cup {Listener}, hup : BOOLEAN], n \in Fds \cup {0} :
            t = server.todo \ {e} /\ n = f
    BY <2>1 DEF ServerTypes
  <2>3. server' = [server EXCEPT !.todo = t, !.reads = n]
    BY <1>3, <2>2 DEF Accept
  <2>4. server' \in ServerTypes
    BY <2>1, <2>3 DEF ServerTypes
  <2>5. /\ server'.state = server.state /\ server'.owner = server.owner
        /\ server'.reads = n /\ server'.todo = t
    BY <2>1, <2>3 DEF ServerTypes
  <2> QED BY <2>2, <2>4, <2>5
<1>11. Types'
  BY <1>0, <1>1, <1>4, <1>7, <1>9, <1>10 DEF Types
<1>12. \A g \in DOMAIN clients : clients[g].conn \in Conns \ {c}
  BY <1>0, <1>5, ZeroFacts DEF Types, ClientTypes, Table
<1>13. Table'
  <2>1. \A g \in DOMAIN clients' : conn'[clients'[g].conn].fd = g
    BY <1>0, <1>7, <1>9, <1>12 DEF Table
  <2>2. \A i \in 1..Len(backlog') : backlog'[i] \in Conns \ {c} /\ conn[backlog'[i]].fd = 0
    <3>1. ASSUME NEW i \in 1..Len(backlog')
          PROVE  backlog'[i] \in Conns \ {c} /\ conn[backlog'[i]].fd = 0
      <4>1. backlog'[i] = backlog[i + 1] /\ i + 1 \in 1..Len(backlog) /\ 1 \in 1..Len(backlog)
            /\ i + 1 # 1
        BY <1>4
      <4>2. backlog[i + 1] \in Conns /\ conn[backlog[i + 1]].fd = 0 /\ backlog[i + 1] # backlog[1]
        BY <1>0, <4>1 DEF Types, Table
      <4> QED BY <1>5, <4>1, <4>2
    <3> QED BY <3>1
  <2>3. \A i \in 1..Len(backlog') : conn'[backlog'[i]].fd = 0
    BY <1>7, <2>2
  <2>4. \A i, j \in 1..Len(backlog') : backlog'[i] = backlog'[j] => i = j
    <3>1. ASSUME NEW i \in 1..Len(backlog'), NEW j \in 1..Len(backlog'), backlog'[i] = backlog'[j]
          PROVE  i = j
      <4>1. i + 1 = j + 1
        BY <1>0, <1>4, <3>1 DEF Table
      <4> QED BY <1>4, <4>1
    <3> QED BY <3>1
  <2>5. ASSUME NEW q \in Procs, Before(q)'
        PROVE  conn'[q] = NoConn /\ \A i \in 1..Len(backlog') : backlog'[i] # q
    <3>1. conn[q] = NoConn /\ \A i \in 1..Len(backlog) : backlog[i] # q
      BY <1>0, <1>1, <2>5 DEF Table, Before
    <3>2. q # c
      BY <1>4, <1>5, <3>1
    <3> QED BY <1>4, <1>7, <3>1, <3>2, ConnFacts
  <2> QED BY <2>1, <2>3, <2>4, <2>5 DEF Table
<1>14. Owner'
  <2>1. server'.state # "none" /\ server'.owner # 0
    BY <1>1, <1>10, ServerFacts
  <2>2. conn'[Exiter].req = conn[Exiter].req
    BY <1>7, ConnFacts
  <2>3. ASSUME procs[server.owner].pc \notin {"join", "dead"}
        PROVE  conn'[Exiter] = NoConn /\ \A i \in 1..Len(backlog') : backlog'[i] # Exiter
    <3>1. conn[Exiter] = NoConn /\ \A i \in 1..Len(backlog) : backlog[i] # Exiter
      BY <1>0, <2>3 DEF Owner
    <3>2. Exiter # c
      BY <1>4, <1>5, <3>1
    <3>3. conn'[Exiter] = NoConn
      BY <1>7, <3>1, <3>2, ConnFacts
    <3>4. ASSUME NEW i \in 1..Len(backlog') PROVE backlog'[i] # Exiter
      <4>1. backlog'[i] = backlog[i + 1] /\ i + 1 \in 1..Len(backlog)
        BY <1>4
      <4> QED BY <3>1, <4>1
    <3> QED BY <3>3, <3>4
  <2> QED BY <1>0, <1>1, <1>10, <2>1, <2>2, <2>3 DEF Owner
<1>15. Reported'
  <2>1. \A o \in server'.todo : o \in server.todo /\ o.fd # Listener
    BY <1>0, <1>1, <1>10 DEF Reported
  <2>2. \A o \in server'.todo : o.fd \in DOMAIN clients
            /\ (o.hup => conn[clients[o.fd].conn].ends = {})
    BY <1>0, <2>1 DEF Reported
  <2>3. \A d \in Conns : conn'[d].ends = conn[d].ends
    BY <1>7
  <2>4. \A o \in server'.todo : o.fd \in DOMAIN clients'
            /\ (o.hup => conn'[clients'[o.fd].conn].ends = {})
    BY <1>9, <1>12, <2>2, <2>3, ZenonT(60)
  <2>5. [fd |-> Listener, hup |-> FALSE] \notin server'.todo
    <3>1. ASSUME NEW o \in server'.todo PROVE o # [fd |-> Listener, hup |-> FALSE]
      BY <2>1
    <3> QED BY <3>1
  <2>6. \A o, u \in server'.todo : o.fd = u.fd => o = u
    BY <1>0, <2>1 DEF Reported
  <2>7. server'.reads \in DOMAIN clients'
    BY <1>9, <1>10
  <2> QED BY <2>1, <2>4, <2>5, <2>6, <2>7 DEF Reported
<1>16. \A d \in Conns : /\ conn'[d].req = conn[d].req /\ conn'[d].arg = conn[d].arg
                        /\ conn'[d].resp = conn[d].resp /\ conn'[d].val = conn[d].val
                        /\ conn'[d].ends = conn[d].ends
  BY <1>7
<1>17. ASSUME NEW q \in Procs
       PROVE  Connected(q)' /\ EmptyHanded(q)' /\ Talking(q)' /\ Forked(q)'
  <2>0. /\ Connected(q) /\ EmptyHanded(q) /\ Talking(q) /\ Forked(q)
        /\ procs' = procs /\ pipe' = pipe /\ q \in Conns
    BY <1>1, ConnFacts DEF IInv
  <2>1. Opened(q)' <=> Opened(q)
    BY <2>0 DEF Opened, Live, Before
  <2>2. CASE q = c
    <3>1. Connected(q)'
      BY <1>5, <1>6, <1>7, <1>9, <2>0, <2>1, <2>2 DEF Connected, Greeting
    <3>2. Talking(q)'
      BY <1>5, <1>16, <2>0, <2>1, <2>2 DEF Talking, Asking, Answered
    <3>3. EmptyHanded(q)'
      BY <1>10, <2>0 DEF EmptyHanded
    <3>4. Forked(q)'
      BY <1>16, <2>0 DEF Forked, Before, Greeting
    <3> QED BY <3>1, <3>2, <3>3, <3>4
  <2>3. CASE q # c
    <3>0. conn'[q] = conn[q]
      BY <1>7, <2>0, <2>3
    <3>1. Connected(q)'
      BY <1>9, <2>0, <2>1, <3>0 DEF Connected, Greeting
    <3>2. Talking(q)'
      BY <2>0, <2>1, <3>0 DEF Talking, Asking, Answered
    <3>3. EmptyHanded(q)'
      BY <1>10, <2>0 DEF EmptyHanded
    <3>4. Forked(q)'
      BY <1>16, <2>0 DEF Forked, Before, Greeting
    <3> QED BY <3>1, <3>2, <3>3, <3>4
  <2> QED BY <2>2, <2>3
<1>18. Made' /\ UsedAreNewest'
  <2>1. \A m \in Maps : InUse(m)' => InUse(m)
    <3>1. \A m \in Maps : ~(clients'[f].maps[m] > 0)
      BY <1>9, NoMapsFacts
    <3> QED BY <1>1, <1>9, <3>1 DEF InUse, Kept
  <2> QED BY <1>1, <2>1 DEF IInv, Made, MadeMaps, UsedAreNewest, Newest
<1>20. ASSUME Sound PROVE Sound'
  <2>1. \A d \in Procs, g \in Fds : Expects(d, g)' => Expects(d, g)
    BY <1>1, <1>16, ConnFacts DEF Expects
  <2>2. \A d \in Procs : Live(d)' => Live(d) /\ procs'[d].held = procs[d].held
    BY <1>1 DEF Live
  <2>3. Copies' /\ \A q \in Procs : procs'[q] = procs[q] /\ conn'[q].req = conn[q].req => ToFork(q)'
    BY <1>1, <1>20, <2>1, <2>2, StepCopies
  <2>4. \A q \in Procs : ToFork(q)'
    BY <1>1, <1>16, <2>3, ConnFacts
  <2>5. ASSUME NEW q \in Procs PROVE Keeps(q)'
    <3>0. /\ procs' = procs /\ Keeps(q) /\ (Opened(q)' <=> Opened(q)) /\ q \in Conns
          /\ Connected(q) /\ EmptyHanded(q) /\ Talking(q)
      BY <1>1, <1>20, ConnFacts DEF IInv, Sound, Opened, Live, Before
    <3>1. CASE q # c
      <4>1. conn'[q] = conn[q]
        BY <1>7, <3>0, <3>1
      <4>2. Opened(q) /\ conn[q].fd # 0 => clients'[conn[q].fd] = clients[conn[q].fd]
        BY <1>9, <3>0 DEF Connected
      <4> QED BY <1>1, <3>0, <4>1, <4>2 DEF Keeps, AtLeast, Unregistered
    <3>2. CASE q = c /\ Opened(q) /\ ~Unregistered(q)'
      <4>1. procs[q].pc = "wait_hello" /\ conn[q].req # "PostForkChildHello"
        BY <1>1, <1>5, <1>16, <3>0, <3>2 DEF Connected, Greeting, Unregistered
      <4>2. conn[q].req = "Hello" /\ conn[q].resp = "none" /\ procs[q].id = 0
        BY <1>5, <3>0, <3>2, <4>1 DEF Talking, Asking, Answered
      <4>3. procs[q].held = NoMaps
        BY <3>0, <4>2 DEF EmptyHanded
      <4>4. AtLeast(NoMaps, NoMaps)
        BY NoMapsFacts DEF AtLeast
      <4> QED BY <1>7, <1>9, <1>16, <3>0, <3>2, <4>2, <4>3, <4>4 DEF Keeps, AtLeast
    <3> QED BY <3>0, <3>1, <3>2 DEF Keeps
  <2> QED BY <1>10, <1>20, <2>3, <2>4, <2>5 DEF Sound
<1> QED BY <1>1, <1>11, <1>13, <1>14, <1>15, <1>17, <1>18, <1>20 DEF IInv

-----------------------------------------------------------------------------
(* Answers.                                                                *)

Served == {"Hello", "PostForkChildHello", "NewMap", "ExistingMap", "Deregister", "PreFork"}

\* The process c is known by the number f, and its request is read. It may be dead.
Asker(c, f, req) ==
    /\ Running /\ f \in DOMAIN clients /\ f \in Fds /\ f # 0
    /\ clients[f].conn = c /\ conn[c].fd = f /\ conn[c].req = req /\ ~Before(c)
    /\ Opened(c) => conn[c].ends # {} /\ conn[c].resp = "none"

\* What it waits for, if it is not
AskerWaits(c, req) ==
    Opened(c) =>
        /\ req \in {"Hello", "PostForkChildHello"} <=> procs[c].pc = "wait_hello"
        /\ req \in {"NewMap", "ExistingMap"} <=> procs[c].pc = "wait_map"
        /\ req = "Deregister" <=> procs[c].pc = "wait_release"
        /\ req = "PreFork" <=> procs[c].pc = "wait_prefork"
        /\ procs[c].pc \in {"wait_hello", "wait_map", "wait_release", "wait_prefork"}

LEMMA AskerFound ==
  ASSUME IInv, NEW f, NEW req \in Served, Handles(f, req)
  PROVE  \E c \in Procs : Asker(c, f, req) /\ AskerWaits(c, req)
<1>0. Types /\ Table /\ Owner
  BY DEF IInv
<1>1. Running /\ f \in DOMAIN clients /\ conn[clients[f].conn].req = req
  BY DEF Handles, Turn, Asks
<1>2. f \in Fds /\ f # 0 /\ conn[clients[f].conn].fd = f /\ clients[f].conn \in Conns
  BY <1>0, <1>1, ZeroFacts DEF Types, ClientTypes, Table
<1>3. clients[f].conn # Exiter
  BY <1>0, <1>1 DEF Owner, Served
<1>4. PICK c \in Procs : c = clients[f].conn
  BY <1>2, <1>3, ConnFacts
<1>5. Connected(c) /\ Talking(c)
  BY DEF IInv
<1>6. ~Before(c)
  BY <1>0, <1>2, <1>4, NoConnFacts DEF Table
<1>7. conn[c].req = req /\ req # "none"
  BY <1>1, <1>4 DEF Served
<1>8. Opened(c) => conn[c].ends # {} /\ conn[c].resp = "none"
  BY <1>5, <1>7 DEF Connected, Talking, Asking, Answered
<1>9. AskerWaits(c, req)
  BY <1>5, <1>7 DEF AskerWaits, Talking, Asking, Answered
<1> QED BY <1>1, <1>2, <1>4, <1>6, <1>7, <1>8, <1>9 DEF Asker

\* The server answers c, and may count the maps it keeps for c anew.
Replies(c, f, resp, val) ==
    /\ UNCHANGED <<backlog, procs, pipe>> /\ Types'
    /\ server'.state = server.state /\ server'.owner = server.owner
    /\ server'.todo \subseteq server.todo /\ server'.reads \in {0, server.reads}
    /\ DOMAIN clients' = DOMAIN clients
    /\ \A g \in DOMAIN clients : clients'[g].conn = clients[g].conn
    /\ \A g \in DOMAIN clients \ {f} : clients'[g] = clients[g]
    /\ \A d \in Conns \ {c} : conn'[d] = conn[d]
    /\ conn'[c].ends = conn[c].ends /\ conn'[c].fd = conn[c].fd /\ conn'[c].req = "none"
    /\ Opened(c) => conn'[c].resp = resp /\ conn'[c].val = val

LEMMA AnswerReplies ==
  ASSUME IInv, NEW f, NEW c \in Procs, NEW req, Asker(c, f, req),
         NEW resp \in Responses, NEW val \in Nat, Answer(f, resp, val),
         UNCHANGED <<backlog, procs, pipe>>,
         DOMAIN clients' = DOMAIN clients, clients' \in [DOMAIN clients' -> ClientTypes],
         \A g \in DOMAIN clients : clients'[g].conn = clients[g].conn,
         \A g \in DOMAIN clients \ {f} : clients'[g] = clients[g],
         DOMAIN forking' \subseteq Fds, forking' \in [DOMAIN forking' -> Counts],
         idOf' \in [Maps -> Ids \cup {0}],
         count' \in CountTypes
  PROVE  Replies(c, f, resp, val)
<1>0. Types /\ c \in Conns /\ clients[f].conn = c
  BY ConnFacts DEF IInv, Asker
<1>1. conn[c] \in ConnTypes /\ server \in ServerTypes
  BY <1>0 DEF Types
<1>2. PICK none \in Requests, zero \in Nat : none = "none" /\ zero = 0
  BY DEF Requests
<1>3. PICK r : r = IF conn[c].ends # {}
                   THEN [conn[c] EXCEPT !.req = none, !.arg = zero, !.resp = resp, !.val = val]
                   ELSE [conn[c] EXCEPT !.req = none, !.arg = zero]
  OBVIOUS
<1>4. /\ r \in ConnTypes /\ r.ends = conn[c].ends /\ r.fd = conn[c].fd /\ r.req = none
      /\ conn[c].ends # {} => r.resp = resp /\ r.val = val
  <2>1. CASE conn[c].ends # {}
    <3>1. r = [conn[c] EXCEPT !.req = none, !.arg = zero, !.resp = resp, !.val = val]
      BY <1>3, <2>1
    <3>2. r \in ConnTypes
      BY <1>1, <3>1 DEF ConnTypes
    <3>3. /\ r.ends = conn[c].ends /\ r.fd = conn[c].fd /\ r.req = none
          /\ r.resp = resp /\ r.val = val
      BY <1>1, <3>1 DEF ConnTypes
    <3> QED BY <3>2, <3>3
  <2>2. CASE conn[c].ends = {}
    <3>1. r = [conn[c] EXCEPT !.req = none, !.arg = zero]
      BY <1>3, <2>2
    <3>2. r \in ConnTypes
      BY <1>1, <3>1 DEF ConnTypes
    <3>3. r.ends = conn[c].ends /\ r.fd = conn[c].fd /\ r.req = none
      BY <1>1, <3>1 DEF ConnTypes
    <3> QED BY <2>2, <3>2, <3>3
  <2> QED BY <2>1, <2>2
<1>5. conn' = [conn EXCEPT ![c] = r]
  BY <1>0, <1>2, <1>3 DEF Answer, Sent
<1>6. /\ conn' \in [Conns -> ConnTypes] /\ conn'[c] = r
      /\ \A d \in Conns \ {c} : conn'[d] = conn[d]
  BY <1>0, <1>4, <1>5 DEF Types
<1>7. /\ server' \in ServerTypes
      /\ server'.state = server.state /\ server'.owner = server.owner
      /\ server'.todo \subseteq server.todo /\ server'.reads \in {0, server.reads}
  <2>1. CASE server.reads = f
    <3>1. PICK n \in Fds \cup {0} : n = 0
      OBVIOUS
    <3>2. server' = [server EXCEPT !.reads = n]
      BY <2>1, <3>1 DEF Answer, HandledServer
    <3> QED BY <1>1, <3>1, <3>2 DEF ServerTypes
  <2>2. CASE server.reads # f
    <3>1. PICK t \in SUBSET [fd : Fds \cup {Listener}, hup : BOOLEAN] :
              t = server.todo \ {[fd |-> f, hup |-> FALSE]}
      BY <1>1 DEF ServerTypes
    <3>2. server' = [server EXCEPT !.todo = t]
      BY <2>2, <3>1 DEF Answer, HandledServer
    <3>3. server' \in ServerTypes
      BY <1>1, <3>2 DEF ServerTypes
    <3>4. /\ server'.state = server.state /\ server'.owner = server.owner
          /\ server'.todo = t /\ server'.reads = server.reads
      BY <1>1, <3>2 DEF ServerTypes
    <3> QED BY <3>1, <3>3, <3>4
  <2> QED BY <2>1, <2>2
<1>8. DOMAIN clients \subseteq Fds /\ backlog \in Seq(Conns) /\ procs \in [Procs -> ProcTypes]
      /\ pipe \in [Procs -> [parent_done : BOOLEAN, child_done : BOOLEAN]]
  BY <1>0 DEF Types
<1>9. Types'
  BY <1>6, <1>7, <1>8 DEF Types
<1>10. Opened(c) => conn[c].ends # {}
  BY DEF Asker
<1> QED BY <1>2, <1>4, <1>6, <1>7, <1>9, <1>10 DEF Replies

\* The answer is the one that the request calls for, or there is none.
Fits(f, req, resp, val) ==
    /\ req \in {"Hello", "PostForkChildHello"} => resp = "Id" /\ val = f
    /\ req \in {"NewMap", "ExistingMap"} =>
          resp = "none" \/ (resp = "Mapping" /\ val \in Maps)
    /\ req = "Deregister" => resp = "RefCount"
    /\ req = "PreFork" => resp = "Id"

LEMMA RepliesIInv ==
  ASSUME IInv, NEW f, NEW c \in Procs, NEW req \in Served, NEW resp, NEW val,
         Asker(c, f, req), AskerWaits(c, req), Replies(c, f, resp, val),
         Fits(f, req, resp, val), Made', UsedAreNewest',
         \A m \in MadeMaps : idOf'[m] = idOf[m],
         count'.lost = 0 => Sound'
  PROVE  IInv'
<1>0. Types /\ Table /\ Owner /\ Reported /\ c \in Conns /\ c # Exiter
  BY ConnFacts DEF IInv
<1>1. /\ Running /\ f \in DOMAIN clients /\ f \in Fds /\ f # 0
      /\ clients[f].conn = c /\ conn[c].fd = f /\ conn[c].req = req /\ ~Before(c)
      /\ Opened(c) => conn[c].ends # {} /\ conn[c].resp = "none"
  BY DEF Asker
<1>2. /\ UNCHANGED <<backlog, procs, pipe>> /\ Types'
      /\ server'.state = server.state /\ server'.owner = server.owner
      /\ server'.todo \subseteq server.todo /\ server'.reads \in {0, server.reads}
      /\ DOMAIN clients' = DOMAIN clients
      /\ \A g \in DOMAIN clients : clients'[g].conn = clients[g].conn
      /\ \A d \in Conns \ {c} : conn'[d] = conn[d]
      /\ conn'[c].ends = conn[c].ends /\ conn'[c].fd = conn[c].fd /\ conn'[c].req = "none"
      /\ Opened(c) => conn'[c].resp = resp /\ conn'[c].val = val
  BY DEF Replies
<1>3. \A d \in Conns : conn'[d].ends = conn[d].ends /\ conn'[d].fd = conn[d].fd
  BY <1>2
<1>4. \A g \in DOMAIN clients : clients[g].conn \in Conns
  BY <1>0 DEF Types, ClientTypes
<1>5. Table'
  <2>1. \A g \in DOMAIN clients' : conn'[clients'[g].conn].fd = g
    BY <1>0, <1>2, <1>3, <1>4 DEF Table
  <2>2. \A i \in 1..Len(backlog) : backlog[i] \in Conns
    BY <1>0 DEF Types
  <2>3. \A i \in 1..Len(backlog') : conn'[backlog'[i]].fd = 0
    BY <1>0, <1>2, <1>3, <2>2 DEF Table
  <2>4. \A q \in Procs : Before(q)' => Before(q) /\ conn'[q] = conn[q]
    BY <1>1, <1>2, ConnFacts DEF Before
  <2>5. \A q \in Procs : Before(q)' =>
            conn'[q] = NoConn /\ \A i \in 1..Len(backlog') : backlog'[i] # q
    BY <1>0, <1>2, <2>4 DEF Table
  <2> QED BY <1>0, <1>2, <2>1, <2>3, <2>5 DEF Table
<1>6. Owner'
  <2>1. conn'[Exiter] = conn[Exiter]
    BY <1>0, <1>2, ConnFacts
  <2> QED BY <1>0, <1>2, <2>1 DEF Owner
<1>7. Reported'
  <2>1. \A e \in server'.todo : e.hup => conn'[clients'[e.fd].conn].ends = {}
    <3>1. \A e \in server'.todo : e.hup =>
              e.fd \in DOMAIN clients /\ conn[clients[e.fd].conn].ends = {}
      BY <1>0, <1>2 DEF Reported
    <3> QED BY <1>2, <1>3, <1>4, <3>1, ZenonT(60)
  <2>2. \A e \in server'.todo :
            (e.fd # Listener => e.fd \in DOMAIN clients') /\ (e.fd = Listener => ~e.hup)
    BY <1>0, <1>2 DEF Reported
  <2>3. \A e, o \in server'.todo : e.fd = o.fd => e = o
    BY <1>0, <1>2 DEF Reported
  <2>4. server'.reads # 0 => server'.reads \in DOMAIN clients'
    BY <1>0, <1>2 DEF Reported
  <2>5. [fd |-> Listener, hup |-> FALSE] \in server'.todo => backlog' # <<>>
    BY <1>0, <1>2 DEF Reported
  <2> QED BY <2>1, <2>2, <2>3, <2>4, <2>5 DEF Reported
<1>8. ASSUME NEW q \in Procs
      PROVE  Connected(q)' /\ EmptyHanded(q)' /\ Talking(q)' /\ Forked(q)'
  <2>0. /\ Connected(q) /\ EmptyHanded(q) /\ Talking(q) /\ Forked(q)
        /\ procs' = procs /\ pipe' = pipe /\ q \in Conns
    BY <1>2, ConnFacts DEF IInv
  <2>1. Opened(q)' <=> Opened(q)
    BY <2>0 DEF Opened, Live, Before
  <2>2. Connected(q)'
    <3>1. conn'[q].fd = conn[q].fd /\ conn'[q].ends = conn[q].ends
      BY <1>3, <2>0
    <3> QED BY <1>2, <2>0, <2>1, <3>1 DEF Connected, Greeting
  <2>3. EmptyHanded(q)'
    BY <1>2, <2>0 DEF EmptyHanded
  <2>4. Talking(q)'
    <3>1. CASE q # c
      <4>1. conn'[q] = conn[q]
        BY <1>2, <2>0, <3>1
      <4> QED BY <2>0, <2>1, <4>1 DEF Talking, Asking, Answered
    <3>2. CASE q = c /\ ~Opened(q)
      BY <2>0, <2>1, <3>2 DEF Talking, Opened, Live, Before
    <3>3. CASE q = c /\ Opened(q)
      <4>1. /\ conn'[q].req = "none" /\ conn'[q].resp = resp /\ conn'[q].val = val
            /\ conn'[q].fd = f
        BY <1>1, <1>2, <3>3
      <4>2. /\ procs[q].pc = "wait_hello" => resp = "Id" /\ val = f
            /\ procs[q].pc = "wait_map" =>
                  resp = "none" \/ (resp = "Mapping" /\ val \in Maps)
            /\ procs[q].pc = "wait_release" => resp = "RefCount"
            /\ procs[q].pc = "wait_prefork" => resp = "Id"
            /\ procs[q].pc \in {"wait_hello", "wait_map", "wait_release", "wait_prefork"}
        BY <3>3 DEF AskerWaits, Fits
      <4> QED BY <1>1, <2>0, <4>1, <4>2 DEF Talking, Answered
    <3> QED BY <3>1, <3>2, <3>3
  <2>5. conn'[q] = conn[q] \/ conn'[q].req = "none"
    BY <1>2, <2>0
  <2>6. Forked(q)'
    BY <2>0, <2>5 DEF Forked, Before, Greeting
  <2> QED BY <2>2, <2>3, <2>4, <2>6
<1> QED BY <1>2, <1>5, <1>6, <1>7, <1>8 DEF IInv

\* Who is answered expects no copy any more, and nobody comes to expect one.
LEMMA RepliesExpects ==
  ASSUME NEW f, NEW c \in Procs, NEW req, NEW resp, NEW val,
         Asker(c, f, req), AskerWaits(c, req), Replies(c, f, resp, val)
  PROVE  /\ \A d \in Procs, g \in Fds : Expects(d, g)' => Expects(d, g) /\ d # c
         /\ \A d \in Procs : Live(d)' => Live(d) /\ procs'[d].held = procs[d].held
<1>1. /\ procs' = procs /\ conn'[c].req = "none" /\ ~Before(c)
      /\ \A d \in Conns \ {c} : conn'[d] = conn[d]
  BY DEF Asker, Replies
<1>2. procs[c].pc \notin {"await_parent", "connect", "hello"}
  BY <1>1 DEF AskerWaits, Opened, Live, Before
<1>3. \A g \in Fds : ~Expects(c, g)'
  BY <1>1, <1>2 DEF Expects
<1>4. \A d \in Procs \ {c}, g \in Fds : Expects(d, g)' => Expects(d, g)
  BY <1>1, ConnFacts DEF Expects
<1>5. \A d \in Procs : Live(d)' => Live(d) /\ procs'[d].held = procs[d].held
  BY <1>1 DEF Live
<1> QED BY <1>3, <1>4, <1>5

\* The server still keeps what each of the others has; and what c has.
LEMMA RepliesSound ==
  ASSUME IInv, Sound, NEW f, NEW c \in Procs, NEW req, NEW resp, NEW val,
         Asker(c, f, req), AskerWaits(c, req), Replies(c, f, resp, val),
         \A m \in MadeMaps : idOf'[m] = idOf[m],
         Copies', \A q \in Procs : ToFork(q)',
         Opened(c) => /\ AtLeast(clients'[f].maps, procs[c].held)
                      /\ resp = "Mapping" => clients'[f].maps[val] > procs[c].held[val]
  PROVE  Sound'
<1>1. /\ Running /\ f \in DOMAIN clients /\ clients[f].conn = c /\ conn[c].fd = f
  BY DEF Asker
<1>2. /\ procs' = procs /\ server'.state = server.state
      /\ \A g \in DOMAIN clients \ {f} : clients'[g] = clients[g]
      /\ \A d \in Conns \ {c} : conn'[d] = conn[d]
      /\ conn'[c].fd = f /\ conn'[c].req = "none"
      /\ Opened(c) => conn'[c].resp = resp /\ conn'[c].val = val
  BY <1>1 DEF Replies
<1>3. \A q \in Procs : Opened(q)' <=> Opened(q)
  BY <1>2 DEF Opened, Live, Before
<1>4. Keeps(c)'
  BY <1>2, <1>3 DEF Keeps, AtLeast
<1>5. ASSUME NEW q \in Procs, q # c PROVE Keeps(q)'
  <2>1. conn'[q] = conn[q] /\ Keeps(q) /\ Connected(q) /\ (Unregistered(q)' <=> Unregistered(q))
    BY <1>2, <1>5, ConnFacts DEF IInv, Sound, Unregistered
  <2>2. SUFFICES ASSUME Opened(q), conn[q].fd # 0, ~Unregistered(q)
                 PROVE  Keeps(q)'
    BY <1>3, <2>1 DEF Keeps
  <2>3. conn[q].fd \in DOMAIN clients \ {f}
    BY <1>1, <1>5, <2>1, <2>2 DEF Connected
  <2>4. clients'[conn[q].fd] = clients[conn[q].fd]
    BY <1>2, <2>3
  <2>5. /\ AtLeast(clients[conn[q].fd].maps, procs[q].held)
        /\ conn[q].resp = "Mapping" =>
              clients[conn[q].fd].maps[conn[q].val] > procs[q].held[conn[q].val]
    BY <2>1, <2>2 DEF Keeps
  <2>6. ASSUME conn[q].req = "Deregister"
        PROVE  \E m \in Maps : idOf'[m] = conn[q].arg
                               /\ clients[conn[q].fd].maps[m] > procs[q].held[m]
    <3>1. PICK m \in Maps : idOf[m] = conn[q].arg /\ clients[conn[q].fd].maps[m] > procs[q].held[m]
      BY <2>1, <2>2, <2>6 DEF Keeps
    <3>2. procs[q].held[m] \in Nat /\ clients[conn[q].fd].maps[m] \in Nat
      BY <2>3 DEF IInv, Types, ProcTypes, ClientTypes, Counts
    <3>3. InUse(m)
      BY <2>3, <3>1, <3>2 DEF InUse, Kept
    <3>4. m \in MadeMaps
      BY <3>3 DEF IInv, UsedAreNewest, Newest, MadeMaps
    <3> QED BY <3>1, <3>4
  <2> QED BY <1>2, <2>1, <2>4, <2>5, <2>6 DEF Keeps, AtLeast
<1>6. \A q \in Procs : Keeps(q)'
  BY <1>4, <1>5
<1> QED BY <1>1, <1>2, <1>6 DEF Sound, Running

\* The copies are not touched.
LEMMA RepliesCopies ==
  ASSUME IInv, Sound, NEW f, NEW c \in Procs, NEW req, NEW resp, NEW val,
         Asker(c, f, req), AskerWaits(c, req), Replies(c, f, resp, val),
         req # "PreFork", UNCHANGED forking
  PROVE  Copies' /\ \A q \in Procs : ToFork(q)'
<1>1. /\ procs' = procs /\ \A d \in Conns \ {c} : conn'[d] = conn[d]
  BY DEF Replies
<1>2. Copies' /\ \A q \in Procs : procs'[q] = procs[q] /\ conn'[q].req = conn[q].req => ToFork(q)'
  BY RepliesExpects, StepCopies
<1>3. ToFork(c)'
  BY <1>1 DEF ToFork, AskerWaits, Opened, Live, Before
<1> QED BY <1>1, <1>2, <1>3, ConnFacts

\* What the server keeps for a process that was registered
LEMMA AskerKeeps ==
  ASSUME Sound, NEW f, NEW c \in Procs, NEW req, Asker(c, f, req), AskerWaits(c, req),
         req # "PostForkChildHello", Opened(c)
  PROVE  /\ AtLeast(clients[f].maps, procs[c].held)
         /\ req = "Deregister" => \E m \in Maps : idOf[m] = conn[c].arg
                                      /\ clients[f].maps[m] > procs[c].held[m]
<1>1. f # 0 /\ conn[c].fd = f /\ conn[c].req = req /\ Keeps(c)
  BY DEF Asker, Sound
<1>2. ~Unregistered(c)
  BY <1>1 DEF AskerWaits, Unregistered
<1> QED BY <1>1, <1>2 DEF Keeps

LEMMA HandleHelloIInv ==
  ASSUME IInv, NEW f \in Fds, HandleHello(f)
  PROVE  IInv'
<1>0. Types
  BY DEF IInv
<1>1. /\ Handles(f, "Hello") /\ Answer(f, "Id", f)
      /\ UNCHANGED <<clients, forking, idOf, backlog, procs, pipe, count>>
  BY DEF HandleHello
<1>2. PICK req \in Served : req = "Hello"
  BY DEF Served
<1>3. PICK c \in Procs : Asker(c, f, req) /\ AskerWaits(c, req)
  BY <1>1, <1>2, AskerFound
<1>4. PICK resp \in Responses, val \in Nat : resp = "Id" /\ val = f
  BY NatFacts DEF Responses
<1>5. /\ clients' \in [DOMAIN clients' -> ClientTypes]
      /\ DOMAIN forking' \subseteq Fds /\ forking' \in [DOMAIN forking' -> Counts]
      /\ idOf' \in [Maps -> Ids \cup {0}] /\ count' \in CountTypes
  BY <1>0, <1>1 DEF Types
<1>6. Replies(c, f, resp, val)
  BY <1>1, <1>3, <1>4, <1>5, AnswerReplies
<1>7. Fits(f, req, resp, val)
  BY <1>2, <1>4 DEF Fits
<1>8. Made' /\ UsedAreNewest' /\ \A m \in MadeMaps : idOf'[m] = idOf[m]
  BY <1>1 DEF IInv, Made, MadeMaps, UsedAreNewest, InUse, Kept, Newest
<1>9. ASSUME count'.lost = 0 PROVE Sound'
  <2>1. Sound
    BY <1>1, <1>9 DEF IInv
  <2>2. Copies' /\ \A q \in Procs : ToFork(q)'
    BY <1>1, <1>2, <1>3, <1>6, <2>1, RepliesCopies
  <2>3. Opened(c) => AtLeast(clients'[f].maps, procs[c].held)
    BY <1>1, <1>2, <1>3, <2>1, AskerKeeps
  <2> QED BY <1>3, <1>4, <1>6, <1>8, <2>1, <2>2, <2>3, RepliesSound
<1> QED BY <1>3, <1>6, <1>7, <1>8, <1>9, RepliesIInv

\* One of the counts of a client is set.
Counted(f, m, n) == clients' = [clients EXCEPT ![f].maps[m] = n]

LEMMA Recounts ==
  ASSUME Types, NEW f \in DOMAIN clients, NEW m \in Maps, NEW n \in Nat, Counted(f, m, n)
  PROVE  /\ DOMAIN clients' = DOMAIN clients /\ clients' \in [DOMAIN clients' -> ClientTypes]
         /\ \A g \in DOMAIN clients : clients'[g].conn = clients[g].conn
         /\ \A g \in DOMAIN clients \ {f} : clients'[g] = clients[g]
         /\ clients'[f].maps[m] = n
         /\ \A l \in Maps \ {m} : clients'[f].maps[l] = clients[f].maps[l]
<1>1. clients[f] \in ClientTypes /\ clients[f].maps \in Counts
  BY DEF Types, ClientTypes
<1>2. PICK maps : maps = [clients[f].maps EXCEPT ![m] = n]
  OBVIOUS
<1>3. /\ maps \in Counts /\ maps[m] = n
      /\ \A l \in Maps \ {m} : maps[l] = clients[f].maps[l]
  BY <1>1, <1>2 DEF Counts
<1>4. PICK r : r = [clients[f] EXCEPT !.maps = maps]
  OBVIOUS
<1>5. r \in ClientTypes /\ r.maps = maps /\ r.conn = clients[f].conn
  BY <1>1, <1>3, <1>4 DEF ClientTypes
<1>6. clients' = [clients EXCEPT ![f] = r]
  BY <1>2, <1>4 DEF Counted
<1>7. /\ DOMAIN clients' = DOMAIN clients /\ clients'[f] = r
      /\ \A g \in DOMAIN clients \ {f} : clients'[g] = clients[g]
  BY <1>6 DEF Types
<1>8. clients' \in [DOMAIN clients' -> ClientTypes]
  BY <1>5, <1>6, <1>7 DEF Types
<1> QED BY <1>3, <1>5, <1>7, <1>8

\* A map is sent, new or not, and kept for the client it is sent to.
LEMMA MapIInv ==
  ASSUME IInv, NEW f \in Fds, NEW req \in {"NewMap", "ExistingMap"}, NEW m \in Maps,
         Handles(f, req), Map(f, m),
         UNCHANGED <<forking, backlog, procs, pipe, count>>,
         idOf' \in [Maps -> Ids \cup {0}], \A l \in MadeMaps : idOf'[l] = idOf[l], Made',
         Newest(m)', \A l \in Maps \ {m} : InUse(l) => Newest(l)'
  PROVE  IInv'
<1>0. Types /\ m \in Nat /\ req \in Served
  BY NatFacts DEF IInv, Maps, Served
<1>1. PICK c \in Procs : Asker(c, f, req) /\ AskerWaits(c, req)
  BY <1>0, AskerFound
<1>2. f \in DOMAIN clients /\ clients[f].conn = c /\ (Opened(c) => conn[c].ends # {})
  BY <1>1 DEF Asker
<1>3. clients[f].maps[m] \in Nat /\ \A l \in Maps : clients[f].maps[l] \in Nat
  BY <1>0, <1>2 DEF Types, ClientTypes, Counts
<1>4. PICK n \in Nat : n = clients[f].maps[m] + 1
  BY <1>3
<1>5. /\ DOMAIN clients' = DOMAIN clients /\ clients' \in [DOMAIN clients' -> ClientTypes]
      /\ \A g \in DOMAIN clients : clients'[g].conn = clients[g].conn
      /\ \A g \in DOMAIN clients \ {f} : clients'[g] = clients[g]
      /\ \A l \in Maps \ {m} : clients'[f].maps[l] = clients[f].maps[l]
      /\ Sent(f) => clients'[f].maps[m] = n
  <2>1. CASE Sent(f)
    <3>1. Counted(f, m, n)
      BY <1>4, <2>1 DEF Map, Counted
    <3> QED BY <1>0, <1>2, <3>1, Recounts
  <2>2. CASE ~Sent(f)
    <3>1. clients' = clients
      BY <2>2 DEF Map
    <3> QED BY <1>0, <2>2, <3>1 DEF Types
  <2> QED BY <2>1, <2>2
<1>6. PICK resp \in Responses, val \in Nat : resp = "Mapping" /\ val = m
  BY <1>0 DEF Responses
<1>7. /\ DOMAIN forking' \subseteq Fds /\ forking' \in [DOMAIN forking' -> Counts]
      /\ count' \in CountTypes /\ Answer(f, resp, val)
  BY <1>0, <1>6 DEF Types, Map
<1>8. Replies(c, f, resp, val)
  BY <1>1, <1>5, <1>7, AnswerReplies
<1>9. Fits(f, req, resp, val)
  BY <1>6 DEF Fits
<1>10. UsedAreNewest'
  <2>1. \A l \in Maps \ {m} : InUse(l)' => InUse(l)
    <3>1. \A l \in Maps \ {m}, g \in DOMAIN clients' :
              g \in DOMAIN clients /\ clients'[g].maps[l] = clients[g].maps[l]
      BY <1>5
    <3> QED BY <3>1 DEF InUse, Kept
  <2> QED BY <2>1 DEF UsedAreNewest
<1>11. ASSUME count'.lost = 0 PROVE Sound'
  <2>1. Sound
    BY <1>11 DEF IInv
  <2>2. Copies' /\ \A q \in Procs : ToFork(q)'
    BY <1>1, <1>8, <2>1, RepliesCopies
  <2>3. ASSUME Opened(c)
        PROVE  /\ AtLeast(clients'[f].maps, procs[c].held)
               /\ clients'[f].maps[val] > procs[c].held[val]
    <3>1. AtLeast(clients[f].maps, procs[c].held)
      BY <1>1, <2>1, <2>3, AskerKeeps
    <3>2. clients'[f].maps[m] = clients[f].maps[m] + 1
      BY <1>2, <1>4, <1>5, <2>3 DEF Sent
    <3>3. \A l \in Maps : procs[c].held[l] \in Nat
      BY <1>0 DEF Types, ProcTypes, Counts
    <3>4. \A l \in Maps : clients'[f].maps[l] >= procs[c].held[l]
      BY <1>3, <1>5, <3>1, <3>2, <3>3 DEF AtLeast
    <3>5. clients'[f].maps[m] > procs[c].held[m]
      BY <1>3, <3>1, <3>2, <3>3 DEF AtLeast
    <3> QED BY <1>6, <3>4, <3>5 DEF AtLeast
  <2> QED BY <1>1, <1>8, <2>1, <2>2, <2>3, RepliesSound
<1> QED BY <1>0, <1>1, <1>8, <1>9, <1>10, <1>11, RepliesIInv

\* A number is left for a new map: those in use have one each.
LEMMA IdLeft ==
  ASSUME IInv, NEW k \in 0..MaxMaps, MadeMaps = 1..k, k + 1 \in Maps
  PROVE  Ids \ {idOf[l] : l \in {n \in MadeMaps : InUse(n)}} # {}
<1>1. /\ IsFiniteSet(Ids) /\ MaxMaps <= Cardinality(Ids) /\ MaxMaps \in Nat
  BY ShMemServerAssumption
<1>2. IsFiniteSet(1..k) /\ Cardinality(1..k) = k
  BY <1>1, FS_Interval
<1>3. Cardinality(Ids) \in Nat
  BY <1>1, FS_CardinalityType
<1>4. Cardinality(1..k) < Cardinality(Ids)
  BY <1>1, <1>2, <1>3 DEF Maps
<1>5. SUFFICES ASSUME \A i \in Ids : \E l \in MadeMaps : idOf[l] = i PROVE FALSE
  OBVIOUS
<1> DEFINE of == [i \in Ids |-> CHOOSE l \in MadeMaps : idOf[l] = i]
<1>6. \A i \in Ids : of[i] \in 1..k /\ idOf[of[i]] = i
  BY <1>5
<1>7. of \in [Ids -> 1..k]
  BY <1>6
<1> HIDE DEF of
<1>8. PICK x \in Ids, y \in Ids : x # y /\ of[x] = of[y]
  BY <1>1, <1>2, <1>4, <1>7, FS_PigeonHole
<1> QED BY <1>6, <1>8

LEMMA HandleNewMapIInv ==
  ASSUME IInv, NEW f \in Fds, HandleNewMap(f)
  PROVE  IInv'
<1>0. Types /\ MaxMaps \in Nat
  BY NatFacts DEF IInv
<1>1. PICK k \in 0..MaxMaps : MadeMaps = 1..k
  BY DEF IInv, Made
<1>2. Cardinality(MadeMaps) = k
  <2>1. Cardinality(1..k) = k
    BY <1>0, FS_Interval
  <2> QED BY <1>1, <2>1
<1>3. PICK m : m = Cardinality(MadeMaps) + 1
  OBVIOUS
<1>4. PICK used : used = {idOf[l] : l \in {n \in MadeMaps : InUse(n)}}
  OBVIOUS
<1>5. /\ Handles(f, "NewMap") /\ m \in Maps /\ Map(f, m)
      /\ idOf' = [idOf EXCEPT ![m] = Min(Ids \ used)]
      /\ UNCHANGED <<forking, backlog, procs, pipe, count>>
  BY <1>3, <1>4 DEF HandleNewMap
<1>6. m = k + 1 /\ k + 1 \in Maps
  BY <1>2, <1>3, <1>5
<1>7. PICK id \in Ids \ used : id = Min(Ids \ used)
  <2>1. Ids \ used # {} /\ Ids \ used \subseteq Nat
    BY <1>1, <1>4, <1>6, IdLeft, NatFacts
  <2> QED BY <2>1, SmallestIn
<1>8. /\ idOf' \in [Maps -> Ids \cup {0}] /\ idOf'[m] = id
      /\ \A l \in Maps \ {m} : idOf'[l] = idOf[l]
  BY <1>0, <1>5, <1>7 DEF Types
<1>9. id # 0
  BY ZeroFacts
<1>10. m \notin MadeMaps /\ idOf[m] = 0 /\ MadeMaps \subseteq Maps
  <2>1. m \notin MadeMaps
    BY <1>0, <1>1, <1>6
  <2> QED BY <1>5, <2>1 DEF MadeMaps
<1>11. \A l \in MadeMaps : idOf'[l] = idOf[l]
  BY <1>8, <1>10
<1>12. MadeMaps' = MadeMaps \cup {m}
  BY <1>5, <1>8, <1>9 DEF MadeMaps
<1>13. Made'
  <2>1. MadeMaps' = 1..(k + 1)
    BY <1>0, <1>1, <1>6, <1>12
  <2>2. k + 1 \in 0..MaxMaps
    BY <1>0, <1>6 DEF Maps
  <2> QED BY <2>1, <2>2 DEF Made
<1>14. Newest(m)'
  <2>1. \A l \in Maps : idOf'[l] = id => l \in MadeMaps \cup {m}
    BY <1>8, <1>9 DEF MadeMaps
  <2>2. \A l \in MadeMaps \cup {m} : l <= m
    BY <1>0, <1>1, <1>6
  <2> QED BY <1>8, <1>9, <2>1, <2>2 DEF Newest
<1>15. ASSUME NEW l \in Maps \ {m}, InUse(l) PROVE Newest(l)'
  <2>1. Newest(l)
    BY <1>15 DEF IInv, UsedAreNewest
  <2>2. l \in MadeMaps /\ idOf[l] \in used
    BY <1>4, <1>15, <2>1 DEF MadeMaps, Newest
  <2>3. idOf'[l] = idOf[l] /\ idOf[l] # id
    BY <1>7, <1>8, <2>2
  <2>4. \A j \in Maps : idOf'[j] = idOf[l] => idOf[j] = idOf[l]
    BY <1>8, <2>3
  <2> QED BY <2>1, <2>3, <2>4 DEF Newest
<1> QED BY <1>5, <1>8, <1>11, <1>13, <1>14, <1>15, MapIInv

LEMMA HandleExistingMapIInv ==
  ASSUME IInv, NEW f \in Fds, HandleExistingMap(f)
  PROVE  IInv'
<1>0. Types
  BY DEF IInv
<1>1. /\ Handles(f, "ExistingMap") /\ UNCHANGED <<backlog, procs, pipe, count>>
  BY DEF HandleExistingMap
<1>2. Running
  BY <1>1 DEF Handles, Turn
<1>3. CASE InUse(AllShMems(Arg(f)))
  <2>1. Map(f, AllShMems(Arg(f))) /\ UNCHANGED <<forking, idOf>>
    BY <1>3 DEF HandleExistingMap
  <2>2. \E m \in MadeMaps : idOf[m] = Arg(f)
    BY DEF HandleExistingMap, Known
  <2>3. PICK m \in Maps : m = AllShMems(Arg(f)) /\ Newest(m)
    BY <1>0, <2>2, FoundIsNewest
  <2>4. Newest(m)' /\ Made' /\ \A l \in Maps : InUse(l) => Newest(l)'
    BY <2>1, <2>3 DEF IInv, Made, MadeMaps, UsedAreNewest, Newest
  <2>5. idOf' \in [Maps -> Ids \cup {0}] /\ \A l \in MadeMaps : idOf'[l] = idOf[l]
    BY <1>0, <2>1 DEF Types
  <2> QED BY <1>1, <2>1, <2>3, <2>4, <2>5, MapIInv
<1>4. CASE ~InUse(AllShMems(Arg(f)))
  <2>1. /\ server' = [server EXCEPT !.state = "no map", !.todo = {}, !.reads = 0]
        /\ UNCHANGED <<clients, forking, idOf, conn>>
    BY <1>4 DEF HandleExistingMap, Panic
  <2> QED BY <1>1, <1>2, <2>1, EndsIInv
<1> QED BY <1>3, <1>4

\* A request for a map is refused: what the server keeps does not change, and the client
\* goes on waiting.
LEMMA RefuseIInv ==
  ASSUME IInv, NEW f \in Fds, HandleNewMapFails(f) \/ HandleUnknownMap(f)
  PROVE  IInv'
<1>0. Types
  BY DEF IInv
<1>1. PICK req \in {"NewMap", "ExistingMap"} : Handles(f, req)
  BY DEF HandleNewMapFails, HandleUnknownMap
<1>2. Refuse(f) /\ UNCHANGED <<backlog, procs, pipe>>
  BY DEF HandleNewMapFails, HandleUnknownMap
<1>3. /\ conn' = [conn EXCEPT ![clients[f].conn].req = "none", ![clients[f].conn].arg = 0]
      /\ server' = HandledServer(f)
      /\ count' = [count EXCEPT !.refused = @ \cup {clients[f].conn}]
      /\ UNCHANGED <<clients, forking, idOf>>
  BY <1>2 DEF Refuse
<1>4. req \in Served
  BY DEF Served
<1>5. PICK c \in Procs : Asker(c, f, req) /\ AskerWaits(c, req)
  BY <1>1, <1>4, AskerFound
<1>6. /\ clients[f].conn = c /\ c \in Conns /\ conn[c] \in ConnTypes
      /\ Opened(c) => conn[c].resp = "none"
  BY <1>0, <1>5, ConnFacts DEF Asker, Types
<1>7. count' \in CountTypes /\ count'.lost = count.lost
  BY <1>0, <1>3, <1>6 DEF Types, CountTypes
<1>8. PICK resp \in Responses, val \in Nat : resp = conn[c].resp /\ val = conn[c].val
  BY <1>6 DEF ConnTypes
<1>9. Answer(f, resp, val)
  <2>1. [conn[c] EXCEPT !.req = "none", !.arg = 0, !.resp = resp, !.val = val]
          = [conn[c] EXCEPT !.req = "none", !.arg = 0]
    BY <1>6, <1>8 DEF ConnTypes
  <2>2. conn' = [conn EXCEPT ![c] = [conn[c] EXCEPT !.req = "none", !.arg = 0]]
    BY <1>3, <1>6
  <2> QED BY <1>3, <1>6, <2>1, <2>2 DEF Answer
<1>10. Replies(c, f, resp, val)
  <2>1. /\ DOMAIN clients' = DOMAIN clients /\ clients' \in [DOMAIN clients' -> ClientTypes]
        /\ DOMAIN forking' \subseteq Fds /\ forking' \in [DOMAIN forking' -> Counts]
        /\ idOf' \in [Maps -> Ids \cup {0}]
        /\ \A g \in DOMAIN clients : clients'[g] = clients[g]
    BY <1>0, <1>3 DEF Types
  <2> QED BY <1>2, <1>5, <1>7, <1>9, <2>1, AnswerReplies
<1>11. Replies(c, f, "none", val)
  BY <1>6, <1>8, <1>10 DEF Replies
<1>12. Fits(f, req, "none", val)
  BY DEF Fits
<1>13. Made' /\ UsedAreNewest' /\ \A m \in MadeMaps : idOf'[m] = idOf[m]
  BY <1>3 DEF IInv, Made, MadeMaps, UsedAreNewest, InUse, Kept, Newest
<1>14. ASSUME count'.lost = 0 PROVE Sound'
  <2>1. Sound
    BY <1>7, <1>14 DEF IInv
  <2>2. Copies' /\ \A q \in Procs : ToFork(q)'
    BY <1>3, <1>5, <1>11, <2>1, RepliesCopies
  <2>3. Opened(c) => AtLeast(clients'[f].maps, procs[c].held)
    BY <1>3, <1>5, <2>1, AskerKeeps
  <2> QED BY <1>5, <1>11, <1>13, <2>1, <2>2, <2>3, RepliesSound
<1> QED BY <1>4, <1>5, <1>11, <1>12, <1>13, <1>14, RepliesIInv

LEMMA HandleDeregisterIInv ==
  ASSUME IInv, NEW f \in Fds, HandleDeregister(f)
  PROVE  IInv'
<1>0. Types
  BY DEF IInv
<1>1. Handles(f, "Deregister") /\ UNCHANGED <<forking, idOf, backlog, procs, pipe, count>>
  BY DEF HandleDeregister
<1>2. PICK req \in Served : req = "Deregister"
  BY DEF Served
<1>3. PICK c \in Procs : Asker(c, f, req) /\ AskerWaits(c, req)
  BY <1>1, <1>2, AskerFound
<1>4. f \in DOMAIN clients /\ clients[f].conn = c
  BY <1>3 DEF Asker
<1>5. \A l \in Maps : clients[f].maps[l] \in Nat
  BY <1>0, <1>4 DEF Types, ClientTypes, Counts
<1>6. PICK resp \in Responses : resp = "RefCount"
  BY DEF Responses
<1>7. PICK mine : mine = {m \in MadeMaps : idOf[m] = Arg(f) /\ clients[f].maps[m] > 0}
  OBVIOUS
\* At most one map, the newest of its number, is given back.
<1>8. \E val \in Nat : Answer(f, resp, val) /\
          \/ mine = {} /\ clients' = clients
          \/ \E m \in mine, n \in Nat : Counted(f, m, n) /\ n = clients[f].maps[m] - 1
  <2>1. CASE mine = {}
    BY <1>6, <1>7, <2>1 DEF HandleDeregister
  <2>2. CASE mine # {}
    <3>1. mine \subseteq Maps
      BY <1>7 DEF MadeMaps
    <3>2. PICK m \in mine : m = Max(mine)
      BY <2>2, <3>1, LargestIn
    <3>3. PICK n \in Nat : n = clients[f].maps[m] - 1
      BY <1>5, <1>7, <3>1
    <3>4. PICK left : left = [clients EXCEPT ![f].maps[m] = @ - 1]
      OBVIOUS
    <3>5. PICK val \in Nat : val = IF Kept(left, forking, m) THEN 2 ELSE 1
      OBVIOUS
    <3>6. Answer(f, "RefCount", val) /\ clients' = left
      BY <1>7, <2>2, <3>2, <3>4, <3>5 DEF HandleDeregister
    <3>7. Counted(f, m, n)
      BY <3>3, <3>4, <3>6 DEF Counted
    <3> QED BY <1>6, <3>3, <3>6, <3>7
  <2> QED BY <2>1, <2>2
<1>9. PICK val \in Nat : Answer(f, resp, val) /\
          \/ mine = {} /\ clients' = clients
          \/ \E m \in mine, n \in Nat : Counted(f, m, n) /\ n = clients[f].maps[m] - 1
  BY <1>8
<1>10. \A m \in mine : m \in Maps /\ idOf[m] = Arg(f) /\ clients[f].maps[m] > 0
  BY <1>7 DEF MadeMaps
<1>11. /\ DOMAIN clients' = DOMAIN clients /\ clients' \in [DOMAIN clients' -> ClientTypes]
       /\ \A g \in DOMAIN clients : clients'[g].conn = clients[g].conn
       /\ \A g \in DOMAIN clients \ {f} : clients'[g] = clients[g]
       /\ \/ \A l \in Maps : clients'[f].maps[l] = clients[f].maps[l]
          \/ \E m \in mine : /\ clients'[f].maps[m] = clients[f].maps[m] - 1
                             /\ \A l \in Maps \ {m} : clients'[f].maps[l] = clients[f].maps[l]
  <2>1. CASE clients' = clients
    BY <1>0, <2>1 DEF Types
  <2>2. ASSUME NEW m \in mine, NEW n \in Nat, Counted(f, m, n), n = clients[f].maps[m] - 1
        PROVE  <1>11!:
    <3>1. m \in Maps
      BY <1>10
    <3> QED BY <1>0, <1>4, <2>2, <3>1, Recounts
  <2> QED BY <1>9, <2>1, <2>2
<1>12. /\ DOMAIN forking' \subseteq Fds /\ forking' \in [DOMAIN forking' -> Counts]
       /\ idOf' \in [Maps -> Ids \cup {0}] /\ count' \in CountTypes
  BY <1>0, <1>1 DEF Types
<1>13. Replies(c, f, resp, val)
  BY <1>1, <1>3, <1>9, <1>11, <1>12, AnswerReplies
<1>14. Fits(f, req, resp, val)
  BY <1>2, <1>6 DEF Fits
<1>15. \A l \in Maps : clients'[f].maps[l] <= clients[f].maps[l] /\ clients'[f].maps[l] \in Nat
  BY <1>5, <1>10, <1>11
<1>16. Made' /\ UsedAreNewest' /\ \A m \in MadeMaps : idOf'[m] = idOf[m]
  <2>1. \A l \in Maps, g \in DOMAIN clients' : clients'[g].maps[l] > 0 => clients[g].maps[l] > 0
    BY <1>5, <1>11, <1>15
  <2>2. \A l \in Maps : InUse(l)' => InUse(l)
    BY <1>1, <1>11, <2>1 DEF InUse, Kept
  <2> QED BY <1>1, <2>2 DEF IInv, Made, MadeMaps, UsedAreNewest, Newest
<1>17. ASSUME count'.lost = 0 PROVE Sound'
  <2>1. Sound
    BY <1>1, <1>17 DEF IInv
  <2>2. Copies' /\ \A q \in Procs : ToFork(q)'
    BY <1>1, <1>2, <1>3, <1>13, <2>1, RepliesCopies
  <2>3. ASSUME Opened(c) PROVE AtLeast(clients'[f].maps, procs[c].held)
    <3>1. AtLeast(clients[f].maps, procs[c].held)
      BY <1>2, <1>3, <2>1, <2>3, AskerKeeps
    <3>2. PICK m \in Maps : idOf[m] = Arg(f) /\ clients[f].maps[m] > procs[c].held[m]
      BY <1>2, <1>3, <1>4, <2>1, <2>3, AskerKeeps DEF Arg
    <3>3. \A l \in Maps : procs[c].held[l] \in Nat
      BY <1>0 DEF Types, ProcTypes, Counts
    <3>4. \A l \in mine : l = m
      <4>1. InUse(m)
        BY <1>4, <1>5, <3>2, <3>3 DEF InUse, Kept
      <4>2. \A l \in mine : InUse(l)
        BY <1>4, <1>10 DEF InUse, Kept
      <4>3. Newest(m) /\ \A l \in mine : Newest(l)
        BY <1>10, <4>1, <4>2 DEF IInv, UsedAreNewest
      <4>4. \A l \in mine : l <= m /\ m <= l
        BY <1>10, <3>2, <4>3 DEF Newest
      <4> QED BY <1>10, <4>4 DEF Maps
    <3>5. \A l \in Maps : clients'[f].maps[l] >= procs[c].held[l]
      BY <1>5, <1>11, <3>1, <3>2, <3>3, <3>4 DEF AtLeast
    <3> QED BY <3>5 DEF AtLeast
  <2> QED BY <1>3, <1>6, <1>13, <1>16, <2>1, <2>2, <2>3, RepliesSound
<1> QED BY <1>3, <1>13, <1>14, <1>16, <1>17, RepliesIInv

\* A copy is made for the child to come: no other child waits for one of this number.
LEMMA HandlePreForkIInv ==
  ASSUME IInv, NEW f \in Fds, HandlePreFork(f)
  PROVE  IInv'
<1>0. Types
  BY DEF IInv
<1>1. /\ Handles(f, "PreFork") /\ Answer(f, "Id", f)
      /\ forking' = With(forking, f, clients[f].maps)
      /\ count' = [count EXCEPT !.lost = IF Replaces(f) THEN @ + 1 ELSE @]
      /\ UNCHANGED <<clients, idOf, backlog, procs, pipe>>
  BY DEF HandlePreFork
<1>2. PICK req \in Served : req = "PreFork"
  BY DEF Served
<1>3. PICK c \in Procs : Asker(c, f, req) /\ AskerWaits(c, req)
  BY <1>1, <1>2, AskerFound
<1>4. f \in DOMAIN clients /\ clients[f].conn = c /\ conn[c].fd = f /\ Running
  BY <1>3 DEF Asker
<1>5. PICK resp \in Responses, val \in Nat : resp = "Id" /\ val = f
  BY NatFacts DEF Responses
<1>6. /\ DOMAIN forking' = DOMAIN forking \cup {f} /\ forking'[f] = clients[f].maps
      /\ \A g \in DOMAIN forking \ {f} : forking'[g] = forking[g]
      /\ forking' \in [DOMAIN forking' -> Counts]
  <2>1. clients[f].maps \in Counts
    BY <1>0, <1>4 DEF Types, ClientTypes
  <2> QED BY <1>0, <1>1, <2>1 DEF With, Types
<1>7. /\ count' \in CountTypes
      /\ count'.lost = 0 => ~Replaces(f) /\ count.lost = 0
  <2>1. PICK n \in Nat : n = IF Replaces(f) THEN count.lost + 1 ELSE count.lost
    BY <1>0 DEF Types, CountTypes
  <2>2. count' = [count EXCEPT !.lost = n]
    BY <1>1, <2>1
  <2>3. count' \in CountTypes /\ count'.lost = n
    BY <1>0, <2>2 DEF Types, CountTypes
  <2>4. count.lost \in Nat
    BY <1>0 DEF Types, CountTypes
  <2> QED BY <2>1, <2>3, <2>4
<1>8. /\ clients' \in [DOMAIN clients' -> ClientTypes] /\ DOMAIN forking' \subseteq Fds
      /\ idOf' \in [Maps -> Ids \cup {0}]
  BY <1>0, <1>1, <1>6 DEF Types
<1>9. Replies(c, f, resp, val)
  BY <1>1, <1>3, <1>5, <1>6, <1>7, <1>8, AnswerReplies
<1>10. Fits(f, req, resp, val)
  BY <1>2, <1>5 DEF Fits
<1>11. Made' /\ UsedAreNewest' /\ \A m \in MadeMaps : idOf'[m] = idOf[m]
  <2>1. \A m \in Maps : InUse(m)' => InUse(m)
    BY <1>1, <1>4, <1>6 DEF InUse, Kept
  <2> QED BY <1>1, <2>1 DEF IInv, Made, MadeMaps, UsedAreNewest, Newest
<1>12. ASSUME count'.lost = 0 PROVE Sound'
  <2>1. Sound /\ ~Replaces(f)
    BY <1>7, <1>12 DEF IInv
  \* Its last child has got its own, and a dead one has none.
  <2>2. \A d \in Procs : ~Expects(d, f)
    <3>1. SUFFICES ASSUME NEW d \in Procs, Expects(d, f), d = procs[c].child PROVE FALSE
      BY <1>4, <2>1 DEF Replaces
    <3>2. Forked(c) /\ EmptyHanded(c) /\ Forked(d) /\ d # 0
      BY ZeroFacts DEF IInv
    <3>3. procs[c].pc # "dead"
      BY <1>4, <3>1, <3>2 DEF EmptyHanded, Running
    <3>4. Opened(c)
      BY <1>3, <3>3 DEF Asker, Opened, Live, Before
    <3>5. pipe[d].child_done
      BY <1>2, <1>3, <3>1, <3>2, <3>3, <3>4 DEF Forked, AskerWaits
    <3> QED BY <3>1, <3>2, <3>5 DEF Forked, Expects, Before, Greeting
  <2>3. /\ \A d \in Procs, g \in Fds : Expects(d, g)' => Expects(d, g) /\ g # f
        /\ \A d \in Procs : Live(d)' => Live(d) /\ procs'[d].held = procs[d].held
    BY <1>3, <1>9, <2>2, RepliesExpects
  <2>4. Copies'
    <3>1. ASSUME NEW d \in Procs, NEW g \in Fds, Expects(d, g)'
          PROVE  g \in DOMAIN forking' /\ (Live(d)' => AtLeast(forking'[g], procs'[d].held))
      <4>1. Expects(d, g) /\ g # f /\ (Live(d)' => Live(d) /\ procs'[d].held = procs[d].held)
        BY <2>3, <3>1
      <4>2. g \in DOMAIN forking /\ (Live(d) => AtLeast(forking[g], procs[d].held))
        BY <2>1, <4>1 DEF Sound, Copies
      <4> QED BY <1>6, <4>1, <4>2
    <3>2. \A d, e \in Procs, g \in Fds : Expects(d, g)' /\ Expects(e, g)' => d = e
      BY <2>1, <2>3 DEF Sound, Copies
    <3> QED BY <3>1, <3>2 DEF Copies, AtLeast
  <2>5. ToFork(c)'
    <3>1. SUFFICES ASSUME Opened(c) PROVE ToFork(c)'
      BY <1>1, <1>3 DEF ToFork, Asker, Opened, Live, Before
    <3>2. procs[c].id = f
      BY <1>2, <1>3, <1>4, <3>1 DEF IInv, Connected, AskerWaits, Greeting
    <3>3. AtLeast(clients[f].maps, procs[c].held)
      BY <1>2, <1>3, <2>1, <3>1, AskerKeeps
    <3>4. \A d \in Procs : ~Expects(d, f)'
      BY <2>3
    <3> QED BY <1>1, <1>6, <3>2, <3>3, <3>4 DEF ToFork, AtLeast
  <2>6. ASSUME NEW q \in Procs, q # c PROVE ToFork(q)'
    <3>1. ToFork(q) /\ procs'[q] = procs[q] /\ conn'[q] = conn[q]
      BY <1>1, <1>9, <2>1, <2>6, ConnFacts DEF Sound, Replies
    <3>2. CASE procs[q].pc \in {"fork", "wait_prefork"}
      <4>1. Opened(q) /\ ~Greeting(q) /\ Connected(q)
        BY <3>2 DEF IInv, Opened, Live, Before, Greeting
      <4>2. PICK g \in Fds : g = procs[q].id /\ g # f
        BY <1>0, <1>4, <2>6, <4>1, ConnFacts DEF Connected, Types, ConnTypes
      <4>3. \A d \in Procs : Expects(d, g)' => Expects(d, g)
        BY <2>3
      <4> QED BY <1>6, <3>1, <4>2, <4>3 DEF ToFork, AtLeast
    <3>3. CASE procs[q].pc \notin {"fork", "wait_prefork"}
      BY <3>1, <3>3 DEF ToFork
    <3> QED BY <3>2, <3>3
  <2>7. Opened(c) => AtLeast(clients'[f].maps, procs[c].held)
    BY <1>1, <1>2, <1>3, <2>1, AskerKeeps
  <2>8. \A q \in Procs : ToFork(q)'
    BY <2>5, <2>6
  <2> QED BY <1>3, <1>5, <1>9, <1>11, <2>1, <2>4, <2>7, <2>8, RepliesSound
<1> QED BY <1>3, <1>9, <1>10, <1>11, <1>12, RepliesIInv

\* A child takes its copy over: it is there, and it is the one that was made for it.
LEMMA HandlePostForkChildHelloIInv ==
  ASSUME IInv, NEW f \in Fds, HandlePostForkChildHello(f)
  PROVE  IInv'
<1>0. Types
  BY DEF IInv
<1>1. Handles(f, "PostForkChildHello") /\ UNCHANGED <<backlog, procs, pipe, count>>
  BY DEF HandlePostForkChildHello
<1>2. PICK req \in Served : req = "PostForkChildHello"
  BY DEF Served
<1>3. PICK c \in Procs : Asker(c, f, req) /\ AskerWaits(c, req)
  BY <1>1, <1>2, AskerFound
<1>4. /\ f \in DOMAIN clients /\ clients[f].conn = c /\ conn[c].fd = f /\ Running
      /\ conn[c].req = "PostForkChildHello"
  BY <1>2, <1>3 DEF Asker
<1>5. PICK g \in Fds : g = Arg(f) /\ g = conn[c].arg
  BY <1>4 DEF IInv, Forked, Arg
<1>6. Expects(c, g)
  BY <1>4, <1>5 DEF Expects
<1>7. CASE g \notin DOMAIN forking
  <2>1. /\ server' = [server EXCEPT !.state = "no copy", !.todo = {}, !.reads = 0]
        /\ UNCHANGED <<clients, forking, idOf, conn>>
    BY <1>5, <1>7 DEF HandlePostForkChildHello, Panic
  <2>2. count.lost # 0
    BY <1>6, <1>7 DEF IInv, Sound, Copies
  <2> QED BY <1>1, <1>4, <2>1, <2>2, EndsIInv
<1>8. CASE g \in DOMAIN forking
  <2>1. /\ clients' = [clients EXCEPT ![f].maps = forking[g]]
        /\ forking' = Without(forking, g) /\ Answer(f, "Id", f) /\ UNCHANGED idOf
    BY <1>5, <1>8 DEF HandlePostForkChildHello
  <2>2. forking[g] \in Counts
    BY <1>0, <1>8 DEF Types
  <2>3. /\ DOMAIN clients' = DOMAIN clients /\ clients' \in [DOMAIN clients' -> ClientTypes]
        /\ \A h \in DOMAIN clients : clients'[h].conn = clients[h].conn
        /\ \A h \in DOMAIN clients \ {f} : clients'[h] = clients[h]
        /\ clients'[f].maps = forking[g]
    <3>1. PICK r : r = [clients[f] EXCEPT !.maps = forking[g]]
      OBVIOUS
    <3>2. clients[f] \in ClientTypes
      BY <1>0, <1>4 DEF Types
    <3>3. r \in ClientTypes /\ r.maps = forking[g] /\ r.conn = clients[f].conn
      BY <2>2, <3>1, <3>2 DEF ClientTypes
    <3>4. clients' = [clients EXCEPT ![f] = r]
      BY <2>1, <3>1
    <3>5. /\ DOMAIN clients' = DOMAIN clients /\ clients'[f] = r
          /\ \A h \in DOMAIN clients \ {f} : clients'[h] = clients[h]
      BY <1>0, <1>4, <3>4 DEF Types
    <3>6. clients' \in [DOMAIN clients' -> ClientTypes]
      BY <1>0, <3>3, <3>4, <3>5 DEF Types
    <3> QED BY <3>3, <3>5, <3>6
  <2>4. /\ DOMAIN forking' = DOMAIN forking \ {g}
        /\ \A h \in DOMAIN forking' : forking'[h] = forking[h]
        /\ forking' \in [DOMAIN forking' -> Counts] /\ DOMAIN forking' \subseteq Fds
    BY <1>0, <2>1 DEF Without, Types
  <2>5. PICK resp \in Responses, val \in Nat : resp = "Id" /\ val = f
    BY NatFacts DEF Responses
  <2>6. idOf' \in [Maps -> Ids \cup {0}] /\ count' \in CountTypes
    BY <1>0, <1>1, <2>1 DEF Types
  <2>7. Replies(c, f, resp, val)
    BY <1>1, <1>3, <2>1, <2>3, <2>4, <2>5, <2>6, AnswerReplies
  <2>8. Fits(f, req, resp, val)
    BY <1>2, <2>5 DEF Fits
  <2>9. Made' /\ UsedAreNewest' /\ \A m \in MadeMaps : idOf'[m] = idOf[m]
    <3>1. \A m \in Maps : InUse(m)' => InUse(m)
      BY <1>8, <2>3, <2>4 DEF InUse, Kept
    <3> QED BY <2>1, <3>1 DEF IInv, Made, MadeMaps, UsedAreNewest, Newest
  <2>10. ASSUME count'.lost = 0 PROVE Sound'
    <3>1. Sound
      BY <1>1, <2>10 DEF IInv
    <3>2. \A d \in Procs : Expects(d, g) => d = c
      BY <1>6, <3>1 DEF Sound, Copies
    <3>3. /\ \A d \in Procs, h \in Fds : Expects(d, h)' => Expects(d, h) /\ h # g
          /\ \A d \in Procs : Live(d)' => Live(d) /\ procs'[d].held = procs[d].held
      BY <1>3, <2>7, <3>2, RepliesExpects
    <3>4. Copies'
      <4>1. ASSUME NEW d \in Procs, NEW h \in Fds, Expects(d, h)'
            PROVE  h \in DOMAIN forking' /\ (Live(d)' => AtLeast(forking'[h], procs'[d].held))
        <5>1. Expects(d, h) /\ h # g /\ (Live(d)' => Live(d) /\ procs'[d].held = procs[d].held)
          BY <3>3, <4>1
        <5>2. h \in DOMAIN forking /\ (Live(d) => AtLeast(forking[h], procs[d].held))
          BY <3>1, <5>1 DEF Sound, Copies
        <5> QED BY <2>4, <5>1, <5>2
      <4>2. \A d, e \in Procs, h \in Fds : Expects(d, h)' /\ Expects(e, h)' => d = e
        BY <3>1, <3>3 DEF Sound, Copies
      <4> QED BY <4>1, <4>2 DEF Copies, AtLeast
    <3>5. ToFork(c)'
      BY <1>1, <1>2, <1>3 DEF ToFork, AskerWaits, Asker, Opened, Live, Before
    <3>6. ASSUME NEW q \in Procs, q # c PROVE ToFork(q)'
      <4>1. ToFork(q) /\ procs'[q] = procs[q] /\ conn'[q] = conn[q]
        BY <1>1, <2>7, <3>1, <3>6, ConnFacts DEF Sound, Replies
      <4>2. CASE procs[q].pc \in {"fork", "wait_prefork"}
        <5>1. Opened(q) /\ ~Greeting(q) /\ Connected(q)
          BY <4>2 DEF IInv, Opened, Live, Before, Greeting
        <5>2. PICK h \in Fds : h = procs[q].id
          BY <1>0, <5>1, ConnFacts DEF Connected, Types, ConnTypes
        <5>3. \A d \in Procs : Expects(d, h)' => Expects(d, h)
          BY <3>3
        <5>4. \/ procs[q].pc = "fork"
              \/ procs[q].pc = "wait_prefork" /\ conn[q].req = "none"
              \/ procs[q].pc = "wait_prefork" /\ conn[q].req # "none"
          BY <4>2
        <5>5. CASE procs[q].pc = "wait_prefork" /\ conn[q].req # "none"
          BY <4>1, <5>5 DEF ToFork
        <5>6. CASE procs[q].pc = "fork" \/ (procs[q].pc = "wait_prefork" /\ conn[q].req = "none")
          <6>1. /\ h \in DOMAIN forking /\ AtLeast(forking[h], procs[q].held)
                /\ \A d \in Procs : ~Expects(d, h)
            BY <4>1, <5>2, <5>6 DEF ToFork
          <6>2. h # g
            BY <1>6, <6>1
          <6>3. h \in DOMAIN forking' /\ forking'[h] = forking[h]
            BY <2>4, <6>1, <6>2
          <6> QED BY <4>1, <5>2, <5>3, <6>1, <6>3 DEF ToFork, AtLeast
        <5> QED BY <5>4, <5>5, <5>6
      <4>3. CASE procs[q].pc \notin {"fork", "wait_prefork"}
        BY <4>1, <4>3 DEF ToFork
      <4> QED BY <4>2, <4>3
    <3>7. Opened(c) => AtLeast(clients'[f].maps, procs[c].held)
      BY <1>6, <2>3, <3>1 DEF Sound, Copies, Opened
    <3>8. \A q \in Procs : ToFork(q)'
      BY <3>5, <3>6
    <3> QED BY <1>3, <2>5, <2>7, <2>9, <3>1, <3>4, <3>7, <3>8, RepliesSound
  <2> QED BY <1>3, <2>7, <2>8, <2>9, <2>10, RepliesIInv
<1> QED BY <1>7, <1>8

LEMMA HandleExitIInv ==
  ASSUME IInv, NEW f \in Fds, HandleExit(f)
  PROVE  IInv'
<1>1. /\ server' = [server EXCEPT !.state = "stopped", !.todo = {}, !.reads = 0]
      /\ UNCHANGED <<clients, forking, idOf, conn, backlog, procs, pipe, count>> /\ Running
  BY DEF HandleExit, Handles, Turn
<1> QED BY <1>1, EndsIInv

-----------------------------------------------------------------------------
(* The service.                                                            *)

LEMMA InitIInv == Init => IInv
<1> SUFFICES ASSUME Init PROVE IInv
  OBVIOUS
<1>1. /\ server = [state |-> "none", owner |-> 0, todo |-> {}, reads |-> 0]
      /\ clients = <<>> /\ forking = <<>> /\ idOf = NoMaps
      /\ conn = [c \in Conns |-> NoConn] /\ backlog = <<>>
      /\ pipe = [p \in Procs |-> [parent_done |-> FALSE, child_done |-> FALSE]]
      /\ count = [calls |-> 0, kills |-> 0, lost |-> 0, refused |-> {}]
  BY DEF Init
<1>2. /\ server.state = "none" /\ server.owner = 0 /\ server.todo = {} /\ server.reads = 0
      /\ server \in ServerTypes
  BY <1>1 DEF ServerTypes
<1>3. DOMAIN clients = {} /\ DOMAIN forking = {} /\ Len(backlog) = 0
  BY <1>1
<1>4. \A c \in Conns : conn[c] = NoConn
  BY <1>1
<1>5. ASSUME NEW p \in Procs
      PROVE  /\ procs[p] \in ProcTypes /\ procs[p].pc \in {"start", "unborn"}
             /\ procs[p].stream = 0 /\ procs[p].id = 0 /\ procs[p].held = NoMaps
             /\ procs[p].child = 0 /\ pipe[p].child_done = FALSE /\ conn[p] = NoConn
  <2>1. PICK pc \in {"start", "unborn"} : pc = IF p \in First THEN "start" ELSE "unborn"
    OBVIOUS
  <2>2. procs[p] = [pc |-> pc, stream |-> 0, id |-> 0, held |-> NoMaps, child |-> 0]
    BY <2>1 DEF Init, NoProc
  <2>3. procs[p] \in ProcTypes
    <3>1. pc \in Pcs
      BY DEF Pcs
    <3> QED BY <2>2, <3>1, NoMapsFacts DEF ProcTypes
  <2>4. /\ procs[p].pc = pc /\ procs[p].stream = 0 /\ procs[p].id = 0
        /\ procs[p].held = NoMaps /\ procs[p].child = 0
    BY <2>2
  <2>5. pipe[p].child_done = FALSE /\ conn[p] = NoConn
    BY <1>1, <1>4, ConnFacts
  <2> QED BY <2>3, <2>4, <2>5
<1>6. Types
  <2>1. procs \in [Procs -> ProcTypes]
    BY <1>5 DEF Init
  <2>2. conn \in [Conns -> ConnTypes]
    BY <1>1, NoConnFacts
  <2>3. idOf \in [Maps -> Ids \cup {0}]
    BY <1>1 DEF NoMaps
  <2>4. /\ DOMAIN clients \subseteq Fds /\ clients \in [DOMAIN clients -> ClientTypes]
        /\ DOMAIN forking \subseteq Fds /\ forking \in [DOMAIN forking -> Counts]
        /\ backlog \in Seq(Conns)
    BY <1>1
  <2>5. /\ pipe \in [Procs -> [parent_done : BOOLEAN, child_done : BOOLEAN]]
        /\ count \in CountTypes
    BY <1>1 DEF CountTypes
  <2> QED BY <1>2, <2>1, <2>2, <2>3, <2>4, <2>5 DEF Types
<1>7. Table
  <2>1. \A i \in 1..Len(backlog) : FALSE
    BY <1>3
  <2> QED BY <1>3, <1>5, <2>1 DEF Table
<1>8. Owner
  <2>1. \A i \in 1..Len(backlog) : FALSE
    BY <1>3
  <2>2. conn[Exiter] = NoConn /\ conn[Exiter].req = "none"
    BY <1>4, ConnFacts, NoConnFacts
  <2>3. \A p \in Procs : procs[p].pc # "join"
    BY <1>5
  <2> QED BY <1>2, <1>3, <2>1, <2>2, <2>3 DEF Owner
<1>9. Reported
  BY <1>2 DEF Reported
<1>10. ASSUME NEW p \in Procs
       PROVE  Connected(p) /\ EmptyHanded(p) /\ Talking(p) /\ Forked(p)
  <2>1. Connected(p) /\ EmptyHanded(p) /\ Talking(p)
    BY <1>5 DEF Connected, EmptyHanded, Talking, Opened, Live, Before
  <2>2. Forked(p)
    BY <1>5, NoConnFacts DEF Forked
  <2> QED BY <2>1, <2>2
<1>11. MadeMaps = {} /\ \A m \in Maps : ~InUse(m)
  <2>1. \A m \in Maps : idOf[m] = 0
    BY <1>1, NoMapsFacts
  <2> QED BY <1>3, <2>1 DEF MadeMaps, InUse, Kept
<1>12. Made /\ UsedAreNewest
  <2>1. MadeMaps = 1..0 /\ 0 \in 0..MaxMaps
    BY <1>11, NatFacts
  <2>2. Made
    BY <2>1, Zenon DEF Made
  <2>3. UsedAreNewest
    BY <1>11 DEF UsedAreNewest
  <2> QED BY <2>2, <2>3
<1>14. Sound
  <2>1. \A c \in Procs, f \in Fds : ~Expects(c, f)
    BY <1>5, NoConnFacts DEF Expects
  <2>2. Copies
    BY <2>1 DEF Copies
  <2>3. \A p \in Procs : ToFork(p) /\ Keeps(p)
    BY <1>5 DEF ToFork, Keeps, Opened, Live, Before
  <2> QED BY <1>2, <2>2, <2>3 DEF Sound
<1> QED BY <1>6, <1>7, <1>8, <1>9, <1>10, <1>12, <1>14 DEF IInv

LEMMA ServerIInv ==
  ASSUME IInv, Server
  PROVE  IInv'
<1>1. CASE Poll \/ EndOfStream
  BY <1>1, PollIInv, EndOfStreamIInv
<1>2. ASSUME NEW e \in server.todo, Hup(e) \/ Accept(e) PROVE IInv'
  BY <1>2, HupIInv, AcceptIInv
<1>3. ASSUME NEW f \in Fds, Serve(f) PROVE IInv'
  BY <1>3, HandleHelloIInv, HandlePreForkIInv, HandlePostForkChildHelloIInv,
     HandleNewMapIInv, HandleExistingMapIInv, RefuseIInv, HandleDeregisterIInv, HandleExitIInv
     DEF Serve
<1> QED BY <1>1, <1>2, <1>3 DEF Server

LEMMA ProcIInv ==
  ASSUME IInv, NEW p \in Procs, Begin(p) \/ Follow(p)
  PROVE  IInv'
<1>1. CASE Begin(p)
  BY <1>1, CallsIInv, StopServiceIInv, KillIInv DEF Begin
<1>2. CASE Follow(p)
  BY <1>2, StartIInv, ConnectIInv, HelloIInv, ReceiveIInv, ForkIInv, ForkStepsIInv,
     AwaitParentDoneIInv, JoinedIInv DEF Follow
<1> QED BY <1>1, <1>2

LEMMA StutterIInv ==
  ASSUME IInv, UNCHANGED vars
  PROVE  IInv'
<1>1. /\ UNCHANGED <<server, clients, forking, idOf, conn, backlog, procs, pipe, count>>
  BY DEF vars
<1>2. Types' /\ Table' /\ Owner' /\ Reported'
  BY <1>1 DEF IInv, Types, Table, Before, Owner, Reported
<1>3. Step({})
  BY <1>1 DEF Step, Same
<1>5. ASSUME Sound PROVE Copies' /\ \A q \in Procs : ToFork(q)'
  <2>1. \A c \in Procs, f \in Fds : Expects(c, f)' => Expects(c, f)
    BY <1>1 DEF Expects
  <2>2. \A c \in Procs : Live(c)' => Live(c)
    BY <1>1 DEF Live
  <2> QED BY <1>1, <1>5, <2>1, <2>2, StepCopies
<1> QED BY <1>2, <1>3, <1>5, StepIInv

LEMMA AlwaysIInv == Spec => []IInv
<1>1. Init => IInv
  BY InitIInv
<1>2. IInv /\ [Next]_vars => IInv'
  BY ServerIInv, ProcIInv, StutterIInv DEF Next
<1> QED BY <1>1, <1>2, PTL DEF Spec

\* As long as no copy for a child was replaced before the child came for it
\* (HandlePreFork of unix_shmem_server.rs, whose forking_clients is keyed by the number of
\* the parent), the server keeps every map as often as a process has it, for that process
\* and under its number; and the child finds the copy made for it. For any number of
\* processes, maps, calls, forks and kills.
THEOREM HeldAlwaysKept == Spec => []HeldMapsAreKept
<1>1. IInv => HeldMapsAreKept
  <2> SUFFICES ASSUME IInv, count.lost = 0
               PROVE  /\ server.state # "no copy"
                      /\ Running => \A p \in Procs, m \in Maps : procs[p].held[m] > 0 =>
                            KeptFor(p)[m] >= procs[p].held[m] /\ AllShMems(idOf[m]) = m
    BY DEF HeldMapsAreKept
  <2>0. Types /\ Sound /\ UsedAreNewest
    BY DEF IInv
  <2>1. ASSUME Running, NEW p \in Procs, NEW m \in Maps, procs[p].held[m] > 0
        PROVE  KeptFor(p)[m] >= procs[p].held[m] /\ AllShMems(idOf[m]) = m
    <3>0. /\ Connected(p) /\ EmptyHanded(p) /\ Talking(p) /\ Keeps(p) /\ Copies
          /\ procs[p] \in ProcTypes
      BY <2>0 DEF IInv, Sound, Types
    <3>1. procs[p].id # 0 /\ procs[p].id \in Fds /\ procs[p].pc \notin {"unborn", "start", "dead"}
      BY <2>1, <3>0, NoMapsFacts DEF EmptyHanded, Running, ProcTypes
    <3>2. KeptFor(p)[m] >= procs[p].held[m] /\ InUse(m)
      <4>0. procs[p].held[m] \in Nat
        BY <3>0 DEF ProcTypes, Counts
      <4>1. CASE Unregistered(p)
        <5>1. Expects(p, procs[p].id)
          BY <3>0, <4>1 DEF Unregistered, Expects, Talking, Asking, Answered
        <5>2. /\ procs[p].id \in DOMAIN forking
              /\ AtLeast(forking[procs[p].id], procs[p].held)
          BY <3>0, <3>1, <5>1 DEF Copies, Live
        <5>3. forking[procs[p].id][m] \in Nat
          BY <2>0, <5>2 DEF Types, Counts
        <5>4. KeptFor(p) = forking[procs[p].id]
          BY <4>1, <5>2 DEF KeptFor
        <5> QED BY <2>1, <4>0, <5>2, <5>3, <5>4 DEF AtLeast, InUse, Kept
      <4>2. CASE ~Unregistered(p)
        <5>1. Opened(p)
          BY <3>1, <4>2 DEF Unregistered, Opened, Live, Before
        <5>2. conn[p].fd # 0
          BY <3>0, <3>1, <4>2, <5>1 DEF Connected, Greeting, Unregistered, Talking, Asking, Answered
        <5>3. conn[p].fd \in DOMAIN clients /\ clients[conn[p].fd].conn = p
          BY <3>0, <5>1, <5>2 DEF Connected
        <5>4. AtLeast(clients[conn[p].fd].maps, procs[p].held)
          BY <3>0, <4>2, <5>1, <5>2 DEF Keeps
        <5>5. clients[conn[p].fd].maps[m] \in Nat
          BY <2>0, <5>3 DEF Types, ClientTypes, Counts
        <5>6. KeptFor(p) = clients[conn[p].fd].maps
          BY <4>2, <5>3 DEF KeptFor
        <5> QED BY <2>1, <4>0, <5>3, <5>4, <5>5, <5>6 DEF AtLeast, InUse, Kept
      <4> QED BY <4>1, <4>2
    <3>3. Newest(m)
      BY <2>0, <3>2 DEF UsedAreNewest
    <3> QED BY <2>0, <3>2, <3>3, NewestFound
  <2> QED BY <2>0, <2>1 DEF Sound
<1> QED BY <1>1, AlwaysIInv, PTL
=============================================================================

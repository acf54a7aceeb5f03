-------------------------- MODULE LlmpBrokerProofs --------------------------
(***************************************************************************)
(* Proofs about LlmpBroker, for any number of clients and events, both     *)
(* loops and every backlog: the types, the order of what is forwarded, and *)
(* that a client is removed only when it is done.                          *)
(***************************************************************************)
EXTENDS LlmpBroker, FiniteSetTheorems, SequenceTheorems, WellFoundedInduction, TLAPS

Receivers == [id : Nat, from : Senders, old : BOOLEAN]

\* Messages: what the listener sends, what client c sends, and what is broadcast
Announcements == [kind : {"NEW_SHM_CLIENT"}, client : Clients]
EventsOf(c) == [kind : {"EVENT"}, client : {c}, n : Nat]
LastWordsOf(c) == [kind : {"EXITING", "SLOW_RECEIVER_PANIC"}, client : {c}]
Broadcasts == [kind : {"EVENT"}, client : Clients, n : Nat]
                \cup [kind : {"EXITING"}, client : {Listener}]

ChanTypes ==
    /\ DOMAIN chan = Senders
    /\ chan[Listener] \in Seq(Announcements)
    /\ \A c \in Clients : chan[c] \in Seq(EventsOf(c) \cup LastWordsOf(c))

ClientRecs == [pc : {"new", "running", "exited", "dead", "told"}, id : Nat,
               sent : 0..MaxMsgs, read : Nat]
ClTypes == cl \in [Clients -> ClientRecs] /\ \A c \in Clients : cl[c].read <= Len(out)

\* Types of what the broker keeps, with what TypeOK leaves out
Types ==
    /\ llmp_clients \in Seq(Receivers)
    /\ num_clients_total \in Nat \ {0}
    /\ clients_to_remove \in Seq(Nat)
    /\ bpc \in {"loop", "client", "recv", "quit", "panicked"}
    /\ once \in [i : Nat, n : Nat, client_id : Nat, next_id : Nat, new : BOOLEAN]
    /\ current_client_id \in Nat
    /\ ClTypes
    /\ clash \in BOOLEAN
    /\ out \in Seq(Broadcasts)
    /\ ChanTypes

\* The clients that a listener has accepted
Joined == {c \in Clients : cl[c].pc # "new"}

\* A client is announced once and registered at most once: it is either still in the
\* listener's channel or at one place of llmp_clients.
Registered ==
    /\ \A k \in 1..Len(llmp_clients) : llmp_clients[k].from \in Joined \cup {Listener}
    /\ \A j, k \in 1..Len(llmp_clients) : llmp_clients[j].from = llmp_clients[k].from => j = k
    /\ \A j \in 1..Len(chan[Listener]) : chan[Listener][j].client \in Joined
    /\ \A j, k \in 1..Len(chan[Listener]) :
          chan[Listener][j].client = chan[Listener][k].client => j = k
    /\ \A j \in 1..Len(chan[Listener]), k \in 1..Len(llmp_clients) :
          llmp_clients[k].from # chan[Listener][j].client

\* Ids are given out one by one, and a client is counted when its announcement is read.
Counted ==
    /\ current_client_id = Cardinality(Joined) + 1
    /\ num_clients_total + Len(chan[Listener]) <= current_client_id

\* Where the broker is in once()
InOnce ==
    /\ bpc \in {"client", "recv"} => once.i >= 1 /\ once.n <= Len(llmp_clients)
    /\ bpc = "recv" => once.i <= once.n /\ once.client_id = llmp_clients[once.i].id
    /\ bpc \in {"loop", "quit"} => clients_to_remove = << >>
    /\ \A k \in 1..Len(clients_to_remove) :
          /\ clients_to_remove[k] \in 1..Len(llmp_clients)
          /\ bpc \in {"client", "recv"} => clients_to_remove[k] < once.i
    /\ \A j, k \in 1..Len(clients_to_remove) :
          j < k => clients_to_remove[j] < clients_to_remove[k]

\* Unless ids clashed, a client that is to be removed has nothing to say any more.
Done(r) == r.old \/ (chan[r.from] # << >> /\ Head(chan[r.from]).kind = "EXITING")
Removals ==
    ~clash =>
        /\ \A j, k \in 1..Len(llmp_clients) : llmp_clients[j].id = llmp_clients[k].id => j = k
        /\ \A k \in 1..Len(clients_to_remove) : Done(llmp_clients[clients_to_remove[k]])

\* The events of a client, from the broadcast map through its channel to its counter,
\* ascend.
EventsAscend(c) ==
    /\ \A k \in 1..Len(chan[c]) : chan[c][k].kind = "EVENT" => chan[c][k].n <= cl[c].sent
    /\ \A j, k \in 1..Len(chan[c]) :
          j < k /\ chan[c][j].kind = "EVENT" /\ chan[c][k].kind = "EVENT"
              => chan[c][j].n < chan[c][k].n
    /\ \A j \in 1..Len(out) : out[j].kind = "EVENT" /\ out[j].client = c =>
          /\ out[j].n <= cl[c].sent
          /\ \A k \in 1..Len(chan[c]) : chan[c][k].kind = "EVENT" => out[j].n < chan[c][k].n

IInv ==
    /\ Types /\ Registered /\ Counted /\ InOnce /\ Removals
    /\ (\A c \in Clients : EventsAscend(c))
    /\ ForwardedInOrder

-----------------------------------------------------------------------------
(* Sets of numbers, and the operators of LlmpBroker *)

\* Every set of natural numbers that has an element has a smallest one.
LEMMA SmallestIn ==
  ASSUME NEW S, S \subseteq Nat, S # {}
  PROVE  \E n \in S : \A m \in S : n <= m
<1>1. PICK n \in S : \A m \in S : <<m, n>> \notin OpToRel(<, Nat)
  BY NatLessThanWellFounded, WFMin
<1>2. \A m \in S : ~(m < n)
  BY <1>1 DEF OpToRel
<1> QED BY <1>2

\* r has the elements of s at the positions in kept, each of them once.
Leaves(r, s, kept) ==
    /\ \A i \in kept : \E k \in 1..Len(r) : r[k] = s[i]
    /\ \E at \in [1..Len(r) -> kept] :
          /\ \A k \in 1..Len(r) : r[k] = s[at[k]]
          /\ \A j, k \in 1..Len(r) : at[j] = at[k] => j = k

\* AtPositions has one element for each position, and none but those.
LEMMA AtPositionsFacts ==
  ASSUME NEW T, NEW s \in Seq(T), NEW kept, kept \subseteq DOMAIN s
  PROVE  AtPositions(s, kept) \in Seq(T) /\ Leaves(AtPositions(s, kept), s, kept)
<1> DEFINE rank == [i \in kept |-> Cardinality({j \in kept : j <= i})]
           n == Cardinality(kept)
<1>0. DOMAIN s = 1..Len(s) /\ Len(s) \in Nat /\ \A i \in DOMAIN s : s[i] \in T
  BY LenProperties, ElementOfSeq
<1>1. IsFiniteSet(kept) /\ n \in Nat
  <2>1. IsFiniteSet(1..Len(s))
    BY <1>0, FS_Interval
  <2>2. kept \in SUBSET (1..Len(s))
    BY <1>0
  <2>3. IsFiniteSet(kept)
    BY <2>1, <2>2, FS_Subset
  <2> QED BY <2>3, FS_CardinalityType
<1>2. ASSUME NEW i \in kept
      PROVE  rank[i] \in 1..n
  <2> DEFINE below == {j \in kept : j <= i}
  <2>1. below \in SUBSET kept /\ i \in below
    BY <1>0
  <2>2. IsFiniteSet(below) /\ Cardinality(below) <= n
    BY <1>1, <2>1, FS_Subset
  <2>3. Cardinality(below) \in Nat
    BY <2>2, FS_CardinalityType
  <2>4. Cardinality(below) # 0
    BY <2>1, <2>2, FS_EmptySet
  <2>5. rank[i] = Cardinality(below)
    OBVIOUS
  <2> HIDE DEF below, rank, n
  <2> QED BY <1>1, <2>2, <2>3, <2>4, <2>5
<1>3. ASSUME NEW i \in kept, NEW j \in kept, i < j
      PROVE  rank[i] # rank[j]
  <2> DEFINE low == {h \in kept : h <= i}
             high == {h \in kept : h <= j}
  <2>1. low \in SUBSET high /\ j \in high /\ j \notin low
    BY <1>0, <1>3
  <2>2. high \in SUBSET kept
    OBVIOUS
  <2>3. IsFiniteSet(high)
    BY <1>1, <2>2, FS_Subset
  <2>4. Cardinality(high) # Cardinality(low)
    BY <2>1, <2>3, FS_Subset
  <2> QED BY <2>4
<1>4. ASSUME NEW i \in kept, NEW j \in kept, rank[i] = rank[j]
      PROVE  i = j
  <2>1. i < j \/ j < i \/ i = j
    BY <1>0
  <2> HIDE DEF rank
  <2> QED BY <1>3, <1>4, <2>1
<1>5. rank \in Injection(kept, 1..n)
  <2>1. rank \in [kept -> 1..n]
    BY <1>2
  <2> HIDE DEF rank, n
  <2> QED BY <2>1, <1>4 DEF Injection, IsInjective
<1>6. ASSUME NEW k \in 1..n
      PROVE  \E i \in kept : rank[i] = k
  <2>1. IsFiniteSet(1..n) /\ Cardinality(1..n) = n
    BY <1>1, FS_Interval
  <2> HIDE DEF rank
  <2>2. rank \in Surjection(kept, 1..n)
    BY <1>1, <1>5, <2>1, FS_Injection
  <2> QED BY <2>2 DEF Surjection
<1> DEFINE Place(k) == CHOOSE i \in kept : Cardinality({j \in kept : j <= i}) = k
           r == AtPositions(s, kept)
           at == [k \in 1..n |-> Place(k)]
<1>7. ASSUME NEW k \in 1..n
      PROVE  Place(k) \in kept /\ rank[Place(k)] = k
  <2>1. \A i \in kept : rank[i] = Cardinality({j \in kept : j <= i})
    OBVIOUS
  <2>2. \E i \in kept : Cardinality({j \in kept : j <= i}) = k
    BY <1>6, <2>1
  <2> HIDE DEF rank, n
  <2>3. Place(k) \in kept /\ Cardinality({j \in kept : j <= Place(k)}) = k
    BY <2>2
  <2> QED BY <2>1, <2>3
<1>8. r = [k \in 1..n |-> s[Place(k)]]
  BY DEF AtPositions
<1>9. r \in Seq(T) /\ Len(r) = n
  <2>1. \A k \in 1..n : s[Place(k)] \in T
    BY <1>0, <1>7
  <2> HIDE DEF Place, n, r
  <2>2. r \in Seq(T)
    BY <1>1, <1>8, <2>1, IsASeq
  <2>3. DOMAIN r = 1..n /\ DOMAIN r = 1..Len(r) /\ Len(r) \in Nat
    BY <1>8, <2>2, LenProperties
  <2> QED BY <1>1, <2>2, <2>3
<1>10. ASSUME NEW i \in kept
       PROVE  \E k \in 1..Len(r) : r[k] = s[i]
  <2>1. rank[i] \in 1..n
    BY <1>2
  <2>2. Place(rank[i]) \in kept /\ rank[Place(rank[i])] = rank[i]
    BY <1>7, <2>1
  <2>3. Place(rank[i]) = i
    <3> HIDE DEF Place, rank
    <3> QED BY <1>4, <2>2
  <2> HIDE DEF Place, rank, n, r
  <2> QED BY <1>8, <1>9, <2>1, <2>3
<1>11. at \in [1..Len(r) -> kept]
  BY <1>7, <1>9
<1>12. \A k \in 1..Len(r) : r[k] = s[at[k]]
  <2> HIDE DEF Place, n, r
  <2> QED BY <1>8, <1>9
<1>13. ASSUME NEW j \in 1..Len(r), NEW k \in 1..Len(r), at[j] = at[k]
       PROVE  j = k
  <2>1. j \in 1..n /\ k \in 1..n
    BY <1>9
  <2>2. Place(j) = Place(k)
    <3> HIDE DEF Place, n
    <3> QED BY <1>13, <2>1
  <2>3. rank[Place(j)] = j /\ rank[Place(k)] = k
    BY <1>7, <2>1
  <2> HIDE DEF Place, rank
  <2> QED BY <2>2, <2>3
<1> HIDE DEF at
<1>14. Leaves(r, s, kept)
  BY <1>10, <1>11, <1>12, <1>13 DEF Leaves
<1> QED BY <1>9, <1>14

\* While fewer than MaxMsgs events were sent, no client has sent that many.
LEMMA RoomForEvent ==
  ASSUME Types, NEW c \in Clients, Cardinality(Events) < MaxMsgs
  PROVE  cl[c].sent + 1 \in 0..MaxMsgs
<1>0. MaxMsgs \in Nat /\ IsFiniteSet(Clients) /\ cl[c].sent \in 0..MaxMsgs
  BY BrokerAssumption DEF Types, ClTypes, ClientRecs
<1>1. SUFFICES ASSUME cl[c].sent = MaxMsgs PROVE FALSE
  BY <1>0
<1> DEFINE mine == {c} \X (1..MaxMsgs)
<1>2. IsFiniteSet(1..MaxMsgs) /\ Cardinality(1..MaxMsgs) = MaxMsgs
  BY <1>0, FS_Interval
<1>3. Cardinality(mine) = MaxMsgs
  <2>1. IsFiniteSet({c}) /\ Cardinality({c}) = 1
    BY FS_Singleton
  <2>2. Cardinality(mine) = Cardinality({c}) * Cardinality(1..MaxMsgs)
    BY <1>2, <2>1, FS_Product
  <2> HIDE DEF mine
  <2> QED BY <1>0, <1>2, <2>1, <2>2
<1>4. mine \in SUBSET Events
  BY <1>0, <1>1 DEF Events
<1>5. IsFiniteSet(Events)
  <2>1. IsFiniteSet(Clients \X (1..MaxMsgs))
    BY <1>0, <1>2, FS_Product
  <2>2. Events \in SUBSET (Clients \X (1..MaxMsgs))
    BY DEF Events
  <2> QED BY <2>1, <2>2, FS_Subset
<1>6. Cardinality(mine) <= Cardinality(Events) /\ Cardinality(Events) \in Nat
  BY <1>4, <1>5, FS_Subset, FS_CardinalityType
<1> HIDE DEF mine
<1> QED BY <1>0, <1>3, <1>6

-----------------------------------------------------------------------------
(* The channels *)

\* A step takes the first message of the channel of s, or appends one to it.
Shifted(s) ==
    /\ DOMAIN chan' = Senders
    /\ \A d \in Senders : d # s => chan'[d] = chan[d]
    /\ Len(chan[s]) >= 1 /\ Len(chan'[s]) = Len(chan[s]) - 1
    /\ \A k \in 1..Len(chan'[s]) : chan'[s][k] = chan[s][k + 1]
    /\ chan[s][1] = Head(chan[s])

Extended(s, msg) ==
    /\ DOMAIN chan' = Senders
    /\ \A d \in Senders : d # s => chan'[d] = chan[d]
    /\ Len(chan'[s]) = Len(chan[s]) + 1
    /\ \A k \in 1..Len(chan[s]) : chan'[s][k] = chan[s][k]
    /\ chan'[s][Len(chan[s]) + 1] = msg

\* A channel is a sequence of messages of some kinds.
LEMMA ChanIsSeq ==
  ASSUME Types, NEW s \in Senders
  PROVE  \E T : chan[s] \in Seq(T)
BY DEF Types, ChanTypes, Senders

\* handle_new_msgs finds a client that has the id it was called with.
LEMMA PosFacts ==
  ASSUME Types, InOnce, bpc = "recv"
  PROVE  /\ Pos \in 1..Len(llmp_clients) /\ llmp_clients[Pos].id = once.client_id
         /\ llmp_clients[Pos] \in Receivers /\ llmp_clients[Pos].from \in Senders
<1>0. /\ Len(llmp_clients) \in Nat /\ once.i \in 1..Len(llmp_clients)
      /\ once.client_id \in Nat /\ once.client_id = llmp_clients[once.i].id
      /\ llmp_clients \in Seq(Receivers)
  BY LenProperties DEF Types, InOnce
<1> DEFINE id == once.client_id
           S == {k \in 1..Len(llmp_clients) : llmp_clients[k].id = id}
           Good(k) == llmp_clients[k].id = id /\ \A j \in 1..(k - 1) : llmp_clients[j].id # id
<1>1. Pos \in 1..Len(llmp_clients) /\ llmp_clients[Pos].id = id
  <2>1. CASE id < Len(llmp_clients) /\ llmp_clients[id + 1].id = id
    <3>1. Pos = id + 1
      BY <2>1 DEF Pos
    <3> QED BY <1>0, <2>1, <3>1
  <2>2. CASE ~(id < Len(llmp_clients) /\ llmp_clients[id + 1].id = id)
    <3>1. Pos = CHOOSE k \in 1..Len(llmp_clients) : Good(k)
      BY <2>2 DEF Pos
    <3>2. S \subseteq Nat /\ S # {}
      BY <1>0
    <3>3. PICK k \in S : \A m \in S : k <= m
      BY <3>2, SmallestIn
    <3>4. \A j \in 1..(k - 1) : j \notin S
      BY <1>0, <3>2, <3>3
    <3>5. Good(k) /\ k \in 1..Len(llmp_clients)
      BY <1>0, <3>3, <3>4
    <3> HIDE DEF Good
    <3>6. Pos \in 1..Len(llmp_clients) /\ Good(Pos)
      BY <3>1, <3>5
    <3> QED BY <3>6 DEF Good
  <2> QED BY <2>1, <2>2
<1>2. llmp_clients[Pos] \in Receivers
  BY <1>0, <1>1, ElementOfSeq
<1> QED BY <1>1, <1>2 DEF Receivers

\* Unless ids clashed, that is the client whose turn it is.
LEMMA PosIsTurn ==
  ASSUME Types, InOnce, Removals, bpc = "recv", ~clash
  PROVE  Pos = once.i
<1>1. Pos \in 1..Len(llmp_clients) /\ llmp_clients[Pos].id = once.client_id
  BY PosFacts
<1>2. once.i \in 1..Len(llmp_clients) /\ once.client_id = llmp_clients[once.i].id
  BY LenProperties DEF Types, InOnce
<1> QED BY <1>1, <1>2 DEF Removals

\* recv takes the first message of that client's channel.
LEMMA ConsumeShifts ==
  ASSUME Types, InOnce, bpc = "recv", Unread # << >>, Consume
  PROVE  Shifted(llmp_clients[Pos].from)
<1> DEFINE s == llmp_clients[Pos].from
<1>1. s \in Senders /\ DOMAIN chan = Senders
  BY PosFacts DEF Types, ChanTypes
<1>2. PICK T : chan[s] \in Seq(T)
  BY <1>1, ChanIsSeq
<1>3. chan' = [chan EXCEPT ![s] = Tail(chan[s])]
  BY DEF Consume
<1>4. chan[s] # << >>
  BY DEF Unread
<1> HIDE DEF s
<1>5. /\ DOMAIN chan' = Senders /\ chan'[s] = Tail(chan[s])
      /\ \A d \in Senders : d # s => chan'[d] = chan[d]
  BY <1>1, <1>3
<1>6. /\ Len(chan[s]) \in Nat /\ Len(chan[s]) >= 1
      /\ Len(Tail(chan[s])) = Len(chan[s]) - 1 /\ chan[s][1] = Head(chan[s])
      /\ \A k \in 1..Len(Tail(chan[s])) : Tail(chan[s])[k] = chan[s][k + 1]
  BY <1>2, <1>4
<1>7. Shifted(s)
  BY <1>5, <1>6 DEF Shifted
<1> QED BY <1>7 DEF s

\* send_buf appends to the channel of the sender.
LEMMA PostExtends ==
  ASSUME Types, NEW s \in Senders, NEW msg, Post(s, msg)
  PROVE  Extended(s, msg)
<1>1. PICK T : chan[s] \in Seq(T)
  BY ChanIsSeq
<1>2. DOMAIN chan = Senders /\ chan' = [chan EXCEPT ![s] = Append(chan[s], msg)]
  BY DEF Types, ChanTypes, Post
<1>3. /\ DOMAIN chan' = Senders /\ chan'[s] = Append(chan[s], msg)
      /\ \A d \in Senders : d # s => chan'[d] = chan[d]
  BY <1>2
<1>4. /\ Len(Append(chan[s], msg)) = Len(chan[s]) + 1
      /\ \A k \in 1..Len(chan[s]) : Append(chan[s], msg)[k] = chan[s][k]
      /\ Append(chan[s], msg)[Len(chan[s]) + 1] = msg
  BY <1>1, AppendProperties
<1> QED BY <1>3, <1>4 DEF Extended

-----------------------------------------------------------------------------
(* Types *)

\* A client posts its own messages.
LEMMA PostTypes ==
  ASSUME Types, NEW c \in Clients, NEW msg \in EventsOf(c) \cup LastWordsOf(c), Post(c, msg)
  PROVE  ChanTypes'
<1>1. /\ DOMAIN chan = Senders /\ chan[Listener] \in Seq(Announcements) /\ c # Listener
      /\ \A d \in Clients : chan[d] \in Seq(EventsOf(d) \cup LastWordsOf(d))
  BY BrokerAssumption DEF Types, ChanTypes
<1>2. chan' = [chan EXCEPT ![c] = Append(chan[c], msg)] /\ c \in Senders
  BY DEF Post, Senders
<1>3. Append(chan[c], msg) \in Seq(EventsOf(c) \cup LastWordsOf(c))
  BY <1>1, AppendProperties
<1>4. DOMAIN chan' = Senders /\ chan'[Listener] = chan[Listener]
  BY <1>1, <1>2 DEF Senders
<1>5. \A d \in Clients : chan'[d] = IF d = c THEN Append(chan[c], msg) ELSE chan[d]
  BY <1>1, <1>2 DEF Senders
<1>6. \A d \in Clients : chan'[d] \in Seq(EventsOf(d) \cup LastWordsOf(d))
  BY <1>1, <1>3, <1>5
<1> QED BY <1>1, <1>4, <1>6 DEF ChanTypes, Senders, Announcements, EventsOf, LastWordsOf

\* What is left of a channel has the types it had.
LEMMA ConsumeTypes ==
  ASSUME Types, InOnce, bpc = "recv", Unread # << >>, Consume
  PROVE  ChanTypes'
<1> DEFINE s == llmp_clients[Pos].from
<1>1. /\ DOMAIN chan = Senders /\ chan[Listener] \in Seq(Announcements)
      /\ \A d \in Clients : chan[d] \in Seq(EventsOf(d) \cup LastWordsOf(d))
  BY DEF Types, ChanTypes
<1>2. chan' = [chan EXCEPT ![s] = Tail(chan[s])] /\ s \in Senders /\ chan[s] # << >>
  BY PosFacts DEF Consume, Unread
<1> HIDE DEF s
<1>3. /\ DOMAIN chan' = Senders
      /\ \A d \in Senders : chan'[d] = IF d = s THEN Tail(chan[s]) ELSE chan[d]
  BY <1>1, <1>2
<1>4. ASSUME NEW T, NEW d \in Senders, chan[d] \in Seq(T)
      PROVE  chan'[d] \in Seq(T)
  <2>1. d = s => Tail(chan[d]) \in Seq(T)
    BY <1>2, <1>4
  <2> QED BY <1>3, <1>4, <2>1
<1>5. chan'[Listener] \in Seq(Announcements)
  BY <1>1, <1>4 DEF Senders
<1>6. ASSUME NEW d \in Clients
      PROVE  chan'[d] \in Seq(EventsOf(d) \cup LastWordsOf(d))
  <2>1. chan[d] \in Seq(EventsOf(d) \cup LastWordsOf(d)) /\ d \in Senders
    BY <1>1 DEF Senders
  <2> QED BY <1>4, <2>1
<1> QED BY <1>3, <1>5, <1>6 DEF ChanTypes, Senders, Announcements, EventsOf, LastWordsOf

\* A step of one client changes its own record.
LEMMA ClStep ==
  ASSUME ClTypes, NEW c \in Clients, NEW r \in ClientRecs, r.read <= Len(out), out' = out,
         cl' = [cl EXCEPT ![c] = r]
  PROVE  ClTypes'
<1>1. cl' \in [Clients -> ClientRecs] /\ \A d \in Clients : cl'[d] = IF d = c THEN r ELSE cl[d]
  BY DEF ClTypes
<1> QED BY <1>1 DEF ClTypes, ClientRecs

\* The steps of a client keep the types.
LEMMA ClientTypes ==
  ASSUME Types, NEW c \in Clients, ClientStep(c)
  PROVE  Types'
<1>0. /\ cl[c].pc = "running" \/ cl[c].pc = "new"
      /\ cl[c] \in ClientRecs /\ cl[c].sent \in 0..MaxMsgs /\ c \in Senders
  BY DEF ClTypes, ClientRecs, ClientStep, Connect, SendEvent, SendExiting, GiveUp, Crash,
         ReadBroadcast, Types, Senders
<1>1. CASE Connect(c)
  <2>1. ChanTypes'
    <3>1. /\ DOMAIN chan = Senders /\ chan[Listener] \in Seq(Announcements) /\ c # Listener
          /\ \A d \in Clients : chan[d] \in Seq(EventsOf(d) \cup LastWordsOf(d)) /\ d # Listener
      BY BrokerAssumption DEF Types, ChanTypes
    <3> DEFINE msg == [kind |-> "NEW_SHM_CLIENT", client |-> c]
    <3>2. chan' = [chan EXCEPT ![Listener] = Append(chan[Listener], msg)] /\ msg \in Announcements
      BY <1>1 DEF Connect, Announcements
    <3> HIDE DEF msg
    <3>3. Append(chan[Listener], msg) \in Seq(Announcements)
      BY <3>1, <3>2, AppendProperties
    <3>4. /\ DOMAIN chan' = Senders /\ chan'[Listener] = Append(chan[Listener], msg)
          /\ \A d \in Clients : chan'[d] = chan[d]
      BY <3>1, <3>2 DEF Senders
    <3> QED BY <3>1, <3>3, <3>4 DEF ChanTypes, Senders, Announcements, EventsOf, LastWordsOf
  <2>2. cl' = [cl EXCEPT ![c].pc = "running", ![c].id = current_client_id]
    BY <1>1 DEF Connect
  <2>3. current_client_id' \in Nat /\ UNCHANGED <<broker, clash>>
    BY <1>1 DEF Connect, Types
  <2>4. ClTypes'
    <3> DEFINE r == [cl[c] EXCEPT !.pc = "running", !.id = current_client_id]
    <3>1. r \in ClientRecs /\ r.read = cl[c].read
      BY <1>0 DEF Types, ClientRecs
    <3>2. cl' = [cl EXCEPT ![c] = r]
      BY <2>2
    <3>3. r.read <= Len(out) /\ out' = out /\ ClTypes
      BY <2>3, <3>1 DEF Types, ClTypes, broker
    <3> HIDE DEF r
    <3> QED BY <3>1, <3>2, <3>3, ClStep
  <2> QED BY <2>1, <2>3, <2>4 DEF Types, broker
<1>2. CASE SendEvent(c)
  <2> DEFINE msg == [kind |-> "EVENT", client |-> c, n |-> cl[c].sent + 1]
  <2>1. msg \in EventsOf(c) \cup LastWordsOf(c)
    BY <1>0, BrokerAssumption DEF EventsOf
  <2>2. Post(c, msg)
    BY <1>2 DEF SendEvent
  <2>3. ChanTypes'
    <3> HIDE DEF msg
    <3> QED BY <2>1, <2>2, PostTypes
  <2>4. cl[c].sent + 1 \in 0..MaxMsgs
    BY <1>2, RoomForEvent DEF SendEvent
  <2>5. /\ cl' = [cl EXCEPT ![c].sent = cl[c].sent + 1]
        /\ UNCHANGED <<broker, current_client_id, clash>>
    BY <1>2 DEF SendEvent
  <2>6. ClTypes'
    <3> DEFINE r == [cl[c] EXCEPT !.sent = cl[c].sent + 1]
    <3>1. r \in ClientRecs /\ r.read = cl[c].read
      BY <1>0, <2>4 DEF ClientRecs
    <3>2. cl' = [cl EXCEPT ![c] = r]
      BY <2>5
    <3>3. r.read <= Len(out) /\ out' = out /\ ClTypes
      BY <2>5, <3>1 DEF Types, ClTypes, broker
    <3> HIDE DEF r
    <3> QED BY <3>1, <3>2, <3>3, ClStep
  <2> QED BY <2>3, <2>5, <2>6 DEF Types, broker
<1>3. CASE SendExiting(c)
  <2>1. ChanTypes'
    BY <1>3, PostTypes DEF SendExiting, LastWordsOf
  <2>2. ClTypes'
    BY <1>3 DEF SendExiting, Types, ClTypes, ClientRecs, broker
  <2> QED BY <1>3, <2>1, <2>2 DEF SendExiting, Types, broker
<1>4. CASE GiveUp(c)
  <2>1. ChanTypes'
    BY <1>4, PostTypes DEF GiveUp, LastWordsOf
  <2>2. ClTypes'
    BY <1>4 DEF GiveUp, Types, ClTypes, ClientRecs, broker
  <2> QED BY <1>4, <2>1, <2>2 DEF GiveUp, Types, broker
<1>5. CASE Crash(c)
  <2>1. ClTypes'
    BY <1>5 DEF Crash, Types, ClTypes, ClientRecs, broker
  <2> QED BY <1>5, <2>1 DEF Crash, Types, ChanTypes, broker
<1>6. CASE ReadBroadcast(c)
  <2>1. UNCHANGED <<broker, current_client_id, chan, clash>>
    BY <1>6 DEF ReadBroadcast
  <2>2. cl[c].read < Len(out) /\ Len(out) \in Nat /\ cl[c].read \in Nat
    BY <1>6, <1>0, LenProperties DEF ReadBroadcast, Types, ClientRecs
  <2>3. PICK pc \in {"new", "running", "exited", "dead", "told"} :
           cl' = [cl EXCEPT ![c] = [cl[c] EXCEPT !.read = cl[c].read + 1, !.pc = pc]]
    <3>1. CASE out[cl[c].read + 1].kind = "EXITING"
      <4>1. cl' = [cl EXCEPT ![c].read = @ + 1, ![c].pc = "told"]
        BY <1>6, <3>1 DEF ReadBroadcast
      <4> QED BY <4>1
    <3>2. CASE out[cl[c].read + 1].kind # "EXITING"
      <4>1. cl' = [cl EXCEPT ![c].read = @ + 1, ![c].pc = @]
        BY <1>6, <3>2 DEF ReadBroadcast
      <4> QED BY <1>0, <4>1 DEF ClientRecs
    <3> QED BY <3>1, <3>2
  <2>4. ClTypes'
    <3> DEFINE r == [cl[c] EXCEPT !.read = cl[c].read + 1, !.pc = pc]
    <3>0. cl[c].read + 1 \in Nat
      BY <2>2
    <3>1. r \in ClientRecs /\ r.read = cl[c].read + 1
      BY <1>0, <3>0 DEF ClientRecs
    <3>2. r.read <= Len(out) /\ out' = out /\ ClTypes
      BY <2>1, <2>2, <3>1 DEF Types, broker
    <3> HIDE DEF r
    <3> QED BY <2>3, <3>1, <3>2, ClStep DEF r
  <2> QED BY <2>1, <2>4 DEF Types, ChanTypes, broker
<1> QED BY <1>1, <1>2, <1>3, <1>4, <1>5, <1>6 DEF ClientStep

\* What handle_new_msgs receives is a message of the client it found.
LEMMA HeadFrom ==
  ASSUME Types, InOnce, bpc = "recv", Unread # << >>
  PROVE  LET s == llmp_clients[Pos].from
         IN  /\ Head(Unread).kind = "NEW_SHM_CLIENT" =>
                   s = Listener /\ Head(Unread) \in Announcements
             /\ Head(Unread).kind # "NEW_SHM_CLIENT" => s \in Clients
             /\ Head(Unread).kind = "EVENT" => Head(Unread) \in EventsOf(s)
<1> DEFINE s == llmp_clients[Pos].from
<1>1. s \in Senders /\ Unread = chan[s]
  BY PosFacts DEF Unread
<1> HIDE DEF s
<1>2. CASE s = Listener
  <2>1. chan[s] \in Seq(Announcements) /\ chan[s] # << >>
    BY <1>1, <1>2 DEF Types, ChanTypes
  <2>2. Head(chan[s]) \in Announcements
    BY <2>1
  <2> QED BY <1>1, <1>2, <2>2 DEF Announcements, s
<1>3. CASE s \in Clients
  <2>1. chan[s] \in Seq(EventsOf(s) \cup LastWordsOf(s)) /\ chan[s] # << >>
    BY <1>1, <1>3 DEF Types, ChanTypes
  <2>2. Head(chan[s]) \in EventsOf(s) \cup LastWordsOf(s)
    BY <2>1
  <2> QED BY <1>1, <1>3, <2>2 DEF EventsOf, LastWordsOf, s
<1> QED BY <1>1, <1>2, <1>3 DEF Senders

\* The steps of the broker, of the signal handler and of the clock keep the types.
LEMMA BrokerTypes ==
  ASSUME Types, InOnce, BrokerStep \/ Interrupt \/ TimePasses
  PROVE  Types'
<1> DEFINE ONCE == [i : Nat, n : Nat, client_id : Nat, next_id : Nat, new : BOOLEAN]
<1>0. /\ llmp_clients \in Seq(Receivers) /\ Len(llmp_clients) \in Nat
      /\ once \in ONCE /\ NoOnce \in ONCE
  BY LenProperties DEF Types, NoOnce
<1>1. CASE OnceBegin
  <2>1. once' \in ONCE
    BY <1>0, <1>1 DEF OnceBegin
  <2> QED BY <1>1, <2>1 DEF OnceBegin, Types, ChanTypes, ClTypes
<1>2. CASE HandleNewMsgs
  <2>1. llmp_clients[once.i].id \in Nat
    <3>1. once.i \in 1..Len(llmp_clients)
      BY <1>0, <1>2 DEF HandleNewMsgs, InOnce
    <3>2. llmp_clients[once.i] \in Receivers
      BY <1>0, <3>1, ElementOfSeq
    <3> QED BY <3>2 DEF Receivers
  <2>2. once' \in ONCE
    BY <1>0, <1>2, <2>1 DEF HandleNewMsgs
  <2> QED BY <1>2, <2>2 DEF HandleNewMsgs, Types, ChanTypes, ClTypes
<1>3. CASE OnNewMsg
  <2>1. bpc = "recv" /\ Unread # << >> /\ Head(Unread).kind = "EVENT" /\ Consume
    BY <1>3 DEF OnNewMsg, Receives
  <2>2. ChanTypes'
    BY <2>1, ConsumeTypes
  <2>3. Head(Unread) \in Broadcasts
    BY <2>1, HeadFrom DEF EventsOf, Broadcasts
  <2>4. once' \in ONCE
    BY <1>0, <1>3 DEF OnNewMsg
  <2>5. out \in Seq(Broadcasts)
    BY DEF Types
  <2>6. out' \in Seq(Broadcasts) /\ Len(out') >= Len(out) /\ Len(out) \in Nat /\ Len(out') \in Nat
    <3>1. CASE out' = Append(out, Head(Unread))
      BY <2>3, <2>5, <3>1, AppendProperties, LenProperties
    <3>2. CASE out' = out
      BY <2>5, <3>2, LenProperties
    <3> QED BY <1>3, <3>1, <3>2 DEF OnNewMsg
  <2>7. ClTypes'
    <3>1. cl' = cl
      BY <1>3 DEF OnNewMsg
    <3> QED BY <2>6, <3>1 DEF Types, ClTypes, ClientRecs
  <2>8. bpc' \in {"loop", "client", "recv", "quit", "panicked"}
    BY <1>3, <2>1 DEF OnNewMsg
  <2> QED BY <1>3, <2>2, <2>4, <2>6, <2>7, <2>8 DEF OnNewMsg, Types
<1>4. CASE NewShmClient
  <2>1. bpc = "recv" /\ Unread # << >> /\ Head(Unread).kind = "NEW_SHM_CLIENT" /\ Consume
    BY <1>4 DEF NewShmClient, Receives
  <2>2. ChanTypes'
    BY <2>1, ConsumeTypes
  <2>3. Receiver(once.next_id, Head(Unread).client) \in Receivers
    BY <1>0, <2>1, HeadFrom DEF Announcements, Receiver, Receivers, Senders
  <2>4. llmp_clients' \in Seq(Receivers)
    BY <1>0, <1>4, <2>3, AppendProperties DEF NewShmClient
  <2>5. once' \in ONCE
    <3>1. once.next_id + 1 \in Nat
      BY <1>0
    <3>2. once' = [once EXCEPT !.new = TRUE, !.next_id = once.next_id + 1]
      BY <1>4 DEF NewShmClient
    <3> QED BY <1>0, <3>1, <3>2
  <2>6. num_clients_total' \in Nat \ {0} /\ clash' \in BOOLEAN
    BY <1>4 DEF NewShmClient, Types
  <2>7. UNCHANGED <<clients_to_remove, bpc, out, current_client_id, cl>>
    BY <1>4 DEF NewShmClient
  <2> QED BY <2>2, <2>4, <2>5, <2>6, <2>7 DEF Types, ClTypes
<1>5. CASE NewShmClientIgnored
  <2>1. bpc = "recv" /\ Unread # << >> /\ Consume
    BY <1>5 DEF NewShmClientIgnored, Receives
  <2>2. ChanTypes'
    BY <2>1, ConsumeTypes
  <2>3. once' \in ONCE
    BY <1>0, <1>5 DEF NewShmClientIgnored
  <2> QED BY <1>5, <2>2, <2>3 DEF NewShmClientIgnored, Types, ClTypes
<1>6. CASE SlowReceiverPanic
  BY <1>6 DEF SlowReceiverPanic, Types, ClTypes, ChanTypes
<1>7. CASE ClientShutsDown
  <2>1. once' \in ONCE /\ bpc' = "client"
    <3>1. once.i + 1 \in Nat
      BY <1>0
    <3>2. once' = [once EXCEPT !.i = once.i + 1] /\ bpc' = "client"
      BY <1>7 DEF ClientShutsDown, NextClient
    <3> QED BY <1>0, <3>1, <3>2
  <2>2. clients_to_remove' \in Seq(Nat)
    <3>1. clients_to_remove \in Seq(Nat) /\ once.i \in Nat
      BY <1>0 DEF Types
    <3> QED BY <1>7, <3>1, AppendProperties DEF ClientShutsDown
  <2> QED BY <1>7, <2>1, <2>2 DEF ClientShutsDown, Types, ClTypes, ChanTypes
<1>8. CASE NoMoreMsgs
  <2>1. once' \in ONCE /\ bpc' = "client"
    <3>1. once.i + 1 \in Nat
      BY <1>0
    <3>2. once' = [once EXCEPT !.i = once.i + 1] /\ bpc' = "client"
      BY <1>8 DEF NoMoreMsgs, NextClient
    <3> QED BY <1>0, <3>1, <3>2
  <2>2. clients_to_remove' \in Seq(Nat)
    <3>1. clients_to_remove \in Seq(Nat) /\ once.i \in Nat
      BY <1>0 DEF Types
    <3>2. Append(clients_to_remove, once.i) \in Seq(Nat)
      BY <3>1, AppendProperties
    <3> QED BY <1>8, <3>1, <3>2 DEF NoMoreMsgs
  <2>3. llmp_clients' \in Seq(Receivers)
    <3>1. Pos \in 1..Len(llmp_clients) /\ llmp_clients[Pos] \in Receivers
      BY <1>8, PosFacts DEF NoMoreMsgs
    <3>2. [llmp_clients[Pos] EXCEPT !.old = FALSE] \in Receivers
      BY <3>1 DEF Receivers
    <3>3. [llmp_clients EXCEPT ![Pos] = [llmp_clients[Pos] EXCEPT !.old = FALSE]] \in Seq(Receivers)
      BY <1>0, <3>1, <3>2, ExceptSeq
    <3>4. \/ llmp_clients' = [llmp_clients EXCEPT ![Pos].old = FALSE]
          \/ llmp_clients' = llmp_clients
      BY <1>8 DEF NoMoreMsgs
    <3> QED BY <1>0, <3>3, <3>4
  <2> QED BY <1>8, <2>1, <2>2, <2>3 DEF NoMoreMsgs, Types, ClTypes, ChanTypes
<1>9. CASE OnceEnd
  <2>1. llmp_clients' \in Seq(Receivers)
    <3>1. llmp_clients' = WithoutRemoved
      BY <1>9 DEF OnceEnd
    <3> DEFINE kept == DOMAIN llmp_clients \ {clients_to_remove[k] : k \in DOMAIN clients_to_remove}
    <3>2. WithoutRemoved = AtPositions(llmp_clients, kept) /\ kept \subseteq DOMAIN llmp_clients
      BY DEF WithoutRemoved, WithoutOffsets
    <3> HIDE DEF kept
    <3> QED BY <1>0, <3>1, <3>2, AtPositionsFacts
  <2>2. clients_to_remove' \in Seq(Nat) /\ once' \in ONCE /\ bpc' \in {"quit", "loop"}
    BY <1>0, <1>9 DEF OnceEnd
  <2>3. out \in Seq(Broadcasts) /\ Len(out) \in Nat
    BY LenProperties DEF Types
  <2>4. out' \in Seq(Broadcasts) /\ Len(out') >= Len(out) /\ Len(out') \in Nat
    <3>1. CASE out' = Append(out, [kind |-> "EXITING", client |-> Listener])
      <4>1. [kind |-> "EXITING", client |-> Listener] \in Broadcasts
        BY DEF Broadcasts
      <4> QED BY <2>3, <3>1, <4>1, AppendProperties, LenProperties
    <3>2. CASE out' = out
      BY <2>3, <3>2
    <3> QED BY <1>9, <3>1, <3>2 DEF OnceEnd
  <2>5. ClTypes'
    BY <1>9, <2>3, <2>4 DEF OnceEnd, Types, ClTypes, ClientRecs
  <2> QED BY <1>9, <2>1, <2>2, <2>4, <2>5 DEF OnceEnd, Types, ChanTypes
<1>10. CASE Interrupt
  <2>1. out \in Seq(Broadcasts) /\ Len(out) \in Nat
    BY LenProperties DEF Types
  <2>2. [kind |-> "EXITING", client |-> Listener] \in Broadcasts
    BY DEF Broadcasts
  <2>3. out' \in Seq(Broadcasts) /\ Len(out') >= Len(out) /\ Len(out') \in Nat
    BY <1>10, <2>1, <2>2, AppendProperties, LenProperties DEF Interrupt
  <2>4. ClTypes'
    BY <1>10, <2>1, <2>3 DEF Interrupt, Types, ClTypes, ClientRecs
  <2> QED BY <1>10, <2>3, <2>4 DEF Interrupt, Types, ChanTypes
<1>11. CASE TimePasses
  <2>1. llmp_clients' = [k \in 1..Len(llmp_clients) |-> [llmp_clients[k] EXCEPT !.old = TRUE]]
    BY <1>11 DEF TimePasses
  <2>2. \A k \in 1..Len(llmp_clients) : [llmp_clients[k] EXCEPT !.old = TRUE] \in Receivers
    <3>1. \A k \in 1..Len(llmp_clients) : llmp_clients[k] \in Receivers
      BY <1>0, ElementOfSeq
    <3> QED BY <3>1 DEF Receivers
  <2>3. llmp_clients' \in Seq(Receivers)
    BY <1>0, <2>1, <2>2, IsASeq
  <2> QED BY <1>11, <2>3 DEF TimePasses, Types, ClTypes, ChanTypes
<1> QED BY <1>1, <1>2, <1>3, <1>4, <1>5, <1>6, <1>7, <1>8, <1>9, <1>10, <1>11 DEF BrokerStep

-----------------------------------------------------------------------------
(* Registration *)

\* What a step of a client does to the rest, other than to connect
LEMMA ClientEffect ==
  ASSUME Types, NEW c \in Clients, ClientStep(c), cl[c].pc # "new"
  PROVE  /\ UNCHANGED <<broker, current_client_id, clash>>
         /\ Joined' = Joined
         /\ chan'[Listener] = chan[Listener]
         /\ chan' = chan \/ \E msg : Post(c, msg)
<1>0. /\ cl \in [Clients -> ClientRecs] /\ DOMAIN chan = Senders /\ c # Listener
      /\ ~Connect(c) /\ c \in Senders /\ Listener \in Senders
  BY BrokerAssumption DEF Types, ClTypes, ChanTypes, Connect, Senders
<1>1. UNCHANGED <<broker, current_client_id, clash>> /\ cl[c].pc = "running"
  BY <1>0 DEF ClientStep, SendEvent, SendExiting, GiveUp, Crash, ReadBroadcast
<1>2. chan' = chan \/ \E msg : Post(c, msg)
  BY <1>0 DEF ClientStep, SendEvent, SendExiting, GiveUp, Crash, ReadBroadcast
<1>3. chan'[Listener] = chan[Listener]
  BY <1>0, <1>2 DEF Post
<1>4. DOMAIN cl' = Clients /\ \A d \in Clients : cl'[d].pc = "new" <=> cl[d].pc = "new"
  <2>1. DOMAIN cl' = Clients /\ (\A d \in Clients : d # c => cl'[d] = cl[d]) /\ cl'[c].pc # "new"
    <3>1. CASE SendEvent(c)
      BY <1>0, <1>1, <3>1 DEF SendEvent, ClientRecs
    <3>2. CASE SendExiting(c) \/ GiveUp(c) \/ Crash(c)
      BY <1>0, <1>1, <3>2 DEF SendExiting, GiveUp, Crash, ClientRecs
    <3>3. CASE ReadBroadcast(c)
      BY <1>0, <1>1, <3>3 DEF ReadBroadcast, ClientRecs
    <3> QED BY <1>0, <3>1, <3>2, <3>3 DEF ClientStep
  <2> QED BY <1>1, <2>1
<1>5. Joined' = Joined
  BY <1>4 DEF Joined
<1> QED BY <1>1, <1>2, <1>3, <1>5

\* Registration survives when receivers are lost, kept or moved, and announcements are
\* kept or the first of them is lost.
LEMMA RegisteredKept ==
  ASSUME Types, Types', Registered, Joined \subseteq Joined',
         NEW at, at \in [1..Len(llmp_clients') -> 1..Len(llmp_clients)],
         \A k \in 1..Len(llmp_clients') : llmp_clients'[k].from = llmp_clients[at[k]].from,
         \A j, k \in 1..Len(llmp_clients') : at[j] = at[k] => j = k,
         NEW d \in {0, 1}, Len(chan'[Listener]) + d = Len(chan[Listener]),
         \A j \in 1..Len(chan'[Listener]) : chan'[Listener][j] = chan[Listener][j + d]
  PROVE  Registered'
<1>0. /\ Len(llmp_clients) \in Nat /\ Len(llmp_clients') \in Nat
      /\ Len(chan[Listener]) \in Nat /\ Len(chan'[Listener]) \in Nat
  BY LenProperties DEF Types, ChanTypes
<1>1. \A j \in 1..Len(chan'[Listener]) : j + d \in 1..Len(chan[Listener])
  BY <1>0
<1>2. \A k \in 1..Len(llmp_clients') : at[k] \in 1..Len(llmp_clients)
  OBVIOUS
<1>3. \A k \in 1..Len(llmp_clients') : llmp_clients'[k].from \in Joined' \cup {Listener}
  BY <1>2 DEF Registered
<1>4. ASSUME NEW j \in 1..Len(llmp_clients'), NEW k \in 1..Len(llmp_clients'),
             llmp_clients'[j].from = llmp_clients'[k].from
      PROVE  j = k
  <2>1. llmp_clients[at[j]].from = llmp_clients[at[k]].from
    BY <1>4
  <2>2. at[j] = at[k]
    BY <1>2, <2>1 DEF Registered
  <2> QED BY <2>2
<1>5. \A j \in 1..Len(chan'[Listener]) : chan'[Listener][j].client \in Joined'
  BY <1>1 DEF Registered
<1>6. ASSUME NEW j \in 1..Len(chan'[Listener]), NEW k \in 1..Len(chan'[Listener]),
             chan'[Listener][j].client = chan'[Listener][k].client
      PROVE  j = k
  <2> DEFINE a == j + d
             b == k + d
  <2>0. a \in 1..Len(chan[Listener]) /\ b \in 1..Len(chan[Listener])
    BY <1>1
  <2>3. chan[Listener][a].client = chan[Listener][b].client
    BY <1>6
  <2>1. a = b
    <3> HIDE DEF a, b
    <3> QED BY <2>0, <2>3 DEF Registered
  <2> QED BY <1>0, <2>1
<1>7. ASSUME NEW j \in 1..Len(chan'[Listener]), NEW k \in 1..Len(llmp_clients')
      PROVE  llmp_clients'[k].from # chan'[Listener][j].client
  <2>1. /\ llmp_clients'[k].from = llmp_clients[at[k]].from
        /\ chan'[Listener][j] = chan[Listener][j + d]
    OBVIOUS
  <2>2. llmp_clients[at[k]].from # chan[Listener][j + d].client
    BY <1>1, <1>2 DEF Registered
  <2> QED BY <2>1, <2>2
<1> QED BY <1>3, <1>4, <1>5, <1>6, <1>7 DEF Registered

\* The case in which every receiver stays where it is
LEMMA RegisteredSame ==
  ASSUME Types, Types', Registered, Joined \subseteq Joined',
         Len(llmp_clients') = Len(llmp_clients),
         \A k \in 1..Len(llmp_clients) : llmp_clients'[k].from = llmp_clients[k].from,
         chan'[Listener] = chan[Listener] \/ Shifted(Listener)
  PROVE  Registered'
<1> DEFINE at == [k \in 1..Len(llmp_clients') |-> k]
<1>0. Len(chan[Listener]) \in Nat
  BY LenProperties DEF Types, ChanTypes
<1>1. /\ at \in [1..Len(llmp_clients') -> 1..Len(llmp_clients)]
      /\ \A k \in 1..Len(llmp_clients') : llmp_clients'[k].from = llmp_clients[at[k]].from
      /\ \A j, k \in 1..Len(llmp_clients') : at[j] = at[k] => j = k
  OBVIOUS
<1> HIDE DEF at
<1>2. \E d \in {0, 1} : /\ Len(chan'[Listener]) + d = Len(chan[Listener])
                        /\ \A j \in 1..Len(chan'[Listener]) :
                              chan'[Listener][j] = chan[Listener][j + d]
  <2>1. CASE chan'[Listener] = chan[Listener]
    <3>1. /\ Len(chan'[Listener]) + 0 = Len(chan[Listener])
          /\ \A j \in 1..Len(chan'[Listener]) : chan'[Listener][j] = chan[Listener][j + 0]
      BY <1>0, <2>1
    <3> QED BY <3>1
  <2>2. CASE Shifted(Listener)
    <3>1. /\ Len(chan'[Listener]) + 1 = Len(chan[Listener])
          /\ \A j \in 1..Len(chan'[Listener]) : chan'[Listener][j] = chan[Listener][j + 1]
      BY <1>0, <2>2 DEF Shifted
    <3> QED BY <3>1
  <2> QED BY <2>1, <2>2
<1> QED BY <1>1, <1>2, RegisteredKept

\* A client joins: it is announced, and was not before.
LEMMA ConnectRegisters ==
  ASSUME Types, Types', Registered, Counted, NEW c \in Clients, Connect(c)
  PROVE  Registered' /\ Counted'
<1> DEFINE msg == [kind |-> "NEW_SHM_CLIENT", client |-> c]
<1>0. /\ cl \in [Clients -> ClientRecs] /\ c \notin Joined /\ Listener \in Senders
      /\ Listener \notin Clients /\ Len(chan[Listener]) \in Nat
      /\ num_clients_total \in Nat /\ current_client_id \in Nat
  BY BrokerAssumption, LenProperties DEF Types, ClTypes, ChanTypes, Connect, Joined, Senders
<1>1. Extended(Listener, msg)
  <2>1. Post(Listener, msg)
    BY DEF Connect, Post
  <2> HIDE DEF msg
  <2> QED BY <1>0, <2>1, PostExtends
<1>2. Joined' = Joined \cup {c}
  <2>1. DOMAIN cl' = Clients /\ cl'[c].pc # "new" /\ \A d \in Clients : d # c => cl'[d] = cl[d]
    BY <1>0 DEF Connect, ClientRecs
  <2> QED BY <2>1 DEF Joined
<1>3. /\ llmp_clients' = llmp_clients /\ num_clients_total' = num_clients_total
      /\ current_client_id' = current_client_id + 1
  BY DEF Connect, broker
<1>4. /\ Len(chan'[Listener]) = Len(chan[Listener]) + 1
      /\ \A k \in 1..Len(chan[Listener]) : chan'[Listener][k] = chan[Listener][k]
      /\ chan'[Listener][Len(chan[Listener]) + 1].client = c
  BY <1>1 DEF Extended
<1>5. Registered'
  <2>1. \A j \in 1..Len(chan'[Listener]) :
           j \in 1..Len(chan[Listener]) \/ j = Len(chan[Listener]) + 1
    BY <1>0, <1>4
  <2>2. \A j \in 1..Len(chan[Listener]) : chan[Listener][j].client \in Joined
    BY DEF Registered
  <2>3. \A k \in 1..Len(llmp_clients') : llmp_clients'[k].from \in Joined' \cup {Listener}
    BY <1>2, <1>3 DEF Registered
  <2>4. \A j, k \in 1..Len(llmp_clients') : llmp_clients'[j].from = llmp_clients'[k].from => j = k
    BY <1>3 DEF Registered
  <2>5. \A j \in 1..Len(chan'[Listener]) : chan'[Listener][j].client \in Joined'
    BY <1>2, <1>4, <2>1, <2>2
  <2>6. ASSUME NEW j \in 1..Len(chan'[Listener]), NEW k \in 1..Len(chan'[Listener]),
               chan'[Listener][j].client = chan'[Listener][k].client
        PROVE  j = k
    <3>1. CASE j \in 1..Len(chan[Listener]) /\ k \in 1..Len(chan[Listener])
      BY <1>4, <2>6, <3>1 DEF Registered
    <3>2. CASE j = Len(chan[Listener]) + 1 /\ k \in 1..Len(chan[Listener])
      BY <1>0, <1>4, <2>2, <2>6, <3>2
    <3>3. CASE k = Len(chan[Listener]) + 1 /\ j \in 1..Len(chan[Listener])
      BY <1>0, <1>4, <2>2, <2>6, <3>3
    <3> QED BY <2>1, <3>1, <3>2, <3>3
  <2>7. \A j \in 1..Len(chan'[Listener]), k \in 1..Len(llmp_clients') :
            llmp_clients'[k].from # chan'[Listener][j].client
    <3>1. \A k \in 1..Len(llmp_clients) : llmp_clients[k].from # c
      BY <1>0 DEF Registered
    <3>2. \A j \in 1..Len(chan[Listener]), k \in 1..Len(llmp_clients) :
             llmp_clients[k].from # chan[Listener][j].client
      BY DEF Registered
    <3> QED BY <1>3, <1>4, <2>1, <3>1, <3>2
  <2> QED BY <2>3, <2>4, <2>5, <2>6, <2>7 DEF Registered
<1>6. Counted'
  <2>1. IsFiniteSet(Joined)
    <3>1. Joined \in SUBSET Clients
      BY DEF Joined
    <3> QED BY <3>1, BrokerAssumption, FS_Subset
  <2>2. Cardinality(Joined \cup {c}) = Cardinality(Joined) + 1 /\ Cardinality(Joined) \in Nat
    BY <1>0, <2>1, FS_AddElement, FS_CardinalityType
  <2> QED BY <1>0, <1>2, <1>3, <1>4, <2>2 DEF Counted
<1> QED BY <1>5, <1>6

\* At the end of once() every client that is left was there before, and those that were
\* not to be removed are left.
LEMMA OnceEndLeaves ==
  ASSUME Types, OnceEnd
  PROVE  /\ \E at : /\ at \in [1..Len(llmp_clients') -> 1..Len(llmp_clients)]
                    /\ \A k \in 1..Len(llmp_clients') : llmp_clients'[k] = llmp_clients[at[k]]
                    /\ \A j, k \in 1..Len(llmp_clients') : at[j] = at[k] => j = k
         /\ \A i \in 1..Len(llmp_clients) :
               \/ \E k \in 1..Len(clients_to_remove) : clients_to_remove[k] = i
               \/ \E k \in 1..Len(llmp_clients') : llmp_clients'[k] = llmp_clients[i]
<1> DEFINE kept == DOMAIN llmp_clients \ {clients_to_remove[k] : k \in DOMAIN clients_to_remove}
<1>0. /\ llmp_clients \in Seq(Receivers) /\ DOMAIN llmp_clients = 1..Len(llmp_clients)
      /\ DOMAIN clients_to_remove = 1..Len(clients_to_remove)
  BY LenProperties DEF Types
<1>1. llmp_clients' = AtPositions(llmp_clients, kept) /\ kept \subseteq DOMAIN llmp_clients
  BY DEF OnceEnd, WithoutRemoved, WithoutOffsets
<1>2. \A i \in 1..Len(llmp_clients) :
         i \in kept \/ \E k \in 1..Len(clients_to_remove) : clients_to_remove[k] = i
  BY <1>0
<1> HIDE DEF kept
<1>3. Leaves(llmp_clients', llmp_clients, kept)
  BY <1>0, <1>1, AtPositionsFacts
<1>4. PICK at \in [1..Len(llmp_clients') -> kept] :
            /\ \A k \in 1..Len(llmp_clients') : llmp_clients'[k] = llmp_clients[at[k]]
            /\ \A j, k \in 1..Len(llmp_clients') : at[j] = at[k] => j = k
  BY <1>3 DEF Leaves
<1>5. at \in [1..Len(llmp_clients') -> 1..Len(llmp_clients)]
  BY <1>0, <1>1
<1> QED BY <1>2, <1>3, <1>4, <1>5 DEF Leaves

\* An announced client is registered: it leaves the channel for llmp_clients.
LEMMA NewShmClientRegisters ==
  ASSUME Types, Types', InOnce, Registered, Counted, NewShmClient
  PROVE  Registered' /\ Counted'
<1> DEFINE c == Head(Unread).client
           len == Len(llmp_clients)
<1>0. /\ llmp_clients \in Seq(Receivers) /\ len \in Nat /\ Len(chan[Listener]) \in Nat
      /\ num_clients_total \in Nat /\ current_client_id \in Nat
  BY LenProperties DEF Types, ChanTypes
<1>1. bpc = "recv" /\ Unread # << >> /\ Head(Unread).kind = "NEW_SHM_CLIENT" /\ Consume
  BY DEF NewShmClient, Receives
<1>2. llmp_clients[Pos].from = Listener
  BY <1>1, HeadFrom
<1>3. Shifted(Listener) /\ c = chan[Listener][1].client
  <2>1. Shifted(llmp_clients[Pos].from)
    BY <1>1, ConsumeShifts
  <2> QED BY <1>2, <2>1 DEF Shifted, Unread
<1>4. /\ Len(llmp_clients') = len + 1 /\ llmp_clients'[len + 1].from = c
      /\ \A k \in 1..len : llmp_clients'[k] = llmp_clients[k]
  <2>1. llmp_clients' = Append(llmp_clients, Receiver(once.next_id, Head(Unread).client))
    BY DEF NewShmClient
  <2> QED BY <1>0, <2>1, AppendProperties DEF Receiver
<1>5. Joined' = Joined /\ current_client_id' = current_client_id
  BY DEF NewShmClient, Joined
<1> HIDE DEF c, len
<1>6. /\ Len(chan[Listener]) >= 1 /\ Len(chan'[Listener]) = Len(chan[Listener]) - 1
      /\ \A k \in 1..Len(chan'[Listener]) : chan'[Listener][k] = chan[Listener][k + 1]
  BY <1>3 DEF Shifted
<1>7. \A k \in 1..Len(llmp_clients') : k \in 1..len \/ k = len + 1
  BY <1>0, <1>4
<1>8. \A j \in 1..Len(chan'[Listener]) : j + 1 \in 1..Len(chan[Listener]) /\ j + 1 # 1
  BY <1>0, <1>6
<1>9. c \in Joined /\ \A k \in 1..len : llmp_clients[k].from # c
  <2>1. 1 \in 1..Len(chan[Listener])
    BY <1>0, <1>6
  <2> QED BY <1>3, <2>1 DEF Registered, len
<1>10. Registered'
  <2>1. \A k \in 1..Len(llmp_clients') : llmp_clients'[k].from \in Joined' \cup {Listener}
    BY <1>4, <1>5, <1>7, <1>9 DEF Registered, len
  <2>2. ASSUME NEW j \in 1..Len(llmp_clients'), NEW k \in 1..Len(llmp_clients'),
               llmp_clients'[j].from = llmp_clients'[k].from
        PROVE  j = k
    <3>1. CASE j \in 1..len /\ k \in 1..len
      BY <1>4, <2>2, <3>1 DEF Registered, len
    <3>2. CASE j = len + 1 \/ k = len + 1
      BY <1>4, <1>7, <1>9, <2>2, <3>2
    <3> QED BY <1>7, <3>1, <3>2
  <2>3. \A j \in 1..Len(chan'[Listener]) : chan'[Listener][j].client \in Joined'
    BY <1>5, <1>6, <1>8 DEF Registered
  <2>4. ASSUME NEW j \in 1..Len(chan'[Listener]), NEW k \in 1..Len(chan'[Listener]),
               chan'[Listener][j].client = chan'[Listener][k].client
        PROVE  j = k
    <3> DEFINE a == j + 1
               b == k + 1
    <3>1. a \in 1..Len(chan[Listener]) /\ b \in 1..Len(chan[Listener])
      BY <1>8
    <3>2. chan[Listener][a].client = chan[Listener][b].client
      BY <1>6, <2>4
    <3>3. a = b
      <4> HIDE DEF a, b
      <4> QED BY <3>1, <3>2 DEF Registered
    <3> QED BY <3>3
  <2>5. ASSUME NEW j \in 1..Len(chan'[Listener]), NEW k \in 1..Len(llmp_clients')
        PROVE  llmp_clients'[k].from # chan'[Listener][j].client
    <3> DEFINE a == j + 1
    <3>1. a \in 1..Len(chan[Listener]) /\ a # 1 /\ chan'[Listener][j] = chan[Listener][a]
      BY <1>6, <1>8
    <3> HIDE DEF a
    <3>2. CASE k \in 1..len
      BY <1>4, <3>1, <3>2 DEF Registered, len
    <3>3. CASE k = len + 1
      <4>1. chan[Listener][a].client # chan[Listener][1].client
        <5>1. 1 \in 1..Len(chan[Listener])
          BY <1>0, <1>6
        <5> QED BY <3>1, <5>1 DEF Registered
      <4> QED BY <1>3, <1>4, <3>1, <3>3, <4>1
    <3> QED BY <1>7, <3>2, <3>3
  <2> QED BY <2>1, <2>2, <2>3, <2>4, <2>5 DEF Registered
<1>11. Counted'
  <2>1. num_clients_total' = num_clients_total + 1
    BY DEF NewShmClient
  <2>2. num_clients_total' + Len(chan'[Listener]) = num_clients_total + Len(chan[Listener])
    <3>1. \A a, b \in Nat : (a + 1) + (b - 1) = a + b
      OBVIOUS
    <3> QED BY <1>0, <1>6, <2>1, <3>1
  <2> QED BY <1>5, <2>2 DEF Counted
<1> QED BY <1>10, <1>11

\* Every step keeps what is said of registration.
LEMMA RegisteredStep ==
  ASSUME Types, Types', InOnce, Registered, Counted, Next
  PROVE  Registered' /\ Counted'
<1>0. /\ Len(llmp_clients) \in Nat /\ Len(chan[Listener]) \in Nat
      /\ num_clients_total \in Nat /\ current_client_id \in Nat
  BY LenProperties DEF Types, ChanTypes
<1>1. ASSUME Joined' = Joined, chan'[Listener] = chan[Listener] \/ Shifted(Listener),
             UNCHANGED <<num_clients_total, current_client_id>>
      PROVE  Counted'
  BY <1>0, <1>1 DEF Counted, Shifted
<1>2. ASSUME NEW c \in Clients, ClientStep(c)
      PROVE  Registered' /\ Counted'
  <2>1. CASE cl[c].pc = "new"
    <3>1. Connect(c)
      BY <1>2, <2>1 DEF ClientStep, SendEvent, SendExiting, GiveUp, Crash, ReadBroadcast
    <3> QED BY <3>1, ConnectRegisters
  <2>2. CASE cl[c].pc # "new"
    <3>1. /\ UNCHANGED <<broker, current_client_id, clash>> /\ Joined' = Joined
          /\ chan'[Listener] = chan[Listener]
      BY <1>2, <2>2, ClientEffect
    <3>2. UNCHANGED <<llmp_clients, num_clients_total>>
      BY <3>1 DEF broker
    <3>3. Registered'
      BY <3>1, <3>2, RegisteredSame
    <3> QED BY <1>1, <3>1, <3>2, <3>3
  <2> QED BY <2>1, <2>2
<1>3. CASE NewShmClient
  BY <1>3, NewShmClientRegisters
<1>4. CASE OnceEnd
  <2>1. UNCHANGED <<num_clients_total, current_client_id, chan, cl>>
    BY <1>4 DEF OnceEnd
  <2>2. Joined' = Joined
    BY <2>1 DEF Joined
  <2>3. PICK at : /\ at \in [1..Len(llmp_clients') -> 1..Len(llmp_clients)]
                  /\ \A k \in 1..Len(llmp_clients') : llmp_clients'[k] = llmp_clients[at[k]]
                  /\ \A j, k \in 1..Len(llmp_clients') : at[j] = at[k] => j = k
    BY <1>4, OnceEndLeaves
  <2>4. /\ Len(chan'[Listener]) + 0 = Len(chan[Listener])
        /\ \A j \in 1..Len(chan'[Listener]) : chan'[Listener][j] = chan[Listener][j + 0]
    BY <1>0, <2>1
  <2>5. \A k \in 1..Len(llmp_clients') : llmp_clients'[k].from = llmp_clients[at[k]].from
    BY <2>3
  <2>6. Registered'
    BY <2>2, <2>3, <2>4, <2>5, RegisteredKept
  <2> QED BY <1>1, <2>1, <2>2, <2>6
<1>5. CASE OnNewMsg \/ NewShmClientIgnored
  <2>1. bpc = "recv" /\ Unread # << >> /\ Consume
    BY <1>5 DEF OnNewMsg, NewShmClientIgnored, Receives
  <2>2. llmp_clients[Pos].from \in Senders /\ Listener \in Senders
    BY <2>1, PosFacts DEF Senders
  <2>3. chan'[Listener] = chan[Listener] \/ Shifted(Listener)
    <3>1. Shifted(llmp_clients[Pos].from)
      BY <2>1, ConsumeShifts
    <3>2. CASE llmp_clients[Pos].from = Listener
      BY <3>1, <3>2
    <3>3. CASE llmp_clients[Pos].from # Listener
      BY <2>2, <3>1, <3>3 DEF Shifted
    <3> QED BY <3>2, <3>3
  <2>4. UNCHANGED <<llmp_clients, num_clients_total, current_client_id, cl>>
    BY <1>5 DEF OnNewMsg, NewShmClientIgnored
  <2>5. Joined' = Joined
    BY <2>4 DEF Joined
  <2>6. Registered'
    BY <2>3, <2>4, <2>5, RegisteredSame
  <2> QED BY <1>1, <2>3, <2>4, <2>5, <2>6
<1>6. CASE NoMoreMsgs \/ TimePasses
  <2>1. UNCHANGED <<num_clients_total, current_client_id, chan, cl>>
    BY <1>6 DEF NoMoreMsgs, TimePasses
  <2>2. Joined' = Joined
    BY <2>1 DEF Joined
  <2>3. /\ Len(llmp_clients') = Len(llmp_clients)
        /\ \A k \in 1..Len(llmp_clients) : llmp_clients'[k].from = llmp_clients[k].from
    <3>0. llmp_clients \in Seq(Receivers) /\ llmp_clients' \in Seq(Receivers)
      BY DEF Types
    <3>1. /\ DOMAIN llmp_clients' = DOMAIN llmp_clients
          /\ \A k \in DOMAIN llmp_clients : llmp_clients'[k].from = llmp_clients[k].from
      <4>1. CASE NoMoreMsgs
        <5>1. \/ llmp_clients' = [llmp_clients EXCEPT ![Pos].old = FALSE]
              \/ llmp_clients' = llmp_clients
          BY <4>1 DEF NoMoreMsgs
        <5>2. \A k \in DOMAIN llmp_clients : llmp_clients[k] \in Receivers
          BY <3>0, LenProperties, ElementOfSeq
        <5> QED BY <5>1, <5>2 DEF Receivers
      <4>2. CASE TimePasses
        <5>1. llmp_clients' = [k \in 1..Len(llmp_clients) |-> [llmp_clients[k] EXCEPT !.old = TRUE]]
          BY <4>2 DEF TimePasses
        <5>2. DOMAIN llmp_clients = 1..Len(llmp_clients)
          BY <3>0, LenProperties
        <5>3. \A k \in DOMAIN llmp_clients : llmp_clients[k] \in Receivers
          BY <3>0, <5>2, ElementOfSeq
        <5> QED BY <5>1, <5>2, <5>3 DEF Receivers
      <4> QED BY <1>6, <4>1, <4>2
    <3> QED BY <3>0, <3>1, LenProperties
  <2>4. Registered'
    BY <2>1, <2>2, <2>3, RegisteredSame
  <2> QED BY <1>1, <2>1, <2>2, <2>4
<1>7. CASE OnceBegin \/ HandleNewMsgs \/ SlowReceiverPanic \/ ClientShutsDown \/ Interrupt
           \/ Terminated
  <2>1. UNCHANGED <<llmp_clients, num_clients_total, current_client_id, chan, cl>>
    BY <1>7 DEF OnceBegin, HandleNewMsgs, SlowReceiverPanic, ClientShutsDown, Interrupt,
                Terminated, vars, broker
  <2>2. Joined' = Joined
    BY <2>1 DEF Joined
  <2>3. Registered'
    BY <2>1, <2>2, RegisteredSame
  <2> QED BY <1>1, <2>1, <2>2, <2>3
<1> QED BY <1>2, <1>3, <1>4, <1>5, <1>6, <1>7 DEF Next, BrokerStep

-----------------------------------------------------------------------------
(* Polling and removal *)

\* No client touches what the broker keeps.
LEMMA ClientsLeaveBroker ==
  ASSUME NEW c \in Clients, ClientStep(c)
  PROVE  UNCHANGED broker /\ clash' = clash
BY DEF ClientStep, Connect, SendEvent, SendExiting, GiveUp, Crash, ReadBroadcast

\* A list that ascends up to i still does when i is added.
LEMMA AppendAscends ==
  ASSUME Types, InOnce, bpc = "recv"
  PROVE  LET r == Append(clients_to_remove, once.i)
         IN  /\ Len(r) = Len(clients_to_remove) + 1 /\ r[Len(clients_to_remove) + 1] = once.i
             /\ \A k \in 1..Len(clients_to_remove) : r[k] = clients_to_remove[k]
             /\ \A k \in 1..Len(r) : r[k] \in 1..Len(llmp_clients) /\ r[k] < once.i + 1
             /\ \A j, k \in 1..Len(r) : j < k => r[j] < r[k]
<1> DEFINE r == Append(clients_to_remove, once.i)
           len == Len(clients_to_remove)
<1>0. /\ clients_to_remove \in Seq(Nat) /\ len \in Nat /\ once.i \in Nat
      /\ once.i \in 1..Len(llmp_clients) /\ Len(llmp_clients) \in Nat
  BY LenProperties DEF Types, InOnce
<1>1. /\ Len(r) = len + 1 /\ r[len + 1] = once.i
      /\ \A k \in 1..len : r[k] = clients_to_remove[k]
  BY <1>0, AppendProperties
<1>2. \A k \in 1..len : /\ clients_to_remove[k] \in 1..Len(llmp_clients)
                        /\ clients_to_remove[k] < once.i /\ clients_to_remove[k] \in Nat
  BY <1>0, ElementOfSeq DEF InOnce
<1>3. \A j, k \in 1..len : j < k => clients_to_remove[j] < clients_to_remove[k]
  BY DEF InOnce
<1>4. \A k \in 1..Len(r) : k \in 1..len \/ k = len + 1
  BY <1>0, <1>1
<1> HIDE DEF r
<1>5. \A k \in 1..Len(r) : r[k] \in 1..Len(llmp_clients) /\ r[k] < once.i + 1
  BY <1>0, <1>1, <1>2, <1>4
<1>6. ASSUME NEW j \in 1..Len(r), NEW k \in 1..Len(r), j < k
      PROVE  r[j] < r[k]
  <2>1. j \in 1..len
    BY <1>0, <1>1, <1>4, <1>6
  <2>2. CASE k \in 1..len
    BY <1>1, <1>3, <1>6, <2>1, <2>2
  <2>3. CASE k = len + 1
    BY <1>1, <1>2, <2>1, <2>3
  <2> QED BY <1>4, <2>2, <2>3
<1>7. r = Append(clients_to_remove, once.i)
  BY DEF r
<1> QED BY <1>1, <1>5, <1>6, <1>7

\* Every step keeps what is said of once().
LEMMA InOnceStep ==
  ASSUME Types, Types', InOnce, Next
  PROVE  InOnce'
<1>0. /\ llmp_clients \in Seq(Receivers) /\ Len(llmp_clients) \in Nat
      /\ clients_to_remove \in Seq(Nat) /\ once.i \in Nat /\ once.n \in Nat
  BY LenProperties DEF Types
<1>1. ASSUME NEW c \in Clients, ClientStep(c)
      PROVE  InOnce'
  BY <1>1, ClientsLeaveBroker DEF broker, InOnce
<1>2. CASE OnceBegin
  <2>1. /\ bpc' = "client" /\ clients_to_remove' = << >> /\ llmp_clients' = llmp_clients
        /\ once'.i = 1 /\ once'.n = Len(llmp_clients)
    BY <1>2 DEF OnceBegin, InOnce, NoOnce
  <2>2. 1..Len(clients_to_remove') = {}
    BY <2>1
  <2> QED BY <1>0, <2>1, <2>2 DEF InOnce
<1>3. CASE HandleNewMsgs
  <2>1. /\ bpc = "client" /\ bpc' = "recv" /\ once.i <= once.n
        /\ once' = [once EXCEPT !.client_id = llmp_clients[once.i].id,
                                !.next_id = Len(llmp_clients), !.new = FALSE]
        /\ UNCHANGED <<llmp_clients, clients_to_remove>>
    BY <1>3 DEF HandleNewMsgs
  <2>2. once'.i = once.i /\ once'.n = once.n /\ once'.client_id = llmp_clients[once.i].id
    BY <2>1 DEF Types
  <2> QED BY <1>0, <2>1, <2>2 DEF InOnce
<1>4. CASE OnNewMsg \/ NewShmClientIgnored
  <2>1. /\ bpc' \in {bpc, "panicked"} /\ UNCHANGED <<llmp_clients, clients_to_remove>>
        /\ once' = [once EXCEPT !.new = TRUE]
    BY <1>4 DEF OnNewMsg, NewShmClientIgnored
  <2>2. once'.i = once.i /\ once'.n = once.n /\ once'.client_id = once.client_id
    BY <2>1 DEF Types
  <2> QED BY <2>1, <2>2 DEF InOnce
<1>5. CASE NewShmClient
  <2>1. /\ bpc = "recv" /\ bpc' = bpc /\ UNCHANGED clients_to_remove
        /\ once' = [once EXCEPT !.new = TRUE, !.next_id = once.next_id + 1]
        /\ llmp_clients' = Append(llmp_clients, Receiver(once.next_id, Head(Unread).client))
    BY <1>5 DEF NewShmClient, Receives
  <2>2. once'.i = once.i /\ once'.n = once.n /\ once'.client_id = once.client_id
    BY <2>1 DEF Types
  <2>3. /\ Len(llmp_clients') = Len(llmp_clients) + 1
        /\ \A k \in 1..Len(llmp_clients) : llmp_clients'[k] = llmp_clients[k]
    BY <1>0, <2>1, AppendProperties
  <2>4. once.i \in 1..Len(llmp_clients) /\ once.n <= Len(llmp_clients)
    BY <1>0, <2>1 DEF InOnce
  <2>5. once.n <= Len(llmp_clients') /\ 1..Len(llmp_clients) \subseteq 1..Len(llmp_clients')
    BY <1>0, <2>3, <2>4
  <2> QED BY <2>1, <2>2, <2>3, <2>4, <2>5 DEF InOnce
<1>6. CASE SlowReceiverPanic
  BY <1>6 DEF SlowReceiverPanic, InOnce
<1>7. CASE ClientShutsDown \/ NoMoreMsgs
  <2>1. /\ bpc = "recv" /\ bpc' = "client" /\ once' = [once EXCEPT !.i = once.i + 1]
        /\ \/ clients_to_remove' = Append(clients_to_remove, once.i)
           \/ clients_to_remove' = clients_to_remove
    BY <1>7 DEF ClientShutsDown, NoMoreMsgs, NextClient, Receives
  <2>2. once'.i = once.i + 1 /\ once'.n = once.n
    BY <2>1 DEF Types
  <2>3. Len(llmp_clients') = Len(llmp_clients)
    <3>1. CASE ClientShutsDown
      BY <3>1 DEF ClientShutsDown
    <3>2. CASE NoMoreMsgs
      <4>1. \/ llmp_clients' = [llmp_clients EXCEPT ![Pos].old = FALSE]
            \/ llmp_clients' = llmp_clients
        BY <3>2 DEF NoMoreMsgs
      <4>2. DOMAIN llmp_clients' = DOMAIN llmp_clients /\ llmp_clients' \in Seq(Receivers)
        BY <4>1 DEF Types
      <4> QED BY <1>0, <4>2, LenProperties
    <3> QED BY <1>7, <3>1, <3>2
  <2>4. once.i >= 1 /\ once.n <= Len(llmp_clients)
    BY <2>1 DEF InOnce
  <2>5. CASE clients_to_remove' = clients_to_remove
    <3>1. \A k \in 1..Len(clients_to_remove) :
             clients_to_remove[k] < once.i /\ clients_to_remove[k] \in Nat
      BY <1>0, <2>1, ElementOfSeq DEF InOnce
    <3>2. \A k \in 1..Len(clients_to_remove) : clients_to_remove[k] < once.i + 1
      BY <1>0, <3>1
    <3> QED BY <1>0, <2>1, <2>2, <2>3, <2>4, <2>5, <3>2 DEF InOnce
  <2>6. CASE clients_to_remove' = Append(clients_to_remove, once.i)
    <3>1. /\ \A k \in 1..Len(clients_to_remove') :
                clients_to_remove'[k] \in 1..Len(llmp_clients) /\ clients_to_remove'[k] < once.i + 1
          /\ \A j, k \in 1..Len(clients_to_remove') :
                j < k => clients_to_remove'[j] < clients_to_remove'[k]
      BY <2>1, <2>6, AppendAscends
    <3> QED BY <1>0, <2>1, <2>2, <2>3, <2>4, <3>1 DEF InOnce
  <2> QED BY <2>1, <2>5, <2>6
<1>8. CASE OnceEnd
  <2>1. clients_to_remove' = << >> /\ bpc' \in {"quit", "loop"}
    BY <1>8 DEF OnceEnd
  <2>2. 1..Len(clients_to_remove') = {}
    BY <2>1
  <2> QED BY <2>1, <2>2 DEF InOnce
<1>9. CASE Interrupt
  BY <1>9 DEF Interrupt, InOnce
<1>10. CASE TimePasses
  <2>1. bpc' = "loop" /\ clients_to_remove' = << >>
    BY <1>10 DEF TimePasses, InOnce
  <2>2. 1..Len(clients_to_remove') = {}
    BY <2>1
  <2> QED BY <2>1, <2>2 DEF InOnce
<1>11. CASE Terminated
  BY <1>11 DEF Terminated, vars, broker, InOnce
<1> QED BY <1>1, <1>2, <1>3, <1>4, <1>5, <1>6, <1>7, <1>8, <1>9, <1>10, <1>11 DEF Next, BrokerStep

\* A client that posts does not change what is at the head of its channel.
LEMMA PostKeepsDone ==
  ASSUME Types, NEW c \in Senders, NEW msg, Post(c, msg), NEW r \in Receivers, Done(r)
  PROVE  r.old \/ (chan'[r.from] # << >> /\ Head(chan'[r.from]).kind = "EXITING")
<1>0. r.from \in Senders /\ DOMAIN chan = Senders
  BY DEF Receivers, Types, ChanTypes
<1>1. CASE r.from # c
  BY <1>0, <1>1 DEF Post, Done
<1>2. CASE r.from = c /\ chan[c] # << >>
  <2>1. PICK T : chan[c] \in Seq(T)
    BY ChanIsSeq
  <2>2. chan'[c] = Append(chan[c], msg)
    BY <1>0 DEF Post
  <2>3. Append(chan[c], msg) # << >> /\ Head(Append(chan[c], msg)) = Head(chan[c])
    BY <1>2, <2>1
  <2> QED BY <1>2, <2>2, <2>3 DEF Done
<1> QED BY <1>1, <1>2 DEF Done

\* Taking a message from the client whose turn it is leaves alone those that are to be
\* removed: they had their turn.
LEMMA ConsumeKeepsDone ==
  ASSUME Types, InOnce, Registered, Removals, ~clash, bpc = "recv", Unread # << >>, Consume,
         NEW k \in 1..Len(clients_to_remove)
  PROVE  LET r == llmp_clients[clients_to_remove[k]]
         IN  r.old \/ (chan'[r.from] # << >> /\ Head(chan'[r.from]).kind = "EXITING")
<1> DEFINE r == llmp_clients[clients_to_remove[k]]
<1>1. Done(r)
  BY DEF Removals
<1>2. Pos = once.i
  BY PosIsTurn
<1>3. Shifted(llmp_clients[Pos].from)
  BY ConsumeShifts
<1>4. clients_to_remove[k] \in 1..Len(llmp_clients) /\ clients_to_remove[k] # once.i
  <2>1. clients_to_remove[k] \in 1..Len(llmp_clients) /\ clients_to_remove[k] < once.i
    BY DEF InOnce
  <2>2. once.i \in Nat /\ clients_to_remove[k] \in Nat
    BY <2>1 DEF Types
  <2> QED BY <2>1, <2>2
<1>5. r.from # llmp_clients[Pos].from
  BY <1>2, <1>4, PosFacts DEF Registered
<1>6. r.from \in Senders
  <2>1. llmp_clients \in Seq(Receivers)
    BY DEF Types
  <2>2. r \in Receivers
    BY <1>4, <2>1, ElementOfSeq
  <2> QED BY <2>2 DEF Receivers
<1>7. chan'[r.from] = chan[r.from]
  BY <1>3, <1>5, <1>6 DEF Shifted
<1> QED BY <1>1, <1>7 DEF Done

\* Every step keeps what is said of the clients that are to be removed.
LEMMA RemovalsStep ==
  ASSUME Types, Types', InOnce, InOnce', Registered, Removals, Next
  PROVE  Removals'
<1> SUFFICES ASSUME ~clash'
             PROVE  /\ \A j, k \in 1..Len(llmp_clients') :
                          llmp_clients'[j].id = llmp_clients'[k].id => j = k
                    /\ \A k \in 1..Len(clients_to_remove') :
                          Done(llmp_clients[clients_to_remove[k]])'
  BY DEF Removals
<1> DEFINE DoneThen(r) == r.old \/ (chan'[r.from] # << >> /\ Head(chan'[r.from]).kind = "EXITING")
<1>0. ~clash
  <2>1. clash' = clash \/ NewShmClient
    BY ClientsLeaveBroker DEF Next, BrokerStep, OnceBegin, HandleNewMsgs, OnNewMsg,
          NewShmClientIgnored, SlowReceiverPanic, ClientShutsDown, NoMoreMsgs, OnceEnd, Interrupt,
          TimePasses, Terminated, vars
  <2>2. CASE NewShmClient
    BY <2>2 DEF NewShmClient, Types
  <2> QED BY <2>1, <2>2
<1>a. /\ llmp_clients \in Seq(Receivers) /\ Len(llmp_clients) \in Nat
      /\ clients_to_remove \in Seq(Nat) /\ Len(clients_to_remove) \in Nat
  BY LenProperties DEF Types
<1>b. /\ \A j, k \in 1..Len(llmp_clients) : llmp_clients[j].id = llmp_clients[k].id => j = k
      /\ \A k \in 1..Len(clients_to_remove) : Done(llmp_clients[clients_to_remove[k]])
  BY <1>0 DEF Removals
<1>c. \A k \in 1..Len(clients_to_remove) :
         /\ clients_to_remove[k] \in 1..Len(llmp_clients)
         /\ llmp_clients[clients_to_remove[k]] \in Receivers
  BY <1>a, ElementOfSeq DEF InOnce
<1>d. ASSUME \A k \in 1..Len(clients_to_remove') : DoneThen(llmp_clients'[clients_to_remove'[k]])
      PROVE  \A k \in 1..Len(clients_to_remove') : Done(llmp_clients[clients_to_remove[k]])'
  BY <1>d DEF Done
<1>1. ASSUME NEW c \in Clients, ClientStep(c)
      PROVE  Removals'
  <2>1. UNCHANGED <<llmp_clients, clients_to_remove>>
    BY <1>1, ClientsLeaveBroker DEF broker
  <2>2. chan' = chan \/ \E msg : Post(c, msg) \/ Post(Listener, msg)
    BY <1>1 DEF ClientStep, Connect, SendEvent, SendExiting, GiveUp, Crash, ReadBroadcast, Post
  <2>3. ASSUME NEW k \in 1..Len(clients_to_remove')
        PROVE  DoneThen(llmp_clients'[clients_to_remove'[k]])
    <3>1. CASE chan' = chan
      BY <1>b, <2>1, <3>1 DEF Done
    <3>2. ASSUME NEW msg, NEW s \in Senders, Post(s, msg)
          PROVE  DoneThen(llmp_clients'[clients_to_remove'[k]])
      BY <1>b, <1>c, <2>1, <3>2, PostKeepsDone
    <3> QED BY <2>2, <3>1, <3>2 DEF Senders
  <2> QED BY <1>b, <1>d, <2>1, <2>3 DEF Removals
<1>2. CASE OnNewMsg \/ NewShmClientIgnored
  <2>1. /\ bpc = "recv" /\ Unread # << >> /\ Consume
        /\ UNCHANGED <<llmp_clients, clients_to_remove>>
    BY <1>2 DEF OnNewMsg, NewShmClientIgnored, Receives
  <2>2. \A k \in 1..Len(clients_to_remove') : DoneThen(llmp_clients'[clients_to_remove'[k]])
    BY <1>0, <2>1, ConsumeKeepsDone
  <2> QED BY <1>b, <1>d, <2>1, <2>2 DEF Removals
<1>3. CASE NewShmClient
  <2> DEFINE len == Len(llmp_clients)
             new == Receiver(once.next_id, Head(Unread).client)
  <2>1. /\ bpc = "recv" /\ Unread # << >> /\ Consume /\ clients_to_remove' = clients_to_remove
        /\ llmp_clients' = Append(llmp_clients, new)
        /\ clash' = (clash \/ \E k \in 1..len : llmp_clients[k].id = once.next_id)
    BY <1>3 DEF NewShmClient, Receives
  <2>2. /\ Len(llmp_clients') = len + 1 /\ llmp_clients'[len + 1].id = once.next_id
        /\ \A k \in 1..len : llmp_clients'[k] = llmp_clients[k]
    BY <1>a, <2>1, AppendProperties DEF Receiver
  <2>3. \A k \in 1..len : llmp_clients[k].id # once.next_id
    BY <2>1
  <2>4. \A k \in 1..Len(llmp_clients') : k \in 1..len \/ k = len + 1
    BY <1>a, <2>2
  <2>5. ASSUME NEW j \in 1..Len(llmp_clients'), NEW k \in 1..Len(llmp_clients'),
               llmp_clients'[j].id = llmp_clients'[k].id
        PROVE  j = k
    <3>1. CASE j \in 1..len /\ k \in 1..len
      BY <1>b, <2>2, <2>5, <3>1
    <3>2. CASE j = len + 1 \/ k = len + 1
      <4> HIDE DEF len
      <4> QED BY <2>2, <2>3, <2>4, <2>5, <3>2
    <3> QED BY <2>4, <3>1, <3>2
  <2>6. \A k \in 1..Len(clients_to_remove') : DoneThen(llmp_clients'[clients_to_remove'[k]])
    <3>1. \A k \in 1..Len(clients_to_remove) : DoneThen(llmp_clients[clients_to_remove[k]])
      BY <1>0, <2>1, ConsumeKeepsDone
    <3> QED BY <1>c, <2>1, <2>2, <3>1
  <2> QED BY <1>d, <2>5, <2>6 DEF Removals
<1>4. CASE ClientShutsDown
  <2>1. /\ bpc = "recv" /\ Unread # << >> /\ Head(Unread).kind = "EXITING"
        /\ clients_to_remove' = Append(clients_to_remove, once.i)
        /\ UNCHANGED <<llmp_clients, chan>>
    BY <1>4 DEF ClientShutsDown, Receives
  <2>2. Pos = once.i
    BY <1>0, <2>1, PosIsTurn
  <2>3. DoneThen(llmp_clients[once.i])
    BY <2>1, <2>2 DEF Unread
  <2>4. ASSUME NEW k \in 1..Len(clients_to_remove')
        PROVE  DoneThen(llmp_clients'[clients_to_remove'[k]])
    <3>1. \/ k \in 1..Len(clients_to_remove) /\ clients_to_remove'[k] = clients_to_remove[k]
          \/ clients_to_remove'[k] = once.i
      BY <1>a, <2>1, AppendAscends
    <3>2. CASE k \in 1..Len(clients_to_remove) /\ clients_to_remove'[k] = clients_to_remove[k]
      BY <1>b, <2>1, <3>2 DEF Done
    <3>3. CASE clients_to_remove'[k] = once.i
      BY <2>1, <2>3, <3>3
    <3> QED BY <3>1, <3>2, <3>3
  <2> QED BY <1>b, <1>d, <2>1, <2>4 DEF Removals
<1>5. CASE NoMoreMsgs
  <2>1. bpc = "recv" /\ UNCHANGED chan
    BY <1>5 DEF NoMoreMsgs
  <2>2. Pos = once.i /\ Pos \in 1..Len(llmp_clients)
    BY <1>0, <2>1, PosIsTurn, PosFacts
  <2>3. \A k \in 1..Len(clients_to_remove) : clients_to_remove[k] # once.i
    <3>1. \A k \in 1..Len(clients_to_remove) :
             clients_to_remove[k] < once.i /\ clients_to_remove[k] \in Nat /\ once.i \in Nat
      BY <1>a, <2>1, ElementOfSeq DEF InOnce, Types
    <3> QED BY <3>1
  <2>4. CASE once.new
    <3>1. /\ llmp_clients' = [llmp_clients EXCEPT ![Pos].old = FALSE]
          /\ clients_to_remove' = clients_to_remove
      BY <1>5, <2>4 DEF NoMoreMsgs
    <3>2. /\ Len(llmp_clients') = Len(llmp_clients)
          /\ \A k \in 1..Len(llmp_clients) :
                /\ llmp_clients'[k].id = llmp_clients[k].id
                /\ k # Pos => llmp_clients'[k] = llmp_clients[k]
      <4>1. DOMAIN llmp_clients = 1..Len(llmp_clients) /\ llmp_clients' \in Seq(Receivers)
        BY <1>a, LenProperties DEF Types
      <4>2. DOMAIN llmp_clients' = DOMAIN llmp_clients
        BY <3>1
      <4>3. \A k \in 1..Len(llmp_clients) : llmp_clients[k] \in Receivers
        BY <1>a, ElementOfSeq
      <4>4. \A k \in 1..Len(llmp_clients) :
                llmp_clients'[k].id = llmp_clients[k].id
                /\ (k # Pos => llmp_clients'[k] = llmp_clients[k])
        BY <3>1, <4>1, <4>3 DEF Receivers
      <4>5. Len(llmp_clients') = Len(llmp_clients)
        BY <1>a, <4>1, <4>2, LenProperties
      <4> QED BY <4>4, <4>5
    <3>3. \A k \in 1..Len(clients_to_remove') : DoneThen(llmp_clients'[clients_to_remove'[k]])
      BY <1>b, <1>c, <2>1, <2>2, <2>3, <3>1, <3>2 DEF Done
    <3>4. \A j, k \in 1..Len(llmp_clients') : llmp_clients'[j].id = llmp_clients'[k].id => j = k
      BY <1>b, <3>2
    <3> QED BY <1>d, <3>3, <3>4 DEF Removals
  <2>5. CASE ~once.new
    <3>1. /\ llmp_clients' = llmp_clients
          /\ \/ clients_to_remove' = clients_to_remove
             \/ /\ clients_to_remove' = Append(clients_to_remove, once.i)
                /\ llmp_clients[once.i].old
      BY <1>5, <2>5 DEF NoMoreMsgs
    <3>2. ASSUME NEW k \in 1..Len(clients_to_remove')
          PROVE  DoneThen(llmp_clients'[clients_to_remove'[k]])
      <4>1. CASE clients_to_remove' = clients_to_remove
        BY <1>b, <2>1, <3>1, <4>1 DEF Done
      <4>2. CASE clients_to_remove' = Append(clients_to_remove, once.i) /\ llmp_clients[once.i].old
        <5>1. \/ k \in 1..Len(clients_to_remove) /\ clients_to_remove'[k] = clients_to_remove[k]
              \/ clients_to_remove'[k] = once.i
          BY <1>a, <2>1, <4>2, AppendAscends
        <5>2. CASE k \in 1..Len(clients_to_remove) /\ clients_to_remove'[k] = clients_to_remove[k]
          BY <1>b, <2>1, <3>1, <5>2 DEF Done
        <5>3. CASE clients_to_remove'[k] = once.i
          BY <3>1, <4>2, <5>3
        <5> QED BY <5>1, <5>2, <5>3
      <4> QED BY <3>1, <4>1, <4>2
    <3> QED BY <1>b, <1>d, <3>1, <3>2 DEF Removals
  <2> QED BY <2>4, <2>5
<1>6. CASE OnceEnd
  <2>1. PICK at : /\ at \in [1..Len(llmp_clients') -> 1..Len(llmp_clients)]
                  /\ \A k \in 1..Len(llmp_clients') : llmp_clients'[k] = llmp_clients[at[k]]
                  /\ \A j, k \in 1..Len(llmp_clients') : at[j] = at[k] => j = k
    BY <1>6, OnceEndLeaves
  <2>2. clients_to_remove' = << >>
    BY <1>6 DEF OnceEnd
  <2>3. 1..Len(clients_to_remove') = {}
    BY <2>2
  <2>4. ASSUME NEW j \in 1..Len(llmp_clients'), NEW k \in 1..Len(llmp_clients'),
               llmp_clients'[j].id = llmp_clients'[k].id
        PROVE  j = k
    <3>1. at[j] \in 1..Len(llmp_clients) /\ at[k] \in 1..Len(llmp_clients)
      BY <2>1
    <3>2. llmp_clients[at[j]].id = llmp_clients[at[k]].id
      BY <2>1, <2>4
    <3>3. at[j] = at[k]
      BY <1>b, <3>1, <3>2
    <3> QED BY <2>1, <3>3
  <2> QED BY <1>d, <2>3, <2>4 DEF Removals
<1>7. CASE TimePasses
  <2>1. clients_to_remove' = << >>
    BY <1>7 DEF TimePasses, InOnce
  <2>2. 1..Len(clients_to_remove') = {}
    BY <2>1
  <2>3. llmp_clients' = [k \in 1..Len(llmp_clients) |-> [llmp_clients[k] EXCEPT !.old = TRUE]]
    BY <1>7 DEF TimePasses
  <2>4. \A k \in 1..Len(llmp_clients) : llmp_clients[k] \in Receivers
    BY <1>a, ElementOfSeq
  <2>5. \A k \in 1..Len(llmp_clients) : llmp_clients'[k].id = llmp_clients[k].id
    BY <2>3, <2>4 DEF Receivers
  <2>6. Len(llmp_clients') = Len(llmp_clients)
    <3>1. DOMAIN llmp_clients' = 1..Len(llmp_clients) /\ llmp_clients' \in Seq(Receivers)
      BY <2>3 DEF Types
    <3> QED BY <1>a, <3>1, LenProperties
  <2> QED BY <1>b, <1>d, <2>2, <2>5, <2>6 DEF Removals
<1>8. CASE OnceBegin \/ HandleNewMsgs \/ SlowReceiverPanic \/ Interrupt \/ Terminated
  <2>1. UNCHANGED <<llmp_clients, clients_to_remove, chan>>
    BY <1>8 DEF OnceBegin, HandleNewMsgs, SlowReceiverPanic, Interrupt, Terminated, vars, broker
  <2>2. \A k \in 1..Len(clients_to_remove') : DoneThen(llmp_clients'[clients_to_remove'[k]])
    BY <1>b, <2>1 DEF Done
  <2> QED BY <1>b, <1>d, <2>1, <2>2 DEF Removals
<1>9. CASE \E c \in Clients : ClientStep(c)
  <2>1. Removals'
    BY <1>1, <1>9
  <2> QED BY <2>1 DEF Removals
<1> QED BY <1>2, <1>3, <1>4, <1>5, <1>6, <1>7, <1>8, <1>9 DEF Next, BrokerStep

-----------------------------------------------------------------------------
(* The order of events *)

\* Events still ascend when the first of a channel is taken and perhaps forwarded.
LEMMA EventsKept ==
  ASSUME Types, Types', NEW c \in Clients, EventsAscend(c), cl'[c].sent = cl[c].sent,
         chan'[c] = chan[c] \/ Shifted(c),
         \A j \in 1..Len(out') : \/ j \in 1..Len(out) /\ out'[j] = out[j]
                                 \/ out'[j].kind # "EVENT" \/ out'[j].client # c
                                 \/ Shifted(c) /\ out'[j] = chan[c][1]
  PROVE  EventsAscend(c)'
<1>0. Len(chan[c]) \in Nat /\ Len(chan'[c]) \in Nat
  BY LenProperties DEF Types, ChanTypes
<1>1. PICK d \in {0, 1} :
         /\ \A k \in 1..Len(chan'[c]) : k + d \in 1..Len(chan[c]) /\ chan'[c][k] = chan[c][k + d]
         /\ Shifted(c) => d = 1
  <2>1. CASE Shifted(c)
    <3>1. \A k \in 1..Len(chan'[c]) : k + 1 \in 1..Len(chan[c]) /\ chan'[c][k] = chan[c][k + 1]
      BY <1>0, <2>1 DEF Shifted
    <3> QED BY <3>1
  <2>2. CASE ~Shifted(c)
    <3>1. \A k \in 1..Len(chan'[c]) : k + 0 \in 1..Len(chan[c]) /\ chan'[c][k] = chan[c][k + 0]
      BY <1>0, <2>2
    <3> QED BY <2>2, <3>1
  <2> QED BY <2>1, <2>2
<1>2. \A k \in 1..Len(chan'[c]) : chan'[c][k].kind = "EVENT" => chan'[c][k].n <= cl'[c].sent
  BY <1>1 DEF EventsAscend
<1>3. ASSUME NEW j \in 1..Len(chan'[c]), NEW k \in 1..Len(chan'[c]), j < k,
             chan'[c][j].kind = "EVENT", chan'[c][k].kind = "EVENT"
      PROVE  chan'[c][j].n < chan'[c][k].n
  <2> DEFINE a == j + d
             b == k + d
  <2>1. a \in 1..Len(chan[c]) /\ b \in 1..Len(chan[c]) /\ a < b
    BY <1>1, <1>3
  <2>2. chan'[c][j] = chan[c][a] /\ chan'[c][k] = chan[c][b]
    BY <1>1
  <2> HIDE DEF a, b
  <2> QED BY <1>3, <2>1, <2>2 DEF EventsAscend
<1>4. ASSUME NEW j \in 1..Len(out'), out'[j].kind = "EVENT", out'[j].client = c
      PROVE  /\ out'[j].n <= cl'[c].sent
             /\ \A k \in 1..Len(chan'[c]) :
                   chan'[c][k].kind = "EVENT" => out'[j].n < chan'[c][k].n
  <2>1. CASE j \in 1..Len(out) /\ out'[j] = out[j]
    BY <1>1, <1>4, <2>1, ZenonT(60) DEF EventsAscend
  <2>2. CASE Shifted(c) /\ out'[j] = chan[c][1]
    <3>1. 1 \in 1..Len(chan[c]) /\ d = 1
      BY <1>0, <1>1, <2>2 DEF Shifted
    <3>2. out'[j].n <= cl'[c].sent
      BY <1>4, <2>2, <3>1 DEF EventsAscend
    <3>3. ASSUME NEW k \in 1..Len(chan'[c]), chan'[c][k].kind = "EVENT"
          PROVE  out'[j].n < chan'[c][k].n
      <4> DEFINE b == k + d
      <4>1. b \in 1..Len(chan[c]) /\ 1 < b /\ chan'[c][k] = chan[c][b]
        BY <1>1, <3>1
      <4> HIDE DEF b
      <4> QED BY <1>4, <2>2, <3>1, <3>3, <4>1 DEF EventsAscend
    <3> QED BY <3>2, <3>3
  <2> QED BY <1>4, <2>1, <2>2
<1> QED BY <1>2, <1>3, <1>4 DEF EventsAscend

\* The next event of a client has the next number.
LEMMA EventsSent ==
  ASSUME Types, NEW c \in Clients, EventsAscend(c), SendEvent(c)
  PROVE  EventsAscend(c)'
<1> DEFINE msg == [kind |-> "EVENT", client |-> c, n |-> cl[c].sent + 1]
           len == Len(chan[c])
<1>0. /\ cl \in [Clients -> ClientRecs] /\ cl[c].sent \in Nat /\ len \in Nat /\ c \in Senders
      /\ chan[c] \in Seq(EventsOf(c) \cup LastWordsOf(c)) /\ out \in Seq(Broadcasts)
  BY BrokerAssumption, LenProperties DEF Types, ClTypes, ChanTypes, ClientRecs, Senders
<1>1. Post(c, msg) /\ cl'[c].sent = cl[c].sent + 1 /\ out' = out
  BY <1>0 DEF SendEvent, broker, ClientRecs
<1> HIDE DEF msg
<1>2. Extended(c, msg)
  BY <1>0, <1>1, PostExtends
<1> USE DEF msg
<1>3. /\ Len(chan'[c]) = len + 1 /\ chan'[c][len + 1].n = cl[c].sent + 1
      /\ \A k \in 1..len : chan'[c][k] = chan[c][k]
  BY <1>2 DEF Extended
<1> HIDE DEF msg
<1>4. \A k \in 1..Len(chan'[c]) : k \in 1..len \/ k = len + 1
  BY <1>0, <1>3
<1>5. /\ \A k \in 1..len : chan[c][k].kind = "EVENT" =>
            chan[c][k].n \in Nat /\ chan[c][k].n <= cl[c].sent
      /\ \A j \in 1..Len(out) : out[j].kind = "EVENT" /\ out[j].client = c =>
            out[j].n \in Nat /\ out[j].n <= cl[c].sent
  <2>1. \A k \in 1..len : chan[c][k] \in EventsOf(c) \cup LastWordsOf(c)
    BY <1>0, ElementOfSeq
  <2>2. \A j \in 1..Len(out) : out[j] \in Broadcasts
    BY <1>0, ElementOfSeq
  <2>3. \A k \in 1..len : chan[c][k].kind = "EVENT" => chan[c][k].n \in Nat
    BY <2>1 DEF EventsOf, LastWordsOf
  <2>4. \A j \in 1..Len(out) : out[j].kind = "EVENT" => out[j].n \in Nat
    BY <2>2 DEF Broadcasts
  <2> QED BY <2>3, <2>4 DEF EventsAscend
<1> HIDE DEF len
<1>a. \A x, y \in Nat : (x <= y => x <= y + 1 /\ x < y + 1) /\ x + 1 <= x + 1
  OBVIOUS
<1>6. ASSUME NEW k \in 1..Len(chan'[c]), chan'[c][k].kind = "EVENT"
      PROVE  chan'[c][k].n <= cl'[c].sent
  <2>1. CASE k \in 1..len
    <3>1. chan'[c][k] = chan[c][k] /\ chan[c][k].n \in Nat /\ chan[c][k].n <= cl[c].sent
      BY <1>3, <1>5, <1>6, <2>1
    <3> QED BY <1>0, <1>1, <1>a, <3>1
  <2>2. CASE k = len + 1
    BY <1>0, <1>1, <1>3, <1>a, <2>2
  <2> QED BY <1>4, <2>1, <2>2
<1>7. ASSUME NEW j \in 1..Len(chan'[c]), NEW k \in 1..Len(chan'[c]), j < k,
             chan'[c][j].kind = "EVENT", chan'[c][k].kind = "EVENT"
      PROVE  chan'[c][j].n < chan'[c][k].n
  <2>1. j \in 1..len
    BY <1>0, <1>3, <1>4, <1>7
  <2>2. CASE k \in 1..len
    BY <1>3, <1>7, <2>1, <2>2 DEF EventsAscend, len
  <2>3. CASE k = len + 1
    <3>1. chan'[c][j] = chan[c][j] /\ chan[c][j].n \in Nat /\ chan[c][j].n <= cl[c].sent
      BY <1>3, <1>5, <1>7, <2>1
    <3>2. chan'[c][k].n = cl[c].sent + 1
      BY <1>3, <2>3
    <3> QED BY <1>0, <1>a, <3>1, <3>2
  <2> QED BY <1>4, <2>2, <2>3
<1>8. ASSUME NEW j \in 1..Len(out'), out'[j].kind = "EVENT", out'[j].client = c
      PROVE  /\ out'[j].n <= cl'[c].sent
             /\ \A k \in 1..Len(chan'[c]) :
                   chan'[c][k].kind = "EVENT" => out'[j].n < chan'[c][k].n
  <2>1. out'[j] = out[j] /\ j \in 1..Len(out) /\ out[j].n \in Nat /\ out[j].n <= cl[c].sent
    BY <1>1, <1>5, <1>8
  <2>2. out'[j].n <= cl'[c].sent
    BY <1>0, <1>1, <2>1
  <2>3. ASSUME NEW k \in 1..Len(chan'[c]), chan'[c][k].kind = "EVENT"
        PROVE  out'[j].n < chan'[c][k].n
    <3>1. CASE k \in 1..len
      BY <1>1, <1>3, <1>8, <2>1, <2>3, <3>1, SMTT(30) DEF EventsAscend, len
    <3>2. CASE k = len + 1
      BY <1>0, <1>3, <2>1, <3>2
    <3> QED BY <1>4, <3>1, <3>2
  <2> QED BY <2>2, <2>3
<1> QED BY <1>6, <1>7, <1>8 DEF EventsAscend

\* A last word is no event.
LEMMA LastWordsSent ==
  ASSUME Types, NEW c \in Clients, EventsAscend(c), NEW msg, Post(c, msg), msg.kind # "EVENT",
         out' = out, cl'[c].sent = cl[c].sent
  PROVE  EventsAscend(c)'
<1> DEFINE len == Len(chan[c])
<1>0. len \in Nat /\ c \in Senders
  BY LenProperties DEF Types, ChanTypes, Senders
<1>1. /\ Len(chan'[c]) = len + 1 /\ chan'[c][len + 1] = msg
      /\ \A k \in 1..len : chan'[c][k] = chan[c][k]
  BY <1>0, PostExtends DEF Extended
<1>2. \A k \in 1..Len(chan'[c]) : k \in 1..len \/ chan'[c][k].kind # "EVENT"
  BY <1>0, <1>1
<1> QED BY <1>1, <1>2, ZenonT(60) DEF EventsAscend

\* The order of what was forwarded, when one more message is
LEMMA ForwardedKept ==
  ASSUME ForwardedInOrder, NEW len \in Nat, len = Len(out), Len(out') = len + 1,
         \A j \in 1..len : out'[j] = out[j],
         \A j \in 1..len : out[j].kind = "EVENT" /\ out'[len + 1].kind = "EVENT"
                           /\ out[j].client = out'[len + 1].client => out[j].n < out'[len + 1].n
  PROVE  ForwardedInOrder'
<1> SUFFICES ASSUME NEW j \in 1..Len(out'), NEW k \in 1..Len(out'), j < k,
                    out'[j].kind = "EVENT", out'[k].kind = "EVENT", out'[j].client = out'[k].client
             PROVE  out'[j].n < out'[k].n
  BY DEF ForwardedInOrder
<1>1. j \in 1..len /\ (k \in 1..len \/ k = len + 1)
  OBVIOUS
<1>2. CASE k \in 1..len
  BY <1>1, <1>2 DEF ForwardedInOrder
<1>3. CASE k = len + 1
  BY <1>1, <1>3
<1> QED BY <1>1, <1>2, <1>3

\* Every step keeps the order of events.
LEMMA EventsStep ==
  ASSUME Types, Types', InOnce, \A c \in Clients : EventsAscend(c), ForwardedInOrder, Next
  PROVE  (\A c \in Clients : EventsAscend(c)') /\ ForwardedInOrder'
<1>0. out \in Seq(Broadcasts) /\ Len(out) \in Nat /\ cl \in [Clients -> ClientRecs]
  BY LenProperties DEF Types, ClTypes
<1>a. \A c \in Clients : c \in Senders /\ c # Listener
  BY BrokerAssumption DEF Senders
<1>1. ASSUME UNCHANGED <<chan, cl, out>>
      PROVE  (\A c \in Clients : EventsAscend(c)') /\ ForwardedInOrder'
  BY <1>1 DEF EventsAscend, ForwardedInOrder
<1>2. ASSUME UNCHANGED <<chan, cl>>, out' = Append(out, [kind |-> "EXITING", client |-> Listener])
      PROVE  (\A c \in Clients : EventsAscend(c)') /\ ForwardedInOrder'
  <2>1. /\ Len(out') = Len(out) + 1 /\ \A j \in 1..Len(out) : out'[j] = out[j]
        /\ out'[Len(out) + 1].kind = "EXITING"
    BY <1>0, <1>2, AppendProperties
  <2>2. \A j \in 1..Len(out') : (j \in 1..Len(out) /\ out'[j] = out[j]) \/ out'[j].kind # "EVENT"
    BY <1>0, <2>1
  <2>3. \A c \in Clients : EventsAscend(c)'
    BY <1>2, <2>2, EventsKept
  <2> QED BY <1>0, <2>1, <2>3, ForwardedKept
<1>3. ASSUME NEW d \in Clients, ClientStep(d)
      PROVE  (\A c \in Clients : EventsAscend(c)') /\ ForwardedInOrder'
  <2>1. out' = out
    BY <1>3, ClientsLeaveBroker DEF broker
  <2>2. ForwardedInOrder'
    BY <2>1 DEF ForwardedInOrder
  <2>3. /\ \A c \in Clients : c # d => chan'[c] = chan[c] /\ cl'[c] = cl[c]
        /\ SendEvent(d) \/ cl'[d].sent = cl[d].sent
    <3>1. DOMAIN chan = Senders
      BY DEF Types, ChanTypes
    <3>2. CASE Connect(d)
      BY <1>0, <1>a, <3>1, <3>2 DEF Connect, ClientRecs
    <3>3. CASE SendEvent(d)
      BY <1>0, <1>a, <3>1, <3>3 DEF SendEvent, Post, ClientRecs
    <3>4. CASE SendExiting(d) \/ GiveUp(d) \/ Crash(d)
      BY <1>0, <1>a, <3>1, <3>4 DEF SendExiting, GiveUp, Crash, Post, ClientRecs
    <3>5. CASE ReadBroadcast(d)
      BY <1>0, <1>a, <3>1, <3>5 DEF ReadBroadcast, ClientRecs
    <3> QED BY <1>3, <3>2, <3>3, <3>4, <3>5 DEF ClientStep
  <2>4. EventsAscend(d)'
    <3>1. CASE SendEvent(d)
      BY <3>1, EventsSent
    <3>2. CASE ~SendEvent(d) /\ chan'[d] = chan[d]
      BY <2>1, <2>3, <3>2 DEF EventsAscend
    <3>3. CASE ~SendEvent(d) /\ chan'[d] # chan[d]
      <4>1. DOMAIN chan = Senders
        BY DEF Types, ChanTypes
      <4>2. SendExiting(d) \/ GiveUp(d)
        BY <1>3, <1>a, <3>3, <4>1 DEF ClientStep, Connect, Crash, ReadBroadcast
      <4>3. \E msg : Post(d, msg) /\ msg.kind # "EVENT"
        BY <4>2 DEF SendExiting, GiveUp
      <4> QED BY <2>1, <2>3, <3>3, <4>3, LastWordsSent
    <3> QED BY <3>1, <3>2, <3>3
  <2>5. ASSUME NEW c \in Clients, c # d
        PROVE  EventsAscend(c)'
    BY <2>1, <2>3, <2>5 DEF EventsAscend
  <2> QED BY <2>2, <2>4, <2>5
<1>4. CASE OnNewMsg \/ NewShmClient \/ NewShmClientIgnored
  <2>1. /\ bpc = "recv" /\ Unread # << >> /\ Consume /\ cl' = cl
        /\ out' = out \/ (OnNewMsg /\ out' = Append(out, Head(Unread)))
    BY <1>4 DEF OnNewMsg, NewShmClient, NewShmClientIgnored, Receives
  <2> DEFINE s == llmp_clients[Pos].from
             m == chan[s][1]
  <2>2. Shifted(s) /\ s \in Senders /\ m = Head(Unread)
    <3>1. Shifted(s) /\ s \in Senders
      BY <2>1, ConsumeShifts, PosFacts
    <3> QED BY <3>1 DEF Shifted, Unread
  <2>3. \A c \in Clients : chan'[c] = chan[c] \/ (c = s /\ Shifted(c))
    BY <1>a, <2>2 DEF Shifted
  <2>4. CASE out' = out
    <3>1. \A c \in Clients : EventsAscend(c)'
      BY <2>1, <2>3, <2>4, EventsKept
    <3> QED BY <2>4, <3>1 DEF ForwardedInOrder
  <2>5. CASE OnNewMsg /\ out' = Append(out, Head(Unread))
    <3>1. m.kind = "EVENT" /\ s \in Clients /\ m.client = s
      <4>1. Head(Unread).kind = "EVENT"
        BY <2>5 DEF OnNewMsg, Receives
      <4>2. s \in Clients /\ Head(Unread) \in EventsOf(s)
        BY <2>1, <4>1, HeadFrom
      <4> HIDE DEF s, m
      <4> QED BY <2>2, <4>1, <4>2 DEF EventsOf
    <3> HIDE DEF m, s
    <3>2. /\ Len(out') = Len(out) + 1 /\ \A j \in 1..Len(out) : out'[j] = out[j]
          /\ out'[Len(out) + 1] = m
      BY <1>0, <2>2, <2>5, AppendProperties
    <3>3. \A j \in 1..Len(out') : (j \in 1..Len(out) /\ out'[j] = out[j]) \/ out'[j] = m
      BY <1>0, <3>2
    <3>4. ASSUME NEW c \in Clients
          PROVE  EventsAscend(c)'
      <4>1. \A j \in 1..Len(out') : \/ j \in 1..Len(out) /\ out'[j] = out[j]
                                    \/ out'[j].kind # "EVENT" \/ out'[j].client # c
                                    \/ Shifted(c) /\ out'[j] = chan[c][1]
        <5>1. CASE c = s
          BY <2>2, <3>3, <5>1 DEF m
        <5>2. CASE c # s
          BY <3>1, <3>3, <5>2
        <5> QED BY <5>1, <5>2
      <4> QED BY <2>1, <2>3, <4>1, EventsKept
    <3>5. ASSUME NEW j \in 1..Len(out), out[j].kind = "EVENT",
                 out[j].client = out'[Len(out) + 1].client
          PROVE  out[j].n < out'[Len(out) + 1].n
      <4>1. 1 \in 1..Len(chan[s]) /\ chan[s][1].kind = "EVENT"
        <5>1. Len(chan[s]) \in Nat /\ Len(chan[s]) >= 1
          BY <2>2, <3>1, LenProperties DEF Types, ChanTypes, Shifted
        <5> QED BY <3>1, <5>1 DEF m
      <4>2. out[j].n < chan[s][1].n
        BY <3>1, <3>2, <3>5, <4>1 DEF EventsAscend
      <4> QED BY <3>2, <4>2 DEF m
    <3> QED BY <1>0, <3>2, <3>4, <3>5, ForwardedKept
  <2> QED BY <2>1, <2>4, <2>5
<1>5. CASE OnceEnd
  BY <1>1, <1>2, <1>5 DEF OnceEnd
<1>6. CASE Interrupt
  BY <1>2, <1>6 DEF Interrupt
<1>7. CASE OnceBegin \/ HandleNewMsgs \/ SlowReceiverPanic \/ ClientShutsDown \/ NoMoreMsgs
           \/ TimePasses \/ Terminated
  <2>1. UNCHANGED <<chan, cl, out>>
    BY <1>7 DEF OnceBegin, HandleNewMsgs, SlowReceiverPanic, ClientShutsDown, NoMoreMsgs,
                TimePasses, Terminated, vars, broker
  <2> QED BY <1>1, <2>1
<1> QED BY <1>3, <1>4, <1>5, <1>6, <1>7 DEF Next, BrokerStep

-----------------------------------------------------------------------------
(* The invariant, and the theorems *)

\* The invariant holds of a broker that has just launched its listener.
LEMMA InitIInv == Init => IInv
<1> SUFFICES ASSUME Init PROVE IInv
  OBVIOUS
<1>1. Types
  <2>1. llmp_clients \in Seq(Receivers)
    <3>1. Receiver(0, Listener) \in Receivers
      BY DEF Receiver, Receivers, Senders
    <3> QED BY <3>1 DEF Init
  <2>2. ClTypes
    <3>1. [pc |-> "new", id |-> 0, sent |-> 0, read |-> 0] \in ClientRecs
      BY BrokerAssumption DEF ClientRecs
    <3>2. cl = [c \in Clients |-> [pc |-> "new", id |-> 0, sent |-> 0, read |-> 0]] /\ Len(out) = 0
      BY DEF Init
    <3> QED BY <3>1, <3>2 DEF ClTypes
  <2>3. ChanTypes
    BY DEF Init, ChanTypes, Senders
  <2>4. once \in [i : Nat, n : Nat, client_id : Nat, next_id : Nat, new : BOOLEAN]
    BY DEF Init, NoOnce
  <2>5. /\ num_clients_total = 1 /\ clients_to_remove = << >> /\ bpc = "loop" /\ out = << >>
        /\ current_client_id = 1 /\ clash = FALSE
    BY DEF Init
  <2>6. clients_to_remove \in Seq(Nat) /\ out \in Seq(Broadcasts)
    BY <2>5
  <2>7. num_clients_total \in Nat \ {0} /\ current_client_id \in Nat
    BY <2>5
  <2>8. bpc \in {"loop", "client", "recv", "quit", "panicked"} /\ clash \in BOOLEAN
    BY <2>5, Zenon
  <2> QED BY <2>1, <2>2, <2>3, <2>4, <2>6, <2>7, <2>8 DEF Types
<1>2. /\ Len(llmp_clients) = 1 /\ llmp_clients[1].from = Listener /\ Joined = {}
      /\ chan[Listener] = << >> /\ Len(clients_to_remove) = 0 /\ Len(out) = 0
      /\ \A c \in Clients : Len(chan[c]) = 0
  BY DEF Init, Receiver, Joined, Senders
<1>3. Registered
  BY <1>2 DEF Registered
<1>4. Counted
  <2>1. Cardinality(Joined) = 0
    BY <1>2, FS_EmptySet
  <2> QED BY <1>2, <2>1 DEF Counted, Init
<1>5. InOnce
  BY <1>2 DEF InOnce, Init
<1>6. Removals
  BY <1>2 DEF Removals
<1>7. ForwardedInOrder /\ \A c \in Clients : EventsAscend(c)
  BY <1>2 DEF ForwardedInOrder, EventsAscend
<1> QED BY <1>1, <1>3, <1>4, <1>5, <1>6, <1>7 DEF IInv

\* Every step keeps the invariant.
LEMMA NextIInv == IInv /\ [Next]_vars => IInv'
<1> SUFFICES ASSUME IInv, [Next]_vars PROVE IInv'
  OBVIOUS
<1>0. /\ Types /\ Registered /\ Counted /\ InOnce /\ Removals
      /\ (\A c \in Clients : EventsAscend(c)) /\ ForwardedInOrder
  BY DEF IInv
<1>1. CASE UNCHANGED vars
  <2>0. UNCHANGED <<llmp_clients, num_clients_total, clients_to_remove, bpc, once, out,
                    current_client_id, chan, cl, clash>>
    BY <1>1 DEF vars, broker
  <2>1. Types'
    BY <1>0, <2>0 DEF Types, ClTypes, ChanTypes
  <2>2. Registered' /\ Counted'
    BY <1>0, <2>0 DEF Registered, Joined, Counted
  <2>3. InOnce' /\ Removals'
    BY <1>0, <2>0 DEF InOnce, Removals, Done
  <2>4. (\A c \in Clients : EventsAscend(c)') /\ ForwardedInOrder'
    BY <1>0, <2>0 DEF EventsAscend, ForwardedInOrder
  <2> QED BY <2>1, <2>2, <2>3, <2>4 DEF IInv
<1>2. CASE Next
  <2>1. Types'
    <3>1. CASE BrokerStep \/ Interrupt \/ TimePasses
      BY <1>0, <3>1, BrokerTypes
    <3>2. CASE \E c \in Clients : ClientStep(c)
      BY <1>0, <3>2, ClientTypes
    <3>3. CASE Terminated
      BY <1>0, <3>3 DEF Terminated, vars, broker, Types, ClTypes, ChanTypes
    <3> QED BY <1>2, <3>1, <3>2, <3>3 DEF Next
  <2>2. Registered' /\ Counted'
    BY <1>0, <1>2, <2>1, RegisteredStep
  <2>3. InOnce'
    BY <1>0, <1>2, <2>1, InOnceStep
  <2>4. Removals'
    BY <1>0, <1>2, <2>1, <2>3, RemovalsStep
  <2>5. (\A c \in Clients : EventsAscend(c)') /\ ForwardedInOrder'
    BY <1>0, <1>2, <2>1, EventsStep
  <2> QED BY <2>1, <2>2, <2>3, <2>4, <2>5 DEF IInv
<1> QED BY <1>1, <1>2

\* The invariant always holds.
LEMMA AlwaysIInv == Spec => []IInv
<1> QED BY InitIInv, NextIInv, PTL DEF Spec

\* Types are kept: the counts of clients stay within the clients there are, and the offsets
\* in clients_to_remove within llmp_clients, so that removing them does not panic.
THEOREM TypesKept == Spec => []TypeOK
<1>1. IInv => TypeOK
  <2> SUFFICES ASSUME IInv PROVE TypeOK
    OBVIOUS
  <2>0. Types /\ Counted /\ InOnce
    BY DEF IInv
  <2>1. Cardinality(Joined) \in Nat /\ Cardinality(Joined) <= Cardinality(Clients)
        /\ Cardinality(Clients) \in Nat
    <3>1. Joined \in SUBSET Clients
      BY DEF Joined
    <3> QED BY <3>1, BrokerAssumption, FS_Subset, FS_CardinalityType
  <2>2. Len(chan[Listener]) \in Nat /\ Len(out) \in Nat
    BY <2>0, LenProperties DEF Types, ChanTypes
  <2>3. current_client_id \in 1..(Cardinality(Clients) + 1)
    BY <2>0, <2>1 DEF Counted
  <2>4. num_clients_total \in 1..(Cardinality(Clients) + 1)
    BY <2>0, <2>1, <2>2, SMTT(30) DEF Counted, Types
  <2>5. clients_to_remove \in Seq(1..Len(llmp_clients))
    <3>1. clients_to_remove \in Seq(Nat) /\ Len(clients_to_remove) \in Nat
          /\ clients_to_remove = [k \in 1..Len(clients_to_remove) |-> clients_to_remove[k]]
      BY <2>0, LenProperties DEF Types
    <3>2. \A k \in 1..Len(clients_to_remove) : clients_to_remove[k] \in 1..Len(llmp_clients)
      BY <2>0 DEF InOnce
    <3> QED BY <3>1, <3>2, IsASeq
  <2>6. cl \in [Clients -> [pc : {"new", "running", "exited", "dead", "told"}, id : Nat,
                            sent : 0..MaxMsgs, read : 0..Len(out)]]
    <3>1. ASSUME NEW c \in Clients
          PROVE  cl[c] \in [pc : {"new", "running", "exited", "dead", "told"}, id : Nat,
                            sent : 0..MaxMsgs, read : 0..Len(out)]
      <4>1. cl[c] \in ClientRecs /\ cl[c].read <= Len(out) /\ cl[c].read \in Nat
        BY <2>0 DEF Types, ClTypes, ClientRecs
      <4>2. cl[c].read \in 0..Len(out)
        BY <2>2, <4>1
      <4> QED BY <4>1, <4>2 DEF ClientRecs
    <3> QED BY <2>0, <3>1 DEF Types, ClTypes
  <2> QED BY <2>0, <2>3, <2>4, <2>5, <2>6 DEF Types, TypeOK, Receivers
<1> QED BY <1>1, AlwaysIInv, PTL

\* The broadcast map carries the events of a client in the order it sent them, none twice,
\* also when ids clash.
THEOREM AlwaysForwardedInOrder == Spec => []ForwardedInOrder
<1>1. IInv => ForwardedInOrder
  BY DEF IInv
<1> QED BY <1>1, AlwaysIInv, PTL

\* The broker forgets a client only at the end of once(), and then, unless ids clashed,
\* only one that said EXITING, after all it had sent was read, or was silent too long.
THEOREM OnlyDoneAreRemoved == Spec => RemovedOnlyWhenDone
<1> DEFINE Lost(k) == \A j \in 1..Len(llmp_clients') : llmp_clients'[j].from # llmp_clients[k].from
<1>1. ASSUME IInv, [Next]_vars, NEW k \in 1..Len(llmp_clients), ~clash, Lost(k)
      PROVE  \/ llmp_clients[k].old
             \/ /\ chan[llmp_clients[k].from] # << >>
                /\ Head(chan[llmp_clients[k].from]).kind = "EXITING"
  <2>0. Types /\ InOnce /\ Removals /\ llmp_clients \in Seq(Receivers) /\ Len(llmp_clients) \in Nat
    BY <1>1, LenProperties DEF IInv, Types
  <2>1. CASE OnceEnd
    <3>1. PICK i \in 1..Len(clients_to_remove) : clients_to_remove[i] = k
      <4>1. \/ \E i \in 1..Len(clients_to_remove) : clients_to_remove[i] = k
            \/ \E j \in 1..Len(llmp_clients') : llmp_clients'[j] = llmp_clients[k]
        BY <2>0, <2>1, OnceEndLeaves
      <4> QED BY <1>1, <4>1
    <3>2. Done(llmp_clients[k])
      BY <1>1, <2>0, <3>1 DEF Removals
    <3> QED BY <3>2 DEF Done
  <2>2. CASE ~OnceEnd
    <3>1. k \in 1..Len(llmp_clients') /\ llmp_clients'[k].from = llmp_clients[k].from
      <4>1. CASE NewShmClient
        <5>1. PICK r : llmp_clients' = Append(llmp_clients, r)
          BY <4>1 DEF NewShmClient
        <5> QED BY <2>0, <5>1, AppendProperties
      <4>2. CASE NoMoreMsgs \/ TimePasses
        <5>1. IInv'
          BY <1>1, NextIInv
        <5>2. llmp_clients' \in Seq(Receivers) /\ llmp_clients[k] \in Receivers
          BY <2>0, <5>1, ElementOfSeq DEF IInv, Types
        <5>3. DOMAIN llmp_clients = 1..Len(llmp_clients)
          BY <2>0, LenProperties
        <5>4. /\ DOMAIN llmp_clients' = DOMAIN llmp_clients
              /\ llmp_clients'[k].from = llmp_clients[k].from
          <6>1. CASE TimePasses
            BY <5>2, <5>3, <6>1 DEF TimePasses, Receivers
          <6>2. CASE NoMoreMsgs
            <7>1. \/ llmp_clients' = [llmp_clients EXCEPT ![Pos].old = FALSE]
                  \/ llmp_clients' = llmp_clients
              BY <6>2 DEF NoMoreMsgs
            <7> QED BY <5>2, <5>3, <7>1 DEF Receivers
          <6> QED BY <4>2, <6>1, <6>2
        <5>5. DOMAIN llmp_clients' = 1..Len(llmp_clients')
          BY <5>2, LenProperties
        <5> QED BY <5>3, <5>4, <5>5
      <4>3. CASE ~NewShmClient /\ ~NoMoreMsgs /\ ~TimePasses
        <5>1. llmp_clients' = llmp_clients
          BY <1>1, <2>2, <4>3, ClientsLeaveBroker DEF Next, BrokerStep, OnceBegin, HandleNewMsgs,
                OnNewMsg, NewShmClientIgnored, SlowReceiverPanic, ClientShutsDown, Interrupt,
                Terminated, vars, broker
        <5> QED BY <5>1
      <4> QED BY <4>1, <4>2, <4>3
    <3> QED BY <1>1, <3>1
  <2> QED BY <2>1, <2>2
<1>2. IInv /\ [Next]_vars =>
         [\A k \in 1..Len(llmp_clients) :
             LET c == llmp_clients[k]
             IN  /\ ~clash
                 /\ \A j \in 1..Len(llmp_clients') : llmp_clients'[j].from # c.from
                 => \/ c.old
                    \/ chan[c.from] # <<>> /\ Head(chan[c.from]).kind = "EXITING"]_vars
  BY <1>1
<1> QED BY <1>2, AlwaysIInv, PTL DEF Spec, RemovedOnlyWhenDone
=============================================================================

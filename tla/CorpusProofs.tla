---------------------------- MODULE CorpusProofs ----------------------------
(***************************************************************************)
(* Proofs about Corpus, for any number of clients, inputs and saves and    *)
(* every size of the cache: clients that share a directory keep off each   *)
(* other's files, and the cache keeps track of the inputs that are loaded. *)
(***************************************************************************)
EXTENDS Corpus, FiniteSetTheorems, SequenceTheorems, TLAPS

Removing == {"remove_file", "remove_metadata", "remove_lock"}
Saving   == {"lock", "metadata", "store"}

PcTypes ==
    [op : {"none", "dead", "add", "replace", "remove"}, step : {"none"} \cup Removing \cup Saving,
     idx : Nat \cup {None}, name : Nat]

TestcaseTypes == [input : Inputs \cup {NoInput}, file : Nat]

\* Every client has its memory
Domains ==
    /\ DOMAIN storage = Clients /\ DOMAIN testcase = Clients /\ DOMAIN added = Clients
    /\ DOMAIN cached_indexes = Clients /\ DOMAIN pc = Clients

Directory ==
    /\ files \in [Names -> Inputs \cup {NoInput}]
    /\ metadata \subseteq Names /\ lafl_lock \subseteq Names

\* Types of a client's memory: every id that is stored was given out, and has a testcase
TypesOf(c) ==
    /\ storage[c].progressive_idx \in Nat
    /\ \A id \in Ids(storage[c]) : id \in Nat /\ id < storage[c].progressive_idx
    /\ testcase[c] \in [Ids(storage[c]) -> TestcaseTypes]
    /\ added[c] \in [Ids(storage[c]) -> Inputs]
    /\ cached_indexes[c] \in Seq(Nat)
    /\ pc[c] \in PcTypes

\* Where a client can be in a call
CallOf(c) ==
    /\ pc[c].step = "none" => pc[c] \in {Idle, Dead}
    /\ pc[c].step # "none" => pc[c].idx # None
    /\ pc[c] = Dead => Ids(storage[c]) = {}
    /\ pc[c].step \in Saving => pc[c].op \in {"add", "replace"}
    /\ pc[c].step \in Removing => pc[c].op \in {"replace", "remove"}
    /\ pc[c].op \in {"add", "replace"} => pc[c].idx \in Ids(storage[c])
    /\ pc[c].op = "remove" => pc[c].idx \notin Ids(storage[c])

\* The names a client holds: those of its testcases, and the one it is removing
Owned(c) ==
    {n \in Nat \ {NoFile} :
        \/ \E id \in Ids(storage[c]) : testcase[c][id].file = n
        \/ pc[c].step \in Removing /\ pc[c].name = n}

\* It holds each of them once
OnceOf(c) ==
    /\ \A id, jd \in Ids(storage[c]) :
          testcase[c][id].file = testcase[c][jd].file /\ testcase[c][id].file # NoFile => id = jd
    /\ pc[c].step \in Removing =>
          /\ pc[c].name # NoFile
          /\ \A id \in Ids(storage[c]) : testcase[c][id].file # pc[c].name

\* What is in memory and in the files of a testcase, by how far its saving got
ContentsOf(c) ==
    \A id \in Ids(storage[c]) :
        /\ pc[c].idx # id =>
              /\ testcase[c][id].file # NoFile /\ testcase[c][id].file \in metadata
              /\ files[testcase[c][id].file] = added[c][id]
              /\ testcase[c][id].input \in {NoInput, added[c][id]}
        /\ pc[c].idx = id =>
              /\ testcase[c][id].input = added[c][id]
              /\ pc[c].step \in Removing \cup {"lock"} => testcase[c][id].file = NoFile
              /\ pc[c].step \in {"metadata", "store"} =>
                    testcase[c][id].file = pc[c].name /\ pc[c].name # NoFile
              /\ pc[c].step = "store" => pc[c].name \in metadata

\* What the queue of the cache holds
CacheOf(c) ==
    /\ \A id \in Ids(storage[c]) :
          pc[c].idx # id /\ testcase[c][id].input # NoInput => id \in ToSet(cached_indexes[c])
    /\ \A id \in ToSet(cached_indexes[c]) :
          id \in Ids(storage[c]) \/ (pc[c].op = "remove" /\ pc[c].idx = id)

Local(c) == TypesOf(c) /\ CallOf(c) /\ OnceOf(c) /\ ContentsOf(c) /\ CacheOf(c)

\* The names of two clients are apart: what a client holds is locked, and by nobody else.
Apart ==
    /\ \A c \in Clients : Owned(c) \subseteq lafl_lock
    /\ \A c, d \in Clients : c # d => Owned(c) \cap Owned(d) = {}

\* The clients that were given a testcase and have no lock file for it yet
Pending ==
    {c \in Clients : pc[c].op \in {"add", "replace"} /\ pc[c].step \in Removing \cup {"lock"}}

\* How far names get: who fails to take a name met the lock of another save, and a save
\* locks one name, so that all names are among the first as many as there were saves.
Room ==
    /\ saves \in 0..MaxSaves
    /\ Cardinality(Pending) <= saves
    /\ \A n \in lafl_lock : n <= saves - Cardinality(Pending)
    /\ \A c \in Clients : pc[c].step = "lock" =>
          pc[c].name # NoFile /\ pc[c].name <= saves - Cardinality(Pending) + 1

IInv == Domains /\ Directory /\ (\A c \in Clients : Local(c)) /\ Apart /\ Room

\* What a step of client c leaves alone: the memory of the others, and the files of names
\* that are not its own. A name is its own only once it was free.
Keeps(c) ==
    /\ Domains' /\ Directory'
    /\ \A d \in Clients : d # c =>
          /\ storage'[d] = storage[d] /\ testcase'[d] = testcase[d] /\ added'[d] = added[d]
          /\ cached_indexes'[d] = cached_indexes[d] /\ pc'[d] = pc[d]
    /\ \A n \in Names : n \notin Owned(c) =>
          /\ files'[n] = files[n]
          /\ n \in metadata => n \in metadata'
          /\ n \in lafl_lock => n \in lafl_lock'
    /\ \A n \in Owned(c)' : n \in lafl_lock' /\ (n \in Owned(c) \/ n \notin lafl_lock)

-----------------------------------------------------------------------------
(* The operators of the cache *)

\* Retain is a sequence of exactly the ids of the queue that are in S.
LEMMA RetainProperties ==
  ASSUME NEW T, NEW q \in Seq(T), NEW S
  PROVE  /\ Retain(q, S) \in Seq(T)
         /\ ToSet(Retain(q, S)) = ToSet(q) \cap S
<1> DEFINE kept == {i \in DOMAIN q : q[i] \in S}
           rank == [i \in kept |-> Cardinality({j \in kept : j <= i})]
           n == Cardinality(kept)
<1>0. DOMAIN q = 1..Len(q) /\ Len(q) \in Nat /\ \A i \in DOMAIN q : q[i] \in T
  BY LenProperties, ElementOfSeq
<1>1. IsFiniteSet(kept) /\ n \in Nat
  <2>1. IsFiniteSet(1..Len(q))
    BY <1>0, FS_Interval
  <2>2. kept \in SUBSET (1..Len(q))
    BY <1>0
  <2>3. IsFiniteSet(kept)
    BY <2>1, <2>2, FS_Subset
  <2> QED BY <2>3, FS_CardinalityType
<1>2. ASSUME NEW i \in kept
      PROVE  rank[i] \in 1..n
  <2> DEFINE below == {j \in kept : j <= i}
  <2>1. below \in SUBSET kept /\ i \in below
    BY <1>0
  <2>2. IsFiniteSet(below) /\ Cardinality(below) <= n
    BY <1>1, <2>1, FS_Subset
  <2>3. Cardinality(below) \in Nat
    BY <2>2, FS_CardinalityType
  <2>4. Cardinality(below) # 0
    BY <2>1, <2>2, FS_EmptySet
  <2>5. rank[i] = Cardinality(below)
    OBVIOUS
  <2> HIDE DEF below, rank, n
  <2> QED BY <1>1, <2>2, <2>3, <2>4, <2>5
<1>3. ASSUME NEW i \in kept, NEW j \in kept, i < j
      PROVE  rank[i] # rank[j]
  <2> DEFINE low == {h \in kept : h <= i}
             high == {h \in kept : h <= j}
  <2>1. low \in SUBSET high /\ j \in high /\ j \notin low
    BY <1>0, <1>3
  <2>2. high \in SUBSET kept
    OBVIOUS
  <2>3. IsFiniteSet(high)
    BY <1>1, <2>2, FS_Subset
  <2>4. Cardinality(high) # Cardinality(low)
    BY <2>1, <2>3, FS_Subset
  <2> QED BY <2>4
<1>4. rank \in Injection(kept, 1..n)
  <2>1. rank \in [kept -> 1..n]
    BY <1>2
  <2>2. ASSUME NEW i \in kept, NEW j \in kept, rank[i] = rank[j]
        PROVE  i = j
    <3>1. i < j \/ j < i \/ i = j
      BY <1>0
    <3> HIDE DEF rank, kept
    <3> QED BY <1>3, <2>2, <3>1
  <2> HIDE DEF rank, kept, n
  <2> QED BY <2>1, <2>2 DEF Injection, IsInjective
<1>5. ASSUME NEW k \in 1..n
      PROVE  \E i \in kept : rank[i] = k
  <2>1. IsFiniteSet(1..n) /\ Cardinality(1..n) = n
    BY <1>1, FS_Interval
  <2> HIDE DEF rank, kept
  <2>2. rank \in Surjection(kept, 1..n)
    BY <1>4, <2>1, FS_Injection
  <2> QED BY <2>2 DEF Surjection
<1> DEFINE Place(k) == CHOOSE i \in kept : Cardinality({j \in kept : j <= i}) = k
<1>6. ASSUME NEW k \in 1..n
      PROVE  Place(k) \in kept /\ rank[Place(k)] = k
  <2>1. \A i \in kept : rank[i] = Cardinality({j \in kept : j <= i})
    OBVIOUS
  <2>2. \E i \in kept : Cardinality({j \in kept : j <= i}) = k
    BY <1>5, <2>1
  <2> HIDE DEF rank, kept, n
  <2>3. Place(k) \in kept /\ Cardinality({j \in kept : j <= Place(k)}) = k
    BY <2>2
  <2> QED BY <2>1, <2>3
<1>7. Retain(q, S) = [k \in 1..n |-> q[Place(k)]]
  BY DEF Retain
<1>8. Retain(q, S) \in Seq(T)
  <2>1. \A k \in 1..n : q[Place(k)] \in T
    BY <1>0, <1>6
  <2> HIDE DEF Place, n
  <2> QED BY <1>1, <1>7, <2>1, IsASeq
<1>9. ASSUME NEW x \in ToSet(Retain(q, S))
      PROVE  x \in ToSet(q) \cap S
  <2>1. PICK k \in 1..n : x = q[Place(k)]
    <3> HIDE DEF Place, n
    <3> QED BY <1>7 DEF ToSet
  <2>2. Place(k) \in DOMAIN q /\ q[Place(k)] \in S
    BY <1>6
  <2> QED BY <2>1, <2>2 DEF ToSet
<1>10. ASSUME NEW x \in ToSet(q) \cap S
       PROVE  x \in ToSet(Retain(q, S))
  <2>1. PICK i \in DOMAIN q : x = q[i]
    BY DEF ToSet
  <2>2. i \in kept
    BY <2>1
  <2>3. rank[i] \in 1..n
    BY <1>2, <2>2
  <2>4. Place(rank[i]) \in kept /\ rank[Place(rank[i])] = rank[i]
    BY <1>6, <2>3
  <2>5. Place(rank[i]) = i
    <3> HIDE DEF Place
    <3>1. Place(rank[i]) < i \/ i < Place(rank[i]) \/ Place(rank[i]) = i
      BY <1>0, <2>2, <2>4
    <3> HIDE DEF rank, kept
    <3> QED BY <1>3, <2>2, <2>4, <3>1
  <2> HIDE DEF Place, rank, n
  <2>6. Retain(q, S)[rank[i]] = x /\ rank[i] \in DOMAIN Retain(q, S)
    BY <1>7, <2>1, <2>3, <2>5
  <2> QED BY <2>6 DEF ToSet
<1> QED BY <1>8, <1>9, <1>10

\* The loop of get takes no more turns than the queue is long.
LEMMA TurnsBound ==
  ASSUME NEW T, NEW q \in Seq(T), NEW held, NEW max
  PROVE  Turns(q, held, max) \in 0..Len(q)
<1> DEFINE Met(n) == Cardinality({i \in 1..n : q[i] \in held})
           Ends(n) == Len(q) - (n - Met(n)) < max \/ Met(n) = max
           made == {n \in 1..Len(q) : \A m \in 0..(n - 1) : ~Ends(m)}
<1>1. Turns(q, held, max) = Cardinality(made)
  BY DEF Turns
<1>2. Len(q) \in Nat
  BY LenProperties
<1>3. IsFiniteSet(1..Len(q)) /\ Cardinality(1..Len(q)) = Len(q)
  BY <1>2, FS_Interval
<1>4. made \in SUBSET (1..Len(q))
  OBVIOUS
<1> HIDE DEF made
<1>5. IsFiniteSet(made) /\ Cardinality(made) <= Len(q)
  BY <1>3, <1>4, FS_Subset
<1>6. Cardinality(made) \in Nat
  BY <1>5, FS_CardinalityType
<1> QED BY <1>1, <1>2, <1>5, <1>6

\* The elements of a sequence are those of its two parts.
LEMMA PartsOfSeq ==
  ASSUME NEW T, NEW q \in Seq(T), NEW n \in 0..Len(q)
  PROVE  /\ SubSeq(q, 1, n) \in Seq(T) /\ SubSeq(q, n + 1, Len(q)) \in Seq(T)
         /\ ToSet(q) = ToSet(SubSeq(q, 1, n)) \cup ToSet(SubSeq(q, n + 1, Len(q)))
<1> DEFINE a == SubSeq(q, 1, n)
           b == SubSeq(q, n + 1, Len(q))
<1>0. DOMAIN q = 1..Len(q) /\ Len(q) \in Nat
  BY LenProperties
<1>1. a \in Seq(T) /\ DOMAIN a = 1..n /\ \A i \in 1..n : a[i] = q[i]
  BY <1>0
<1>2. b \in Seq(T) /\ DOMAIN b = 1..(Len(q) - n) /\ \A i \in 1..(Len(q) - n) : b[i] = q[n + i]
  BY <1>0
<1> HIDE DEF a, b
<1>3. ASSUME NEW i \in DOMAIN q
      PROVE  q[i] \in ToSet(a) \cup ToSet(b)
  <2>1. CASE i <= n
    BY <1>0, <1>1, <2>1 DEF ToSet
  <2>2. CASE i > n
    <3>1. i - n \in 1..(Len(q) - n) /\ n + (i - n) = i
      BY <1>0, <2>2
    <3>2. b[i - n] = q[i] /\ i - n \in DOMAIN b
      BY <1>2, <3>1
    <3> QED BY <3>2 DEF ToSet
  <2> QED BY <1>0, <2>1, <2>2
<1>4. ToSet(a) \subseteq ToSet(q)
  <2>1. \A i \in 1..n : i \in DOMAIN q
    BY <1>0
  <2> QED BY <1>1, <2>1 DEF ToSet
<1>5. ToSet(b) \subseteq ToSet(q)
  <2>1. \A i \in 1..(Len(q) - n) : n + i \in DOMAIN q
    BY <1>0
  <2> QED BY <1>2, <2>1 DEF ToSet
<1>6. ToSet(q) \subseteq ToSet(a) \cup ToSet(b)
  BY <1>3 DEF ToSet
<1> QED BY <1>1, <1>2, <1>4, <1>5, <1>6 DEF a, b

\* The elements of a sequence that is put together
LEMMA SetOfConcat ==
  ASSUME NEW T, NEW a \in Seq(T), NEW b \in Seq(T)
  PROVE  a \o b \in Seq(T) /\ ToSet(a \o b) = ToSet(a) \cup ToSet(b)
<1>0. DOMAIN a = 1..Len(a) /\ DOMAIN b = 1..Len(b) /\ Len(a) \in Nat /\ Len(b) \in Nat
  BY LenProperties
<1>1. /\ a \o b \in Seq(T) /\ DOMAIN (a \o b) = 1..(Len(a) + Len(b))
      /\ \A i \in 1..(Len(a) + Len(b)) :
            (a \o b)[i] = IF i <= Len(a) THEN a[i] ELSE b[i - Len(a)]
  BY <1>0, ConcatProperties, LenProperties
<1> DEFINE s == a \o b
<1> HIDE DEF s
<1>2. ASSUME NEW i \in DOMAIN s
      PROVE  s[i] \in ToSet(a) \cup ToSet(b)
  <2>1. CASE i <= Len(a)
    <3>1. i \in DOMAIN a /\ s[i] = a[i]
      BY <1>0, <1>1, <2>1 DEF s
    <3> QED BY <3>1 DEF ToSet
  <2>2. CASE ~(i <= Len(a))
    <3>1. i - Len(a) \in DOMAIN b /\ s[i] = b[i - Len(a)]
      BY <1>0, <1>1, <2>2 DEF s
    <3> QED BY <3>1 DEF ToSet
  <2> QED BY <2>1, <2>2
<1>3. ASSUME NEW i \in DOMAIN a
      PROVE  a[i] \in ToSet(s)
  <2>1. i \in DOMAIN s /\ s[i] = a[i]
    BY <1>0, <1>1 DEF s
  <2> QED BY <2>1 DEF ToSet
<1>4. ASSUME NEW i \in DOMAIN b
      PROVE  b[i] \in ToSet(s)
  <2>1. Len(a) + i \in DOMAIN s /\ s[Len(a) + i] = b[i]
    BY <1>0, <1>1 DEF s
  <2> QED BY <2>1 DEF ToSet
<1>5. ToSet(s) = ToSet(a) \cup ToSet(b)
  BY <1>2, <1>3, <1>4 DEF ToSet
<1> QED BY <1>1, <1>5 DEF s

\* The loop of get loses no id but those it evicts, and makes none up.
LEMMA EvictProperties ==
  ASSUME NEW T, NEW q \in Seq(T), NEW held, NEW max
  PROVE  /\ Evict(q, held, max).queue \in Seq(T)
         /\ ToSet(Evict(q, held, max).queue) \subseteq ToSet(q)
         /\ ToSet(q) \subseteq ToSet(Evict(q, held, max).queue) \cup Evict(q, held, max).evicted
<1> DEFINE n == Turns(q, held, max)
           front == SubSeq(q, 1, n)
           rest == SubSeq(q, n + 1, Len(q))
           back == Retain(front, held)
<1>1. n \in 0..Len(q)
  BY TurnsBound
<1>2. /\ Evict(q, held, max).queue = rest \o back
      /\ Evict(q, held, max).evicted = ToSet(front) \ held
  BY DEF Evict
<1> HIDE DEF n
<1>3. /\ front \in Seq(T) /\ rest \in Seq(T)
      /\ ToSet(q) = ToSet(front) \cup ToSet(rest)
  BY <1>1, PartsOfSeq
<1> HIDE DEF front, rest
<1>4. back \in Seq(T) /\ ToSet(back) = ToSet(front) \cap held
  BY <1>3, RetainProperties
<1> HIDE DEF back
<1>5. rest \o back \in Seq(T) /\ ToSet(rest \o back) = ToSet(rest) \cup ToSet(back)
  BY <1>3, <1>4, SetOfConcat
<1> QED BY <1>2, <1>3, <1>4, <1>5

-----------------------------------------------------------------------------
(* The storage *)

\* insert gives out the next id.
LEMMA InsertIds ==
  ASSUME NEW s
  PROVE  /\ Ids(Insert(s)) = Ids(s) \cup {s.progressive_idx}
         /\ Insert(s).progressive_idx = s.progressive_idx + 1
BY DEF Ids, Insert

\* remove takes one id.
LEMMA UnlinkIds ==
  ASSUME NEW s, NEW idx
  PROVE  /\ Ids(Unlink(s, idx)) = Ids(s) \ {idx}
         /\ Unlink(s, idx).progressive_idx = s.progressive_idx
BY DEF Ids, Unlink

\* A new storage has no ids.
LEMMA EmptyIds == Ids(EmptyStorage) = {} /\ EmptyStorage.progressive_idx = 0
BY DEF Ids, EmptyStorage

-----------------------------------------------------------------------------
(* The invariant *)

\* The invariant holds in an empty directory.
LEMMA InitIInv == Init => IInv
<1> SUFFICES ASSUME Init PROVE IInv
  OBVIOUS
<1> USE CorpusAssumption, EmptyIds DEF Init
<1>1. \A c \in Clients : pc[c] = Idle /\ Idle \in PcTypes
  BY DEF Idle, At, PcTypes, None, NoFile
<1>2. \A c \in Clients : testcase[c] \in [{} -> TestcaseTypes] /\ added[c] \in [{} -> Inputs]
  OBVIOUS
<1>3. \A c \in Clients : TypesOf(c)
  BY <1>1, <1>2 DEF TypesOf
<1>4. \A c \in Clients : CallOf(c)
  BY <1>1 DEF CallOf, Idle, At, None, Removing, Saving
<1>5. Pending = {}
  BY <1>1 DEF Pending, Idle, At
<1>6. Room
  BY <1>1, <1>5, FS_EmptySet DEF Room, Idle, At
<1>7. \A c \in Clients : Owned(c) = {} /\ OnceOf(c)
  BY <1>1 DEF Owned, OnceOf, Idle, At, Removing
<1>8. \A c \in Clients : ContentsOf(c) /\ CacheOf(c)
  BY DEF ContentsOf, CacheOf, ToSet
<1>9. Domains /\ Directory
  BY DEF Domains, Directory
<1> QED BY <1>3, <1>4, <1>6, <1>7, <1>8, <1>9 DEF IInv, Apart, Local

\* A step that keeps what belongs to the others keeps their part of the invariant.
LEMMA OthersStay ==
  ASSUME IInv, NEW c \in Clients, Keeps(c), Local(c)'
  PROVE  (\A d \in Clients : Local(d)') /\ Apart'
<1>1. ASSUME NEW d \in Clients, d # c
      PROVE  Owned(d)' = Owned(d) /\ Owned(d) \subseteq Names
  <2>1. Owned(d)' = Owned(d)
    BY <1>1 DEF Keeps, Owned
  <2>2. Owned(d) \subseteq Names
    BY DEF IInv, Apart, Directory
  <2> QED BY <2>1, <2>2
<1>2. ASSUME NEW d \in Clients, d # c
      PROVE  Owned(d) \subseteq lafl_lock' /\ Owned(d) \cap Owned(c) = {}
  BY <1>1, <1>2 DEF IInv, Apart, Keeps
<1>3. Apart'
  <2>1. ASSUME NEW d \in Clients
        PROVE  Owned(d)' \subseteq lafl_lock'
    <3>1. CASE d = c
      BY <3>1 DEF Keeps
    <3>2. CASE d # c
      BY <1>1, <1>2, <3>2
    <3> QED BY <3>1, <3>2
  <2>2. ASSUME NEW d \in Clients, d # c
        PROVE  Owned(d)' \cap Owned(c)' = {}
    <3>1. Owned(d) \subseteq lafl_lock
      BY DEF IInv, Apart
    <3>2. \A n \in Owned(c)' : n \in Owned(c) \/ n \notin lafl_lock
      BY DEF Keeps
    <3> QED BY <1>1, <1>2, <2>2, <3>1, <3>2
  <2>3. ASSUME NEW d \in Clients, NEW e \in Clients, d # e, d # c, e # c
        PROVE  Owned(d)' \cap Owned(e)' = {}
    BY <1>1, <2>3 DEF IInv, Apart
  <2>4. ASSUME NEW d \in Clients, NEW e \in Clients, d # e
        PROVE  Owned(d)' \cap Owned(e)' = {}
    BY <2>2, <2>3, <2>4
  <2> QED BY <2>1, <2>4 DEF Apart
<1>4. ASSUME NEW d \in Clients, d # c
      PROVE  Local(d)'
  <2>0. Local(d)
    BY DEF IInv
  <2>1. /\ storage'[d] = storage[d] /\ testcase'[d] = testcase[d] /\ added'[d] = added[d]
        /\ cached_indexes'[d] = cached_indexes[d] /\ pc'[d] = pc[d]
    BY <1>4 DEF Keeps
  <2>2. TypesOf(d)'
    BY <2>0, <2>1 DEF Local, TypesOf
  <2>3. CallOf(d)'
    BY <2>0, <2>1 DEF Local, CallOf
  <2>4. OnceOf(d)'
    BY <2>0, <2>1 DEF Local, OnceOf
  <2>5. CacheOf(d)'
    BY <2>0, <2>1 DEF Local, CacheOf
  <2>6. ASSUME NEW id \in Ids(storage[d]), testcase[d][id].file # NoFile
        PROVE  /\ files'[testcase[d][id].file] = files[testcase[d][id].file]
               /\ testcase[d][id].file \in metadata => testcase[d][id].file \in metadata'
    <3>1. testcase[d][id].file \in Nat
      BY <2>0 DEF Local, TypesOf, TestcaseTypes
    <3>2. testcase[d][id].file \in Owned(d)
      BY <2>6, <3>1 DEF Owned
    <3> QED BY <1>1, <1>2, <1>4, <3>2 DEF Keeps
  <2>7. ContentsOf(d)'
    BY <2>0, <2>1, <2>6 DEF Local, ContentsOf
  <2> QED BY <2>2, <2>3, <2>4, <2>5, <2>7 DEF Local
<1> QED BY <1>3, <1>4

\* An id that was given out is a number, and None is not.
LEMMA NoneIsNoId == None \notin Nat
BY DEF None

\* add: the testcase is the client's own, not saved yet.
LEMMA AddKeeps ==
  ASSUME IInv, NEW c \in Clients, NEW x \in Inputs, Add(c, x)
  PROVE  Keeps(c) /\ Local(c)'
<1> DEFINE p == storage[c].progressive_idx
<1>0. Local(c) /\ Domains /\ Directory /\ Apart
  BY DEF IInv
<1>1. /\ pc[c] = Idle /\ UNCHANGED dir /\ UNCHANGED cached_indexes
      /\ storage' = [storage EXCEPT ![c] = Insert(storage[c])]
      /\ testcase' = [testcase EXCEPT ![c] = With(testcase[c], p, NewTestcase(x))]
      /\ added' = [added EXCEPT ![c] = With(added[c], p, x)]
      /\ pc' = [pc EXCEPT ![c] = At("add", "lock", p, 1)]
  BY DEF Add, MayCall
<1>2. /\ storage'[c] = Insert(storage[c])
      /\ testcase'[c] = With(testcase[c], p, NewTestcase(x)) /\ added'[c] = With(added[c], p, x)
      /\ cached_indexes'[c] = cached_indexes[c]
  BY <1>0, <1>1 DEF Domains
<1>3. /\ pc'[c].op = "add" /\ pc'[c].step = "lock" /\ pc'[c].idx = p /\ pc'[c].name = 1
      /\ p \in Nat => pc'[c] \in PcTypes
  <2>1. pc'[c] = At("add", "lock", p, 1)
    BY <1>0, <1>1 DEF Domains
  <2> QED BY <2>1 DEF At, PcTypes, Saving
<1>4. /\ p \in Nat /\ Ids(storage[c]) \subseteq Nat /\ p \notin Ids(storage[c])
      /\ Ids(storage'[c]) = Ids(storage[c]) \cup {p} /\ storage'[c].progressive_idx = p + 1
      /\ DOMAIN testcase[c] = Ids(storage[c]) /\ DOMAIN added[c] = Ids(storage[c])
  BY <1>0, <1>2, InsertIds DEF Local, TypesOf
<1>6. NewTestcase(x) \in TestcaseTypes /\ NewTestcase(x).input = x /\ NewTestcase(x).file = NoFile
  BY DEF NewTestcase, TestcaseTypes, NoFile
<1> HIDE DEF p
<1>15. /\ testcase'[c] \in [Ids(storage[c]) \cup {p} -> TestcaseTypes]
       /\ testcase'[c][p] = NewTestcase(x)
       /\ \A id \in Ids(storage[c]) : id # p => testcase'[c][id] = testcase[c][id]
  <2>1. testcase[c] \in [Ids(storage[c]) -> TestcaseTypes]
    BY <1>0 DEF Local, TypesOf
  <2> HIDE DEF TestcaseTypes
  <2>2. /\ With(testcase[c], p, NewTestcase(x)) \in [Ids(storage[c]) \cup {p} -> TestcaseTypes]
        /\ With(testcase[c], p, NewTestcase(x))[p] = NewTestcase(x)
        /\ \A y \in Ids(storage[c]) : y # p =>
              With(testcase[c], p, NewTestcase(x))[y] = testcase[c][y]
    BY <1>6, <2>1 DEF With
  <2> QED BY <1>2, <2>2
<1>16. /\ added'[c] \in [Ids(storage[c]) \cup {p} -> Inputs]
       /\ added'[c][p] = x
       /\ \A id \in Ids(storage[c]) : id # p => added'[c][id] = added[c][id]
  <2>1. added[c] \in [Ids(storage[c]) -> Inputs]
    BY <1>0 DEF Local, TypesOf
  <2>2. /\ With(added[c], p, x) \in [Ids(storage[c]) \cup {p} -> Inputs]
        /\ With(added[c], p, x)[p] = x
        /\ \A y \in Ids(storage[c]) : y # p => With(added[c], p, x)[y] = added[c][y]
    BY <2>1 DEF With
  <2> QED BY <1>2, <2>2
<1>5. /\ testcase'[c][p] = NewTestcase(x) /\ added'[c][p] = x
      /\ \A id \in Ids(storage[c]) :
            testcase'[c][id] = testcase[c][id] /\ added'[c][id] = added[c][id]
  BY <1>4, <1>15, <1>16
<1>7. TypesOf(c)'
  <2>1. testcase'[c] \in [Ids(storage'[c]) -> TestcaseTypes]
    BY <1>4, <1>15
  <2>2. added'[c] \in [Ids(storage'[c]) -> Inputs]
    BY <1>4, <1>16
  <2>3. \A id \in Ids(storage'[c]) : id \in Nat /\ id < storage'[c].progressive_idx
    BY <1>0, <1>4 DEF Local, TypesOf, p
  <2> QED BY <1>0, <1>2, <1>3, <1>4, <2>1, <2>2, <2>3 DEF Local, TypesOf
<1>8. CallOf(c)'
  BY <1>3, <1>4, NoneIsNoId DEF CallOf, Dead, At, Saving, Removing
<1>9. OnceOf(c)'
  BY <1>0, <1>3, <1>4, <1>5, <1>6 DEF Local, OnceOf, Removing
<1>10. pc[c].idx \notin Ids(storage[c]) /\ pc[c].step = "none" /\ pc[c].op = "none"
  BY <1>1, <1>4, NoneIsNoId DEF Idle, At
<1>11. ContentsOf(c)'
  BY <1>0, <1>1, <1>3, <1>4, <1>5, <1>6, <1>10 DEF Local, ContentsOf, dir
<1>12. CacheOf(c)'
  BY <1>0, <1>2, <1>3, <1>4, <1>5, <1>10 DEF Local, CacheOf
<1>13. Owned(c)' = Owned(c)
  BY <1>3, <1>4, <1>5, <1>6, <1>10 DEF Owned, Removing
<1>14. Keeps(c)
  BY <1>0, <1>1, <1>13 DEF Keeps, Domains, Directory, Apart, dir
<1> QED BY <1>7, <1>8, <1>9, <1>11, <1>12, <1>14 DEF Local

\* replace: the name of the old testcase is still the client's own.
LEMMA ReplaceKeeps ==
  ASSUME IInv, NEW c \in Clients, NEW k \in AllIds, NEW x \in Inputs, Replace(c, k, x)
  PROVE  Keeps(c) /\ Local(c)'
<1> DEFINE n == testcase[c][k].file
<1>0. Local(c) /\ Domains /\ Directory /\ Apart
  BY DEF IInv
<1>1. /\ pc[c] = Idle /\ UNCHANGED dir /\ UNCHANGED <<cached_indexes, storage>>
      /\ k \in Ids(storage[c])
      /\ testcase' = [testcase EXCEPT ![c][k] = NewTestcase(x)]
      /\ added' = [added EXCEPT ![c][k] = x]
      /\ pc' = [pc EXCEPT ![c] = At("replace", "remove_file", k, n)]
  BY DEF Replace, MayCall
<1> HIDE DEF n
<1>2. /\ testcase'[c] = [testcase[c] EXCEPT ![k] = NewTestcase(x)]
      /\ added'[c] = [added[c] EXCEPT ![k] = x]
  BY <1>0, <1>1 DEF Domains
<1>3. /\ pc'[c].op = "replace" /\ pc'[c].step = "remove_file" /\ pc'[c].idx = k
      /\ pc'[c].name = n
      /\ k \in Nat /\ n \in Nat => pc'[c] \in PcTypes
  <2>1. pc'[c] = At("replace", "remove_file", k, n)
    BY <1>0, <1>1 DEF Domains
  <2> QED BY <2>1 DEF At, PcTypes, Removing
<1>4. /\ Ids(storage[c]) \subseteq Nat /\ k \in Nat
      /\ DOMAIN testcase[c] = Ids(storage[c]) /\ DOMAIN added[c] = Ids(storage[c])
      /\ testcase[c][k] \in TestcaseTypes /\ n \in Nat
  BY <1>0, <1>1 DEF Local, TypesOf, TestcaseTypes, n
<1>5. /\ testcase'[c][k] = NewTestcase(x) /\ added'[c][k] = x
      /\ \A id \in Ids(storage[c]) : id # k =>
            testcase'[c][id] = testcase[c][id] /\ added'[c][id] = added[c][id]
  BY <1>1, <1>2, <1>4
<1>6. NewTestcase(x) \in TestcaseTypes /\ NewTestcase(x).input = x /\ NewTestcase(x).file = NoFile
  BY DEF NewTestcase, TestcaseTypes, NoFile
<1>7. TypesOf(c)'
  <2>1. testcase'[c] \in [Ids(storage[c]) -> TestcaseTypes]
    BY <1>0, <1>2, <1>6 DEF Local, TypesOf
  <2>2. added'[c] \in [Ids(storage[c]) -> Inputs]
    BY <1>0, <1>2 DEF Local, TypesOf
  <2> QED BY <1>0, <1>1, <1>3, <1>4, <2>1, <2>2 DEF Local, TypesOf
<1>8. CallOf(c)'
  BY <1>1, <1>3, <1>4, NoneIsNoId DEF CallOf, Dead, At, Saving, Removing
<1>10. pc[c].idx \notin Ids(storage[c]) /\ pc[c].step = "none" /\ pc[c].op = "none"
  BY <1>1, <1>4, NoneIsNoId DEF Idle, At
<1>9. OnceOf(c)'
  <2>1. n # NoFile /\ \A id \in Ids(storage[c]) : id # k => testcase[c][id].file # n
    BY <1>0, <1>1, <1>10 DEF Local, OnceOf, ContentsOf, n
  <2> QED BY <1>0, <1>1, <1>3, <1>5, <1>6, <2>1 DEF Local, OnceOf
<1>11. ContentsOf(c)'
  BY <1>0, <1>1, <1>3, <1>4, <1>5, <1>6, <1>10 DEF Local, ContentsOf, dir
<1>12. CacheOf(c)'
  BY <1>0, <1>1, <1>3, <1>4, <1>5, <1>10 DEF Local, CacheOf
<1>13. Owned(c)' \subseteq Owned(c)
  BY <1>1, <1>3, <1>4, <1>5, <1>6, <1>10 DEF Owned, Removing, n
<1>14. Keeps(c)
  BY <1>0, <1>1, <1>13 DEF Keeps, Domains, Directory, Apart, dir
<1> QED BY <1>7, <1>8, <1>9, <1>11, <1>12, <1>14 DEF Local

\* remove: the name is still the client's own.
LEMMA RemoveTestcaseKeeps ==
  ASSUME IInv, NEW c \in Clients, NEW k \in AllIds, RemoveTestcase(c, k)
  PROVE  Keeps(c) /\ Local(c)'
<1> DEFINE n == testcase[c][k].file
<1>0. Local(c) /\ Domains /\ Directory /\ Apart
  BY DEF IInv
<1>1. /\ pc[c] = Idle /\ UNCHANGED dir /\ UNCHANGED cached_indexes
      /\ k \in Ids(storage[c])
      /\ storage' = [storage EXCEPT ![c] = Unlink(storage[c], k)]
      /\ testcase' = [testcase EXCEPT ![c] = Without(testcase[c], k)]
      /\ added' = [added EXCEPT ![c] = Without(added[c], k)]
      /\ pc' = [pc EXCEPT ![c] = At("remove", "remove_file", k, n)]
  BY DEF RemoveTestcase, MayCall
<1> HIDE DEF n
<1>2. /\ storage'[c] = Unlink(storage[c], k)
      /\ testcase'[c] = Without(testcase[c], k)
      /\ added'[c] = Without(added[c], k)
  BY <1>0, <1>1 DEF Domains
<1>3. /\ pc'[c].op = "remove" /\ pc'[c].step = "remove_file" /\ pc'[c].idx = k
      /\ pc'[c].name = n
      /\ k \in Nat /\ n \in Nat => pc'[c] \in PcTypes
  <2>1. pc'[c] = At("remove", "remove_file", k, n)
    BY <1>0, <1>1 DEF Domains
  <2> QED BY <2>1 DEF At, PcTypes, Removing
<1>4. /\ Ids(storage[c]) \subseteq Nat /\ k \in Nat
      /\ Ids(storage'[c]) = Ids(storage[c]) \ {k}
      /\ storage'[c].progressive_idx = storage[c].progressive_idx
      /\ DOMAIN testcase[c] = Ids(storage[c]) /\ DOMAIN added[c] = Ids(storage[c])
      /\ n \in Nat
  BY <1>0, <1>1, <1>2, UnlinkIds DEF Local, TypesOf, TestcaseTypes, n
<1>15. /\ testcase'[c] \in [Ids(storage'[c]) -> TestcaseTypes]
       /\ \A id \in Ids(storage'[c]) : testcase'[c][id] = testcase[c][id]
  <2>1. testcase[c] \in [Ids(storage[c]) -> TestcaseTypes]
    BY <1>0 DEF Local, TypesOf
  <2>2. /\ Without(testcase[c], k) \in [Ids(storage[c]) \ {k} -> TestcaseTypes]
        /\ \A y \in Ids(storage[c]) \ {k} : Without(testcase[c], k)[y] = testcase[c][y]
    BY <2>1 DEF Without
  <2> QED BY <1>2, <1>4, <2>2
<1>16. /\ added'[c] \in [Ids(storage'[c]) -> Inputs]
       /\ \A id \in Ids(storage'[c]) : added'[c][id] = added[c][id]
  <2>1. added[c] \in [Ids(storage[c]) -> Inputs]
    BY <1>0 DEF Local, TypesOf
  <2>2. /\ Without(added[c], k) \in [Ids(storage[c]) \ {k} -> Inputs]
        /\ \A y \in Ids(storage[c]) \ {k} : Without(added[c], k)[y] = added[c][y]
    BY <2>1 DEF Without
  <2> QED BY <1>2, <1>4, <2>2
<1>5. \A id \in Ids(storage'[c]) :
            testcase'[c][id] = testcase[c][id] /\ added'[c][id] = added[c][id]
  BY <1>15, <1>16
<1>7. TypesOf(c)'
  <2>1. testcase'[c] \in [Ids(storage'[c]) -> TestcaseTypes]
    BY <1>15
  <2>2. added'[c] \in [Ids(storage'[c]) -> Inputs]
    BY <1>16
  <2> QED BY <1>0, <1>1, <1>3, <1>4, <2>1, <2>2 DEF Local, TypesOf
<1>8. CallOf(c)'
  BY <1>3, <1>4, NoneIsNoId DEF CallOf, Dead, At, Saving, Removing
<1>10. pc[c].idx \notin Ids(storage[c]) /\ pc[c].step = "none" /\ pc[c].op = "none"
  BY <1>1, <1>4, NoneIsNoId DEF Idle, At
<1>9. OnceOf(c)'
  <2>1. n # NoFile /\ \A id \in Ids(storage[c]) : id # k => testcase[c][id].file # n
    BY <1>0, <1>1, <1>10 DEF Local, OnceOf, ContentsOf, n
  <2> QED BY <1>0, <1>3, <1>4, <1>5, <2>1 DEF Local, OnceOf
<1>11. ContentsOf(c)'
  BY <1>0, <1>1, <1>3, <1>4, <1>5, <1>10 DEF Local, ContentsOf, dir
<1>12. CacheOf(c)'
  BY <1>0, <1>1, <1>3, <1>4, <1>5, <1>10 DEF Local, CacheOf
<1>13. Owned(c)' \subseteq Owned(c)
  BY <1>1, <1>3, <1>4, <1>5, <1>10 DEF Owned, Removing, n
<1>14. Keeps(c)
  BY <1>0, <1>1, <1>13 DEF Keeps, Domains, Directory, Apart, dir
<1> QED BY <1>7, <1>8, <1>9, <1>11, <1>12, <1>14 DEF Local

\* The elements of a sequence that got one more
LEMMA SetOfAppend ==
  ASSUME NEW T, NEW s \in Seq(T), NEW x \in T
  PROVE  Append(s, x) \in Seq(T) /\ ToSet(Append(s, x)) = ToSet(s) \cup {x}
<1>0. DOMAIN s = 1..Len(s) /\ Len(s) \in Nat
  BY LenProperties
<1> DEFINE t == Append(s, x)
<1>1. /\ t \in Seq(T) /\ DOMAIN t = 1..(Len(s) + 1) /\ t[Len(s) + 1] = x
      /\ \A i \in 1..Len(s) : t[i] = s[i]
  BY <1>0, AppendProperties, LenProperties
<1> HIDE DEF t
<1>2. \A i \in DOMAIN t : i = Len(s) + 1 \/ i \in DOMAIN s
  BY <1>0, <1>1
<1>3. DOMAIN s \subseteq DOMAIN t /\ Len(s) + 1 \in DOMAIN t
  BY <1>0, <1>1
<1>4. ToSet(t) = ToSet(s) \cup {x}
  BY <1>0, <1>1, <1>2, <1>3 DEF ToSet
<1> QED BY <1>1, <1>4 DEF t

\* get: the input is read from the client's own file; what it evicts loses its input, and
\* everything else that is loaded stays in the queue.
LEMMA GetKeeps ==
  ASSUME IInv, NEW c \in Clients, NEW k \in AllIds, Get(c, k)
  PROVE  Keeps(c) /\ Local(c)'
<1>0. Local(c) /\ Domains /\ Directory /\ Apart
  BY DEF IInv
<1>1. /\ pc[c] = Idle /\ UNCHANGED dir /\ UNCHANGED <<storage, pc, added>>
      /\ k \in Ids(storage[c])
  BY DEF Get
<1>2. CASE testcase[c][k].input # NoInput
  <2>1. UNCHANGED <<testcase, cached_indexes>>
    BY <1>2 DEF Get
  <2>2. Local(c)'
    BY <1>0, <1>1, <2>1 DEF Local, TypesOf, CallOf, OnceOf, ContentsOf, CacheOf, dir
  <2>3. Owned(c)' = Owned(c)
    BY <1>1, <2>1 DEF Owned
  <2> QED BY <1>0, <1>1, <2>1, <2>2, <2>3 DEF Keeps, Domains, Directory, Apart, dir
<1>3. CASE testcase[c][k].input = NoInput
  <2> DEFINE y == files[testcase[c][k].file]
             loaded == [testcase[c] EXCEPT ![k].input = y]
             room == Evict(cached_indexes[c], borrowed[c], cache_max_len)
             rest == [id \in DOMAIN loaded |->
                        IF id \in room.evicted THEN [loaded[id] EXCEPT !.input = NoInput]
                        ELSE loaded[id]]
             queue == Append(room.queue, k)
  <2>1. /\ testcase' = [testcase EXCEPT ![c] = rest]
        /\ cached_indexes' = [cached_indexes EXCEPT ![c] = queue]
    BY <1>3 DEF Get
  <2>2. testcase'[c] = rest /\ cached_indexes'[c] = queue
    BY <1>0, <2>1 DEF Domains
  <2>3. /\ Ids(storage[c]) \subseteq Nat /\ testcase[c] \in [Ids(storage[c]) -> TestcaseTypes]
        /\ cached_indexes[c] \in Seq(Nat) /\ k \in Nat
    BY <1>0, <1>1 DEF Local, TypesOf
  <2>4. pc[c].idx \notin Ids(storage[c]) /\ pc[c].step = "none" /\ pc[c].op = "none"
    BY <1>1, <2>3, NoneIsNoId DEF Idle, At
  <2>5. y = added[c][k] /\ y \in Inputs
    BY <1>0, <1>1, <2>4 DEF Local, ContentsOf, TypesOf
  <2> HIDE DEF y
  <2>6. /\ loaded \in [Ids(storage[c]) -> TestcaseTypes]
        /\ loaded[k].input = y /\ loaded[k].file = testcase[c][k].file
        /\ \A id \in Ids(storage[c]) : id # k => loaded[id] = testcase[c][id]
    BY <1>1, <2>3, <2>5 DEF TestcaseTypes
  <2>7. /\ room.queue \in Seq(Nat)
        /\ ToSet(room.queue) \subseteq ToSet(cached_indexes[c])
        /\ ToSet(cached_indexes[c]) \subseteq ToSet(room.queue) \cup room.evicted
    BY <2>3, EvictProperties
  <2>8. queue \in Seq(Nat) /\ ToSet(queue) = ToSet(room.queue) \cup {k}
    <3>1. ASSUME NEW s \in Seq(Nat)
          PROVE  Append(s, k) \in Seq(Nat) /\ ToSet(Append(s, k)) = ToSet(s) \cup {k}
      BY <2>3, SetOfAppend
    <3> HIDE DEF room
    <3> QED BY <2>7, <3>1
  <2> HIDE DEF loaded, room, queue
  <2>9. /\ rest \in [Ids(storage[c]) -> TestcaseTypes]
        /\ \A id \in Ids(storage[c]) :
              /\ rest[id].file = loaded[id].file
              /\ rest[id].input = IF id \in room.evicted THEN NoInput ELSE loaded[id].input
    BY <2>6 DEF TestcaseTypes
  <2> HIDE DEF rest
  <2>10. \A id \in Ids(storage[c]) :
            /\ testcase'[c][id].file = testcase[c][id].file
            /\ testcase'[c][id].input = NoInput \/
                 (id \notin room.evicted /\ testcase'[c][id].input =
                    IF id = k THEN added[c][k] ELSE testcase[c][id].input)
    BY <2>2, <2>5, <2>6, <2>9
  <2>11. TypesOf(c)'
    BY <1>0, <1>1, <2>2, <2>8, <2>9 DEF Local, TypesOf
  <2>12. CallOf(c)'
    BY <1>0, <1>1 DEF Local, CallOf
  <2>13. OnceOf(c)'
    BY <1>0, <1>1, <2>10 DEF Local, OnceOf
  <2>14. ContentsOf(c)'
    BY <1>0, <1>1, <2>4, <2>10 DEF Local, ContentsOf, dir
  <2>15. CacheOf(c)'
    <3>1. ASSUME NEW id \in Ids(storage[c]), testcase'[c][id].input # NoInput
          PROVE  id \in ToSet(queue)
      <4>1. CASE id = k
        BY <2>8, <4>1
      <4>2. CASE id # k
        <5>1. id \notin room.evicted /\ testcase[c][id].input # NoInput
          BY <2>10, <3>1, <4>2
        <5>2. id \in ToSet(cached_indexes[c])
          BY <1>0, <2>4, <5>1 DEF Local, CacheOf
        <5> QED BY <2>7, <2>8, <5>1, <5>2
      <4> QED BY <4>1, <4>2
    <3>2. ToSet(queue) \subseteq Ids(storage[c])
      BY <1>0, <1>1, <2>4, <2>7, <2>8 DEF Local, CacheOf
    <3> QED BY <1>1, <2>2, <3>1, <3>2 DEF CacheOf
  <2>16. Owned(c)' = Owned(c)
    BY <1>1, <2>10 DEF Owned
  <2>17. Keeps(c)
    BY <1>0, <1>1, <2>1, <2>16 DEF Keeps, Domains, Directory, Apart, dir
  <2> QED BY <2>11, <2>12, <2>13, <2>14, <2>15, <2>17 DEF Local
<1> QED BY <1>2, <1>3

\* The references go, and nothing else.
LEMMA ReleaseKeeps ==
  ASSUME IInv, NEW c \in Clients, Release(c)
  PROVE  Keeps(c) /\ Local(c)'
<1>0. Local(c) /\ Domains /\ Directory /\ Apart
  BY DEF IInv
<1>1. UNCHANGED <<storage, testcase, cached_indexes, pc, dir, added>>
  BY DEF Release
<1>2. Local(c)'
  BY <1>0, <1>1 DEF Local, TypesOf, CallOf, OnceOf, ContentsOf, CacheOf, dir
<1>3. Owned(c)' = Owned(c)
  BY <1>1 DEF Owned
<1> QED BY <1>0, <1>1, <1>2, <1>3 DEF Keeps, Domains, Directory, Apart, dir

\* The saves that have no lock file yet are counted.
LEMMA PendingFinite == IsFiniteSet(Pending) /\ Cardinality(Pending) \in Nat
<1>1. Pending \in SUBSET Clients
  BY DEF Pending
<1>2. IsFiniteSet(Pending)
  BY <1>1, CorpusAssumption, FS_Subset
<1> QED BY <1>2, FS_CardinalityType

\* There is a name for every save.
LEMMA NameForSave ==
  ASSUME IInv, NEW c \in Clients, pc[c].step = "lock"
  PROVE  pc[c].name \in Names
<1>1. c \in Pending
  BY DEF IInv, Local, CallOf, Pending, Saving
<1>2. Cardinality(Pending) # 0 /\ Cardinality(Pending) \in Nat
  BY <1>1, PendingFinite, FS_EmptySet
<1>3. /\ pc[c].name # NoFile /\ pc[c].name <= saves - Cardinality(Pending) + 1
      /\ saves \in 0..MaxSaves
  BY DEF IInv, Room
<1>4. pc[c].name \in Nat
  BY DEF IInv, Local, TypesOf, PcTypes
<1> QED BY <1>2, <1>3, <1>4, CorpusAssumption DEF Names, NoFile

\* Lock: the name was nobody's.
LEMMA LockKeeps ==
  ASSUME IInv, NEW c \in Clients, Lock(c)
  PROVE  Keeps(c) /\ Local(c)'
<1> DEFINE n == pc[c].name
           k == pc[c].idx
<1>0. Local(c) /\ Domains /\ Directory /\ Apart
  BY DEF IInv
<1>1. /\ pc[c].step = "lock" /\ UNCHANGED <<storage, cached_indexes, files, metadata, added>>
  BY DEF Lock
<1>2. /\ pc[c] \in PcTypes /\ pc[c].op \in {"add", "replace"} /\ k \in Ids(storage[c])
      /\ testcase[c] \in [Ids(storage[c]) -> TestcaseTypes] /\ n \in Nat
      /\ k # None
  BY <1>0, <1>1 DEF Local, TypesOf, CallOf, PcTypes, Saving
<1>3. CASE n \in lafl_lock
  <2>1. UNCHANGED <<testcase, lafl_lock>> /\ pc' = [pc EXCEPT ![c].name = n + 1]
    BY <1>3 DEF Lock
  <2>2. pc'[c] = [pc[c] EXCEPT !.name = n + 1]
    BY <1>0, <2>1 DEF Domains
  <2>3. /\ pc'[c].step = "lock" /\ pc'[c].op = pc[c].op /\ pc'[c].idx = k
        /\ pc'[c] \in PcTypes
    BY <1>1, <1>2, <2>2 DEF PcTypes
  <2>4. TypesOf(c)'
    BY <1>0, <1>1, <2>1, <2>3 DEF Local, TypesOf
  <2>5. CallOf(c)'
    BY <1>0, <1>1, <1>2, <2>3 DEF Local, CallOf, Dead, At, Removing
  <2>6. OnceOf(c)'
    BY <1>0, <1>1, <2>1, <2>3 DEF Local, OnceOf, Removing
  <2>7. ContentsOf(c)'
    BY <1>0, <1>1, <2>1, <2>3 DEF Local, ContentsOf, Removing
  <2>8. CacheOf(c)'
    BY <1>0, <1>1, <1>2, <2>1, <2>3 DEF Local, CacheOf
  <2>9. Owned(c)' = Owned(c)
    BY <1>1, <2>1, <2>3 DEF Owned, Removing
  <2>10. Keeps(c)
    BY <1>0, <1>1, <2>1, <2>9 DEF Keeps, Domains, Directory, Apart
  <2> QED BY <2>4, <2>5, <2>6, <2>7, <2>8, <2>10 DEF Local
<1>4. CASE n \notin lafl_lock
  <2>0. n \in Names /\ n # NoFile
    BY <1>1, NameForSave DEF Names, NoFile
  <2>1. /\ lafl_lock' = lafl_lock \cup {n}
        /\ testcase' = [testcase EXCEPT ![c][k].file = n]
        /\ pc' = [pc EXCEPT ![c].step = "metadata"]
    BY <1>4 DEF Lock, Goto
  <2>2. /\ pc'[c] = [pc[c] EXCEPT !.step = "metadata"]
        /\ testcase'[c] = [testcase[c] EXCEPT ![k].file = n]
    BY <1>0, <2>1 DEF Domains
  <2>3. /\ pc'[c].step = "metadata" /\ pc'[c].op = pc[c].op /\ pc'[c].idx = k
        /\ pc'[c].name = n /\ pc'[c] \in PcTypes
    BY <1>2, <2>2 DEF PcTypes, Saving
  <2> HIDE DEF n, k
  <2>11. /\ testcase'[c] \in [Ids(storage[c]) -> TestcaseTypes]
         /\ testcase'[c][k].file = n /\ testcase'[c][k].input = testcase[c][k].input
         /\ \A id \in Ids(storage[c]) : id # k => testcase'[c][id] = testcase[c][id]
    BY <1>2, <2>2 DEF TestcaseTypes
  <2>12. \A id \in Ids(storage[c]) : testcase[c][id].file # n
    <3>1. \A id \in Ids(storage[c]) : testcase[c][id].file = n => n \in Owned(c)
      BY <1>2, <2>0 DEF Owned
    <3> QED BY <1>0, <1>4, <3>1 DEF Apart
  <2>4. TypesOf(c)'
    BY <1>0, <1>1, <2>3, <2>11 DEF Local, TypesOf
  <2>5. CallOf(c)'
    BY <1>0, <1>1, <1>2, <2>3 DEF Local, CallOf, Dead, At, Removing
  <2>6. OnceOf(c)'
    BY <1>0, <1>1, <2>3, <2>11, <2>12 DEF Local, OnceOf, Removing
  <2>7. ContentsOf(c)'
    BY <1>0, <1>1, <2>0, <2>3, <2>11 DEF Local, ContentsOf, Removing, k
  <2>8. CacheOf(c)'
    BY <1>0, <1>1, <1>2, <2>3, <2>11 DEF Local, CacheOf, k
  <2>9. Owned(c)' \subseteq Owned(c) \cup {n}
    BY <1>1, <2>3, <2>11 DEF Owned, Removing
  <2>10. Keeps(c)
    BY <1>0, <1>1, <1>4, <2>0, <2>1, <2>9 DEF Keeps, Domains, Directory, Apart
  <2> QED BY <2>4, <2>5, <2>6, <2>7, <2>8, <2>10 DEF Local
<1> QED BY <1>3, <1>4

\* The name at which a client writes or removes is its own.
LEMMA WorksOnItsOwn ==
  ASSUME IInv, NEW c \in Clients, pc[c].step \in {"metadata", "store"} \cup Removing
  PROVE  pc[c].name \in Owned(c) /\ pc[c].name \in Names /\ pc[c].name \in lafl_lock
<1>0. Local(c) /\ Directory /\ Apart
  BY DEF IInv
<1>1. pc[c].name \in Nat
  BY <1>0 DEF Local, TypesOf, PcTypes
<1>2. pc[c].name \in Owned(c)
  <2>1. CASE pc[c].step \in Removing
    BY <1>0, <1>1, <2>1 DEF Local, OnceOf, Owned
  <2>2. CASE pc[c].step \in {"metadata", "store"}
    <3>1. pc[c].idx \in Ids(storage[c])
      BY <1>0, <2>2 DEF Local, CallOf, Saving
    <3>2. testcase[c][pc[c].idx].file = pc[c].name /\ pc[c].name # NoFile
      BY <1>0, <2>2, <3>1 DEF Local, ContentsOf
    <3> QED BY <1>1, <3>1, <3>2 DEF Owned
  <2> QED BY <2>1, <2>2
<1> QED BY <1>0, <1>2 DEF Apart, Directory

\* SaveMetadata
LEMMA SaveMetadataKeeps ==
  ASSUME IInv, NEW c \in Clients, SaveMetadata(c)
  PROVE  Keeps(c) /\ Local(c)'
<1> DEFINE n == pc[c].name
<1>0. Local(c) /\ Domains /\ Directory /\ Apart
  BY DEF IInv
<1>1. /\ pc[c].step = "metadata" /\ metadata' = metadata \cup {n}
      /\ UNCHANGED <<storage, testcase, cached_indexes, files, lafl_lock, added>>
      /\ pc' = [pc EXCEPT ![c].step = "store"]
  BY DEF SaveMetadata, Goto
<1>2. pc'[c] = [pc[c] EXCEPT !.step = "store"]
  BY <1>0, <1>1 DEF Domains
<1>3. /\ pc'[c].step = "store" /\ pc'[c].op = pc[c].op /\ pc'[c].idx = pc[c].idx
      /\ pc'[c].name = n /\ pc'[c] \in PcTypes
  BY <1>0, <1>2 DEF PcTypes, Saving, Local, TypesOf
<1>4. n \in Names
  BY <1>1, WorksOnItsOwn
<1> HIDE DEF n
<1>5. TypesOf(c)'
  BY <1>0, <1>1, <1>3 DEF Local, TypesOf
<1>6. CallOf(c)'
  BY <1>0, <1>1, <1>3 DEF Local, CallOf, Dead, At, Removing, Saving
<1>7. OnceOf(c)'
  BY <1>0, <1>1, <1>3 DEF Local, OnceOf, Removing
<1>8. ContentsOf(c)'
  BY <1>0, <1>1, <1>3 DEF Local, ContentsOf, Removing, n
<1>9. CacheOf(c)'
  BY <1>0, <1>1, <1>3 DEF Local, CacheOf
<1>10. Owned(c)' = Owned(c)
  BY <1>1, <1>3 DEF Owned, Removing
<1>11. Keeps(c)
  BY <1>0, <1>1, <1>4, <1>10 DEF Keeps, Domains, Directory, Apart
<1> QED BY <1>5, <1>6, <1>7, <1>8, <1>9, <1>11 DEF Local

\* StoreInput: the file gets the input that was given for the testcase.
LEMMA StoreInputKeeps ==
  ASSUME IInv, NEW c \in Clients, StoreInput(c)
  PROVE  Keeps(c) /\ Local(c)'
<1> DEFINE n == pc[c].name
           k == pc[c].idx
<1>0. Local(c) /\ Domains /\ Directory /\ Apart
  BY DEF IInv
<1>1. /\ pc[c].step = "store"
      /\ files' = [files EXCEPT ![n] = testcase[c][k].input]
      /\ testcase' = [testcase EXCEPT ![c][k].input = NoInput]
      /\ UNCHANGED <<storage, cached_indexes, metadata, lafl_lock, added>>
      /\ pc' = [pc EXCEPT ![c] = Idle]
  BY DEF StoreInput
<1>2. /\ pc'[c] = Idle
      /\ testcase'[c] = [testcase[c] EXCEPT ![k].input = NoInput]
  BY <1>0, <1>1 DEF Domains
<1>3. /\ pc'[c].step = "none" /\ pc'[c].op = "none" /\ pc'[c].idx = None /\ pc'[c] \in PcTypes
  BY <1>2 DEF PcTypes, Idle, At, NoFile
<1>4. /\ n \in Names /\ k \in Ids(storage[c]) /\ testcase[c] \in [Ids(storage[c]) -> TestcaseTypes]
      /\ added[c] \in [Ids(storage[c]) -> Inputs] /\ Ids(storage[c]) \subseteq Nat
  BY <1>0, <1>1, WorksOnItsOwn DEF Local, TypesOf, CallOf, Saving
<1>12. /\ testcase[c][k].input = added[c][k] /\ testcase[c][k].file = n /\ n # NoFile
       /\ n \in metadata
  BY <1>0, <1>1, <1>4 DEF Local, ContentsOf
<1> HIDE DEF n, k
<1>13. /\ testcase'[c] \in [Ids(storage[c]) -> TestcaseTypes]
       /\ testcase'[c][k].file = n /\ testcase'[c][k].input = NoInput
       /\ \A id \in Ids(storage[c]) : id # k => testcase'[c][id] = testcase[c][id]
  BY <1>2, <1>4, <1>12 DEF TestcaseTypes
<1>14. /\ files' \in [Names -> Inputs \cup {NoInput}] /\ files'[n] = added[c][k]
       /\ \A m \in Names : m # n => files'[m] = files[m]
  BY <1>0, <1>1, <1>4, <1>12 DEF Directory
<1>15. \A id \in Ids(storage[c]) : id # k =>
          /\ testcase[c][id].file # n
          /\ testcase[c][id].file # NoFile => testcase[c][id].file \in Names
  <2>1. \A id \in Ids(storage[c]) :
           testcase[c][id].file # NoFile => testcase[c][id].file \in Owned(c)
    BY <1>4 DEF Owned, TestcaseTypes
  <2>2. Owned(c) \subseteq Names
    BY <1>0 DEF Apart, Directory
  <2>3. \A id \in Ids(storage[c]) : id # k => testcase[c][id].file # n
    BY <1>0, <1>4, <1>12 DEF Local, OnceOf
  <2> QED BY <2>1, <2>2, <2>3
<1>5. TypesOf(c)'
  BY <1>0, <1>1, <1>3, <1>13 DEF Local, TypesOf
<1>6. CallOf(c)'
  BY <1>0, <1>1, <1>2, <1>3 DEF Local, CallOf, Dead, At, Removing, Saving
<1>7. OnceOf(c)'
  <2>1. \A id \in Ids(storage[c]) : testcase'[c][id].file = testcase[c][id].file
    BY <1>4, <1>12, <1>13
  <2> QED BY <1>0, <1>1, <1>3, <2>1 DEF Local, OnceOf, Removing
<1>8. ContentsOf(c)'
  <2>1. ASSUME NEW id \in Ids(storage[c])
        PROVE  /\ testcase'[c][id].file # NoFile /\ testcase'[c][id].file \in metadata
               /\ files'[testcase'[c][id].file] = added[c][id]
               /\ testcase'[c][id].input \in {NoInput, added[c][id]}
    <3>1. CASE id = k
      BY <1>12, <1>13, <1>14, <3>1
    <3>2. CASE id # k
      <4>1. /\ testcase[c][id].file # NoFile /\ testcase[c][id].file \in metadata
            /\ files[testcase[c][id].file] = added[c][id]
            /\ testcase[c][id].input \in {NoInput, added[c][id]}
        BY <1>0, <3>2 DEF Local, ContentsOf, k
      <4> QED BY <1>13, <1>14, <1>15, <3>2, <4>1
    <3> QED BY <3>1, <3>2
  <2> QED BY <1>1, <1>3, <1>4, <2>1, NoneIsNoId DEF ContentsOf
<1>9. CacheOf(c)'
  BY <1>0, <1>1, <1>3, <1>13 DEF Local, CacheOf, CallOf, Saving, k
<1>10. Owned(c)' \subseteq Owned(c)
  BY <1>1, <1>3, <1>4, <1>12, <1>13 DEF Owned, Removing
<1>11. Keeps(c)
  <2>1. n \in Owned(c)
    BY <1>1, WorksOnItsOwn DEF n
  <2> QED BY <1>0, <1>1, <1>10, <1>14, <2>1 DEF Keeps, Domains, Directory, Apart
<1> QED BY <1>5, <1>6, <1>7, <1>8, <1>9, <1>11 DEF Local

\* RemoveFile: the input file of a name that no testcase has any more
LEMMA RemoveFileKeeps ==
  ASSUME IInv, NEW c \in Clients, RemoveFile(c)
  PROVE  Keeps(c) /\ Local(c)'
<1> DEFINE n == pc[c].name
<1>0. Local(c) /\ Domains /\ Directory /\ Apart
  BY DEF IInv
<1>1. /\ pc[c].step = "remove_file" /\ files' = [files EXCEPT ![n] = NoInput]
      /\ UNCHANGED <<storage, testcase, cached_indexes, metadata, lafl_lock, added>>
      /\ pc' = [pc EXCEPT ![c].step = "remove_metadata"]
  BY DEF RemoveFile, Goto
<1>2. pc'[c] = [pc[c] EXCEPT !.step = "remove_metadata"]
  BY <1>0, <1>1 DEF Domains
<1>3. /\ pc'[c].step = "remove_metadata" /\ pc'[c].op = pc[c].op /\ pc'[c].idx = pc[c].idx
      /\ pc'[c].name = n /\ pc'[c] \in PcTypes
  BY <1>0, <1>2 DEF PcTypes, Removing, Local, TypesOf
<1>4. n \in Names /\ n \in Owned(c)
  BY <1>1, WorksOnItsOwn DEF Removing
<1>12. \A id \in Ids(storage[c]) : testcase[c][id].file # n
  BY <1>0, <1>1 DEF Local, OnceOf, Removing
<1>13. \A id \in Ids(storage[c]) :
          testcase[c][id].file # NoFile => testcase[c][id].file \in Names
  <2>1. \A id \in Ids(storage[c]) :
           testcase[c][id].file # NoFile => testcase[c][id].file \in Owned(c)
    BY <1>0 DEF Owned, TestcaseTypes, Local, TypesOf
  <2> QED BY <1>0, <2>1 DEF Apart, Directory
<1>14. /\ files' \in [Names -> Inputs \cup {NoInput}]
       /\ \A m \in Names : m # n => files'[m] = files[m]
  BY <1>0, <1>1, <1>4 DEF Directory
<1>5. TypesOf(c)'
  BY <1>0, <1>1, <1>3 DEF Local, TypesOf
<1>6. CallOf(c)'
  BY <1>0, <1>1, <1>3 DEF Local, CallOf, Dead, At, Removing, Saving
<1>7. OnceOf(c)'
  BY <1>0, <1>1, <1>3 DEF Local, OnceOf, Removing
<1> HIDE DEF n
<1>8. ContentsOf(c)'
  BY <1>0, <1>1, <1>3, <1>12, <1>13, <1>14 DEF Local, ContentsOf, Removing
<1>9. CacheOf(c)'
  BY <1>0, <1>1, <1>3 DEF Local, CacheOf
<1>10. Owned(c)' = Owned(c)
  BY <1>1, <1>3 DEF Owned, Removing, n
<1>11. Keeps(c)
  BY <1>0, <1>1, <1>4, <1>10, <1>14 DEF Keeps, Domains, Directory, Apart
<1> QED BY <1>5, <1>6, <1>7, <1>8, <1>9, <1>11 DEF Local

\* RemoveMetadata, likewise
LEMMA RemoveMetadataKeeps ==
  ASSUME IInv, NEW c \in Clients, RemoveMetadata(c)
  PROVE  Keeps(c) /\ Local(c)'
<1> DEFINE n == pc[c].name
<1>0. Local(c) /\ Domains /\ Directory /\ Apart
  BY DEF IInv
<1>1. /\ pc[c].step = "remove_metadata" /\ metadata' = metadata \ {n}
      /\ UNCHANGED <<storage, testcase, cached_indexes, files, lafl_lock, added>>
      /\ pc' = [pc EXCEPT ![c].step = "remove_lock"]
  BY DEF RemoveMetadata, Goto
<1>2. pc'[c] = [pc[c] EXCEPT !.step = "remove_lock"]
  BY <1>0, <1>1 DEF Domains
<1>3. /\ pc'[c].step = "remove_lock" /\ pc'[c].op = pc[c].op /\ pc'[c].idx = pc[c].idx
      /\ pc'[c].name = n /\ pc'[c] \in PcTypes
  BY <1>0, <1>2 DEF PcTypes, Removing, Local, TypesOf
<1>4. n \in Names /\ n \in Owned(c)
  BY <1>1, WorksOnItsOwn DEF Removing
<1>12. \A id \in Ids(storage[c]) : testcase[c][id].file # n
  BY <1>0, <1>1 DEF Local, OnceOf, Removing
<1>5. TypesOf(c)'
  BY <1>0, <1>1, <1>3 DEF Local, TypesOf
<1>6. CallOf(c)'
  BY <1>0, <1>1, <1>3 DEF Local, CallOf, Dead, At, Removing, Saving
<1>7. OnceOf(c)'
  BY <1>0, <1>1, <1>3 DEF Local, OnceOf, Removing
<1> HIDE DEF n
<1>8. ContentsOf(c)'
  BY <1>0, <1>1, <1>3, <1>12 DEF Local, ContentsOf, Removing
<1>9. CacheOf(c)'
  BY <1>0, <1>1, <1>3 DEF Local, CacheOf
<1>10. Owned(c)' = Owned(c)
  BY <1>1, <1>3 DEF Owned, Removing, n
<1>11. Keeps(c)
  BY <1>0, <1>1, <1>4, <1>10 DEF Keeps, Domains, Directory, Apart
<1> QED BY <1>5, <1>6, <1>7, <1>8, <1>9, <1>11 DEF Local

\* RemoveLock: the name is given up, and remove forgets the id.
LEMMA RemoveLockKeeps ==
  ASSUME IInv, NEW c \in Clients, RemoveLock(c)
  PROVE  Keeps(c) /\ Local(c)'
<1> DEFINE n == pc[c].name
           k == pc[c].idx
<1>0. Local(c) /\ Domains /\ Directory /\ Apart
  BY DEF IInv
<1>1. /\ pc[c].step = "remove_lock" /\ lafl_lock' = lafl_lock \ {n}
      /\ UNCHANGED <<storage, testcase, files, metadata, added>>
  BY DEF RemoveLock
<1>2. /\ n \in Names /\ n \in Owned(c) /\ pc[c].op \in {"remove", "replace"}
      /\ pc[c] \in PcTypes /\ k \in Nat /\ Ids(storage[c]) \subseteq Nat
      /\ cached_indexes[c] \in Seq(Nat)
  BY <1>0, <1>1, WorksOnItsOwn DEF Removing, Local, CallOf, TypesOf, PcTypes
<1>3. \A id \in Ids(storage[c]) : testcase[c][id].file # n
  BY <1>0, <1>1 DEF Local, OnceOf, Removing
<1>4. ASSUME pc'[c].step \notin Removing
      PROVE  n \notin Owned(c)' /\ Owned(c)' \subseteq Owned(c)
  BY <1>1, <1>3, <1>4 DEF Owned
<1>5. CASE pc[c].op = "remove"
  <2> DEFINE queue == Retain(cached_indexes[c], ToSet(cached_indexes[c]) \ {k})
  <2>1. /\ pc' = [pc EXCEPT ![c] = Idle]
        /\ cached_indexes' = [cached_indexes EXCEPT ![c] = queue]
    BY <1>5 DEF RemoveLock
  <2>2. pc'[c] = Idle /\ cached_indexes'[c] = queue
    BY <1>0, <2>1 DEF Domains
  <2>3. /\ pc'[c].step = "none" /\ pc'[c].op = "none" /\ pc'[c].idx = None
        /\ pc'[c] \in PcTypes
    BY <2>2 DEF PcTypes, Idle, At, NoFile
  <2>4. queue \in Seq(Nat) /\ ToSet(queue) = ToSet(cached_indexes[c]) \ {k}
    <3>1. ToSet(queue) = ToSet(cached_indexes[c]) \cap (ToSet(cached_indexes[c]) \ {k})
      BY <1>2, RetainProperties
    <3>2. queue \in Seq(Nat)
      BY <1>2, RetainProperties
    <3> QED BY <3>1, <3>2
  <2>5. k \notin Ids(storage[c])
    BY <1>0, <1>5 DEF Local, CallOf
  <2> HIDE DEF queue, n, k
  <2>6. TypesOf(c)'
    BY <1>0, <1>1, <2>2, <2>3, <2>4 DEF Local, TypesOf
  <2>7. CallOf(c)'
    BY <1>0, <1>1, <2>2, <2>3 DEF CallOf, Dead, Idle, At, Removing, Saving
  <2>8. OnceOf(c)'
    BY <1>0, <1>1, <2>3 DEF Local, OnceOf, Removing
  <2>9. ContentsOf(c)'
    BY <1>0, <1>1, <1>2, <2>3, <2>5, NoneIsNoId DEF Local, ContentsOf, k
  <2>10. CacheOf(c)'
    BY <1>0, <1>1, <1>2, <2>2, <2>3, <2>4, <2>5 DEF Local, CacheOf, k
  <2>11. Keeps(c)
    <3>1. n \notin Owned(c)' /\ Owned(c)' \subseteq Owned(c)
      BY <1>4, <2>3 DEF Removing
    <3> QED BY <1>0, <1>1, <1>2, <2>1, <3>1 DEF Keeps, Domains, Directory, Apart
  <2> QED BY <2>6, <2>7, <2>8, <2>9, <2>10, <2>11 DEF Local
<1>6. CASE pc[c].op = "replace"
  <2>1. /\ pc' = [pc EXCEPT ![c] = At("replace", "lock", k, 1)] /\ UNCHANGED cached_indexes
    BY <1>6 DEF RemoveLock
  <2>2. pc'[c] = At("replace", "lock", k, 1)
    BY <1>0, <2>1 DEF Domains
  <2> HIDE DEF k, n
  <2>3. /\ pc'[c].step = "lock" /\ pc'[c].op = "replace" /\ pc'[c].idx = k
        /\ pc'[c] \in PcTypes
    BY <1>2, <2>2 DEF PcTypes, At, Saving
  <2>6. TypesOf(c)'
    BY <1>0, <1>1, <2>1, <2>3 DEF Local, TypesOf
  <2>7. CallOf(c)'
    BY <1>0, <1>1, <1>2, <1>6, <2>3, NoneIsNoId DEF Local, CallOf, Dead, At, Removing, Saving, k
  <2>8. OnceOf(c)'
    BY <1>0, <1>1, <2>3 DEF Local, OnceOf, Removing
  <2>9. ContentsOf(c)'
    BY <1>0, <1>1, <2>3 DEF Local, ContentsOf, k, Removing
  <2>10. CacheOf(c)'
    BY <1>0, <1>1, <1>6, <2>1, <2>3 DEF Local, CacheOf, k
  <2>11. Keeps(c)
    <3>1. n \notin Owned(c)' /\ Owned(c)' \subseteq Owned(c)
      BY <1>4, <2>3 DEF Removing
    <3> QED BY <1>0, <1>1, <1>2, <2>1, <3>1 DEF Keeps, Domains, Directory, Apart
  <2> QED BY <2>6, <2>7, <2>8, <2>9, <2>10, <2>11 DEF Local
<1> QED BY <1>2, <1>5, <1>6

\* A client that dies holds nothing any more; its files and locks stay.
LEMMA DieKeeps ==
  ASSUME IInv, NEW c \in Clients, Die(c)
  PROVE  Keeps(c) /\ Local(c)'
<1>0. Local(c) /\ Domains /\ Directory /\ Apart
  BY DEF IInv
<1>1. /\ pc' = [pc EXCEPT ![c] = Dead] /\ storage' = [storage EXCEPT ![c] = EmptyStorage]
      /\ testcase' = [testcase EXCEPT ![c] = << >>] /\ added' = [added EXCEPT ![c] = << >>]
      /\ cached_indexes' = [cached_indexes EXCEPT ![c] = << >>] /\ UNCHANGED dir
  BY DEF Die
<1>2. /\ pc'[c] = Dead /\ storage'[c] = EmptyStorage /\ testcase'[c] = << >>
      /\ added'[c] = << >> /\ cached_indexes'[c] = << >>
  BY <1>0, <1>1 DEF Domains
<1>3. /\ pc'[c].step = "none" /\ pc'[c].op = "dead" /\ pc'[c] \in PcTypes
  BY <1>2 DEF Dead, At, PcTypes, NoFile
<1>4. Ids(storage'[c]) = {} /\ storage'[c].progressive_idx = 0
  BY <1>2, EmptyIds
<1>5. TypesOf(c)'
  <2>1. testcase'[c] \in [{} -> TestcaseTypes] /\ added'[c] \in [{} -> Inputs]
    BY <1>2
  <2> QED BY <1>2, <1>3, <1>4, <2>1 DEF TypesOf
<1>6. CallOf(c)'
  BY <1>2, <1>3, <1>4 DEF CallOf, Removing, Saving
<1>7. OnceOf(c)'
  BY <1>3, <1>4 DEF OnceOf, Removing
<1>8. ContentsOf(c)' /\ CacheOf(c)'
  BY <1>2, <1>4 DEF ContentsOf, CacheOf, ToSet
<1>9. Owned(c)' = {}
  BY <1>3, <1>4 DEF Owned, Removing
<1>10. Keeps(c)
  BY <1>0, <1>1, <1>9 DEF Keeps, Domains, Directory, dir
<1> QED BY <1>5, <1>6, <1>7, <1>8, <1>10 DEF Local

\* What one step of a client does
Step(c) ==
    \/ \E x \in Inputs : Add(c, x)
    \/ \E k \in AllIds, x \in Inputs : Replace(c, k, x)
    \/ \E k \in AllIds : RemoveTestcase(c, k) \/ Get(c, k)
    \/ Release(c)
    \/ Lock(c) \/ SaveMetadata(c) \/ StoreInput(c)
    \/ RemoveFile(c) \/ RemoveMetadata(c) \/ RemoveLock(c)
    \/ Die(c)

\* Every step of a client keeps its own part of the invariant and what is the others'.
LEMMA StepKeeps ==
  ASSUME IInv, NEW c \in Clients, Step(c)
  PROVE  Keeps(c) /\ Local(c)'
BY AddKeeps, ReplaceKeeps, RemoveTestcaseKeeps, GetKeeps, ReleaseKeeps, LockKeeps,
   SaveMetadataKeeps, StoreInputKeeps, RemoveFileKeeps, RemoveMetadataKeeps, RemoveLockKeeps,
   DieKeeps DEF Step

\* Who saves and has no name yet, after a step of client c
LEMMA PendingStep ==
  ASSUME IInv, NEW c \in Clients, Keeps(c)
  PROVE  /\ c \in Pending' => Pending' = Pending \cup {c}
         /\ c \notin Pending' => Pending' = Pending \ {c}
         /\ Cardinality(Pending') \in Nat
         /\ Cardinality(Pending') =
               Cardinality(Pending) + (IF c \in Pending' THEN 1 ELSE 0)
                                    - (IF c \in Pending THEN 1 ELSE 0)
<1>0. \A d \in Clients : d # c => (d \in Pending' <=> d \in Pending)
  BY DEF Keeps, Pending
<1>1. Pending \subseteq Clients /\ Pending' \subseteq Clients
  BY DEF Pending
<1>2. c \in Pending' => Pending' = Pending \cup {c}
  BY <1>0, <1>1
<1>3. c \notin Pending' => Pending' = Pending \ {c}
  BY <1>0, <1>1
<1>4. IsFiniteSet(Pending) /\ Cardinality(Pending) \in Nat
  BY PendingFinite
<1>5. /\ IsFiniteSet(Pending \cup {c}) /\ IsFiniteSet(Pending \ {c})
      /\ Cardinality(Pending \cup {c}) = Cardinality(Pending) + (IF c \in Pending THEN 0 ELSE 1)
      /\ Cardinality(Pending \ {c}) = Cardinality(Pending) - (IF c \in Pending THEN 1 ELSE 0)
  BY <1>4, FS_AddElement, FS_RemoveElement
<1>6. Cardinality(Pending \cup {c}) \in Nat /\ Cardinality(Pending \ {c}) \in Nat
  BY <1>5, FS_CardinalityType
<1>7. CASE c \in Pending'
  <2>1. Cardinality(Pending') = Cardinality(Pending \cup {c})
    BY <1>2, <1>7
  <2>2. Cardinality(Pending') =
           Cardinality(Pending) + 1 - (IF c \in Pending THEN 1 ELSE 0)
    BY <1>4, <1>5, <2>1
  <2> QED BY <1>2, <1>6, <1>7, <2>1, <2>2
<1>8. CASE c \notin Pending'
  <2>1. Cardinality(Pending') = Cardinality(Pending \ {c})
    BY <1>3, <1>8
  <2>2. Cardinality(Pending') =
           Cardinality(Pending) + 0 - (IF c \in Pending THEN 1 ELSE 0)
    BY <1>4, <1>5, <2>1
  <2> QED BY <1>3, <1>6, <1>8, <2>1, <2>2
<1> QED BY <1>7, <1>8

\* No step takes a name that is beyond the number of saves.
LEMMA StepRoom ==
  ASSUME IInv, NEW c \in Clients, Step(c)
  PROVE  Room'
<1>0. Keeps(c) /\ Local(c) /\ Domains /\ Room /\ Directory
  BY StepKeeps DEF IInv
<1>19. PICK P \in Nat : P = Cardinality(Pending)
  BY PendingFinite
<1>20. PICK Q \in Nat : Q = Cardinality(Pending')
  BY <1>0, PendingStep
<1>1. Q = P + (IF c \in Pending' THEN 1 ELSE 0) - (IF c \in Pending THEN 1 ELSE 0)
  BY <1>0, <1>19, <1>20, PendingStep
<1>2. /\ saves \in 0..MaxSaves /\ P <= saves /\ \A n \in lafl_lock : n \in Nat /\ n <= saves - P
      /\ \A d \in Clients : pc[d].step = "lock" =>
            pc[d].name \in Nat /\ pc[d].name # NoFile /\ pc[d].name <= saves - P + 1
  <2>1. \A d \in Clients : pc[d].name \in Nat
    BY DEF IInv, Local, TypesOf, PcTypes
  <2> QED BY <1>0, <1>19, <2>1 DEF Room, Directory, Names
<1>3. \A d \in Clients : d # c => pc'[d] = pc[d]
  BY <1>0 DEF Keeps
<1>4. pc[c].step = "lock" => c \in Pending
  BY <1>0 DEF Local, CallOf, Pending, Saving
<1>5. ASSUME saves + Q <= saves' + P, saves' \in 0..MaxSaves, lafl_lock' \subseteq lafl_lock,
             pc'[c].step = "lock" =>
                \/ pc'[c].name = 1
                \/ pc[c].step = "lock" /\ pc'[c].name = pc[c].name
      PROVE  Room'
  <2>0. PICK s \in Nat : s = saves'
    BY <1>5, CorpusAssumption
  <2>1. PICK r \in Nat : r = saves
    BY <1>2, CorpusAssumption
  <2>2. r + Q <= s + P /\ P <= r
    BY <1>2, <1>5, <2>0, <2>1
  <2>3. Q <= s
    BY <2>2
  <2>4. \A n \in Nat : n <= r - P => n <= s - Q
    BY <2>2
  <2>5. \A n \in Nat : n <= r - P + 1 => n <= s - Q + 1
    BY <2>2
  <2>6. 1 <= s - Q + 1
    BY <2>3
  <2>7. \A n \in lafl_lock' : n <= saves' - Q
    BY <1>2, <1>5, <2>0, <2>1, <2>4
  <2>8. ASSUME NEW d \in Clients, pc'[d].step = "lock"
        PROVE  pc'[d].name # NoFile /\ pc'[d].name <= saves' - Q + 1
    <3>1. CASE d = c /\ pc'[c].name = 1
      <4>1. 1 <= saves' - Q + 1
        BY <2>0, <2>6
      <4>2. pc'[d].name = 1 /\ 1 # NoFile
        BY <3>1 DEF NoFile
      <4> QED BY <4>1, <4>2
    <3>2. CASE pc'[d].name = pc[d].name /\ pc[d].step = "lock"
      <4>1. pc[d].name \in Nat /\ pc[d].name # NoFile /\ pc[d].name <= r - P + 1
        BY <1>2, <2>1, <3>2
      <4> QED BY <2>0, <2>5, <3>2, <4>1
    <3> QED BY <1>3, <1>5, <2>8, <3>1, <3>2
  <2> QED BY <1>5, <1>20, <2>0, <2>3, <2>7, <2>8 DEF Room
<1>6. ASSUME UNCHANGED <<saves, lafl_lock>>, (c \in Pending' => c \in Pending),
             pc'[c].step # "lock"
      PROVE  Room'
  <2>1. saves + Q <= saves' + P
    BY <1>1, <1>2, <1>6, CorpusAssumption
  <2> QED BY <1>2, <1>5, <1>6, <2>1
<1>7. ASSUME NEW x \in Inputs, Add(c, x)
      PROVE  Room'
  <2>1. /\ saves < MaxSaves /\ saves' = saves + 1 /\ lafl_lock' = lafl_lock /\ pc[c] = Idle
        /\ pc' = [pc EXCEPT ![c] = At("add", "lock", storage[c].progressive_idx, 1)]
    BY <1>7 DEF Add, MayCall, dir
  <2>2. pc'[c].step = "lock" /\ pc'[c].name = 1 /\ c \notin Pending
    BY <1>0, <2>1 DEF Domains, At, Idle, Pending
  <2>3. saves + Q <= saves' + P /\ saves' \in 0..MaxSaves
    BY <1>1, <1>2, <2>1, <2>2, CorpusAssumption
  <2> QED BY <1>5, <2>1, <2>2, <2>3
<1>8. ASSUME NEW k \in AllIds, NEW x \in Inputs, Replace(c, k, x)
      PROVE  Room'
  <2>1. /\ saves < MaxSaves /\ saves' = saves + 1 /\ lafl_lock' = lafl_lock /\ pc[c] = Idle
        /\ pc' = [pc EXCEPT ![c] = At("replace", "remove_file", k, testcase[c][k].file)]
    BY <1>8 DEF Replace, MayCall, dir
  <2>2. pc'[c].step # "lock" /\ c \notin Pending
    BY <1>0, <2>1 DEF Domains, At, Idle, Pending
  <2>3. saves + Q <= saves' + P /\ saves' \in 0..MaxSaves
    BY <1>1, <1>2, <2>1, <2>2, CorpusAssumption
  <2> QED BY <1>5, <2>1, <2>2, <2>3
<1>9. ASSUME NEW k \in AllIds, RemoveTestcase(c, k)
      PROVE  Room'
  <2>1. /\ UNCHANGED <<saves, lafl_lock>>
        /\ pc' = [pc EXCEPT ![c] = At("remove", "remove_file", k, testcase[c][k].file)]
    BY <1>9 DEF RemoveTestcase, dir
  <2>2. pc'[c].step # "lock" /\ c \notin Pending'
    BY <1>0, <2>1 DEF Domains, At, Pending
  <2> QED BY <1>6, <2>1, <2>2
<1>10. ASSUME NEW k \in AllIds, Get(c, k)
       PROVE  Room'
  BY <1>10, <1>0 DEF Get, dir, Room, Pending
<1>11. CASE Release(c)
  BY <1>11, <1>0 DEF Release, dir, Room, Pending
<1>12. CASE Lock(c)
  <2>1. pc[c].step = "lock" /\ saves' = saves /\ pc[c] \in PcTypes
    BY <1>0, <1>12 DEF Lock, Local, TypesOf
  <2>2. CASE pc[c].name \in lafl_lock
    <3>1. lafl_lock' = lafl_lock /\ pc' = [pc EXCEPT ![c].name = pc[c].name + 1]
      BY <1>12, <2>2 DEF Lock
    <3>2. pc'[c] = [pc[c] EXCEPT !.name = pc[c].name + 1]
      BY <1>0, <3>1 DEF Domains
    <3>3. /\ pc'[c].step = "lock" /\ pc'[c].op = pc[c].op /\ pc'[c].name = pc[c].name + 1
          /\ (c \in Pending' <=> c \in Pending)
      BY <2>1, <3>2 DEF PcTypes, Pending
    <3>4. Q = P
      BY <1>1, <3>3
    <3>5. pc'[c].name # NoFile /\ pc'[c].name <= saves - P + 1
      BY <1>1, <1>2, <2>2, <3>3, CorpusAssumption DEF NoFile
    <3>6. ASSUME NEW d \in Clients, pc'[d].step = "lock"
          PROVE  pc'[d].name # NoFile /\ pc'[d].name <= saves - P + 1
      BY <1>2, <1>3, <3>5, <3>6
    <3> QED BY <1>2, <1>20, <2>1, <3>1, <3>4, <3>6 DEF Room
  <2>3. CASE pc[c].name \notin lafl_lock
    <3>1. /\ lafl_lock' = lafl_lock \cup {pc[c].name}
          /\ pc' = [pc EXCEPT ![c].step = "metadata"]
      BY <1>12, <2>3 DEF Lock, Goto
    <3>2. pc'[c] = [pc[c] EXCEPT !.step = "metadata"]
      BY <1>0, <3>1 DEF Domains
    <3>3. pc'[c].step = "metadata" /\ c \notin Pending'
      BY <2>1, <3>2 DEF PcTypes, Pending, Removing
    <3>4. Q = P - 1
      BY <1>1, <1>4, <2>1, <3>3
    <3>5. Q <= saves
      BY <1>1, <1>2, <3>4, CorpusAssumption
    <3>6. \A n \in lafl_lock' : n <= saves - Q
      BY <1>1, <1>2, <2>1, <3>1, <3>4, CorpusAssumption
    <3>7. ASSUME NEW d \in Clients, pc'[d].step = "lock"
          PROVE  pc'[d].name # NoFile /\ pc'[d].name <= saves - Q + 1
      <4>1. d # c /\ pc'[d] = pc[d]
        BY <1>3, <3>3, <3>7
      <4> QED BY <1>1, <1>2, <3>4, <3>7, <4>1, CorpusAssumption
    <3> QED BY <1>2, <1>20, <2>1, <3>5, <3>6, <3>7 DEF Room
  <2> QED BY <2>2, <2>3
<1>13. CASE SaveMetadata(c)
  <2>1. UNCHANGED <<saves, lafl_lock>> /\ pc' = [pc EXCEPT ![c].step = "store"]
    BY <1>13 DEF SaveMetadata, Goto
  <2>2. pc'[c].step = "store" /\ c \notin Pending'
    BY <1>0, <2>1 DEF Domains, Pending, Removing, Local, TypesOf, PcTypes
  <2> QED BY <1>6, <2>1, <2>2
<1>14. CASE StoreInput(c)
  <2>1. UNCHANGED <<saves, lafl_lock>> /\ pc' = [pc EXCEPT ![c] = Idle]
    BY <1>14 DEF StoreInput
  <2>2. pc'[c].step # "lock" /\ c \notin Pending'
    BY <1>0, <2>1 DEF Domains, Pending, Idle, At
  <2> QED BY <1>6, <2>1, <2>2
<1>15. CASE RemoveFile(c)
  <2>1. /\ pc[c].step = "remove_file" /\ UNCHANGED <<saves, lafl_lock>>
        /\ pc' = [pc EXCEPT ![c].step = "remove_metadata"]
    BY <1>15 DEF RemoveFile, Goto
  <2>2. pc'[c].step # "lock" /\ (c \in Pending' => c \in Pending)
    BY <1>0, <2>1 DEF Domains, Pending, Removing, Local, TypesOf, PcTypes
  <2> QED BY <1>6, <2>1, <2>2
<1>16. CASE RemoveMetadata(c)
  <2>1. /\ pc[c].step = "remove_metadata" /\ UNCHANGED <<saves, lafl_lock>>
        /\ pc' = [pc EXCEPT ![c].step = "remove_lock"]
    BY <1>16 DEF RemoveMetadata, Goto
  <2>2. pc'[c].step # "lock" /\ (c \in Pending' => c \in Pending)
    BY <1>0, <2>1 DEF Domains, Pending, Removing, Local, TypesOf, PcTypes
  <2> QED BY <1>6, <2>1, <2>2
<1>17. CASE RemoveLock(c)
  <2>1. /\ pc[c].step = "remove_lock" /\ saves' = saves /\ lafl_lock' \subseteq lafl_lock
        /\ \/ pc[c].op = "remove" /\ pc' = [pc EXCEPT ![c] = Idle]
           \/ pc[c].op = "replace" /\ pc' = [pc EXCEPT ![c] = At("replace", "lock", pc[c].idx, 1)]
    BY <1>17 DEF RemoveLock
  <2>2. /\ pc'[c].step = "lock" => pc'[c].name = 1
        /\ c \in Pending' => c \in Pending
    BY <1>0, <2>1 DEF Domains, Pending, Removing, Idle, At
  <2>3. saves + Q <= saves' + P
    BY <1>1, <1>2, <2>1, <2>2, CorpusAssumption
  <2> QED BY <1>2, <1>5, <2>1, <2>2, <2>3
<1>18. CASE Die(c)
  <2>1. UNCHANGED <<saves, lafl_lock>> /\ pc' = [pc EXCEPT ![c] = Dead]
    BY <1>18 DEF Die, dir
  <2>2. pc'[c].step # "lock" /\ c \notin Pending'
    BY <1>0, <2>1 DEF Domains, Pending, Dead, At
  <2> QED BY <1>6, <2>1, <2>2
<1> QED BY <1>7, <1>8, <1>9, <1>10, <1>11, <1>12, <1>13, <1>14, <1>15, <1>16, <1>17, <1>18
        DEF Step

-----------------------------------------------------------------------------
\* The invariant holds in every execution.
LEMMA AlwaysIInv == Spec => []IInv
<1>1. Init => IInv
  BY InitIInv
<1>2. IInv /\ [Next]_vars => IInv'
  <2> SUFFICES ASSUME IInv, [Next]_vars PROVE IInv'
    OBVIOUS
  <2>1. ASSUME NEW c \in Clients, Step(c)
        PROVE  IInv'
    <3>1. Keeps(c) /\ Local(c)' /\ Room'
      BY <2>1, StepKeeps, StepRoom
    <3>2. (\A d \in Clients : Local(d)') /\ Apart'
      BY <3>1, OthersStay
    <3> QED BY <3>1, <3>2 DEF IInv, Keeps
  <2>2. CASE UNCHANGED vars
    BY <2>2 DEF vars, IInv, Domains, Directory, Local, TypesOf, CallOf, OnceOf, ContentsOf,
                CacheOf, Apart, Owned, Room, Pending
  <2>3. Next => \E c \in Clients : Step(c)
    BY DEF Next, Step
  <2> QED BY <2>1, <2>2, <2>3
<1> QED
  BY <1>1, <1>2, PTL DEF Spec

\* What a client reads back for a testcase is what it added, whatever the other clients of
\* the directory save and remove and wherever they die.
THEOREM FilesStayOwn == Spec => []FilesAreOwn
<1>1. IInv => FilesAreOwn
  <2> SUFFICES ASSUME IInv, NEW c \in Clients, NEW id \in Ids(storage[c]), Saved(c, id)
               PROVE  LET name == testcase[c][id].file
                      IN  /\ files[name] = added[c][id]
                          /\ name \in metadata /\ name \in lafl_lock
                          /\ testcase[c][id].input \in {NoInput, added[c][id]}
    BY DEF FilesAreOwn
  <2>1. /\ testcase[c][id].file # NoFile /\ testcase[c][id].file \in metadata
        /\ files[testcase[c][id].file] = added[c][id]
        /\ testcase[c][id].input \in {NoInput, added[c][id]}
    BY DEF IInv, Local, ContentsOf, Saved
  <2>2. testcase[c][id].file \in Nat
    BY DEF IInv, Local, TypesOf, TestcaseTypes
  <2>3. testcase[c][id].file \in Owned(c)
    BY <2>1, <2>2 DEF Owned
  <2>4. testcase[c][id].file \in lafl_lock
    BY <2>3 DEF IInv, Apart
  <2> QED BY <2>1, <2>4
<1> QED
  BY <1>1, AlwaysIInv, PTL

\* Every loaded input is in the queue of the cache, and between two calls the queue holds
\* nothing that is not in the corpus.
THEOREM CacheAlwaysKeepsTrack == Spec => []CacheKeepsTrack
<1>1. IInv => CacheKeepsTrack
  <2> SUFFICES ASSUME IInv, NEW c \in Clients
               PROVE  /\ {id \in Ids(storage[c]) :
                            Saved(c, id) /\ testcase[c][id].input # NoInput}
                           \subseteq ToSet(cached_indexes[c])
                      /\ pc[c] = Idle => ToSet(cached_indexes[c]) \subseteq Ids(storage[c])
    BY DEF CacheKeepsTrack
  <2>1. CacheOf(c)
    BY DEF IInv, Local
  <2>2. pc[c] = Idle => pc[c].op # "remove"
    BY DEF Idle, At
  <2> QED BY <2>1, <2>2 DEF CacheOf, Saved
<1> QED
  BY <1>1, AlwaysIInv, PTL
=============================================================================

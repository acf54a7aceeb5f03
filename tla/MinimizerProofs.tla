--------------------------- MODULE MinimizerProofs ---------------------------
(***************************************************************************)
(* What Minimizer.tla checks on small instances, for corpora of any size,   *)
(* coverage maps of any finite size and any bounds.                         *)
(***************************************************************************)
EXTENDS Minimizer, FiniteSetTheorems, TLAPS

(* The linked list of TestcaseStorage *)

\* A new storage is in order.
LEMMA EmptyInOrder ==
    IsStorage(EmptyStorage, Nat) /\ InOrder(EmptyStorage) /\ Ids(EmptyStorage) = {}
BY DEF IsStorage, InOrder, EmptyStorage, Ids, None

\* TestcaseStorage::insert keeps the list in order and adds one id.
LEMMA InsertInOrder ==
    ASSUME NEW s, IsStorage(s, Nat), InOrder(s)
    PROVE  /\ IsStorage(Insert(s), Nat)
           /\ InOrder(Insert(s))
           /\ Ids(Insert(s)) = Ids(s) \cup {s.progressive_idx}
           /\ s.progressive_idx \in Nat \ Ids(s)
<1> DEFINE idx == s.progressive_idx
           t == Insert(s)
<1>1. idx \in Nat /\ \A id \in Ids(s) : id \in Nat /\ id < idx
  BY DEF IsStorage, InOrder
<1>2. idx \notin Ids(s)
  BY <1>1
<1>3. Ids(t) = Ids(s) \cup {idx}
  BY DEF Insert, Ids
<1>4. /\ t.last_idx = idx /\ t.progressive_idx = idx + 1
      /\ t.first_idx = IF s.first_idx = None THEN idx ELSE s.first_idx
  BY DEF Insert
<1>5. t.map[idx] = [prev |-> s.last_idx, next |-> None]
  BY DEF Insert, Ids
<1>6. ASSUME NEW id \in Ids(s)
      PROVE  /\ s.map[id] \in [prev : Nat \cup {None}, next : Nat \cup {None}]
             /\ t.map[id].prev = s.map[id].prev
             /\ t.map[id].next = IF id = s.last_idx THEN idx ELSE s.map[id].next
             /\ t.map[id] \in [prev : Nat \cup {None}, next : Nat \cup {None}]
  BY <1>1, <1>2 DEF Insert, Ids, IsStorage
<1>7. IsStorage(t, Nat)
  <2>1. s.last_idx \in Nat \cup {None} /\ s.first_idx \in Nat \cup {None}
    BY DEF IsStorage
  <2>2. Ids(t) \subseteq Nat
    BY <1>1, <1>3
  <2>3. t.map \in [Ids(t) -> [prev : Nat \cup {None}, next : Nat \cup {None}]]
    <3>1. t.map = [id \in Ids(t) |-> t.map[id]]
      BY DEF Insert, Ids
    <3>2. \A id \in Ids(t) : t.map[id] \in [prev : Nat \cup {None}, next : Nat \cup {None}]
      BY <1>3, <1>5, <1>6, <2>1
    <3> QED BY <3>1, <3>2
  <2> QED BY <1>1, <1>4, <2>1, <2>2, <2>3 DEF IsStorage
<1>8. InOrder(t)
  <2>1. CASE Ids(s) = {}
    <3>1. s.first_idx = None /\ s.last_idx = None
      BY <2>1 DEF InOrder
    <3> QED BY <1>1, <1>3, <1>4, <1>5, <2>1, <3>1 DEF InOrder, None
  <2>2. CASE Ids(s) # {}
    <3>1. /\ s.first_idx \in Ids(s) /\ \A id \in Ids(s) : s.first_idx <= id
          /\ s.last_idx \in Ids(s) /\ \A id \in Ids(s) : id <= s.last_idx
      BY <2>2 DEF InOrder
    <3>2. t.first_idx = s.first_idx /\ t.first_idx # idx
      BY <1>1, <1>4, <3>1 DEF None
    <3>3. \A id \in Ids(t) : id < t.progressive_idx
      BY <1>1, <1>3, <1>4
    <3>4. /\ t.first_idx \in Ids(t) /\ \A id \in Ids(t) : t.first_idx <= id
          /\ t.last_idx \in Ids(t) /\ \A id \in Ids(t) : id <= t.last_idx
      BY <1>1, <1>3, <1>4, <3>1, <3>2
    <3>5. ASSUME NEW id \in Ids(t)
          PROVE  IF id = t.last_idx THEN t.map[id].next = None
                 ELSE /\ t.map[id].next \in Ids(t)
                      /\ id < t.map[id].next
                      /\ \A c \in Ids(t) : ~(id < c /\ c < t.map[id].next)
      <4>1. CASE id = idx
        BY <1>4, <1>5, <4>1
      <4>2. CASE id = s.last_idx
        BY <1>1, <1>3, <1>4, <1>6, <3>1, <4>2
      <4>3. CASE id \in Ids(s) /\ id # s.last_idx
        BY <1>1, <1>3, <1>4, <1>6, <4>3 DEF InOrder
      <4> QED BY <1>3, <4>1, <4>2, <4>3
    <3>6. ASSUME NEW id \in Ids(t)
          PROVE  IF id = t.first_idx THEN t.map[id].prev = None
                 ELSE /\ t.map[id].prev \in Ids(t)
                      /\ t.map[id].prev < id
                      /\ \A c \in Ids(t) : ~(t.map[id].prev < c /\ c < id)
      <4>1. CASE id = idx
        BY <1>1, <1>3, <1>5, <3>1, <3>2, <4>1
      <4>2. CASE id \in Ids(s)
        BY <1>1, <1>3, <1>6, <3>2, <4>2 DEF InOrder
      <4> QED BY <1>3, <4>1, <4>2
    <3>7. Ids(t) # {}
      BY <1>3
    <3> QED BY <3>3, <3>4, <3>5, <3>6, <3>7 DEF InOrder
  <2> QED BY <2>1, <2>2
<1> QED BY <1>1, <1>2, <1>3, <1>7, <1>8

\* TestcaseStorage::remove keeps the list in order and takes one id away.
LEMMA UnlinkInOrder ==
    ASSUME NEW s, IsStorage(s, Nat), InOrder(s), NEW idx \in Ids(s)
    PROVE  /\ IsStorage(Unlink(s, idx), Nat)
           /\ InOrder(Unlink(s, idx))
           /\ Ids(Unlink(s, idx)) = Ids(s) \ {idx}
<1> DEFINE t == Unlink(s, idx)
           p == s.map[idx].prev
           n == s.map[idx].next
<1>1. s.progressive_idx \in Nat /\ \A id \in Ids(s) : id \in Nat /\ id < s.progressive_idx
  BY DEF IsStorage, InOrder
<1>2. Ids(t) = Ids(s) \ {idx}
  BY DEF Unlink, Ids
<1>3. /\ t.first_idx = IF p = None THEN n ELSE s.first_idx
      /\ t.last_idx = IF n = None THEN p ELSE s.last_idx
      /\ t.progressive_idx = s.progressive_idx
  BY DEF Unlink
<1>4. /\ s.first_idx \in Ids(s) /\ \A id \in Ids(s) : s.first_idx <= id
      /\ s.last_idx \in Ids(s) /\ \A id \in Ids(s) : id <= s.last_idx
  BY DEF InOrder
<1>5. /\ IF idx = s.last_idx THEN n = None
         ELSE n \in Ids(s) /\ idx < n /\ \A c \in Ids(s) : ~(idx < c /\ c < n)
      /\ IF idx = s.first_idx THEN p = None
         ELSE p \in Ids(s) /\ p < idx /\ \A c \in Ids(s) : ~(p < c /\ c < idx)
  BY DEF InOrder
<1>7. ASSUME NEW id \in Ids(t)
      PROVE  /\ t.map[id].prev = IF id = n THEN p ELSE s.map[id].prev
             /\ t.map[id].next = IF id = p THEN n ELSE s.map[id].next
             /\ t.map[id] \in [prev : Nat \cup {None}, next : Nat \cup {None}]
  <2>1. /\ s.map[id] \in [prev : Nat \cup {None}, next : Nat \cup {None}]
        /\ p \in Nat \cup {None} /\ n \in Nat \cup {None}
    BY <1>2 DEF IsStorage
  <2>2. t.map[id] = [prev |-> IF id = n THEN p ELSE s.map[id].prev,
                     next |-> IF id = p THEN n ELSE s.map[id].next]
    BY <1>2 DEF Unlink, Ids
  <2> QED BY <2>1, <2>2
<1>8. IsStorage(t, Nat)
  <2>1. t.map = [id \in Ids(t) |-> t.map[id]]
    BY DEF Unlink, Ids
  <2>2. t.map \in [Ids(t) -> [prev : Nat \cup {None}, next : Nat \cup {None}]]
    BY <1>7, <2>1
  <2>3. p \in Nat \cup {None} /\ n \in Nat \cup {None}
    BY DEF IsStorage
  <2>4. Ids(t) \subseteq Nat
    BY <1>1, <1>2
  <2> QED BY <1>1, <1>3, <1>4, <2>2, <2>3, <2>4 DEF IsStorage
<1>9. InOrder(t)
  <2>1. \A id \in Ids(t) : id < t.progressive_idx
    BY <1>1, <1>2, <1>3
  <2>2. None \notin Ids(s)
    BY <1>1 DEF None
  <2>3. IF Ids(t) = {} THEN t.first_idx = None /\ t.last_idx = None
        ELSE /\ t.first_idx \in Ids(t) /\ \A id \in Ids(t) : t.first_idx <= id
             /\ t.last_idx \in Ids(t) /\ \A id \in Ids(t) : id <= t.last_idx
    <3>1. CASE Ids(t) = {}
      BY <1>2, <1>3, <1>4, <1>5, <2>2, <3>1
    <3>2. CASE Ids(t) # {}
      <4>1. t.first_idx \in Ids(t) /\ \A id \in Ids(t) : t.first_idx <= id
        <5>1. CASE idx = s.first_idx
          BY <1>1, <1>2, <1>3, <1>4, <1>5, <2>2, <3>2, <5>1
        <5>2. CASE idx # s.first_idx
          BY <1>1, <1>2, <1>3, <1>4, <1>5, <2>2, <5>2
        <5> QED BY <5>1, <5>2
      <4>2. t.last_idx \in Ids(t) /\ \A id \in Ids(t) : id <= t.last_idx
        <5>1. CASE idx = s.last_idx
          BY <1>1, <1>2, <1>3, <1>4, <1>5, <2>2, <3>2, <5>1
        <5>2. CASE idx # s.last_idx
          BY <1>1, <1>2, <1>3, <1>4, <1>5, <2>2, <5>2
        <5> QED BY <5>1, <5>2
      <4> QED BY <3>2, <4>1, <4>2
    <3> QED BY <3>1, <3>2
  <2>4. ASSUME NEW id \in Ids(t)
        PROVE  IF id = t.last_idx THEN t.map[id].next = None
               ELSE /\ t.map[id].next \in Ids(t)
                    /\ id < t.map[id].next
                    /\ \A c \in Ids(t) : ~(id < c /\ c < t.map[id].next)
    <3>1. IF id = s.last_idx THEN s.map[id].next = None
          ELSE /\ s.map[id].next \in Ids(s)
               /\ id < s.map[id].next
               /\ \A c \in Ids(s) : ~(id < c /\ c < s.map[id].next)
      BY <1>2 DEF InOrder
    <3>2. CASE id = p
      BY <1>1, <1>2, <1>3, <1>4, <1>5, <1>7, <2>2, <3>1, <3>2
    <3>3. CASE id # p
      BY <1>1, <1>2, <1>3, <1>4, <1>5, <1>7, <2>2, <3>1, <3>3, SMTT(30)
    <3> QED BY <3>2, <3>3
  <2>5. ASSUME NEW id \in Ids(t)
        PROVE  IF id = t.first_idx THEN t.map[id].prev = None
               ELSE /\ t.map[id].prev \in Ids(t)
                    /\ t.map[id].prev < id
                    /\ \A c \in Ids(t) : ~(t.map[id].prev < c /\ c < id)
    <3>1. IF id = s.first_idx THEN s.map[id].prev = None
          ELSE /\ s.map[id].prev \in Ids(s)
               /\ s.map[id].prev < id
               /\ \A c \in Ids(s) : ~(s.map[id].prev < c /\ c < id)
      BY <1>2 DEF InOrder
    <3>2. CASE id = n
      BY <1>1, <1>2, <1>3, <1>4, <1>5, <1>7, <2>2, <3>1, <3>2
    <3>3. CASE id # n
      BY <1>1, <1>2, <1>3, <1>4, <1>5, <1>7, <2>2, <3>1, <3>3
    <3> QED BY <3>2, <3>3
  <2> QED BY <2>1, <2>3, <2>4, <2>5 DEF InOrder
<1> QED BY <1>2, <1>8, <1>9

\* QueueScheduler::next finds a testcase as long as there is one.
LEMMA NextInQueueStored ==
    ASSUME NEW s, InOrder(s), Ids(s) # {}, NEW id
    PROVE  NextInQueue(s, id) \in Ids(s)
BY DEF InOrder, NextInQueue
-----------------------------------------------------------------------------
(* Counting references *)

\* The reference count of a testcase that is the top rated one of the indexes in S
Count(S) == IF S = {} THEN NoMeta ELSE Cardinality(S)

\* Sets of indexes are finite, and so are their counts.
LEMMA IndexSets ==
    ASSUME NEW S, S \subseteq Indexes
    PROVE  /\ IsFiniteSet(S)
           /\ Cardinality(S) \in Nat
           /\ Cardinality(S) = 0 <=> S = {}
BY MinimizerAssumption, FS_Subset, FS_CardinalityType, FS_EmptySet

\* The count of all the indexes that a testcase has won.
LEMMA CountAll ==
    ASSUME NEW S, S \subseteq Indexes
    PROVE  DropUnused(Cardinality(S)) = Count(S)
BY IndexSets DEF DropUnused, Count

\* The count after the indexes T were lost.
LEMMA CountLoss ==
    ASSUME NEW S, S \subseteq Indexes, NEW T, T \subseteq S, T # {}
    PROVE  DropUnused(Count(S) - Cardinality(T)) = Count(S \ T)
<1>1. Cardinality(S \ T) = Cardinality(S) - Cardinality(S \cap T)
  BY IndexSets, FS_Difference
<1>2. S \cap T = T /\ S # {}
  OBVIOUS
<1>5. Count(S) - Cardinality(T) = Cardinality(S \ T)
  BY <1>1, <1>2 DEF Count
<1>6. DropUnused(Cardinality(S \ T)) = Count(S \ T)
  BY CountAll
<1> QED BY <1>5, <1>6

\* The count after the indexes T were inherited.
LEMMA CountGain ==
    ASSUME NEW S, S \subseteq Indexes, NEW T, T \subseteq Indexes, S \cap T = {},
           S # {} \/ T = {}
    PROVE  Count(S) + Cardinality(T) = Count(S \cup T)
<1>1. /\ Cardinality(S) \in Nat /\ Cardinality(T) \in Nat
      /\ Cardinality(S) = 0 <=> S = {}
      /\ IsFiniteSet(S) /\ IsFiniteSet(T)
  BY IndexSets
<1>2. Cardinality(S \cup T) = Cardinality(S) + Cardinality(T) - Cardinality(S \cap T)
  BY <1>1, FS_Union
<1>3. Cardinality(S \cap T) = 0
  BY FS_EmptySet
<1>4. CASE S # {}
  BY <1>1, <1>2, <1>3, <1>4 DEF Count
<1>5. CASE S = {}
  <2>1. T = {} /\ S \cup T = {} /\ Cardinality(T) = 0
    BY <1>5, FS_EmptySet
  <2> QED BY <1>5, <2>1 DEF Count, NoMeta
<1> QED BY <1>4, <1>5

\* A count is a reference count.
LEMMA CountType ==
    ASSUME NEW S, S \subseteq Indexes
    PROVE  Count(S) \in Nat \cup {NoMeta}
BY IndexSets DEF Count

\* What RefCntsMatch says of a testcase that is the top rated one of the indexes in S
Exact(tc, S) == S \subseteq tc.covers /\ tc.refcnt = Count(S)

\* What it says of one that was replaced and does not hit all of them
AtMost(tc, S) == tc.refcnt <= Cardinality(S \cap tc.covers)

\* What it says of a corpus t with the top rated testcases top, N of them narrowed
Matches(t, top, N) ==
    /\ \A e \in Indexes : top[e] # None => top[e] \in DOMAIN t
    /\ \A id \in DOMAIN t \ N : Exact(t[id], {e \in Indexes : top[e] = id})
    /\ \A id \in N : AtMost(t[id], {e \in Indexes : top[e] = id})

\* A narrowed testcase that loses the indexes T is still counted for no more than it hits.
LEMMA AtMostLoss ==
    ASSUME NEW tc \in Testcases, NEW S, S \subseteq Indexes, NEW T, T \subseteq S,
           AtMost(tc, S)
    PROVE  /\ DropUnused(tc.refcnt - Cardinality(T)) \in Nat \cup {NoMeta}
           /\ DropUnused(tc.refcnt - Cardinality(T)) <= Cardinality((S \ T) \cap tc.covers)
<1> DEFINE C == S \cap tc.covers
<1>1. /\ IsFiniteSet(C) /\ IsFiniteSet(T)
      /\ Cardinality(C) \in Nat /\ Cardinality(T) \in Nat
      /\ Cardinality(C \cap T) \in Nat /\ Cardinality(C \ T) \in Nat
  BY IndexSets
<1>2. Cardinality(C \ T) = Cardinality(C) - Cardinality(C \cap T)
  BY <1>1, FS_Difference
<1>3. Cardinality(C \cap T) <= Cardinality(T)
  BY <1>1, FS_Subset
<1>4. Cardinality((S \ T) \cap tc.covers) = Cardinality(C \ T)
  <2>1. (S \ T) \cap tc.covers = C \ T
    OBVIOUS
  <2> QED BY <2>1
<1>5. tc.refcnt \in Int /\ tc.refcnt <= Cardinality(C)
  BY DEF Testcases, NoMeta, AtMost
<1> HIDE DEF C
<1> QED BY <1>1, <1>2, <1>3, <1>4, <1>5 DEF DropUnused, NoMeta

\* A narrowed testcase that inherits the indexes T, which it hits, is counted for them.
LEMMA AtMostGain ==
    ASSUME NEW tc \in Testcases, NEW S, S \subseteq Indexes, NEW T, T \subseteq Indexes,
           S \cap T = {}, T \subseteq tc.covers, AtMost(tc, S)
    PROVE  tc.refcnt + Cardinality(T) <= Cardinality((S \cup T) \cap tc.covers)
<1> DEFINE C == S \cap tc.covers
<1>1. /\ IsFiniteSet(C) /\ IsFiniteSet(T)
      /\ Cardinality(C) \in Nat /\ Cardinality(T) \in Nat
  BY IndexSets
<1>2. Cardinality(C \cup T) = Cardinality(C) + Cardinality(T) - Cardinality(C \cap T)
  BY <1>1, FS_Union
<1>3. Cardinality(C \cap T) = 0
  BY FS_EmptySet
<1>4. Cardinality((S \cup T) \cap tc.covers) = Cardinality(C \cup T)
  <2>1. (S \cup T) \cap tc.covers = C \cup T
    OBVIOUS
  <2> QED BY <2>1
<1>5. tc.refcnt \in Int /\ tc.refcnt <= Cardinality(C)
  BY DEF Testcases, NoMeta, AtMost
<1> HIDE DEF C
<1> QED BY <1>1, <1>2, <1>3, <1>4, <1>5

\* update_score keeps the counts right, in a corpus t in which they are, but for the
\* testcase idx that was added or replaced. It fails only on a narrowed testcase.
LEMMA ScoreUpdated ==
    ASSUME NEW D, NEW t \in [D -> Testcases], NEW idx \in D, NEW N, N \subseteq D,
           D \subseteq Nat,
           top_rated \in [Indexes -> Nat \cup {None}],
           \A e \in Indexes : top_rated[e] # None => top_rated[e] \in D,
           \A id \in D \ (N \cup {idx}) : Exact(t[id], Rated(id)),
           \A id \in N \ {idx} : AtMost(t[id], Rated(id)),
           idx \in N \/ Rated(idx) \subseteq t[idx].covers,
           phase # "failed",
           UpdateScore(t, idx)
    PROVE  /\ testcase' \in [D -> Testcases]
           /\ top_rated' \in [Indexes -> Nat \cup {None}]
           /\ \/ phase' = phase /\ Matches(testcase', top_rated', N)
              \/ phase' = "failed" /\ N # {}
<1> DEFINE won == NewFavoreds(t, idx)
           rated(id) == {e \in Indexes : top_rated'[e] = id}
<1>1. won \subseteq t[idx].covers /\ won \subseteq Indexes
  BY DEF NewFavoreds, Testcases
<1>2. \A id : Rated(id) \subseteq Indexes /\ Lost(t, idx, id) \subseteq Rated(id)
  BY <1>1 DEF Rated, Lost
<1>3. CASE Overdrawn(t, idx)
  <2>1. testcase' = t /\ top_rated' = top_rated /\ phase' = "failed"
    BY <1>3 DEF UpdateScore
  <2>2. PICK old \in D \ {idx} : /\ Lost(t, idx, old) # {}
                                 /\ Cardinality(Lost(t, idx, old)) > t[old].refcnt
    BY <1>3 DEF Overdrawn
  <2>3. old \in N
    <3> SUFFICES ASSUME old \notin N PROVE FALSE
      OBVIOUS
    <3>1. t[old].refcnt = Cardinality(Rated(old))
      <4>1. Exact(t[old], Rated(old)) /\ Rated(old) # {}
        BY <1>2, <2>2
      <4> QED BY <4>1 DEF Exact, Count
    <3>2. /\ Cardinality(Lost(t, idx, old)) <= Cardinality(Rated(old))
          /\ Cardinality(Lost(t, idx, old)) \in Nat /\ Cardinality(Rated(old)) \in Nat
      <4>1. IsFiniteSet(Rated(old)) /\ Cardinality(Rated(old)) \in Nat
        BY <1>2, IndexSets
      <4>2. Cardinality(Lost(t, idx, old)) \in Nat
        BY <1>2, IndexSets
      <4> QED BY <1>2, <4>1, <4>2, FS_Subset
    <3> QED BY <2>2, <3>1, <3>2
  <2> QED BY <2>1, <2>3
<1>4. CASE ~Overdrawn(t, idx)
  <2>1. testcase' = Scored(t, idx) /\ phase' = phase
    BY <1>4 DEF UpdateScore
  <2>2. top_rated' = [e \in Indexes |-> IF e \in won THEN idx ELSE top_rated[e]]
    BY <1>4 DEF UpdateScore
  <2>3. idx # None /\ top_rated' \in [Indexes -> Nat \cup {None}]
    BY <2>2 DEF None
  <2>4. ASSUME NEW id \in D
        PROVE  /\ testcase'[id] \in Testcases
               /\ id \notin N => Exact(testcase'[id], rated(id))
               /\ id \in N => AtMost(testcase'[id], rated(id))
    <3>1. t[id] \in Testcases
      OBVIOUS
    <3>2. Count(rated(id)) \in Nat \cup {NoMeta}
      BY CountType
    <3>3. CASE id = idx
      <4>1. testcase'[id] = [t[id] EXCEPT !.refcnt = DropUnused(Cardinality(won))]
        BY <2>1, <3>3 DEF Scored
      <4>2. DropUnused(Cardinality(won)) = Count(won) /\ Count(won) \in Nat \cup {NoMeta}
        BY <1>1, CountAll, CountType
      <4>3. /\ testcase'[id] \in Testcases
            /\ testcase'[id].refcnt = Count(won) /\ testcase'[id].covers = t[id].covers
        BY <3>1, <4>1, <4>2 DEF Testcases
      <4>4. CASE id \notin N
        <5>1. rated(id) = won
          <6>1. ASSUME NEW e \in Indexes, top_rated[e] = idx
                PROVE  e \in won
            <7>1. e \in t[idx].covers
              BY <3>3, <4>4, <6>1 DEF Rated
            <7> QED BY <6>1, <7>1 DEF NewFavoreds
          <6> QED BY <1>1, <2>2, <3>3, <6>1
        <5> QED BY <1>1, <3>3, <4>3, <4>4, <5>1 DEF Exact
      <4>5. CASE id \in N
        <5> DEFINE hit == rated(id) \cap t[id].covers
        <5>1. won \subseteq hit /\ hit \subseteq Indexes
          BY <1>1, <2>2, <3>3
        <5>2. /\ IsFiniteSet(hit) /\ Cardinality(hit) \in Nat /\ Cardinality(won) \in Nat
          BY <1>1, <5>1, IndexSets
        <5>3. Cardinality(won) <= Cardinality(hit)
          BY <5>1, <5>2, FS_Subset
        <5>4. Count(won) <= Cardinality(hit)
          BY <5>2, <5>3 DEF Count, NoMeta
        <5> QED BY <4>3, <4>5, <5>4 DEF AtMost
      <4> QED BY <4>4, <4>5
    <3>4. CASE id # idx
      <4> DEFINE lost == Lost(t, idx, id)
      <4>1. lost \subseteq Rated(id) /\ Rated(id) \subseteq Indexes
        BY <1>2
      <4>2. rated(id) = Rated(id) \ lost
        BY <1>1, <2>2, <3>4 DEF Lost, Rated
      <4>3. CASE lost = {}
        <5>1. testcase'[id] = t[id]
          BY <2>1, <3>4, <4>3 DEF Scored
        <5>2. rated(id) = Rated(id)
          BY <4>2, <4>3
        <5> QED BY <3>1, <3>4, <5>1, <5>2
      <4>4. CASE lost # {}
        <5> DEFINE left == DropUnused(t[id].refcnt - Cardinality(lost))
        <5>1. testcase'[id] = [t[id] EXCEPT !.refcnt = left]
          BY <2>1, <3>4, <4>4 DEF Scored
        <5>2. CASE id \notin N
          <6>1. Exact(t[id], Rated(id))
            BY <3>4, <5>2
          <6>2. left = Count(rated(id))
            BY <4>1, <4>2, <4>4, <6>1, CountLoss DEF Exact
          <6> HIDE DEF left
          <6>3. /\ testcase'[id] \in Testcases
                /\ testcase'[id].refcnt = Count(rated(id))
                /\ testcase'[id].covers = t[id].covers
            BY <3>1, <3>2, <5>1, <6>2 DEF Testcases
          <6> QED BY <4>2, <5>2, <6>1, <6>3 DEF Exact
        <5>3. CASE id \in N
          <6>1. AtMost(t[id], Rated(id))
            BY <3>4, <5>3
          <6>2. /\ left \in Nat \cup {NoMeta}
                /\ left <= Cardinality((Rated(id) \ lost) \cap t[id].covers)
            <7> HIDE DEF lost
            <7> QED BY <3>1, <4>1, <6>1, AtMostLoss
          <6> HIDE DEF left
          <6>3. /\ testcase'[id] \in Testcases
                /\ testcase'[id].refcnt = left
                /\ testcase'[id].covers = t[id].covers
            BY <3>1, <5>1, <6>2 DEF Testcases
          <6> QED BY <4>2, <5>3, <6>2, <6>3 DEF AtMost
        <5> QED BY <5>2, <5>3
      <4> QED BY <4>3, <4>4
    <3> QED BY <3>3, <3>4
  <2>5. testcase' \in [D -> Testcases]
    <3>1. testcase' = [id \in D |-> testcase'[id]]
      BY <2>1 DEF Scored
    <3> QED BY <2>4, <3>1
  <2>6. \A e \in Indexes : top_rated'[e] # None => top_rated'[e] \in D
    BY <2>2
  <2>7. Matches(testcase', top_rated', N)
    BY <2>4, <2>5, <2>6 DEF Matches
  <2> QED BY <2>1, <2>3, <2>5, <2>7
<1> QED BY <1>3, <1>4
-----------------------------------------------------------------------------
(* The inductive invariant *)

\* What fuzz_one has in hand is there: next is called and stages run on a corpus that is
\* not empty and not being minimized, and stages on a testcase of it.
CurrentStored ==
    /\ phase # "idle" => ids # {} /\ removing = {}
    /\ phase = "stages" => current \in ids

IInv == TypeOK /\ StorageInOrder /\ RefCntsMatch /\ CurrentStored

\* The invariant holds at first.
LEMMA InitIInv == Init => IInv
<1> SUFFICES ASSUME Init PROVE IInv
  OBVIOUS
<1>1. IsStorage(storage, Nat) /\ InOrder(storage) /\ ids = {}
  BY EmptyInOrder DEF Init, ids
<1>2. TypeOK
  BY <1>1, MinimizerAssumption DEF Init, TypeOK, None
<1>3. RefCntsMatch
  BY <1>1 DEF Init, RefCntsMatch, None
<1> QED BY <1>1, <1>2, <1>3 DEF IInv, StorageInOrder, CurrentStored, Init

\* RefCntsMatch in terms of Matches.
LEMMA CountsMatch ==
    ASSUME testcase \in [ids -> Testcases]
    PROVE  RefCntsMatch <=> /\ phase = "failed" => narrowed # {}
                            /\ phase # "failed" => Matches(testcase, top_rated, narrowed)
BY DEF RefCntsMatch, Matches, Exact, AtMost, Count, Rated

\* The same of the next state.
LEMMA CountsMatchNext ==
    ASSUME testcase' \in [ids' -> Testcases]
    PROVE  RefCntsMatch' <=> /\ phase' = "failed" => narrowed' # {}
                             /\ phase' # "failed" => Matches(testcase', top_rated', narrowed')
BY DEF RefCntsMatch, Matches, Exact, AtMost, Count, Rated

\* A testcase is added.
LEMMA AddIInv ==
    ASSUME IInv, NEW covers \in SUBSET Indexes, NEW factor \in Factors, Add(covers, factor)
    PROVE  IInv'
<1> DEFINE idx == storage.progressive_idx
           t == [id \in ids \cup {idx} |->
                    IF id = idx THEN NewTestcase(covers, factor) ELSE testcase[id]]
<1>1. /\ phase \in {"idle", "stages"} /\ removing = {} /\ storage' = Insert(storage)
      /\ UpdateScore(t, idx)
      /\ UNCHANGED <<current, removing, replaced, narrowed>>
  BY DEF Add
<1>2. /\ IsStorage(storage, Nat) /\ InOrder(storage)
      /\ testcase \in [ids -> Testcases] /\ ids \subseteq Nat /\ narrowed \subseteq ids
      /\ top_rated \in [Indexes -> Nat \cup {None}]
  BY DEF IInv, TypeOK, StorageInOrder, ids, IsStorage
<1>3. /\ IsStorage(storage', Nat) /\ InOrder(storage')
      /\ ids' = ids \cup {idx} /\ idx \in Nat \ ids
  BY <1>1, <1>2, InsertInOrder DEF ids
<1>4. NewTestcase(covers, factor) \in Testcases
  BY DEF NewTestcase, Testcases
<1>5. t \in [ids \cup {idx} -> Testcases]
  BY <1>2, <1>4
<1>6. /\ \A e \in Indexes : top_rated[e] # None => top_rated[e] \in ids
      /\ \A id \in ids \ narrowed : Exact(testcase[id], Rated(id))
      /\ \A id \in narrowed : AtMost(testcase[id], Rated(id))
  BY <1>1, <1>2, CountsMatch DEF IInv, Matches, Rated
<1>7. \A id \in ids : t[id] = testcase[id]
  BY <1>3
<1>8. /\ testcase' \in [ids \cup {idx} -> Testcases]
      /\ top_rated' \in [Indexes -> Nat \cup {None}]
      /\ \/ phase' = phase /\ Matches(testcase', top_rated', narrowed)
         \/ phase' = "failed" /\ narrowed # {}
  <2> DEFINE D == ids \cup {idx}
             N == narrowed
  <2>1. \A e \in Indexes : top_rated[e] # None => top_rated[e] \in D
    BY <1>6
  <2>2. \A id \in D \ (N \cup {idx}) : Exact(t[id], Rated(id))
    BY <1>6, <1>7
  <2>3. \A id \in N \ {idx} : AtMost(t[id], Rated(id))
    BY <1>2, <1>6, <1>7
  <2>4. idx \in N \/ Rated(idx) \subseteq t[idx].covers
    <3>1. idx # None
      BY <1>3 DEF None
    <3> QED BY <1>3, <1>6, <3>1 DEF Rated
  <2>5. t \in [D -> Testcases] /\ D \subseteq Nat /\ idx \in D /\ N \subseteq D
    BY <1>2, <1>3, <1>5
  <2>6. phase # "failed"
    BY <1>1
  <2> HIDE DEF t, idx, D, N
  <2>7. /\ testcase' \in [D -> Testcases]
        /\ top_rated' \in [Indexes -> Nat \cup {None}]
        /\ \/ phase' = phase /\ Matches(testcase', top_rated', N)
           \/ phase' = "failed" /\ N # {}
    BY <1>1, <1>2, <2>1, <2>2, <2>3, <2>4, <2>5, <2>6, ScoreUpdated
  <2> QED BY <2>7 DEF D, N
<1>9. RefCntsMatch'
  BY <1>1, <1>3, <1>8, CountsMatchNext
<1>10. TypeOK'
  <2>1. phase' \in {"idle", "next", "stages", "failed"}
    BY <1>1, <1>8
  <2> QED BY <1>1, <1>2, <1>3, <1>8, <2>1 DEF IInv, TypeOK
<1>11. CurrentStored'
  BY <1>1, <1>3, <1>8 DEF IInv, CurrentStored
<1> QED BY <1>3, <1>9, <1>10, <1>11 DEF IInv, StorageInOrder

\* A testcase is replaced.
LEMMA ReplaceIInv ==
    ASSUME IInv, NEW covers \in SUBSET Indexes, NEW factor \in Factors,
           Replace(covers, factor)
    PROVE  IInv'
<1> DEFINE t == [testcase EXCEPT ![current] = NewTestcase(covers, factor)]
<1>1. /\ phase = "stages" /\ replaced < MaxReplaces /\ replaced' = replaced + 1
      /\ UpdateScore(t, current)
      /\ narrowed' = IF Rated(current) \subseteq covers THEN narrowed \ {current}
                     ELSE narrowed \cup {current}
      /\ UNCHANGED <<storage, current, removing>>
  BY DEF Replace
<1>2. /\ testcase \in [ids -> Testcases] /\ ids \subseteq Nat /\ narrowed \subseteq ids
      /\ top_rated \in [Indexes -> Nat \cup {None}]
      /\ current \in ids /\ ids' = ids
  BY <1>1 DEF IInv, TypeOK, CurrentStored, ids, IsStorage
<1>3. NewTestcase(covers, factor) \in Testcases
  BY DEF NewTestcase, Testcases
<1>4. t \in [ids -> Testcases] /\ t[current].covers = covers
  BY <1>2, <1>3 DEF NewTestcase
<1>5. \A id \in ids \ {current} : t[id] = testcase[id]
  BY <1>2
<1>6. narrowed' \subseteq ids
  BY <1>1, <1>2
<1>7. /\ \A e \in Indexes : top_rated[e] # None => top_rated[e] \in ids
      /\ \A id \in ids \ narrowed : Exact(testcase[id], Rated(id))
      /\ \A id \in narrowed : AtMost(testcase[id], Rated(id))
  BY <1>1, <1>2, CountsMatch DEF IInv, Matches, Rated
<1>8. /\ testcase' \in [ids -> Testcases]
      /\ top_rated' \in [Indexes -> Nat \cup {None}]
      /\ \/ phase' = phase /\ Matches(testcase', top_rated', narrowed')
         \/ phase' = "failed" /\ narrowed' # {}
  <2> DEFINE N == narrowed'
  <2>1. \A id \in ids \ (N \cup {current}) : Exact(t[id], Rated(id))
    BY <1>1, <1>5, <1>7
  <2>2. \A id \in N \ {current} : AtMost(t[id], Rated(id))
    BY <1>1, <1>2, <1>5, <1>7
  <2>3. current \in N \/ Rated(current) \subseteq t[current].covers
    BY <1>1, <1>4
  <2>4. phase # "failed" /\ N \subseteq ids
    BY <1>1, <1>6
  <2> HIDE DEF t, N
  <2>5. /\ testcase' \in [ids -> Testcases]
        /\ top_rated' \in [Indexes -> Nat \cup {None}]
        /\ \/ phase' = phase /\ Matches(testcase', top_rated', N)
           \/ phase' = "failed" /\ N # {}
    BY <1>1, <1>2, <1>4, <1>7, <2>1, <2>2, <2>3, <2>4, ScoreUpdated
  <2> QED BY <2>5 DEF N
<1>9. RefCntsMatch'
  BY <1>1, <1>2, <1>8, CountsMatchNext
<1>10. TypeOK'
  BY <1>1, <1>2, <1>6, <1>8, MinimizerAssumption DEF IInv, TypeOK
<1>11. CurrentStored' /\ StorageInOrder'
  BY <1>1, <1>2, <1>8 DEF IInv, CurrentStored, StorageInOrder
<1> QED BY <1>9, <1>10, <1>11 DEF IInv

\* Testcases are marked.
LEMMA CullIInv ==
    ASSUME IInv, Cull
    PROVE  IInv'
<1>1. /\ phase = "idle" /\ ids # {} /\ removing = {} /\ phase' = "next"
      /\ UNCHANGED <<storage, current, top_rated, removing, replaced, narrowed>>
      /\ \E K \in SUBSET Indexes :
            testcase' = [id \in ids |->
                            IF \E e \in K : top_rated[e] = id
                            THEN [testcase[id] EXCEPT !.favored = TRUE]
                            ELSE testcase[id]]
  BY DEF Cull
<1>2. testcase \in [ids -> Testcases] /\ ids' = ids /\ narrowed \subseteq ids
  BY <1>1 DEF IInv, TypeOK, ids
<1>3. /\ testcase' \in [ids -> Testcases]
      /\ \A id \in ids : /\ testcase'[id].covers = testcase[id].covers
                         /\ testcase'[id].refcnt = testcase[id].refcnt
  <2>1. testcase' = [id \in ids |-> testcase'[id]]
    BY <1>1
  <2>2. ASSUME NEW id \in ids
        PROVE  /\ testcase'[id] \in Testcases
               /\ testcase'[id].covers = testcase[id].covers
               /\ testcase'[id].refcnt = testcase[id].refcnt
    <3>1. testcase'[id] = testcase[id] \/ testcase'[id] = [testcase[id] EXCEPT !.favored = TRUE]
      BY <1>1
    <3>2. testcase[id] \in Testcases
      BY <1>2
    <3> QED BY <3>1, <3>2 DEF Testcases
  <2> QED BY <2>1, <2>2
<1>4. TypeOK'
  BY <1>1, <1>2, <1>3 DEF IInv, TypeOK
<1>5. RefCntsMatch'
  <2>1. Matches(testcase, top_rated, narrowed)
    BY <1>1, <1>2, CountsMatch DEF IInv
  <2>2. Matches(testcase', top_rated, narrowed)
    BY <1>2, <1>3, <2>1, ZenonT(60) DEF Matches, Exact, AtMost
  <2> QED BY <1>1, <1>2, <1>3, <2>2, CountsMatchNext
<1>6. StorageInOrder' /\ CurrentStored'
  BY <1>1, <1>2 DEF IInv, StorageInOrder, CurrentStored
<1> QED BY <1>4, <1>5, <1>6 DEF IInv

\* cull misses the metadata of a testcase, which is then narrowed.
LEMMA CullFailsIInv ==
    ASSUME IInv, CullFails
    PROVE  IInv'
<1>1. /\ phase = "idle" /\ removing = {} /\ phase' = "failed"
      /\ UNCHANGED <<storage, testcase, current, top_rated, removing, replaced, narrowed>>
  BY DEF CullFails
<1>2. PICK e \in Indexes : top_rated[e] # None /\ testcase[top_rated[e]].refcnt = NoMeta
  BY DEF CullFails, HasMeta
<1>3. testcase \in [ids -> Testcases] /\ ids' = ids
  BY <1>1 DEF IInv, TypeOK, ids
<1>4. Matches(testcase, top_rated, narrowed)
  BY <1>1, <1>3, CountsMatch DEF IInv
<1>5. top_rated[e] \in ids
  BY <1>2, <1>3, <1>4 DEF Matches
<1>6. top_rated[e] \in narrowed
  <2> SUFFICES ASSUME top_rated[e] \notin narrowed PROVE FALSE
    OBVIOUS
  <2> DEFINE S == {f \in Indexes : top_rated[f] = top_rated[e]}
  <2>1. Exact(testcase[top_rated[e]], S)
    BY <1>3, <1>4, <1>5 DEF Matches
  <2>2. S # {} /\ S \subseteq Indexes
    BY <1>2
  <2>3. Count(S) \in Nat
    BY <2>2, IndexSets DEF Count
  <2> QED BY <1>2, <2>1, <2>3 DEF Exact, NoMeta
<1>7. TypeOK' /\ StorageInOrder' /\ CurrentStored'
  BY <1>1, <1>3, <1>5 DEF IInv, TypeOK, StorageInOrder, CurrentStored
<1>8. RefCntsMatch'
  BY <1>1, <1>6 DEF RefCntsMatch
<1> QED BY <1>7, <1>8 DEF IInv

\* The queue moves on.
LEMMA ConsiderIInv ==
    ASSUME IInv, Consider
    PROVE  IInv'
<1>1. /\ phase = "next" /\ current' = NextInQueue(storage, current)
      /\ phase' \in {"next", "stages"}
      /\ UNCHANGED <<storage, testcase, top_rated, removing, replaced, narrowed>>
  BY DEF Consider, QueueNext
<1>2. ids # {} /\ removing = {} /\ ids' = ids /\ ids \subseteq Nat
  BY <1>1 DEF IInv, CurrentStored, ids, TypeOK, IsStorage
<1>3. current' \in ids
  BY <1>1, <1>2, NextInQueueStored DEF IInv, StorageInOrder, ids
<1>4. TypeOK'
  BY <1>1, <1>2, <1>3 DEF IInv, TypeOK
<1>5. RefCntsMatch'
  BY <1>1, <1>2 DEF IInv, RefCntsMatch, Rated
<1>6. StorageInOrder' /\ CurrentStored'
  BY <1>1, <1>2, <1>3 DEF IInv, StorageInOrder, CurrentStored
<1> QED BY <1>4, <1>5, <1>6 DEF IInv

\* fuzz_one comes to its end, or minimize has found what to remove.
LEMMA PhaseIInv ==
    ASSUME IInv, EndFuzzOne \/ Minimize
    PROVE  IInv'
<1>1. /\ phase # "failed" /\ phase' = "idle" /\ removing' \subseteq ids
      /\ UNCHANGED <<storage, testcase, current, top_rated, replaced, narrowed>>
  <2>1. CASE EndFuzzOne
    BY <2>1 DEF EndFuzzOne, IInv, TypeOK
  <2>2. CASE Minimize
    <3>1. PICK S \in Kept : removing' = ids \ S
      BY <2>2 DEF Minimize
    <3> QED BY <2>2, <3>1 DEF Minimize
  <2> QED BY <2>1, <2>2
<1>2. ids' = ids
  BY <1>1 DEF ids
<1>3. TypeOK'
  BY <1>1, <1>2 DEF IInv, TypeOK
<1>4. RefCntsMatch' /\ StorageInOrder' /\ CurrentStored'
  BY <1>1, <1>2 DEF IInv, RefCntsMatch, StorageInOrder, CurrentStored, Rated
<1> QED BY <1>3, <1>4 DEF IInv

\* A testcase is removed.
LEMMA RemoveNextIInv ==
    ASSUME IInv, RemoveNext
    PROVE  IInv'
<1>1. PICK idx \in removing, best \in [Indexes -> ids \cup {None}] :
        /\ \A e \in Indexes : IsBest(idx, e, best[e])
        /\ removing' = removing \ {idx}
        /\ narrowed' = narrowed \ {idx}
        /\ storage' = Unlink(storage, idx)
        /\ testcase' = Counted(best, idx)
        /\ top_rated' = [e \in Indexes |->
                            IF top_rated[e] = idx THEN best[e] ELSE top_rated[e]]
        /\ UNCHANGED <<current, phase, replaced>>
  BY DEF RemoveNext
<1>2. /\ IsStorage(storage, Nat) /\ InOrder(storage) /\ removing \subseteq ids
      /\ testcase \in [ids -> Testcases] /\ ids \subseteq Nat /\ narrowed \subseteq ids
      /\ top_rated \in [Indexes -> Nat \cup {None}]
      /\ idx \in ids /\ phase = "idle"
  BY DEF IInv, TypeOK, StorageInOrder, ids, IsStorage, CurrentStored
<1>3. /\ IsStorage(storage', Nat) /\ InOrder(storage')
      /\ ids' = ids \ {idx}
  BY <1>1, <1>2, UnlinkInOrder DEF ids
<1>4. /\ \A e \in Indexes : top_rated[e] # None => top_rated[e] \in ids
      /\ \A id \in ids \ narrowed : Exact(testcase[id], Rated(id))
      /\ \A id \in narrowed : AtMost(testcase[id], Rated(id))
  BY <1>2, CountsMatch DEF IInv, Matches, Rated
<1>5. None \notin ids
  BY <1>2 DEF None
<1>6. ASSUME NEW e \in Indexes, best[e] # None
      PROVE  /\ best[e] \in ids \ {idx}
             /\ testcase[best[e]].refcnt # NoMeta
             /\ e \in testcase[best[e]].covers
  BY <1>1, <1>6 DEF IsBest, Hit, HasMeta
<1>7. ASSUME NEW id \in ids \ {idx}
      PROVE  /\ testcase'[id] \in Testcases
             /\ id \notin narrowed =>
                    Exact(testcase'[id], {e \in Indexes : top_rated'[e] = id})
             /\ id \in narrowed =>
                    AtMost(testcase'[id], {e \in Indexes : top_rated'[e] = id})
  <2> DEFINE gained == Inherited(best, idx, id)
  <2>1. testcase[id] \in Testcases
    BY <1>2
  <2>2. testcase'[id] = [testcase[id] EXCEPT !.refcnt = testcase[id].refcnt + Cardinality(gained)]
    BY <1>1 DEF Counted
  <2>3. {e \in Indexes : top_rated'[e] = id} = Rated(id) \cup gained
    BY <1>1, <1>2 DEF Rated, Inherited
  <2>4. Rated(id) \cap gained = {} /\ Rated(id) \subseteq Indexes /\ gained \subseteq Indexes
    BY <1>7 DEF Rated, Inherited
  <2>5. gained \subseteq testcase[id].covers
    BY <1>5, <1>6, <1>7 DEF Inherited
  <2>6. gained # {} => testcase[id].refcnt # NoMeta
    BY <1>5, <1>6, <1>7 DEF Inherited
  <2> DEFINE sum == testcase[id].refcnt + Cardinality(gained)
  <2>7. sum \in Nat \cup {NoMeta}
    <3>1. Cardinality(gained) \in Nat /\ (Cardinality(gained) = 0 <=> gained = {})
      BY <2>4, IndexSets
    <3>2. testcase[id].refcnt \in Nat \cup {NoMeta}
      BY <2>1 DEF Testcases
    <3> HIDE DEF gained
    <3> QED BY <2>6, <3>1, <3>2 DEF NoMeta
  <2>8. /\ testcase'[id] \in Testcases
        /\ testcase'[id].refcnt = sum /\ testcase'[id].covers = testcase[id].covers
    <3> HIDE DEF gained
    <3>1. testcase'[id] = [testcase[id] EXCEPT !.refcnt = sum]
      BY <2>2
    <3> HIDE DEF sum
    <3> QED BY <2>1, <2>7, <3>1 DEF Testcases
  <2>9. CASE id \notin narrowed
    <3>1. Exact(testcase[id], Rated(id))
      BY <1>4, <2>9
    <3>2. Rated(id) # {} \/ gained = {}
      BY <2>6, <3>1 DEF Exact, Count
    <3>3. Count(Rated(id)) + Cardinality(gained) = Count(Rated(id) \cup gained)
      BY <2>4, <3>2, CountGain
    <3>4. sum = Count(Rated(id) \cup gained)
      BY <3>1, <3>3 DEF Exact
    <3> HIDE DEF gained, sum
    <3> QED BY <2>3, <2>5, <2>8, <2>9, <3>1, <3>4 DEF Exact
  <2>10. CASE id \in narrowed
    <3>1. AtMost(testcase[id], Rated(id))
      BY <1>4, <2>10
    <3> HIDE DEF gained
    <3>2. sum <= Cardinality((Rated(id) \cup gained) \cap testcase[id].covers)
      BY <2>1, <2>4, <2>5, <3>1, AtMostGain
    <3> HIDE DEF sum
    <3> QED BY <2>3, <2>8, <2>10, <3>2 DEF AtMost
  <2> QED BY <2>8, <2>9, <2>10
<1>8. testcase' \in [ids \ {idx} -> Testcases]
  <2>1. testcase' = [id \in ids \ {idx} |-> testcase'[id]]
    BY <1>1 DEF Counted
  <2> QED BY <1>7, <2>1
<1>9. ASSUME NEW e \in Indexes, top_rated'[e] # None
      PROVE  top_rated'[e] \in ids \ {idx}
  <2>1. CASE top_rated[e] = idx
    <3>1. top_rated'[e] = best[e]
      BY <1>1, <2>1
    <3> QED BY <1>6, <1>9, <3>1
  <2>2. CASE top_rated[e] # idx
    <3>1. top_rated'[e] = top_rated[e]
      BY <1>1, <2>2
    <3> QED BY <1>4, <1>9, <2>2, <3>1
  <2> QED BY <2>1, <2>2
<1>10. RefCntsMatch'
  <2>1. Matches(testcase', top_rated', narrowed')
    <3>1. \A id \in DOMAIN testcase' \ narrowed' : id \in ids \ {idx} /\ id \notin narrowed
      BY <1>1, <1>8
    <3>2. \A id \in narrowed' : id \in ids \ {idx} /\ id \in narrowed
      BY <1>1, <1>2
    <3> QED BY <1>7, <1>8, <1>9, <3>1, <3>2 DEF Matches
  <2>2. phase' # "failed"
    BY <1>1, <1>2
  <2> QED BY <1>3, <1>8, <2>1, <2>2, CountsMatchNext
<1>11. TypeOK'
  <2>1. top_rated' \in [Indexes -> Nat \cup {None}]
    BY <1>1, <1>2
  <2>2. removing' \subseteq ids' /\ narrowed' \subseteq ids'
    BY <1>1, <1>2, <1>3
  <2> QED BY <1>1, <1>3, <1>8, <2>1, <2>2 DEF IInv, TypeOK
<1>12. CurrentStored'
  BY <1>1, <1>2 DEF CurrentStored
<1> QED BY <1>3, <1>10, <1>11, <1>12 DEF IInv, StorageInOrder

\* Every step keeps the invariant.
LEMMA NextIInv == IInv /\ [Next]_vars => IInv'
<1> SUFFICES ASSUME IInv, [Next]_vars PROVE IInv'
  OBVIOUS
<1>1. CASE UNCHANGED vars
  <2>1. ids' = ids
    BY <1>1 DEF vars, ids
  <2> QED BY <1>1, <2>1 DEF vars, IInv, TypeOK, StorageInOrder, RefCntsMatch, CurrentStored, Rated
<1>2. CASE Next
  BY <1>1, <1>2, AddIInv, ReplaceIInv, CullIInv, CullFailsIInv, ConsiderIInv, PhaseIInv,
     RemoveNextIInv DEF Next, Ended
<1> QED BY <1>1, <1>2

\* The types of the scheduler's state, whatever the fuzzer does.
THEOREM TypeCorrect == Spec => []TypeOK
<1>1. IInv => TypeOK
  BY DEF IInv
<1> QED BY <1>1, InitIInv, NextIInv, PTL DEF Spec

\* The list of a corpus stays in order, for any number of testcases that are added,
\* replaced and removed (TestcaseStorage::insert, remove).
THEOREM ListCorrect == Spec => []StorageInOrder
<1>1. IInv => StorageInOrder
  BY DEF IInv
<1> QED BY <1>1, InitIInv, NextIInv, PTL DEF Spec

\* The reference counts of the MinimizerScheduler are right, for maps of any size and
\* testcases replaced by ones that hit anything: exact for a testcase that hits what it is
\* the top rated of, and never too high for one that no longer does, so that cull and
\* update_score miss metadata only of the latter.
THEOREM RefCntsCorrect == Spec => []RefCntsMatch
<1>1. IInv => RefCntsMatch
  BY DEF IInv
<1> QED BY <1>1, InitIInv, NextIInv, PTL DEF Spec
=============================================================================

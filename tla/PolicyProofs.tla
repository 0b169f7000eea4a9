---------------------------- MODULE PolicyProofs ----------------------------
(***************************************************************************)
(* Facts about the operators of Policy, for queues of any length.          *)
(***************************************************************************)
EXTENDS Policy, FiniteSetTheorems, TLAPS

\* The positions kept are numbered 1 .. Cardinality(K) in their order, without
\* gaps: a rank that no position had would leave too few for the positions.
LEMMA RankProperties ==
    ASSUME NEW n \in Nat, NEW K \in SUBSET (1 .. n)
    PROVE  /\ IsFiniteSet(K)
           /\ Cardinality(K) \in Nat
           /\ \A i \in K : Rank(K, i) \in 1 .. Cardinality(K)
           /\ \A i, j \in K : i < j => Rank(K, i) < Rank(K, j)
           /\ \A j \in 1 .. Cardinality(K) : \E i \in K : Rank(K, i) = j
<1> DEFINE Upto(i) == {k \in K : k <= i}
<1>0. \A k \in K : k \in Int
  OBVIOUS
<1>1. IsFiniteSet(K)
  <2>1. IsFiniteSet(1 .. n)
    BY FS_Interval
  <2> QED
    BY <2>1, FS_Subset, Zenon
<1>2. Cardinality(K) \in Nat
  BY <1>1, FS_CardinalityType
<1>3. \A i \in K : /\ IsFiniteSet(Upto(i))
                   /\ Rank(K, i) = Cardinality(Upto(i))
                   /\ Rank(K, i) \in Nat
                   /\ Rank(K, i) <= Cardinality(K)
  <2> TAKE i \in K
  <2>1. Upto(i) \in SUBSET K
    OBVIOUS
  <2>2. IsFiniteSet(Upto(i)) /\ Cardinality(Upto(i)) <= Cardinality(K)
    BY <1>1, <2>1, FS_Subset
  <2>3. Cardinality(Upto(i)) \in Nat
    BY <2>2, FS_CardinalityType
  <2> QED
    BY <2>2, <2>3 DEF Rank
<1>4. \A i \in K : Rank(K, i) \in 1 .. Cardinality(K)
  <2> TAKE i \in K
  <2>1. i \in Upto(i)
    BY <1>0
  <2>2. Cardinality(Upto(i)) # 0
    BY <1>3, <2>1, FS_EmptySet
  <2> QED
    BY <1>2, <1>3, <2>2
<1>5. ASSUME NEW i \in K, NEW j \in K, i < j
      PROVE  Rank(K, i) < Rank(K, j)
  <2>1. ASSUME NEW k \in Upto(i)
        PROVE  k \in Upto(j)
    BY <1>0, <1>5
  <2>2. Upto(i) \in SUBSET Upto(j)
    BY <2>1, Zenon
  <2>3. j \in Upto(j) /\ j \notin Upto(i)
    BY <1>0, <1>5
  <2>4. /\ Cardinality(Upto(i)) <= Cardinality(Upto(j))
        /\ Cardinality(Upto(j)) # Cardinality(Upto(i))
    <3> HIDE DEF Upto
    <3>1. IsFiniteSet(Upto(j))
      BY <1>3
    <3> QED
      BY <2>2, <2>3, <3>1, FS_Subset
  <2> QED
    BY <1>3, <2>4
<1>6. ASSUME NEW j \in 1 .. Cardinality(K), \A i \in K : Rank(K, i) # j
      PROVE  FALSE
  <2> DEFINE T == (1 .. Cardinality(K)) \ {j}
             f == [i \in K |-> Rank(K, i)]
  <2>1. IsFiniteSet(1 .. Cardinality(K)) /\ Cardinality(1 .. Cardinality(K)) = Cardinality(K)
    BY <1>2, FS_Interval
  <2>2. IsFiniteSet(T) /\ Cardinality(T) = Cardinality(K) - 1
    BY <2>1, FS_RemoveElement, Zenon
  <2>3. Cardinality(T) < Cardinality(K)
    BY <1>2, <2>2
  <2>4. f \in [K -> T]
    BY <1>4, <1>6
  <2>5. PICK x, y \in K : x # y /\ f[x] = f[y]
    <3> HIDE DEF T, f
    <3> QED
      BY <1>1, <2>2, <2>3, <2>4, FS_PigeonHole, Zenon
  <2>6. Rank(K, x) = Rank(K, y)
    BY <2>5
  <2>7. x < y \/ y < x
    BY <1>0, <2>5
  <2>8. Rank(K, x) < Rank(K, y) \/ Rank(K, y) < Rank(K, x)
    BY <1>5, <2>7
  <2>9. Rank(K, x) \in Nat /\ Rank(K, y) \in Nat
    BY <1>3, Zenon
  <2> QED
    BY <2>6, <2>8, <2>9
<1> QED
  BY <1>1, <1>2, <1>4, <1>5, <1>6


\* Keep takes each of its elements from its own position of s.
LEMMA PositionProperties ==
    ASSUME NEW n \in Nat, NEW K \in SUBSET (1 .. n)
    PROVE  /\ \A j \in 1 .. Cardinality(K) : Position(K, j) \in K
           /\ \A i, j \in 1 .. Cardinality(K) :
                  Position(K, i) = Position(K, j) => i = j
<1>1. \A j \in 1 .. Cardinality(K) :
          Position(K, j) \in K /\ Rank(K, Position(K, j)) = j
  BY RankProperties, Zenon DEF Position
<1> QED
  BY <1>1

\* What is kept is a sequence of the same elements, no position twice.
LEMMA KeepProperties ==
    ASSUME NEW S, NEW s \in Seq(S), NEW K \in SUBSET DOMAIN s
    PROVE  /\ Keep(s, K) \in Seq(S)
           /\ DOMAIN Keep(s, K) = 1 .. Cardinality(K)
           /\ \A j \in DOMAIN Keep(s, K) : /\ Position(K, j) \in K
                                           /\ Keep(s, K)[j] = s[Position(K, j)]
           /\ \A i, j \in DOMAIN Keep(s, K) :
                  Position(K, i) = Position(K, j) => i = j
           /\ K = {} => Keep(s, K) = <<>>
<1>1. Len(s) \in Nat /\ DOMAIN s = 1 .. Len(s)
  OBVIOUS
<1>2. K \in SUBSET (1 .. Len(s))
  BY <1>1
<1>3. Cardinality(K) \in Nat
  BY <1>1, <1>2, RankProperties, Zenon
<1>4. /\ \A j \in 1 .. Cardinality(K) : Position(K, j) \in K
      /\ \A i, j \in 1 .. Cardinality(K) :
             Position(K, i) = Position(K, j) => i = j
  BY <1>1, <1>2, PositionProperties, Zenon
<1>5. \A j \in 1 .. Cardinality(K) : s[Position(K, j)] \in S
  BY <1>1, <1>2, <1>4
<1>6. Keep(s, K) \in Seq(S)
  BY <1>3, <1>5 DEF Keep
<1>7. K = {} => Keep(s, K) = <<>>
  BY <1>6, FS_EmptySet DEF Keep
<1> QED
  BY <1>4, <1>6, <1>7 DEF Keep

\* Whatever is at a kept position is still there, and in the same order.
LEMMA KeepOnto ==
    ASSUME NEW S, NEW s \in Seq(S), NEW K \in SUBSET DOMAIN s
    PROVE  /\ \A i \in K : /\ Rank(K, i) \in DOMAIN Keep(s, K)
                           /\ Keep(s, K)[Rank(K, i)] = s[i]
           /\ \A i, j \in K : i < j => Rank(K, i) < Rank(K, j)
<1>1. Len(s) \in Nat /\ K \in SUBSET (1 .. Len(s))
  OBVIOUS
<1>2. DOMAIN Keep(s, K) = 1 .. Cardinality(K)
  BY KeepProperties
<1> SUFFICES ASSUME NEW i \in K
             PROVE  Rank(K, i) \in DOMAIN Keep(s, K) /\ Keep(s, K)[Rank(K, i)] = s[i]
  BY <1>1, RankProperties, Zenon
<1>3. /\ Rank(K, i) \in 1 .. Cardinality(K)
      /\ \A k, l \in K : k < l => Rank(K, k) < Rank(K, l)
      /\ \A k \in K : Rank(K, k) \in 1 .. Cardinality(K)
      /\ Cardinality(K) \in Nat
  BY <1>1, RankProperties, Zenon
<1>4. \A k \in K : Rank(K, k) = Rank(K, i) => k = i
  <2> SUFFICES ASSUME NEW k \in K, Rank(K, k) = Rank(K, i), k # i
               PROVE  FALSE
    OBVIOUS
  <2>1. k \in Int /\ i \in Int
    BY <1>1
  <2>2. Rank(K, k) \in Int /\ Rank(K, i) \in Int
    BY <1>3
  <2> QED
    BY <1>3, <2>1, <2>2
<1>5. Position(K, Rank(K, i)) = i
  BY <1>4 DEF Position
<1> QED
  BY <1>2, <1>3, <1>5 DEF Keep

\* A set of positions that is not empty has a first and a last one.
LEMMA FirstAndLast ==
    ASSUME NEW n \in Nat, NEW K \in SUBSET (1 .. n), K # {}
    PROVE  /\ \E i \in K : \A k \in K : i <= k
           /\ \E i \in K : \A k \in K : k <= i
<1>1. /\ Cardinality(K) \in Nat
      /\ \A i \in K : Rank(K, i) \in 1 .. Cardinality(K)
      /\ \A i, j \in K : i < j => Rank(K, i) < Rank(K, j)
      /\ \A j \in 1 .. Cardinality(K) : \E i \in K : Rank(K, i) = j
  BY RankProperties
<1>2. \A i \in K : i \in Int
  OBVIOUS
<1>3. 1 \in 1 .. Cardinality(K) /\ Cardinality(K) \in 1 .. Cardinality(K)
  <2>1. PICK k \in K : TRUE
    BY Zenon
  <2>2. Rank(K, k) \in 1 .. Cardinality(K)
    BY <1>1
  <2> QED
    BY <1>1, <2>2
<1>4. PICK i \in K : Rank(K, i) = 1
  BY <1>1, <1>3
<1>5. PICK j \in K : Rank(K, j) = Cardinality(K)
  BY <1>1, <1>3
<1>6. \A k \in K : ~(k < i) /\ ~(j < k)
  BY <1>1, <1>4, <1>5
<1> QED
  BY <1>2, <1>6

-----------------------------------------------------------------------------
(* Queues of waiters.                                                      *)

WaiterOf(C) == [client : C, seat_claim : BOOLEAN]

\* No client is in the queue twice.
Distinct(ws) ==
    \A i, j \in DOMAIN ws : ws[i].client = ws[j].client => i = j

\* Every waiter of t is a waiter of s.
Within(t, s) == \A j \in DOMAIN t : \E i \in DOMAIN s : t[j] = s[i]

\* Removing waiters from a queue adds none and duplicates none.
LEMMA KeepQueue ==
    ASSUME NEW C, NEW ws \in Seq(WaiterOf(C)), NEW K \in SUBSET DOMAIN ws
    PROVE  /\ Keep(ws, K) \in Seq(WaiterOf(C))
           /\ Within(Keep(ws, K), ws)
           /\ \A j \in DOMAIN Keep(ws, K) : \E i \in K : Keep(ws, K)[j] = ws[i]
           /\ Distinct(ws) => Distinct(Keep(ws, K))
           /\ K = {} => Keep(ws, K) = <<>>
<1>1. /\ Keep(ws, K) \in Seq(WaiterOf(C))
      /\ \A j \in DOMAIN Keep(ws, K) : /\ Position(K, j) \in K
                                       /\ Keep(ws, K)[j] = ws[Position(K, j)]
      /\ \A i, j \in DOMAIN Keep(ws, K) : Position(K, i) = Position(K, j) => i = j
      /\ K = {} => Keep(ws, K) = <<>>
  BY KeepProperties
<1>2. \A j \in DOMAIN Keep(ws, K) : \E i \in K : Keep(ws, K)[j] = ws[i]
  BY <1>1
<1>3. ASSUME Distinct(ws)
      PROVE  Distinct(Keep(ws, K))
  BY <1>1, <1>3 DEF Distinct
<1> QED
  BY <1>1, <1>2, <1>3 DEF Within

\* Disconnected takes the client out of every queue and nobody else's entry.
LEMMA WithoutProperties ==
    ASSUME NEW C, NEW ws \in Seq(WaiterOf(C)), NEW c
    PROVE  /\ Without(ws, c) \in Seq(WaiterOf(C))
           /\ Within(Without(ws, c), ws)
           /\ ~IsQueued(Without(ws, c), c)
           /\ Distinct(ws) => Distinct(Without(ws, c))
           /\ ws = <<>> => Without(ws, c) = <<>>
<1> DEFINE K == {i \in DOMAIN ws : ws[i].client # c}
<1>1. K \in SUBSET DOMAIN ws
  OBVIOUS
<1>2. ws = <<>> => K = {}
  OBVIOUS
<1>3. \A i \in K : ws[i].client # c
  OBVIOUS
<1>4. Without(ws, c) = Keep(ws, K)
  BY DEF Without
<1> HIDE DEF K
<1> QED
  BY <1>1, <1>2, <1>3, <1>4, KeepQueue DEF IsQueued

\* A requeued owner is the only client a requeue adds.
LEMMA RequeueProperties ==
    ASSUME NEW C, NEW ws \in Seq(WaiterOf(C)), NEW w \in WaiterOf(C),
           NEW policy \in Policies
    PROVE  /\ RequeueWaiter(policy, ws, w) \in Seq(WaiterOf(C))
           /\ \A j \in DOMAIN RequeueWaiter(policy, ws, w) :
                  \/ policy # "FirstOwner" /\ RequeueWaiter(policy, ws, w)[j] = w
                  \/ \E i \in DOMAIN ws : RequeueWaiter(policy, ws, w)[j] = ws[i]
           /\ Distinct(ws) /\ ~IsQueued(ws, w.client) =>
                  Distinct(RequeueWaiter(policy, ws, w))
<1>1. CASE policy = "FirstOwner"
  BY <1>1 DEF RequeueWaiter
<1>2. CASE policy = "LatestOwner"
  <2> DEFINE t == RequeueWaiter(policy, ws, w)
  <2>1. t = <<w>> \o ws
    BY <1>2 DEF RequeueWaiter
  <2>2. <<w>> \in Seq(WaiterOf(C)) /\ Len(<<w>>) = 1 /\ <<w>>[1] = w
    OBVIOUS
  <2>3. /\ t \in Seq(WaiterOf(C))
        /\ DOMAIN t = 1 .. Len(ws) + 1
        /\ t[1] = w
        /\ \A j \in 2 .. Len(ws) + 1 : j - 1 \in DOMAIN ws /\ t[j] = ws[j - 1]
    BY <2>1, <2>2
  <2> HIDE DEF t
  <2>4. \A j \in DOMAIN t : t[j] = w \/ \E i \in DOMAIN ws : t[j] = ws[i]
    BY <2>3
  <2>5. ASSUME Distinct(ws), ~IsQueued(ws, w.client),
               NEW i \in DOMAIN t, NEW j \in DOMAIN t, t[i].client = t[j].client
        PROVE  i = j
    <3>1. i = 1 \/ i \in 2 .. Len(ws) + 1
      BY <2>3
    <3>2. j = 1 \/ j \in 2 .. Len(ws) + 1
      BY <2>3
    <3> QED
      BY <2>3, <2>5, <3>1, <3>2 DEF Distinct, IsQueued
  <2> QED
    BY <1>2, <2>3, <2>4, <2>5 DEF Distinct, t
<1>3. CASE policy = "FairQueue"
  <2>1. RequeueWaiter(policy, ws, w) = Append(ws, w)
    BY <1>3 DEF RequeueWaiter
  <2> QED
    BY <1>3, <2>1 DEF Distinct, IsQueued
<1> QED
  BY <1>1, <1>2, <1>3 DEF Policies

\* grant_next ends with a waiter that could be told out of the queue, or with
\* everybody it may serve out of it.
LEMMA GrantNextProperties ==
    ASSUME NEW C, NEW ws \in Seq(WaiterOf(C)), NEW policy, NEW Up
    PROVE  /\ LeftWaiting(policy, ws, Up) \in Seq(WaiterOf(C))
           /\ Within(LeftWaiting(policy, ws, Up), ws)
           /\ Distinct(ws) => Distinct(LeftWaiting(policy, ws, Up))
           /\ Winner(policy, ws, Up) \subseteq DOMAIN ws
           /\ \A k \in Winner(policy, ws, Up) : ws[k].client \in Up
           /\ \A k \in Winner(policy, ws, Up) :
                  Distinct(ws) => ~IsQueued(LeftWaiting(policy, ws, Up), ws[k].client)
           /\ /\ Winner(policy, ws, Up) = {}
              /\ \A i \in DOMAIN ws : Poppable(policy, ws[i])
              => LeftWaiting(policy, ws, Up) = <<>>
<1> DEFINE W == Winner(policy, ws, Up)
           K == {i \in DOMAIN ws : \/ ~Poppable(policy, ws[i])
                                   \/ \E k \in W : PoppedBefore(policy, ws, k, i)}
<1>1. K \in SUBSET DOMAIN ws
  OBVIOUS
<1>2. LeftWaiting(policy, ws, Up) = Keep(ws, K)
  BY DEF LeftWaiting
<1>3. W = {} /\ (\A i \in DOMAIN ws : Poppable(policy, ws[i])) => K = {}
  OBVIOUS
<1>4. \A k \in W : k \in DOMAIN ws /\ ws[k].client \in Up /\ Poppable(policy, ws[k])
  BY DEF Winner, Servable
<1>5. \A k, l \in W : k = l \/ PoppedBefore(policy, ws, k, l)
  BY DEF Winner
<1>6. \A k, l \in DOMAIN ws :
          ~(PoppedBefore(policy, ws, k, l) /\ PoppedBefore(policy, ws, l, k))
  BY DEF PoppedBefore, WaiterOf
<1>7. \A k \in W : k \notin K
  BY <1>4, <1>5, <1>6
<1> HIDE DEF K, W
<1>8. ASSUME NEW k \in W, Distinct(ws)
      PROVE  ~IsQueued(Keep(ws, K), ws[k].client)
  <2> SUFFICES ASSUME NEW j \in DOMAIN Keep(ws, K),
                      Keep(ws, K)[j].client = ws[k].client
               PROVE  FALSE
    BY DEF IsQueued
  <2>1. PICK i \in K : Keep(ws, K)[j] = ws[i]
    BY <1>1, KeepQueue
  <2> QED
    BY <1>1, <1>4, <1>7, <1>8, <2>1 DEF Distinct
<1>9. /\ Keep(ws, K) \in Seq(WaiterOf(C))
      /\ Within(Keep(ws, K), ws)
      /\ Distinct(ws) => Distinct(Keep(ws, K))
      /\ K = {} => Keep(ws, K) = <<>>
  BY <1>1, KeepQueue
<1> QED
  BY <1>2, <1>3, <1>4, <1>8, <1>9 DEF W

\* As long as somebody who may be served can be told, grant_next serves.
LEMMA WinnerExists ==
    ASSUME NEW C, NEW ws \in Seq(WaiterOf(C)), NEW policy, NEW Up,
           Servable(policy, ws, Up) # {}
    PROVE  Winner(policy, ws, Up) # {}
<1> DEFINE S == Servable(policy, ws, Up)
           claims == {i \in S : ws[i].seat_claim}
<1>1. S \in SUBSET (1 .. Len(ws)) /\ claims \in SUBSET (1 .. Len(ws)) /\ claims \subseteq S
  BY DEF Servable
<1>2. Len(ws) \in Nat
  OBVIOUS
<1>3. \A i \in S : i \in Int /\ ws[i].seat_claim \in BOOLEAN
  <2> HIDE DEF S, claims
  <2>1. \A i \in S : i \in 1 .. Len(ws)
    BY <1>1
  <2>2. \A i \in 1 .. Len(ws) : ws[i] \in WaiterOf(C)
    OBVIOUS
  <2> QED
    BY <1>2, <2>1, <2>2 DEF WaiterOf
<1>4. \A i \in S : i \in claims <=> ws[i].seat_claim
  OBVIOUS
<1> HIDE DEF S, claims
<1>5. SUFFICES \E i \in S : \A j \in S : i = j \/ PoppedBefore(policy, ws, i, j)
  BY DEF Winner, S
<1>6. CASE claims # {}
  <2>1. PICK i \in claims : \A j \in claims : i <= j
    BY <1>1, <1>2, <1>6, FirstAndLast, Zenon
  <2>2. \A j \in S : i = j \/ PoppedBefore(policy, ws, i, j)
    BY <1>1, <1>3, <1>4, <2>1 DEF PoppedBefore
  <2> QED
    BY <1>1, <2>1, <2>2
<1>7. CASE claims = {}
  <2>1. S # {}
    BY DEF S
  <2>2. PICK first \in S : \A j \in S : first <= j
    BY <1>1, <1>2, <2>1, FirstAndLast, Zenon
  <2>3. PICK last \in S : \A j \in S : j <= last
    BY <1>1, <1>2, <2>1, FirstAndLast, Zenon
  <2>4. \A j \in S : ~ws[j].seat_claim
    BY <1>4, <1>7
  <2>5. CASE policy = "LatestOwner"
    <3>1. \A j \in S : last = j \/ PoppedBefore(policy, ws, last, j)
      BY <1>3, <2>3, <2>4, <2>5 DEF PoppedBefore
    <3> QED
      BY <3>1
  <2>6. CASE policy # "LatestOwner"
    <3>1. \A j \in S : first = j \/ PoppedBefore(policy, ws, first, j)
      BY <1>3, <2>2, <2>4, <2>6 DEF PoppedBefore
    <3> QED
      BY <3>1
  <2> QED
    BY <2>5, <2>6
<1> QED
  BY <1>6, <1>7

\* grant_next drops nobody who can be told: such a waiter is served, or is left
\* in the queue.
LEMMA NobodyReachableDropped ==
    ASSUME NEW C, NEW ws \in Seq(WaiterOf(C)), NEW policy, NEW Up,
           NEW i \in DOMAIN ws, ws[i].client \in Up
    PROVE  \/ i \in Winner(policy, ws, Up)
           \/ /\ Winner(policy, ws, Up) # {} \/ ~Poppable(policy, ws[i])
              /\ IsQueued(LeftWaiting(policy, ws, Up), ws[i].client)
<1> DEFINE W == Winner(policy, ws, Up)
           K == {j \in DOMAIN ws : \/ ~Poppable(policy, ws[j])
                                   \/ \E k \in W : PoppedBefore(policy, ws, k, j)}
<1>1. LeftWaiting(policy, ws, Up) = Keep(ws, K) /\ K \in SUBSET DOMAIN ws
  BY DEF LeftWaiting
<1>2. i \in K => IsQueued(Keep(ws, K), ws[i].client)
  <2> HIDE DEF K
  <2> QED
    BY <1>1, KeepOnto DEF IsQueued
<1>3. CASE ~Poppable(policy, ws[i])
  BY <1>1, <1>2, <1>3
<1>4. CASE Poppable(policy, ws[i])
  <2>1. i \in Servable(policy, ws, Up)
    BY <1>4 DEF Servable
  <2>2. PICK k \in W : TRUE
    BY <2>1, WinnerExists
  <2>3. k = i \/ PoppedBefore(policy, ws, k, i)
    BY <2>1 DEF Winner
  <2> QED
    BY <1>1, <1>2, <2>2, <2>3
<1> QED
  BY <1>3, <1>4

\* Where a requeue puts the preempted owner, and the others after it.
LEMMA RequeueOrder ==
    ASSUME NEW C, NEW ws \in Seq(WaiterOf(C)), NEW w \in WaiterOf(C), NEW policy
    PROVE  /\ policy = "LatestOwner" =>
                  LET t == RequeueWaiter(policy, ws, w)
                  IN  /\ DOMAIN t = 1 .. Len(ws) + 1
                      /\ t[1] = w
                      /\ \A j \in 1 .. Len(ws) : t[j + 1] = ws[j]
           /\ policy = "FairQueue" =>
                  LET t == RequeueWaiter(policy, ws, w)
                  IN  /\ DOMAIN t = 1 .. Len(ws) + 1
                      /\ t[Len(ws) + 1] = w
                      /\ \A j \in 1 .. Len(ws) : t[j] = ws[j]
<1> DEFINE t == RequeueWaiter(policy, ws, w)
<1>1. CASE policy = "LatestOwner"
  <2>1. t = <<w>> \o ws
    BY <1>1 DEF RequeueWaiter
  <2>2. <<w>> \in Seq(WaiterOf(C)) /\ Len(<<w>>) = 1 /\ <<w>>[1] = w
    OBVIOUS
  <2>3. /\ DOMAIN t = 1 .. Len(ws) + 1
        /\ t[1] = w
        /\ \A j \in 1 .. Len(ws) : t[j + 1] = ws[j]
    BY <2>1, <2>2
  <2> QED
    BY <1>1, <2>3
<1>2. CASE policy = "FairQueue"
  <2>1. t = Append(ws, w)
    BY <1>2 DEF RequeueWaiter
  <2>2. /\ DOMAIN t = 1 .. Len(ws) + 1
        /\ t[Len(ws) + 1] = w
        /\ \A j \in 1 .. Len(ws) : t[j] = ws[j]
    BY <2>1
  <2> QED
    BY <1>2, <2>2
<1> QED
  BY <1>1, <1>2

\* A preempted owner is put back where it is served last: it is served only if
\* nobody who waited can be told.
LEMMA RequeuedServedLast ==
    ASSUME NEW C, NEW ws \in Seq(WaiterOf(C)), NEW w \in WaiterOf(C),
           NEW policy \in Policies, NEW Up,
           ~w.seat_claim, ~IsQueued(ws, w.client),
           NEW k \in Winner(policy, RequeueWaiter(policy, ws, w), Up),
           RequeueWaiter(policy, ws, w)[k].client = w.client
    PROVE  \A i \in DOMAIN ws : ws[i].client \notin Up
<1> DEFINE t == RequeueWaiter(policy, ws, w)
<1>1. Len(ws) \in Nat /\ DOMAIN ws = 1 .. Len(ws)
  OBVIOUS
<1>2. k \in DOMAIN t /\ \A j \in Servable(policy, t, Up) : k = j \/ PoppedBefore(policy, t, k, j)
  BY DEF Winner, Servable
<1>3. t[k].client = w.client
  OBVIOUS
<1>4. \A j \in 1 .. Len(ws) : ws[j].client # w.client
  BY <1>1 DEF IsQueued
<1> SUFFICES ASSUME NEW i \in 1 .. Len(ws), ws[i].client \in Up
             PROVE  FALSE
  BY <1>1
<1>5. CASE policy = "FirstOwner"
  <2>1. t = ws
    BY <1>5 DEF RequeueWaiter
  <2> QED
    BY <1>1, <1>2, <1>3, <1>4, <2>1
<1>6. CASE policy = "LatestOwner"
  <2>1. /\ DOMAIN t = 1 .. Len(ws) + 1
        /\ t[1] = w
        /\ \A j \in 1 .. Len(ws) : t[j + 1] = ws[j]
    BY <1>6, RequeueOrder
  <2> HIDE DEF t
  <2>2. k = 1
    <3>1. k = 1 \/ (k - 1 \in 1 .. Len(ws) /\ k = (k - 1) + 1)
      BY <1>1, <1>2, <2>1
    <3> QED
      BY <1>3, <1>4, <2>1, <3>1
  <2>3. i + 1 \in DOMAIN t /\ t[i + 1] = ws[i] /\ i + 1 # 1
    BY <1>1, <2>1
  <2>4. i + 1 \in Servable(policy, t, Up)
    BY <1>6, <2>3 DEF Servable, Poppable
  <2>5. PoppedBefore(policy, t, 1, i + 1)
    BY <1>2, <2>2, <2>3, <2>4
  <2> QED
    BY <1>1, <1>6, <2>1, <2>5 DEF PoppedBefore
<1>7. CASE policy = "FairQueue"
  <2>1. /\ DOMAIN t = 1 .. Len(ws) + 1
        /\ t[Len(ws) + 1] = w
        /\ \A j \in 1 .. Len(ws) : t[j] = ws[j]
    BY <1>7, RequeueOrder
  <2> HIDE DEF t
  <2>2. k = Len(ws) + 1
    <3>1. k \in 1 .. Len(ws) \/ k = Len(ws) + 1
      BY <1>1, <1>2, <2>1
    <3> QED
      BY <1>3, <1>4, <2>1, <3>1
  <2>3. i \in DOMAIN t /\ t[i] = ws[i] /\ i # Len(ws) + 1
    BY <1>1, <2>1
  <2>4. i \in Servable(policy, t, Up)
    BY <1>7, <2>3 DEF Servable, Poppable
  <2>5. PoppedBefore(policy, t, Len(ws) + 1, i)
    BY <1>2, <2>2, <2>3, <2>4
  <2> QED
    BY <1>1, <1>7, <2>1, <2>5 DEF PoppedBefore
<1> QED
  BY <1>5, <1>6, <1>7 DEF Policies

\* A requeue drops nobody.
LEMMA RequeueKeeps ==
    ASSUME NEW C, NEW ws \in Seq(WaiterOf(C)), NEW w \in WaiterOf(C),
           NEW policy \in Policies, NEW c, IsQueued(ws, c)
    PROVE  IsQueued(RequeueWaiter(policy, ws, w), c)
<1>1. PICK i \in 1 .. Len(ws) : ws[i].client = c
  BY DEF IsQueued
<1>2. Len(ws) \in Nat
  OBVIOUS
<1> DEFINE t == RequeueWaiter(policy, ws, w)
<1>3. CASE policy = "FirstOwner"
  BY <1>3 DEF RequeueWaiter
<1>4. CASE policy = "LatestOwner"
  <2>1. DOMAIN t = 1 .. Len(ws) + 1 /\ \A j \in 1 .. Len(ws) : t[j + 1] = ws[j]
    BY <1>4, RequeueOrder
  <2>2. i + 1 \in DOMAIN t /\ t[i + 1].client = c
    BY <1>1, <1>2, <2>1
  <2> QED
    BY <2>2 DEF IsQueued
<1>5. CASE policy = "FairQueue"
  <2>1. DOMAIN t = 1 .. Len(ws) + 1 /\ \A j \in 1 .. Len(ws) : t[j] = ws[j]
    BY <1>5, RequeueOrder
  <2>2. i \in DOMAIN t /\ t[i].client = c
    BY <1>1, <1>2, <2>1
  <2> QED
    BY <2>2 DEF IsQueued
<1> QED
  BY <1>3, <1>4, <1>5 DEF Policies

\* Taking a client out of a queue takes nobody else out.
LEMMA WithoutKeeps ==
    ASSUME NEW C, NEW ws \in Seq(WaiterOf(C)), NEW c, NEW other, other # c,
           IsQueued(ws, other)
    PROVE  IsQueued(Without(ws, c), other)
<1> DEFINE K == {i \in DOMAIN ws : ws[i].client # c}
<1>1. K \in SUBSET DOMAIN ws /\ Without(ws, c) = Keep(ws, K)
  BY DEF Without
<1>2. PICK i \in K : ws[i].client = other
  BY DEF IsQueued
<1> HIDE DEF K
<1>3. \E j \in DOMAIN Keep(ws, K) : Keep(ws, K)[j] = ws[i]
  BY <1>1, KeepOnto
<1> QED
  BY <1>1, <1>2, <1>3 DEF IsQueued

\* v is ahead of w in t.
InThisOrder(t, v, w) == \E a, b \in DOMAIN t : a < b /\ t[a] = v /\ t[b] = w

\* Two clients left in a queue are left in the order they were in.
LEMMA WithoutOrder ==
    ASSUME NEW C, NEW ws \in Seq(WaiterOf(C)), NEW c,
           NEW i \in DOMAIN ws, NEW j \in DOMAIN ws, i < j,
           ws[i].client # c, ws[j].client # c
    PROVE  InThisOrder(Without(ws, c), ws[i], ws[j])
<1> DEFINE K == {k \in DOMAIN ws : ws[k].client # c}
<1>1. K \in SUBSET DOMAIN ws /\ Without(ws, c) = Keep(ws, K) /\ i \in K /\ j \in K
  BY DEF Without
<1> HIDE DEF K
<1>2. /\ Rank(K, i) \in DOMAIN Keep(ws, K) /\ Keep(ws, K)[Rank(K, i)] = ws[i]
      /\ Rank(K, j) \in DOMAIN Keep(ws, K) /\ Keep(ws, K)[Rank(K, j)] = ws[j]
      /\ Rank(K, i) < Rank(K, j)
  BY <1>1, KeepOnto
<1> QED
  BY <1>1, <1>2 DEF InThisOrder

\* FairQueue: grant_next serves a waiter ahead of one that was before it in the
\* queue and is left there only if the first is a seat claim and the other not.
LEMMA FairQueueOrder ==
    ASSUME NEW C, NEW ws \in Seq(WaiterOf(C)), NEW Up, Distinct(ws),
           NEW k \in Winner("FairQueue", ws, Up),
           NEW i \in DOMAIN ws, i < k,
           IsQueued(LeftWaiting("FairQueue", ws, Up), ws[i].client)
    PROVE  ws[k].seat_claim /\ ~ws[i].seat_claim
<1> DEFINE W == Winner("FairQueue", ws, Up)
           K == {j \in DOMAIN ws : \/ ~Poppable("FairQueue", ws[j])
                                   \/ \E l \in W : PoppedBefore("FairQueue", ws, l, j)}
<1>1. LeftWaiting("FairQueue", ws, Up) = Keep(ws, K) /\ K \in SUBSET DOMAIN ws
  BY DEF LeftWaiting
<1>2. \A l \in W : l = k
  <2>1. \A l \in W : l \in DOMAIN ws /\ (l = k \/ PoppedBefore("FairQueue", ws, l, k))
                                      /\ (l = k \/ PoppedBefore("FairQueue", ws, k, l))
    BY DEF Winner, Servable
  <2> QED
    BY <2>1 DEF PoppedBefore, WaiterOf
<1>3. i \in K
  <2> HIDE DEF K
  <2>1. PICK j \in DOMAIN Keep(ws, K) : Keep(ws, K)[j].client = ws[i].client
    BY <1>1 DEF IsQueued
  <2>2. PICK l \in K : Keep(ws, K)[j] = ws[l]
    BY <1>1, KeepQueue
  <2> QED
    BY <1>1, <2>1, <2>2 DEF Distinct
<1>4. PoppedBefore("FairQueue", ws, k, i)
  BY <1>2, <1>3 DEF Poppable
<1>5. i \in Int /\ k \in Int
  BY DEF Winner, Servable
<1> QED
  BY <1>4, <1>5 DEF PoppedBefore
=============================================================================

-------------------------- MODULE GrantNextProofs ---------------------------
(***************************************************************************)
(* grant_next's loop computes what Policy says it does, for any number of  *)
(* clients, any queue and any set of channels that take a message.         *)
(***************************************************************************)
EXTENDS GrantNext, PolicyProofs, SequenceTheorems

\* p numbers the positions in K from 1 to m, in their order.
Numbers(p, m, K) ==
    /\ p \in [1 .. m -> K]
    /\ \A i, j \in 1 .. m : i < j => p[i] < p[j]
    /\ \A k \in K : \E j \in 1 .. m : p[j] = k

\* An increasing numbering of the positions in K is the one Keep uses.
LEMMA NumberingIsRank ==
    ASSUME NEW n \in Nat, NEW K \in SUBSET (1 .. n), NEW m \in Nat,
           NEW p, Numbers(p, m, K)
    PROVE  /\ Cardinality(K) = m
           /\ \A j \in 1 .. m : Rank(K, p[j]) = j
           /\ \A j \in 1 .. m : Position(K, j) = p[j]
<1> USE DEF Numbers
<1>0. \A k \in K : k \in Int
  OBVIOUS
<1>1. \A j \in 1 .. m : p[j] \in K /\ p[j] \in Int
  <2>1. \A j \in 1 .. m : p[j] \in K
    OBVIOUS
  <2> QED
    BY <1>0, <2>1, Zenon
<1>2. \A i, j \in 1 .. m : p[i] <= p[j] <=> i <= j
  <2> SUFFICES ASSUME NEW i \in 1 .. m, NEW j \in 1 .. m
               PROVE  p[i] <= p[j] <=> i <= j
    OBVIOUS
  <2>1. i < j \/ i = j \/ j < i
    OBVIOUS
  <2> QED
    BY <1>1, <2>1
<1>3. ASSUME NEW j \in 0 .. m
      PROVE  Cardinality({p[l] : l \in 1 .. j}) = j
  <2> DEFINE T == {p[l] : l \in 1 .. j}
             f == [l \in 1 .. j |-> p[l]]
  <2>1. f \in [1 .. j -> T] /\ \A t \in T : \E l \in 1 .. j : f[l] = t
    OBVIOUS
  <2>2. \A a, b \in 1 .. j : f[a] = f[b] => a = b
    BY <1>1, <1>2
  <2>3. f \in Bijection(1 .. j, T)
    <3> HIDE DEF f, T
    <3> QED
      BY <2>1, <2>2 DEF Bijection, Injection, Surjection, IsInjective
  <2>4. ExistsBijection(1 .. j, T)
    <3> HIDE DEF f, T
    <3> QED
      BY <2>3 DEF ExistsBijection
  <2> QED
    BY <2>4, FS_CountingElements
<1>4. K = {p[l] : l \in 1 .. m}
  <2>1. \A k \in K : \E l \in 1 .. m : k = p[l]
    OBVIOUS
  <2> QED
    BY <1>1, <2>1, Zenon
<1>5. Cardinality(K) = m
  <2>1. m \in 0 .. m
    OBVIOUS
  <2> QED
    BY <1>3, <1>4, <2>1, Zenon
<1>6. ASSUME NEW j \in 1 .. m
      PROVE  Rank(K, p[j]) = j
  <2>1. {k \in K : k <= p[j]} = {p[l] : l \in 1 .. j}
    <3>1. \A l \in 1 .. j : l \in 1 .. m /\ l <= j
      OBVIOUS
    <3>2. \A l \in 1 .. m : l <= j => l \in 1 .. j
      OBVIOUS
    <3>3. \A l \in 1 .. j : p[l] \in K /\ p[l] <= p[j]
      BY <1>1, <1>2, <3>1, Zenon
    <3>4. \A k \in K : k <= p[j] => \E l \in 1 .. j : k = p[l]
      <4> SUFFICES ASSUME NEW k \in K, k <= p[j]
                   PROVE  \E l \in 1 .. j : k = p[l]
        OBVIOUS
      <4>1. PICK l \in 1 .. m : p[l] = k
        OBVIOUS
      <4> QED
        BY <1>2, <3>2, <4>1
    <3> QED
      BY <3>3, <3>4, Zenon
  <2>2. j \in 0 .. m
    OBVIOUS
  <2> QED
    BY <1>3, <2>1, <2>2 DEF Rank
<1>7. ASSUME NEW j \in 1 .. m
      PROVE  Position(K, j) = p[j]
  <2>1. \A k \in K : Rank(K, k) = j => k = p[j]
    BY <1>6
  <2> QED
    BY <1>1, <1>6, <2>1 DEF Position
<1> QED
  BY <1>5, <1>6, <1>7

\* Keep's numbering is increasing, and goes through every position kept.
LEMMA PositionOrder ==
    ASSUME NEW n \in Nat, NEW K \in SUBSET (1 .. n)
    PROVE  /\ Cardinality(K) \in Nat
           /\ \A j \in 1 .. Cardinality(K) : Position(K, j) \in K
           /\ \A i, j \in 1 .. Cardinality(K) : i < j <=> Position(K, i) < Position(K, j)
           /\ \A k \in K : \E j \in 1 .. Cardinality(K) : Position(K, j) = k
<1>1. /\ Cardinality(K) \in Nat
      /\ \A i \in K : Rank(K, i) \in 1 .. Cardinality(K)
      /\ \A i, j \in K : i < j => Rank(K, i) < Rank(K, j)
      /\ \A j \in 1 .. Cardinality(K) : \E i \in K : Rank(K, i) = j
  BY RankProperties, Zenon
<1>2. \A j \in 1 .. Cardinality(K) : Position(K, j) \in K /\ Rank(K, Position(K, j)) = j
  BY <1>1 DEF Position
<1>3. \A k \in K : k \in Int /\ Rank(K, k) \in Int
  BY <1>1
<1>4. \A k, l \in K : Rank(K, k) < Rank(K, l) <=> k < l
  <2> SUFFICES ASSUME NEW k \in K, NEW l \in K
               PROVE  Rank(K, k) < Rank(K, l) <=> k < l
    OBVIOUS
  <2>1. k < l \/ k = l \/ l < k
    BY <1>3
  <2> QED
    BY <1>1, <1>3, <2>1
<1>5. ASSUME NEW i \in 1 .. Cardinality(K), NEW j \in 1 .. Cardinality(K)
      PROVE  i < j <=> Position(K, i) < Position(K, j)
  <2> DEFINE a == Position(K, i)
             b == Position(K, j)
  <2>1. a \in K /\ b \in K /\ Rank(K, a) = i /\ Rank(K, b) = j
    BY <1>2
  <2> HIDE DEF a, b
  <2>2. i < j <=> a < b
    BY <1>4, <2>1
  <2> QED
    BY <2>2 DEF a, b
<1>6. ASSUME NEW k \in K
      PROVE  Position(K, Rank(K, k)) = k /\ Rank(K, k) \in 1 .. Cardinality(K)
  <2> DEFINE q == Position(K, Rank(K, k))
  <2>1. q \in K /\ Rank(K, q) = Rank(K, k)
    BY <1>1, <1>2
  <2> HIDE DEF q
  <2>2. ~(q < k) /\ ~(k < q)
    BY <1>3, <1>4, <2>1
  <2>3. q = k
    BY <1>3, <2>1, <2>2
  <2> QED
    BY <1>1, <2>3 DEF q
<1> QED
  BY <1>1, <1>2, <1>5, <1>6

\* VecDeque::remove leaves the other positions.
LEMMA RemoveKeeps ==
    ASSUME NEW S, NEW s \in Seq(S), NEW i \in DOMAIN s
    PROVE  Remove(s, i) = Keep(s, DOMAIN s \ {i})
<1> DEFINE n == Len(s)
           m == n - 1
           K == DOMAIN s \ {i}
           p == [j \in 1 .. m |-> IF j < i THEN j ELSE j + 1]
<1>1. n \in Nat /\ DOMAIN s = 1 .. n /\ i \in 1 .. n /\ m \in Nat
  OBVIOUS
<1>2. K \in SUBSET (1 .. n)
  OBVIOUS
<1>3. p \in [1 .. m -> K]
  OBVIOUS
<1>4. \A a, b \in 1 .. m : a < b => p[a] < p[b]
  OBVIOUS
<1>5. \A k \in K : \E j \in 1 .. m : p[j] = k
  <2> SUFFICES ASSUME NEW k \in 1 .. n, k # i
               PROVE  \E j \in 1 .. m : p[j] = k
    BY <1>1
  <2>1. CASE k < i
    <3>1. k \in 1 .. m /\ p[k] = k
      BY <1>1, <2>1
    <3> QED
      BY <3>1
  <2>2. CASE i < k
    <3>1. k - 1 \in 1 .. m /\ p[k - 1] = k
      BY <1>1, <2>2
    <3> QED
      BY <3>1
  <2> QED
    BY <1>1, <2>1, <2>2
<1>6. \A j \in 1 .. m : p[j] = IF j < i THEN j ELSE j + 1
  OBVIOUS
<1>7. Cardinality(K) = m /\ \A j \in 1 .. m : Position(K, j) = p[j]
  <2>1. Numbers(p, m, K)
    <3> HIDE DEF n, m, K, p
    <3> QED
      BY <1>3, <1>4, <1>5, Zenon DEF Numbers
  <2> HIDE DEF n, m, K, p
  <2> QED
    BY <1>1, <1>2, <2>1, NumberingIsRank, Zenon
<1>8. /\ Keep(s, K) \in Seq(S) /\ Len(Keep(s, K)) = m
      /\ \A j \in 1 .. m : Keep(s, K)[j] = s[IF j < i THEN j ELSE j + 1]
  <2>1. K \in SUBSET DOMAIN s
    OBVIOUS
  <2> HIDE DEF n, m, K, p
  <2>2. /\ Keep(s, K) \in Seq(S) /\ DOMAIN Keep(s, K) = 1 .. Cardinality(K)
        /\ \A j \in DOMAIN Keep(s, K) : Keep(s, K)[j] = s[Position(K, j)]
    BY <2>1, KeepProperties
  <2>3. \A j \in 1 .. m : Keep(s, K)[j] = s[p[j]]
    BY <1>7, <2>2
  <2> QED
    BY <1>1, <1>6, <1>7, <2>2, <2>3
<1>9. /\ Remove(s, i) \in Seq(S) /\ Len(Remove(s, i)) = m
      /\ \A j \in 1 .. m : Remove(s, i)[j] = s[IF j < i THEN j ELSE j + 1]
  <2> DEFINE a == SubSeq(s, 1, i - 1)
             b == SubSeq(s, i + 1, n)
  <2>1. a \in Seq(S) /\ Len(a) = i - 1 /\ \A j \in 1 .. i - 1 : a[j] = s[j]
    OBVIOUS
  <2>2. b \in Seq(S) /\ Len(b) = n - i /\ \A j \in 1 .. n - i : b[j] = s[i + j]
    OBVIOUS
  <2>3. Remove(s, i) = a \o b
    BY DEF Remove
  <2> HIDE DEF a, b, n, m
  <2>4. a \o b \in Seq(S) /\ Len(a \o b) = m
    <3>1. a \o b \in Seq(S) /\ Len(a \o b) = Len(a) + Len(b)
      BY <2>1, <2>2, ConcatProperties, Zenon
    <3> QED
      BY <1>1, <2>1, <2>2, <3>1 DEF m
  <2>5. ASSUME NEW j \in 1 .. m
        PROVE  (a \o b)[j] = s[IF j < i THEN j ELSE j + 1]
    <3>1. CASE j < i
      <4>1. j \in 1 .. i - 1 /\ j \in 1 .. Len(a)
        BY <1>1, <2>1, <3>1 DEF m
      <4>2. (a \o b)[j] = a[j]
        BY <2>1, <2>2, <4>1
      <4> QED
        BY <2>1, <3>1, <4>1, <4>2
    <3>2. CASE ~(j < i)
      <4>1. j - (i - 1) \in 1 .. n - i /\ i + (j - (i - 1)) = j + 1
        BY <1>1, <3>2 DEF m
      <4>2. (a \o b)[j] = b[j - (i - 1)]
        BY <1>1, <2>1, <2>2, <3>2, <4>1 DEF m
      <4> QED
        BY <2>2, <3>2, <4>1, <4>2
    <3> QED
      BY <3>1, <3>2, Zenon
  <2> QED
    BY <2>3, <2>4, <2>5
<1> DEFINE left == Remove(s, i)
           kept == Keep(s, K)
<1>10. /\ left \in Seq(S) /\ Len(left) = m /\ kept \in Seq(S) /\ Len(kept) = m
       /\ \A j \in 1 .. m : left[j] = kept[j]
  BY <1>8, <1>9, Zenon
<1> HIDE DEF left, kept, m
<1>11. left = kept
  BY <1>10
<1> QED
  BY <1>11 DEF left, kept

\* VecDeque::remove, of what was kept.
LEMMA RemoveKept ==
    ASSUME NEW S, NEW s \in Seq(S), NEW K \in SUBSET DOMAIN s,
           NEW i \in DOMAIN Keep(s, K)
    PROVE  Remove(Keep(s, K), i) = Keep(s, K \ {Position(K, i)})
<1> DEFINE n == Len(s)
           t == Keep(s, K)
           c == Cardinality(K)
           L == DOMAIN t \ {i}
           m == Cardinality(L)
           M == K \ {Position(K, i)}
           p == [j \in 1 .. m |-> Position(K, Position(L, j))]
<1>1. n \in Nat /\ K \in SUBSET (1 .. n)
  OBVIOUS
<1>2. /\ c \in Nat
      /\ \A j \in 1 .. c : Position(K, j) \in K
      /\ \A a, b \in 1 .. c : a < b <=> Position(K, a) < Position(K, b)
      /\ \A k \in K : \E j \in 1 .. c : Position(K, j) = k
  BY <1>1, PositionOrder, Zenon
<1>3. DOMAIN t = 1 .. c /\ \A j \in 1 .. c : t[j] = s[Position(K, j)]
  <2>1. DOMAIN t = 1 .. c /\ \A j \in DOMAIN t : t[j] = s[Position(K, j)]
    BY KeepProperties
  <2> HIDE DEF t, c
  <2> QED
    BY <2>1
<1>4. L \in SUBSET (1 .. c) /\ i \in 1 .. c /\ i \notin L /\ \A l \in 1 .. c : l = i \/ l \in L
  <2> HIDE DEF c, t
  <2>1. i \in DOMAIN t
    BY DEF t
  <2> QED
    BY <1>3, <2>1
<1> HIDE DEF n, c, t, L
<1>5. /\ m \in Nat
      /\ \A j \in 1 .. m : Position(L, j) \in L
      /\ \A a, b \in 1 .. m : a < b <=> Position(L, a) < Position(L, b)
      /\ \A l \in L : \E j \in 1 .. m : Position(L, j) = l
  <2>1. c \in Nat /\ L \in SUBSET (1 .. c)
    BY <1>2, <1>4
  <2> QED
    BY <2>1, PositionOrder, ZenonT(60)
<1> HIDE DEF m
<1>6. \A j \in 1 .. m : Position(L, j) \in 1 .. c /\ Position(L, j) # i
  BY <1>4, <1>5, Zenon
<1>7. \A a, b \in 1 .. c : Position(K, a) = Position(K, b) => a = b
  <2> SUFFICES ASSUME NEW a \in 1 .. c, NEW b \in 1 .. c, Position(K, a) = Position(K, b)
               PROVE  a = b
    OBVIOUS
  <2>1. Position(K, a) \in Int /\ Position(K, b) \in Int
    BY <1>1, <1>2
  <2>2. ~(a < b) /\ ~(b < a)
    BY <1>2, <2>1
  <2> QED
    BY <1>2, <2>2
<1>8. \A j \in 1 .. m : Position(K, Position(L, j)) \in M
  BY <1>2, <1>4, <1>6, <1>7
<1>9. p \in [1 .. m -> M]
  <2> HIDE DEF M
  <2> QED
    BY <1>8
<1>10. \A a, b \in 1 .. m : a < b => p[a] < p[b]
  BY <1>2, <1>5, <1>6
<1>11. \A k \in M : \E j \in 1 .. m : p[j] = k
  <2> SUFFICES ASSUME NEW k \in K, k # Position(K, i)
               PROVE  \E j \in 1 .. m : p[j] = k
    OBVIOUS
  <2>1. PICK l \in 1 .. c : Position(K, l) = k
    BY <1>2
  <2>2. l \in L
    BY <1>4, <2>1
  <2>3. PICK j \in 1 .. m : Position(L, j) = l
    BY <1>5, <2>2
  <2> QED
    BY <2>1, <2>3
<1>12. Cardinality(M) = m /\ \A j \in 1 .. m : Position(M, j) = p[j]
  <2>1. M \in SUBSET (1 .. n)
    BY <1>1
  <2> HIDE DEF M, p
  <2>2. Numbers(p, m, M)
    BY <1>9, <1>10, <1>11, Zenon DEF Numbers
  <2> QED
    BY <1>1, <1>5, <2>1, <2>2, NumberingIsRank, Zenon
<1> DEFINE u == Keep(t, L)
           v == Keep(s, M)
<1>13. u \in Seq(S) /\ Len(u) = m /\ \A j \in 1 .. m : u[j] = t[Position(L, j)]
  <2>1. t \in Seq(S)
    BY KeepProperties DEF t
  <2>2. L \in SUBSET DOMAIN t
    BY DEF L
  <2>3. /\ u \in Seq(S) /\ DOMAIN u = 1 .. m
        /\ \A j \in DOMAIN u : u[j] = t[Position(L, j)]
    BY <2>1, <2>2, KeepProperties DEF m
  <2> HIDE DEF u
  <2> QED
    BY <1>5, <2>3
<1>14. v \in Seq(S) /\ Len(v) = m /\ \A j \in 1 .. m : v[j] = s[Position(M, j)]
  <2>1. M \in SUBSET DOMAIN s
    OBVIOUS
  <2> HIDE DEF M, p
  <2>2. /\ v \in Seq(S) /\ DOMAIN v = 1 .. Cardinality(M)
        /\ \A j \in DOMAIN v : v[j] = s[Position(M, j)]
    BY <2>1, KeepProperties
  <2> HIDE DEF v
  <2> QED
    BY <1>5, <1>12, <2>2
<1>15. \A j \in 1 .. m : u[j] = v[j]
  <2> SUFFICES ASSUME NEW j \in 1 .. m
               PROVE  u[j] = v[j]
    BY Zenon
  <2>1. p[j] = Position(K, Position(L, j))
    OBVIOUS
  <2> HIDE DEF M, p, u, v
  <2>2. t[Position(L, j)] = s[Position(K, Position(L, j))]
    BY <1>3, <1>6
  <2>3. Position(M, j) = Position(K, Position(L, j))
    BY <1>12, <2>1
  <2> QED
    BY <1>13, <1>14, <2>2, <2>3
<1>16. u = v
  <2> HIDE DEF M, p, u, v
  <2> QED
    BY <1>5, <1>13, <1>14, <1>15
<1>17. Remove(t, i) = u
  <2>1. t \in Seq(S) /\ i \in DOMAIN t
    BY KeepProperties DEF t
  <2> QED
    BY <2>1, RemoveKeeps DEF L
<1> QED
  BY <1>16, <1>17 DEF t

\* The elements that are kept.
LEMMA KeepElements ==
    ASSUME NEW S, NEW s \in Seq(S), NEW K \in SUBSET DOMAIN s
    PROVE  /\ Keep(s, K) \in Seq(S)
           /\ DOMAIN Keep(s, K) = 1 .. Cardinality(K)
           /\ \A j \in DOMAIN Keep(s, K) : Keep(s, K)[j] = s[Position(K, j)]
BY KeepProperties

\* Nothing is left out.
LEMMA KeepAll ==
    ASSUME NEW S, NEW s \in Seq(S)
    PROVE  Keep(s, DOMAIN s) = s
<1> DEFINE n == Len(s)
           K == DOMAIN s
           p == [j \in 1 .. n |-> j]
           t == Keep(s, K)
<1>0. K = 1 .. n
  OBVIOUS
<1>1. n \in Nat /\ K \in SUBSET (1 .. n)
  OBVIOUS
<1>2. Numbers(p, n, K)
  BY <1>0, <1>1 DEF Numbers
<1>3. \A j \in 1 .. n : p[j] = j
  OBVIOUS
<1> HIDE DEF n, K, p
<1>4. Cardinality(K) = n /\ \A j \in 1 .. n : Position(K, j) = p[j]
  BY <1>1, <1>2, NumberingIsRank, Zenon
<1>5. /\ t \in Seq(S) /\ DOMAIN t = 1 .. Cardinality(K)
      /\ \A j \in DOMAIN t : t[j] = s[Position(K, j)]
  <2>1. K \in SUBSET DOMAIN s
    BY DEF K
  <2> QED
    BY <2>1, KeepElements, Zenon
<1> HIDE DEF t
<1>6. t \in Seq(S) /\ Len(t) = n /\ \A j \in 1 .. n : t[j] = s[j]
  BY <1>1, <1>3, <1>4, <1>5
<1>7. t = s
  BY <1>1, <1>6 DEF n
<1> QED
  BY <1>7 DEF t, K

-----------------------------------------------------------------------------
(* The waiter that is popped.                                              *)

Waiters == Seq(WaiterOf(ClientId))

\* pop_seat_claim and pop_waiter together pop the waiter that PoppedBefore puts
\* first.
LEMMA PoppedIsFirst ==
    ASSUME waiters \in Waiters, policy \in Policies, NEW i \in Popped
    PROVE  /\ i \in DOMAIN waiters
           /\ Poppable(policy, waiters[i])
           /\ \A j \in DOMAIN waiters :
                  Poppable(policy, waiters[j]) => j = i \/ PoppedBefore(policy, waiters, i, j)
<1>1. Len(waiters) \in Nat /\ DOMAIN waiters = 1 .. Len(waiters)
  BY DEF Waiters
<1>2. \A j \in DOMAIN waiters : waiters[j].seat_claim \in BOOLEAN /\ j \in Int
  <2>1. \A j \in DOMAIN waiters : waiters[j] \in WaiterOf(ClientId)
    BY DEF Waiters
  <2>2. \A w \in WaiterOf(ClientId) : w.seat_claim \in BOOLEAN
    BY DEF WaiterOf
  <2> QED
    BY <1>1, <2>1, <2>2
<1>3. CASE SeatClaim # {}
  <2>1. i \in SeatClaim
    BY <1>3 DEF Popped
  <2> QED
    BY <1>1, <1>2, <2>1 DEF SeatClaim, Poppable, PoppedBefore
<1>4. CASE SeatClaim = {}
  <2>1. i \in PopWaiter
    BY <1>4 DEF Popped
  <2> DEFINE claims == {j \in DOMAIN waiters : waiters[j].seat_claim}
  <2>2. claims = {}
    <3> SUFFICES ASSUME claims # {}
                 PROVE  FALSE
      OBVIOUS
    <3>1. claims \in SUBSET (1 .. Len(waiters))
      BY <1>1
    <3>2. PICK f \in claims : \A k \in claims : f <= k
      <4> HIDE DEF claims
      <4> QED
        BY <1>1, <3>1, FirstAndLast, Zenon
    <3>3. f \in SeatClaim
      BY <3>2 DEF SeatClaim
    <3> QED
      BY <1>4, <3>3
  <2>3. \A j \in DOMAIN waiters : ~waiters[j].seat_claim
    BY <2>2
  <2> QED
    BY <1>1, <1>2, <2>1, <2>3 DEF PopWaiter, Poppable, PoppedBefore
<1> QED
  BY <1>3, <1>4

\* When they pop nobody, nobody is left whom they may pop.
LEMMA NobodyPoppable ==
    ASSUME waiters \in Waiters, policy \in Policies, Popped = {}
    PROVE  \A j \in DOMAIN waiters : ~Poppable(policy, waiters[j])
<1>1. Len(waiters) \in Nat /\ DOMAIN waiters = 1 .. Len(waiters)
  BY DEF Waiters
<1>2. SeatClaim = {} /\ PopWaiter = {}
  BY DEF Popped
<1>3. \A j \in DOMAIN waiters : ~waiters[j].seat_claim
  <2> DEFINE claims == {j \in DOMAIN waiters : waiters[j].seat_claim}
  <2> SUFFICES ASSUME claims # {}
               PROVE  FALSE
    OBVIOUS
  <2>1. claims \in SUBSET (1 .. Len(waiters))
    BY <1>1
  <2>2. PICK f \in claims : \A k \in claims : f <= k
    <3> HIDE DEF claims
    <3> QED
      BY <1>1, <2>1, FirstAndLast, Zenon
  <2>3. f \in SeatClaim
    BY <2>2 DEF SeatClaim
  <2> QED
    BY <1>2, <2>3
<1>4. policy = "FirstOwner" \/ DOMAIN waiters = {}
  <2> SUFFICES ASSUME policy # "FirstOwner", NEW j \in 1 .. Len(waiters)
               PROVE  FALSE
    BY <1>1
  <2>1. 1 \in DOMAIN waiters /\ Len(waiters) \in DOMAIN waiters
    BY <1>1
  <2> QED
    BY <1>2, <2>1 DEF PopWaiter, Policies
<1> QED
  BY <1>3, <1>4 DEF Poppable

-----------------------------------------------------------------------------
(* The invariant.                                                          *)

\* The loop has popped the waiters of queue that are not in K: they could not
\* be told, and come before whoever it may still pop.
LeftOf(K) ==
    /\ waiters = Keep(queue, K)
    /\ \A d \in DOMAIN queue \ K :
           /\ Poppable(policy, queue[d])
           /\ queue[d].client \notin up
           /\ \A k \in K : Poppable(policy, queue[k]) => PoppedBefore(policy, queue, d, k)

LoopInv ==
    /\ policy \in Policies
    /\ queue \in Waiters
    /\ running \in BOOLEAN
    /\ running => owner = NoClient /\ \E K \in SUBSET DOMAIN queue : LeftOf(K)
    /\ ClosedFormAgrees

\* The queue a slot has when grant_next is called.
LEMMA QueuesAreWaiters == Queues \subseteq Waiters
<1>1. Cardinality(ClientId) \in Nat
  BY ClientsAssumption, FS_CardinalityType
<1> SUFFICES ASSUME NEW q \in Queues
             PROVE  q \in Waiters
  OBVIOUS
<1>2. PICK n \in 0 .. Cardinality(ClientId) : q \in [1 .. n -> [client : ClientId, seat_claim : BOOLEAN]]
  BY DEF Queues
<1>3. n \in Nat
  BY <1>1
<1>4. q \in [1 .. n -> WaiterOf(ClientId)]
  BY <1>2 DEF WaiterOf
<1>5. q \in Seq(WaiterOf(ClientId))
  BY <1>3, <1>4
<1> QED
  BY <1>5 DEF Waiters

\* Nobody has been popped.
LEMMA InitLoop == Init => LoopInv
<1> SUFFICES ASSUME Init
             PROVE  LoopInv
  OBVIOUS
<1>1. queue \in Waiters /\ waiters = queue /\ running = TRUE
  BY QueuesAreWaiters DEF Init
<1>2. LeftOf(DOMAIN queue)
  <2>1. waiters = Keep(queue, DOMAIN queue)
    BY <1>1, KeepAll DEF Waiters
  <2> QED
    BY <2>1 DEF LeftOf
<1> QED
  BY <1>1, <1>2 DEF Init, LoopInv, ClosedFormAgrees

\* One waiter less.
LEMMA RemoveFromQueue ==
    ASSUME queue \in Waiters, NEW K \in SUBSET DOMAIN queue, NEW i \in DOMAIN Keep(queue, K)
    PROVE  Remove(Keep(queue, K), i) = Keep(queue, K \ {Position(K, i)})
<1>1. queue \in Seq(WaiterOf(ClientId))
  BY DEF Waiters
<1> QED
  BY <1>1, RemoveKept, Zenon

\* The position in queue of the waiter that is popped.
LEMMA PoppedFromQueue ==
    ASSUME queue \in Waiters, policy \in Policies, NEW K \in SUBSET DOMAIN queue,
           waiters = Keep(queue, K), NEW i \in Popped
    PROVE  LET q == Position(K, i)
           IN  /\ q \in K /\ queue[q] = waiters[i] /\ i \in DOMAIN waiters
               /\ Poppable(policy, queue[q])
               /\ \A k \in K : Poppable(policy, queue[k]) =>
                                   k = q \/ PoppedBefore(policy, queue, q, k)
               /\ Remove(waiters, i) = Keep(queue, K \ {q})
<1> DEFINE q == Position(K, i)
           c == Cardinality(K)
<1>1. Len(queue) \in Nat /\ DOMAIN queue = 1 .. Len(queue) /\ K \in SUBSET (1 .. Len(queue))
  BY DEF Waiters
<1>2. /\ waiters \in Waiters /\ DOMAIN waiters = 1 .. c
      /\ \A j \in DOMAIN waiters : waiters[j] = queue[Position(K, j)]
  BY KeepProperties DEF Waiters
<1>3. /\ c \in Nat
      /\ \A j \in 1 .. c : Position(K, j) \in K
      /\ \A a, b \in 1 .. c : a < b <=> Position(K, a) < Position(K, b)
      /\ \A k \in K : \E j \in 1 .. c : Position(K, j) = k
  BY <1>1, PositionOrder, Zenon
<1> HIDE DEF c
<1>4. /\ i \in DOMAIN waiters
      /\ Poppable(policy, waiters[i])
      /\ \A j \in DOMAIN waiters :
             Poppable(policy, waiters[j]) => j = i \/ PoppedBefore(policy, waiters, i, j)
  BY <1>2, PoppedIsFirst
<1>5. q \in K /\ queue[q] = waiters[i]
  BY <1>2, <1>3, <1>4
<1>6. ASSUME NEW k \in K, Poppable(policy, queue[k])
      PROVE  k = q \/ PoppedBefore(policy, queue, q, k)
  <2>1. PICK j \in 1 .. c : Position(K, j) = k
    BY <1>3
  <2>2. waiters[j] = queue[k] /\ j \in DOMAIN waiters
    BY <1>2, <2>1
  <2>3. j = i \/ PoppedBefore(policy, waiters, i, j)
    BY <1>4, <1>6, <2>2
  <2>4. i < j <=> q < k
    BY <1>2, <1>3, <1>4, <2>1
  <2>5. j < i <=> k < q
    BY <1>2, <1>3, <1>4, <2>1
  <2> HIDE DEF q
  <2>6. PoppedBefore(policy, waiters, i, j) <=> PoppedBefore(policy, queue, q, k)
    BY <1>5, <2>2, <2>4, <2>5 DEF PoppedBefore
  <2> QED
    BY <2>1, <2>3, <2>6 DEF q
<1>7. Remove(waiters, i) = Keep(queue, K \ {q})
  <2>1. i \in DOMAIN Keep(queue, K)
    BY <1>4
  <2>2. Remove(Keep(queue, K), i) = Keep(queue, K \ {q})
    BY <2>1, RemoveFromQueue
  <2> QED
    BY <2>2
<1> QED
  BY <1>4, <1>5, <1>6, <1>7

\* A waiter that cannot be told is taken out, and nothing else changes.
LEMMA DropHolds ==
    ASSUME LoopInv, NEW i \in Popped, DropWaiter(i)
    PROVE  LoopInv'
<1>1. PICK K \in SUBSET DOMAIN queue : LeftOf(K)
  BY DEF LoopInv, DropWaiter
<1>2. queue \in Waiters /\ policy \in Policies /\ waiters = Keep(queue, K)
  BY <1>1 DEF LoopInv, LeftOf
<1> DEFINE q == Position(K, i)
           M == K \ {q}
<1>3. /\ q \in K /\ queue[q] = waiters[i]
      /\ Poppable(policy, queue[q])
      /\ \A k \in K : Poppable(policy, queue[k]) =>
                          k = q \/ PoppedBefore(policy, queue, q, k)
      /\ Remove(waiters, i) = Keep(queue, M)
  BY <1>2, PoppedFromQueue
<1>4. /\ UNCHANGED <<policy, up, queue, owner, running>> /\ running
      /\ waiters' = Keep(queue, M) /\ queue[q].client \notin up
  BY <1>3 DEF DropWaiter
<1>5. ASSUME NEW d \in DOMAIN queue \ M
      PROVE  /\ Poppable(policy, queue[d])
             /\ queue[d].client \notin up
             /\ \A k \in M : Poppable(policy, queue[k]) => PoppedBefore(policy, queue, d, k)
  <2>1. CASE d = q
    BY <1>3, <1>4, <2>1
  <2>2. CASE d # q
    <3>1. d \in DOMAIN queue \ K
      BY <2>2
    <3> QED
      BY <1>1, <3>1 DEF LeftOf
  <2> QED
    BY <2>1, <2>2
<1>6. LeftOf(M)'
  <2> HIDE DEF M, q
  <2> QED
    BY <1>4, <1>5 DEF LeftOf
<1>7. M \in SUBSET DOMAIN queue
  OBVIOUS
<1> HIDE DEF M, q
<1> QED
  BY <1>4, <1>6, <1>7 DEF LoopInv, ClosedFormAgrees

\* Of two waiters only one is popped before the other.
LEMMA PoppedOneWay ==
    ASSUME NEW C, NEW ws \in Seq(WaiterOf(C)), NEW p
    PROVE  \A k, l \in DOMAIN ws :
               ~(PoppedBefore(p, ws, k, l) /\ PoppedBefore(p, ws, l, k))
BY DEF PoppedBefore, WaiterOf

\* The first waiter that can be told is the winner, and those behind it stay.
LEMMA DeliverHolds ==
    ASSUME LoopInv, NEW i \in Popped, Deliver(i)
    PROVE  LoopInv'
<1>1. PICK K \in SUBSET DOMAIN queue : LeftOf(K)
  BY DEF LoopInv, Deliver
<1>2. queue \in Waiters /\ policy \in Policies /\ waiters = Keep(queue, K)
  BY <1>1 DEF LoopInv, LeftOf
<1> DEFINE q == Position(K, i)
           M == K \ {q}
           W == Winner(policy, queue, up)
<1>3. /\ q \in K /\ queue[q] = waiters[i]
      /\ Poppable(policy, queue[q])
      /\ \A k \in K : Poppable(policy, queue[k]) =>
                          k = q \/ PoppedBefore(policy, queue, q, k)
      /\ Remove(waiters, i) = Keep(queue, M)
  BY <1>2, PoppedFromQueue
<1>4. /\ UNCHANGED <<policy, up, queue>> /\ running' = FALSE
      /\ waiters' = Keep(queue, M) /\ owner' = queue[q].client
      /\ queue[q].client \in up
  BY <1>3 DEF Deliver
<1> HIDE DEF q
<1>5. ASSUME NEW d \in DOMAIN queue, d \notin K
      PROVE  /\ Poppable(policy, queue[d])
             /\ queue[d].client \notin up
             /\ PoppedBefore(policy, queue, d, q)
  <2>1. /\ Poppable(policy, queue[d])
        /\ queue[d].client \notin up
        /\ \A k \in K : Poppable(policy, queue[k]) => PoppedBefore(policy, queue, d, k)
    BY <1>1, <1>5 DEF LeftOf
  <2> QED
    BY <1>3, <2>1
<1>6. \A k, l \in DOMAIN queue :
          ~(PoppedBefore(policy, queue, k, l) /\ PoppedBefore(policy, queue, l, k))
  <2>1. queue \in Seq(WaiterOf(ClientId))
    BY <1>2 DEF Waiters
  <2> QED
    BY <2>1, PoppedOneWay
<1>7. W = {q}
  <2>1. q \in Servable(policy, queue, up)
    BY <1>3, <1>4 DEF Servable
  <2>2. \A j \in Servable(policy, queue, up) : j = q \/ PoppedBefore(policy, queue, q, j)
    BY <1>3, <1>5 DEF Servable
  <2>3. Servable(policy, queue, up) \subseteq DOMAIN queue
    BY DEF Servable
  <2> QED
    BY <1>6, <2>1, <2>2, <2>3 DEF Winner
<1> HIDE DEF W
<1>8. {j \in DOMAIN queue : \/ ~Poppable(policy, queue[j])
                            \/ \E k \in W : PoppedBefore(policy, queue, k, j)} = M
  BY <1>3, <1>5, <1>6, <1>7
<1>9. LeftWaiting(policy, queue, up) = Keep(queue, M)
  BY <1>8 DEF LeftWaiting, W
<1>10. (CHOOSE k \in W : TRUE) = q
  BY <1>7
<1> HIDE DEF M
<1>11. ClosedFormAgrees'
  BY <1>4, <1>7, <1>9, <1>10 DEF ClosedFormAgrees, W
<1> QED
  BY <1>2, <1>4, <1>11, Zenon DEF LoopInv

\* The loop ends with nobody told when it has popped everybody it may.
LEMMA NobodyHolds ==
    ASSUME LoopInv, NobodyLeft
    PROVE  LoopInv'
<1>1. PICK K \in SUBSET DOMAIN queue : LeftOf(K)
  BY DEF LoopInv, NobodyLeft
<1>2. queue \in Waiters /\ policy \in Policies /\ waiters = Keep(queue, K) /\ owner = NoClient
  BY <1>1 DEF LoopInv, LeftOf, NobodyLeft
<1>3. waiters \in Waiters /\ \A k \in K : \E j \in DOMAIN waiters : waiters[j] = queue[k]
  BY <1>2, KeepOnto, KeepProperties DEF Waiters
<1>4. \A j \in DOMAIN waiters : ~Poppable(policy, waiters[j])
  BY <1>2, <1>3, NobodyPoppable DEF NobodyLeft
<1>5. \A k \in K : ~Poppable(policy, queue[k])
  BY <1>3, <1>4
<1>6. \A d \in DOMAIN queue \ K : Poppable(policy, queue[d]) /\ queue[d].client \notin up
  BY <1>1 DEF LeftOf
<1>7. Winner(policy, queue, up) = {}
  BY <1>5, <1>6 DEF Winner, Servable
<1>8. {j \in DOMAIN queue : \/ ~Poppable(policy, queue[j])
                            \/ \E k \in Winner(policy, queue, up) :
                                   PoppedBefore(policy, queue, k, j)} = K
  BY <1>5, <1>6, <1>7
<1>9. LeftWaiting(policy, queue, up) = Keep(queue, K)
  BY <1>8 DEF LeftWaiting
<1>10. UNCHANGED <<policy, up, queue, waiters, owner>> /\ running' = FALSE
  BY DEF NobodyLeft
<1>11. ClosedFormAgrees'
  BY <1>2, <1>7, <1>9, <1>10 DEF ClosedFormAgrees
<1> QED
  BY <1>2, <1>10, <1>11, Zenon DEF LoopInv

\* Every turn of the loop keeps the invariant.
LEMMA NextLoop == LoopInv /\ [Next]_vars => LoopInv'
<1> SUFFICES ASSUME LoopInv, [Next]_vars
             PROVE  LoopInv'
  OBVIOUS
<1>1. CASE NobodyLeft
  BY <1>1, NobodyHolds
<1>2. ASSUME NEW i \in Popped, Deliver(i)
      PROVE  LoopInv'
  BY <1>2, DeliverHolds
<1>3. ASSUME NEW i \in Popped, DropWaiter(i)
      PROVE  LoopInv'
  BY <1>3, DropHolds
<1>4. CASE UNCHANGED vars
  BY <1>4 DEF vars, LoopInv, LeftOf, ClosedFormAgrees
<1> QED
  BY <1>1, <1>2, <1>3, <1>4 DEF Next

-----------------------------------------------------------------------------
(* The theorems.                                                           *)

\* What has been popped so far could not be told and comes first.
THEOREM LoopInvariance == Spec => []LoopInv
<1>1. Init => LoopInv
  BY InitLoop
<1>2. LoopInv /\ [Next]_vars => LoopInv'
  BY NextLoop
<1> QED
  BY <1>1, <1>2, PTL DEF Spec

\* grant_next's loop ends with the owner and the queue that Winner and
\* LeftWaiting give, which are what the engine's actions and theorems use.
THEOREM LoopIsClosedForm == Spec => []ClosedFormAgrees
<1>1. LoopInv => ClosedFormAgrees
  BY DEF LoopInv
<1> QED
  BY <1>1, LoopInvariance, PTL

\* The loop drops nobody whose channel takes a message.
THEOREM LiveWaitersStay == Spec => []NoLiveWaiterDropped
<1>1. LoopInv => NoLiveWaiterDropped
  <2> SUFFICES ASSUME LoopInv, NEW i \in DOMAIN queue, queue[i].client \in up
               PROVE  owner = queue[i].client \/ IsQueued(waiters, queue[i].client)
    BY DEF NoLiveWaiterDropped
  <2>1. queue \in Seq(WaiterOf(ClientId))
    BY DEF LoopInv, Waiters
  <2>2. CASE running
    <3>1. PICK K \in SUBSET DOMAIN queue : LeftOf(K)
      BY <2>2 DEF LoopInv
    <3>2. i \in K /\ waiters = Keep(queue, K)
      BY <3>1 DEF LeftOf
    <3>3. \E j \in DOMAIN Keep(queue, K) : Keep(queue, K)[j] = queue[i]
      BY <2>1, <3>2, KeepOnto
    <3> QED
      BY <3>2, <3>3 DEF IsQueued
  <2>3. CASE ~running
    <3> DEFINE W == Winner(policy, queue, up)
    <3>1. waiters = LeftWaiting(policy, queue, up)
      BY <2>3 DEF LoopInv, ClosedFormAgrees
    <3>2. i \in W \/ IsQueued(waiters, queue[i].client)
      BY <2>1, <3>1, NobodyReachableDropped
    <3>3. ASSUME i \in W
          PROVE  owner = queue[i].client
      <4>1. W \subseteq DOMAIN queue /\ \A k, l \in W : k = l \/ PoppedBefore(policy, queue, k, l)
        BY DEF Winner, Servable
      <4>2. \A k \in W : k = i
        BY <2>1, <3>3, <4>1, PoppedOneWay
      <4> HIDE DEF W
      <4>3. (CHOOSE k \in W : TRUE) = i
        BY <3>3, <4>2
      <4> QED
        BY <2>3, <3>3, <4>3, Zenon DEF LoopInv, ClosedFormAgrees, W
    <3> QED
      BY <3>2, <3>3
  <2> QED
    BY <2>2, <2>3 DEF LoopInv
<1> QED
  BY <1>1, LoopInvariance, PTL
=============================================================================

------------------------- MODULE PolicyEngineProofs -------------------------
(***************************************************************************)
(* The engine's invariants, for any number of clients and resources, any   *)
(* assignment of policies and any grace period.                            *)
(***************************************************************************)
EXTENDS PolicyEngine, PolicyProofs

\* The five invariants are inductive together and not one by one: a free slot
\* has no waiters because grant_next empties the queue, which needs every
\* waiter of a FirstOwner slot to be a claim; nobody is both owner and waiter
\* because a slot is granted by reply only when its queue is empty.
IInv ==
    /\ TypeOK
    /\ NoIdleWaiters
    /\ QueuedOnce
    /\ OnlyRegisteredHold
    /\ FirstOwnerQueuesClaims

\* Every message grant_next or release_seat_inputs builds is well formed.
LEMMA MessagesType ==
    ASSUME NEW type \in {"Grant", "Revoke"}, NEW ord \in Seq(Resource), NEW S
    PROVE  Messages(type, ord, S) \in Seq(ControlMessage)
<1> DEFINE K == {i \in DOMAIN ord : ord[i] \in S}
<1>1. K \in SUBSET DOMAIN ord
  OBVIOUS
<1> HIDE DEF K
<1>2. Keep(ord, K) \in Seq(Resource)
  BY <1>1, KeepProperties
<1>3. Messages(type, ord, S) =
          [j \in DOMAIN Keep(ord, K) |-> [type |-> type, resource |-> Keep(ord, K)[j]]]
  BY DEF Messages, K
<1>4. \A j \in DOMAIN Keep(ord, K) :
          [type |-> type, resource |-> Keep(ord, K)[j]] \in ControlMessage
  BY <1>2 DEF ControlMessage
<1> QED
  BY <1>2, <1>3, <1>4

\* Repeating a sequence of messages adds no other message.
LEMMA RepeatedType ==
    ASSUME NEW S, NEW s \in Seq(S), NEW n \in Nat
    PROVE  Repeated(s, n) \in Seq(S)
<1>1. Len(s) \in Nat /\ n * Len(s) \in Nat
  OBVIOUS
<1>2. \A j \in 1 .. n * Len(s) : s[((j - 1) % Len(s)) + 1] \in S
  <2> TAKE j \in 1 .. n * Len(s)
  <2>1. Len(s) # 0
    BY <1>1
  <2>2. j - 1 \in Int
    BY <1>1
  <2>3. (j - 1) % Len(s) \in 0 .. Len(s) - 1
    BY <1>1, <2>1, <2>2
  <2>4. ((j - 1) % Len(s)) + 1 \in 1 .. Len(s)
    BY <1>1, <2>3
  <2> QED
    BY <2>4
<1> QED
  BY <1>1, <1>2 DEF Repeated

\* An order in which the slots are visited is a sequence of them.
LEMMA IterationOrdersType == IterationOrders \subseteq Seq(Resource)
<1>1. Cardinality(Resource) \in Nat
  BY ConstantsAssumption, FS_CardinalityType
<1> QED
  BY <1>1 DEF IterationOrders

\* Pushing well-formed messages keeps the channels well formed.
LEMMA PushType ==
    ASSUME TypeOK, NEW msgs, \A c \in ClientId : msgs[c] \in Seq(ControlMessage),
           Push(msgs)
    PROVE  control' \in [ClientId -> Seq(ControlMessage)]
<1>1. \A c \in ClientId : control[c] \in Seq(ControlMessage)
  BY DEF TypeOK
<1>2. \A c \in ClientId : control[c] \o msgs[c] \in Seq(ControlMessage)
  BY <1>1
<1> QED
  BY <1>1, <1>2 DEF Push

-----------------------------------------------------------------------------
(* What freeing slots and serving their queues establishes.                *)

\* A queue that grant_next may be given for r.
GoodQueue(r, ws) ==
    /\ ws \in Seq(Waiter)
    /\ Distinct(ws)
    /\ PolicyOf[r] = "FirstOwner" => \A i \in DOMAIN ws : ws[i].seat_claim

\* What grant_next does to one slot: the new owner can be told and no longer
\* waits, and nobody is left waiting on a slot that stays free.
LEMMA NextOwnerProperties ==
    ASSUME NEW r \in Resource, NEW ws, GoodQueue(r, ws), NEW up \in SUBSET ClientId
    PROVE  /\ NextOwner(r, ws, up) \in up \cup {NoClient}
           /\ GoodQueue(r, LeftWaiting(PolicyOf[r], ws, up))
           /\ Within(LeftWaiting(PolicyOf[r], ws, up), ws)
           /\ ~IsQueued(LeftWaiting(PolicyOf[r], ws, up), NextOwner(r, ws, up))
           /\ NextOwner(r, ws, up) = NoClient =>
                  LeftWaiting(PolicyOf[r], ws, up) = <<>>
<1> DEFINE W == Winner(PolicyOf[r], ws, up)
           left == LeftWaiting(PolicyOf[r], ws, up)
<1>1. ws \in Seq(WaiterOf(ClientId)) /\ Distinct(ws)
  BY DEF GoodQueue, Waiter, WaiterOf
<1>2. /\ left \in Seq(WaiterOf(ClientId))
      /\ Within(left, ws)
      /\ Distinct(left)
      /\ \A k \in W : k \in DOMAIN ws /\ ws[k].client \in up
      /\ \A k \in W : ~IsQueued(left, ws[k].client)
      /\ W = {} /\ (\A i \in DOMAIN ws : Poppable(PolicyOf[r], ws[i])) => left = <<>>
  BY <1>1, GrantNextProperties
<1>3. \A i \in DOMAIN ws : Poppable(PolicyOf[r], ws[i])
  BY DEF GoodQueue, Poppable
<1>4. GoodQueue(r, left)
  BY <1>2 DEF GoodQueue, Within, Waiter, WaiterOf
<1>5. NextOwner(r, ws, up) = IF W = {} THEN NoClient ELSE ws[CHOOSE i \in W : TRUE].client
  BY DEF NextOwner
<1> HIDE DEF W, left
<1>6. CASE W = {}
  <2>1. left = <<>> /\ NextOwner(r, ws, up) = NoClient
    BY <1>2, <1>3, <1>5, <1>6
  <2>2. ~IsQueued(left, NextOwner(r, ws, up))
    BY <2>1 DEF IsQueued
  <2> QED
    BY <1>2, <1>4, <2>1, <2>2 DEF left
<1>7. CASE W # {}
  <2>1. PICK k \in W : NextOwner(r, ws, up) = ws[k].client
    BY <1>5, <1>7, Zenon
  <2>2. NextOwner(r, ws, up) # NoClient
    BY <1>2, <2>1, ConstantsAssumption
  <2> QED
    BY <1>2, <1>4, <2>1, <2>2 DEF left
<1> QED
  BY <1>6, <1>7

\* The slots freed and the slots left alone end in a state the invariants
\* allow, provided their queues were good and the others did not lose theirs.
LEMMA FreeAndGrantNextProperties ==
    ASSUME TypeOK, NEW S \in SUBSET Resource, NEW queue, NEW up \in SUBSET ClientId,
           \A r \in Resource : GoodQueue(r, queue[r]),
           \A r \in Resource \ S :
               /\ ~IsQueued(queue[r], owner[r])
               /\ owner[r] = NoClient => queue[r] = <<>>,
           FreeAndGrantNext(S, queue, up)
    PROVE  /\ owner' \in [Resource -> ClientId \cup {NoClient}]
           /\ waiters' \in [Resource -> Seq(Waiter)]
           /\ \A r \in Resource : /\ GoodQueue(r, waiters'[r])
                                  /\ Within(waiters'[r], queue[r])
                                  /\ ~IsQueued(waiters'[r], owner'[r])
                                  /\ owner'[r] = NoClient => waiters'[r] = <<>>
           /\ \A r \in S : owner'[r] \in up \cup {NoClient}
           /\ \A r \in Resource \ S : owner'[r] = owner[r]
<1>1. ASSUME NEW r \in S
      PROVE  /\ owner'[r] = NextOwner(r, queue[r], up)
             /\ waiters'[r] = LeftWaiting(PolicyOf[r], queue[r], up)
  BY DEF FreeAndGrantNext
<1>2. ASSUME NEW r \in Resource \ S
      PROVE  owner'[r] = owner[r] /\ waiters'[r] = queue[r]
  BY DEF FreeAndGrantNext
<1>3. ASSUME NEW r \in S
      PROVE  /\ GoodQueue(r, waiters'[r])
             /\ Within(waiters'[r], queue[r])
             /\ ~IsQueued(waiters'[r], owner'[r])
             /\ owner'[r] = NoClient => waiters'[r] = <<>>
             /\ owner'[r] \in up \cup {NoClient}
  BY <1>1, NextOwnerProperties
<1>4. ASSUME NEW r \in Resource \ S
      PROVE  /\ GoodQueue(r, waiters'[r])
             /\ Within(waiters'[r], queue[r])
             /\ ~IsQueued(waiters'[r], owner'[r])
             /\ owner'[r] = NoClient => waiters'[r] = <<>>
             /\ owner'[r] \in ClientId \cup {NoClient}
  BY <1>2, Zenon DEF Within, TypeOK
<1>5. \A r \in Resource : waiters'[r] \in Seq(Waiter)
  BY <1>3, <1>4 DEF GoodQueue
<1>6. \A r \in Resource : owner'[r] \in ClientId \cup {NoClient}
  BY <1>3, <1>4
<1>7. /\ owner' \in [Resource -> ClientId \cup {NoClient}]
      /\ waiters' \in [Resource -> Seq(Waiter)]
  <2>1. owner' = [r \in Resource |-> owner'[r]] /\ waiters' = [r \in Resource |-> waiters'[r]]
    BY DEF FreeAndGrantNext
  <2> QED
    BY <1>5, <1>6, <2>1
<1> QED
  BY <1>2, <1>3, <1>4, <1>7

-----------------------------------------------------------------------------
(* The inductive invariant, action by action.                              *)

\* Under the invariant every queue is one grant_next may be given.
LEMMA IInvQueues ==
    ASSUME IInv
    PROVE  \A r \in Resource : GoodQueue(r, waiters[r])
BY DEF IInv, TypeOK, QueuedOnce, FirstOwnerQueuesClaims, GoodQueue, Distinct

\* The facts about the slots from which the invariant is put together again.
LEMMA IInvFromSlots ==
    ASSUME conn' \in [ClientId -> {"new", "open", "leaving", "closed", "abandoned"}],
           control_reg' \in SUBSET ClientId,
           control' \in [ClientId -> Seq(ControlMessage)],
           offered' \in SUBSET Resource,
           owner' \in [Resource -> ClientId \cup {NoClient}],
           waiters' \in [Resource -> Seq(Waiter)],
           revoke_deadline' \in [Resource -> NoDeadline .. REVOKE_TIMEOUT],
           suspended' \in [Resource -> BOOLEAN],
           \A r \in Resource :
               /\ GoodQueue(r, waiters'[r])
               /\ ~IsQueued(waiters'[r], owner'[r])
               /\ owner'[r] = NoClient => waiters'[r] = <<>>
               /\ owner'[r] = NoClient => revoke_deadline'[r] = NoDeadline
               /\ owner'[r] \in control_reg' \cup {NoClient}
               /\ \A i \in DOMAIN waiters'[r] : waiters'[r][i].client \in control_reg'
    PROVE  IInv'
<1>1. TypeOK'
  BY DEF TypeOK
<1>2. NoIdleWaiters' /\ OnlyRegisteredHold'
  BY DEF NoIdleWaiters, OnlyRegisteredHold
<1>3. QueuedOnce'
  BY DEF QueuedOnce, GoodQueue, Distinct
<1>4. FirstOwnerQueuesClaims'
  BY DEF FirstOwnerQueuesClaims, GoodQueue
<1> QED
  BY <1>1, <1>2, <1>3, <1>4 DEF IInv

\* The Grants of the slots handed over are well formed.
LEMMA GrantsOfType ==
    ASSUME NEW ord \in Seq(Resource), NEW S
    PROVE  \A c \in ClientId : GrantsOf(ord, S)[c] \in Seq(ControlMessage)
BY MessagesType DEF GrantsOf

\* Acquire that queues: the new waiter does not own the slot, and one that
\* waits for a FirstOwner slot is a claim.
LEMMA AcquireQueuedInv ==
    ASSUME IInv, NEW c \in ClientId, c \in control_reg, NEW r \in Resource,
           AcquireQueued(c, r)
    PROVE  IInv'
<1> DEFINE w == [client |-> c, seat_claim |-> SeatSteal(c, r)]
           ws == Append(waiters[r], w)
           queue == [waiters EXCEPT ![r] = ws]
           revokes == revoke_deadline[r] = NoDeadline
           vanished == revokes /\ owner[r] \notin control_reg
           freed == IF vanished THEN {r} ELSE {}
<1>1. /\ ~Refused(c, r)
      /\ Decision(c, r) \in {"RevokeAndQueue", "Queue"}
      /\ ~IsQueued(waiters[r], c)
      /\ FreeAndGrantNext(freed, queue, Up)
      /\ revoke_deadline' =
             [revoke_deadline EXCEPT ![r] =
                 IF revokes /\ ~vanished THEN REVOKE_TIMEOUT ELSE @]
      /\ UNCHANGED <<conn, control_reg, offered, suspended>>
  BY DEF AcquireQueued
<1>2. TypeOK
  BY DEF IInv
<1>3. w \in Waiter /\ w.client = c
  BY DEF Waiter, SeatSteal
<1>4. PolicyOf[r] \in Policies
  BY ConstantsAssumption
<1>5. owner[r] # NoClient
  BY <1>1, <1>4 DEF Decision, SeatSteal, State, Decide
<1>6. PolicyOf[r] = "FirstOwner" => w.seat_claim
  BY <1>1, <1>5 DEF Decision, State, Decide
<1>7. GoodQueue(r, waiters[r])
  BY IInvQueues
<1>8. GoodQueue(r, ws)
  <2>1. ws \in Seq(Waiter) /\ DOMAIN ws = 1 .. Len(waiters[r]) + 1
    BY <1>2, <1>3 DEF TypeOK
  <2>2. \A i \in DOMAIN ws :
            \/ i \in DOMAIN waiters[r] /\ ws[i] = waiters[r][i]
            \/ i = Len(waiters[r]) + 1 /\ ws[i] = w
    BY <1>2, <1>3 DEF TypeOK
  <2> HIDE DEF ws, w
  <2> QED
    BY <1>1, <1>3, <1>6, <1>7, <2>1, <2>2 DEF GoodQueue, Distinct, IsQueued
<1>9. \A i \in DOMAIN ws : ws[i].client \in control_reg
  <2>1. \A i \in DOMAIN ws : ws[i] = w \/ \E j \in DOMAIN waiters[r] : ws[i] = waiters[r][j]
    BY <1>2, <1>3 DEF TypeOK
  <2> QED
    BY <1>3, <2>1 DEF IInv, OnlyRegisteredHold
<1>10. ~IsQueued(ws, owner[r])
  <2>1. \A i \in DOMAIN ws : ws[i] = w \/ \E j \in DOMAIN waiters[r] : ws[i] = waiters[r][j]
    BY <1>2, <1>3 DEF TypeOK
  <2>2. owner[r] # c
    BY <1>1 DEF Refused
  <2> QED
    BY <1>3, <2>1, <2>2 DEF IsQueued, IInv, QueuedOnce
<1> HIDE DEF ws, w
<1>11. /\ \A q \in Resource : queue[q] = IF q = r THEN ws ELSE waiters[q]
       /\ \A q \in Resource : GoodQueue(q, queue[q])
  BY <1>2, <1>8, IInvQueues DEF TypeOK
<1>12. \A q \in Resource \ freed :
           /\ ~IsQueued(queue[q], owner[q])
           /\ owner[q] = NoClient => queue[q] = <<>>
  BY <1>5, <1>10, <1>11 DEF IInv, QueuedOnce, NoIdleWaiters
<1>13. Up \in SUBSET control_reg /\ Up \in SUBSET ClientId
  BY <1>2 DEF Up, TypeOK
<1>14. freed \in SUBSET Resource
  OBVIOUS
<1> HIDE DEF queue, freed
<1>15. /\ owner' \in [Resource -> ClientId \cup {NoClient}]
       /\ waiters' \in [Resource -> Seq(Waiter)]
       /\ \A q \in Resource : /\ GoodQueue(q, waiters'[q])
                              /\ Within(waiters'[q], queue[q])
                              /\ ~IsQueued(waiters'[q], owner'[q])
                              /\ owner'[q] = NoClient => waiters'[q] = <<>>
       /\ \A q \in freed : owner'[q] \in Up \cup {NoClient}
       /\ \A q \in Resource \ freed : owner'[q] = owner[q]
  BY <1>1, <1>2, <1>11, <1>12, <1>13, <1>14, FreeAndGrantNextProperties, Zenon
<1>16. \A q \in Resource : owner'[q] \in control_reg \cup {NoClient}
  BY <1>13, <1>15 DEF IInv, OnlyRegisteredHold
<1>17. \A q \in Resource : \A i \in DOMAIN waiters'[q] : waiters'[q][i].client \in control_reg
  BY <1>9, <1>11, <1>15 DEF Within, IInv, OnlyRegisteredHold
<1>18. control' \in [ClientId -> Seq(ControlMessage)]
  <2> DEFINE asked(o) == IF revokes /\ ~vanished /\ owner[r] = o THEN {r} ELSE {}
             msgs == [o \in ClientId |-> GrantsOf(<<r>>, freed)[o] \o
                                         Messages("Revoke", <<r>>, asked(o))]
  <2>1. Push(msgs)
    BY DEF AcquireQueued, freed
  <2>2. <<r>> \in Seq(Resource)
    OBVIOUS
  <2> HIDE DEF asked
  <2>3. \A o \in ClientId : msgs[o] \in Seq(ControlMessage)
    <3> TAKE o \in ClientId
    <3>1. GrantsOf(<<r>>, freed)[o] \in Seq(ControlMessage)
      BY <2>2, GrantsOfType, Zenon
    <3>2. Messages("Revoke", <<r>>, asked(o)) \in Seq(ControlMessage)
      BY <2>2, MessagesType, Zenon
    <3> QED
      BY <3>1, <3>2
  <2> HIDE DEF msgs
  <2> QED
    BY <1>2, <2>1, <2>3, PushType
<1>19. revoke_deadline' \in [Resource -> NoDeadline .. REVOKE_TIMEOUT]
  BY <1>1, <1>2, ConstantsAssumption DEF TypeOK, NoDeadline
<1>20. \A q \in Resource : owner'[q] = NoClient => revoke_deadline'[q] = NoDeadline
  <2> SUFFICES ASSUME NEW q \in Resource, owner'[q] = NoClient
               PROVE  revoke_deadline'[q] = NoDeadline
    OBVIOUS
  <2>1. CASE q = r
    <3>1. vanished
      BY <1>5, <1>15, <2>1 DEF freed
    <3> QED
      BY <1>1, <1>2, <2>1, <3>1 DEF TypeOK
  <2>2. CASE q # r
    <3>1. owner[q] = NoClient
      BY <1>15, <2>2 DEF freed
    <3> QED
      BY <1>1, <1>2, <2>2, <3>1 DEF TypeOK, IInv, NoIdleWaiters
  <2> QED
    BY <2>1, <2>2
<1> HIDE DEF revokes, vanished
<1> QED
  BY <1>1, <1>2, <1>15, <1>16, <1>17, <1>18, <1>19, <1>20, IInvFromSlots DEF TypeOK

\* Release by the owner: it is requeued at most once, then the queue is served.
LEMMA ReleaseOwnedInv ==
    ASSUME IInv, NEW c \in ClientId, c \in control_reg, NEW r \in Resource,
           ReleaseOwned(c, r)
    PROVE  IInv'
<1> DEFINE revoking == revoke_deadline[r] # NoDeadline
           w == [client |-> c, seat_claim |-> FALSE]
           ws == IF revoking /\ waiters[r] # <<>>
                 THEN RequeueWaiter(PolicyOf[r], waiters[r], w)
                 ELSE waiters[r]
           queue == [waiters EXCEPT ![r] = ws]
           inputs == IF r \in Display THEN SeatInputs(c) ELSE {}
<1>1. /\ owner[r] = c
      /\ FreeAndGrantNext({r}, queue, Up)
      /\ revoke_deadline' =
             [i \in Resource |-> IF i \in inputs THEN REVOKE_TIMEOUT
                                 ELSE IF i = r THEN NoDeadline
                                 ELSE revoke_deadline[i]]
      /\ UNCHANGED <<conn, control_reg, offered, suspended>>
  BY DEF ReleaseOwned
<1>2. TypeOK
  BY DEF IInv
<1>3. GoodQueue(r, waiters[r]) /\ ~IsQueued(waiters[r], c)
  BY <1>1, IInvQueues DEF IInv, QueuedOnce
<1>4. w \in WaiterOf(ClientId) /\ w.client = c
  BY DEF WaiterOf
<1>5. /\ GoodQueue(r, ws)
      /\ \A i \in DOMAIN ws : ws[i].client \in control_reg
  <2>1. \A i \in DOMAIN waiters[r] : waiters[r][i].client \in control_reg
    BY DEF IInv, OnlyRegisteredHold
  <2>2. waiters[r] \in Seq(WaiterOf(ClientId)) /\ PolicyOf[r] \in Policies
    BY <1>2, ConstantsAssumption, Zenon DEF TypeOK, Waiter, WaiterOf
  <2> DEFINE t == RequeueWaiter(PolicyOf[r], waiters[r], w)
  <2>3. /\ t \in Seq(WaiterOf(ClientId))
        /\ \A j \in DOMAIN t : \/ PolicyOf[r] # "FirstOwner" /\ t[j] = w
                               \/ \E i \in DOMAIN waiters[r] : t[j] = waiters[r][i]
        /\ Distinct(waiters[r]) /\ ~IsQueued(waiters[r], w.client) => Distinct(t)
    BY <1>4, <2>2, RequeueProperties, Zenon
  <2> HIDE DEF t, w
  <2>4. GoodQueue(r, t) /\ \A i \in DOMAIN t : t[i].client \in control_reg
    BY <1>3, <1>4, <2>1, <2>3 DEF GoodQueue, Waiter, WaiterOf
  <2> QED
    BY <1>3, <2>1, <2>4 DEF t
<1> HIDE DEF ws
<1>6. /\ \A q \in Resource : queue[q] = IF q = r THEN ws ELSE waiters[q]
      /\ \A q \in Resource : GoodQueue(q, queue[q])
  BY <1>2, <1>5, IInvQueues DEF TypeOK
<1>7. \A q \in Resource \ {r} : /\ ~IsQueued(queue[q], owner[q])
                                /\ owner[q] = NoClient => queue[q] = <<>>
  BY <1>6 DEF IInv, QueuedOnce, NoIdleWaiters
<1>8. Up \in SUBSET control_reg /\ Up \in SUBSET ClientId
  BY <1>2 DEF Up, TypeOK
<1> HIDE DEF queue
<1>9. /\ owner' \in [Resource -> ClientId \cup {NoClient}]
      /\ waiters' \in [Resource -> Seq(Waiter)]
      /\ \A q \in Resource : /\ GoodQueue(q, waiters'[q])
                             /\ Within(waiters'[q], queue[q])
                             /\ ~IsQueued(waiters'[q], owner'[q])
                             /\ owner'[q] = NoClient => waiters'[q] = <<>>
      /\ owner'[r] \in Up \cup {NoClient}
      /\ \A q \in Resource \ {r} : owner'[q] = owner[q]
  BY <1>1, <1>2, <1>6, <1>7, <1>8, FreeAndGrantNextProperties, Zenon
<1>10. \A q \in Resource : owner'[q] \in control_reg \cup {NoClient}
  BY <1>8, <1>9 DEF IInv, OnlyRegisteredHold
<1>11. \A q \in Resource : \A i \in DOMAIN waiters'[q] : waiters'[q][i].client \in control_reg
  BY <1>5, <1>6, <1>9 DEF Within, IInv, OnlyRegisteredHold
<1>12. \A i \in inputs : owner'[i] = c
  BY DEF SeatInputs
<1>13. control' \in [ClientId -> Seq(ControlMessage)]
  <2> DEFINE asked(o) == IF o = c THEN inputs ELSE {}
             msgs(ord) == [o \in ClientId |-> GrantsOf(ord, {r})[o] \o
                                              Messages("Revoke", ord, asked(o))]
  <2>1. PICK ord \in IterationOrders : Push(msgs(ord))
    BY Zenon DEF ReleaseOwned
  <2>2. ord \in Seq(Resource)
    BY IterationOrdersType
  <2> HIDE DEF asked
  <2>3. \A o \in ClientId : msgs(ord)[o] \in Seq(ControlMessage)
    <3> TAKE o \in ClientId
    <3>1. GrantsOf(ord, {r})[o] \in Seq(ControlMessage)
      BY <2>2, GrantsOfType
    <3>2. Messages("Revoke", ord, asked(o)) \in Seq(ControlMessage)
      BY <2>2, MessagesType
    <3> QED
      BY <3>1, <3>2
  <2> HIDE DEF msgs
  <2> QED
    BY <1>2, <2>1, <2>3, PushType
<1> HIDE DEF inputs
<1>14. revoke_deadline' \in [Resource -> NoDeadline .. REVOKE_TIMEOUT]
  BY <1>1, <1>2, ConstantsAssumption DEF TypeOK, NoDeadline
<1>15. \A q \in Resource : owner'[q] = NoClient => revoke_deadline'[q] = NoDeadline
  BY <1>1, <1>9, <1>12, ConstantsAssumption, Zenon DEF IInv, NoIdleWaiters
<1> QED
  BY <1>1, <1>2, <1>9, <1>10, <1>11, <1>13, <1>14, <1>15, IInvFromSlots DEF TypeOK

\* The timeout branch: every elapsed slot is freed and its queue served.
LEMMA ForceReclaimInv ==
    ASSUME IInv, ForceReclaim
    PROVE  IInv'
<1> DEFINE losers == {o \in ClientId : SeatsLost(o) > 0}
           asked == UNION {SeatInputs(c) : c \in losers}
<1>1. /\ FreeAndGrantNext(Expired, waiters, Up)
      /\ revoke_deadline' =
             [r \in Resource |-> IF r \in asked THEN REVOKE_TIMEOUT
                                 ELSE IF r \in Expired THEN NoDeadline
                                 ELSE revoke_deadline[r]]
      /\ UNCHANGED <<conn, control_reg, offered, suspended>>
  BY DEF ForceReclaim
<1>2. TypeOK
  BY DEF IInv
<1>3. \A q \in Resource : GoodQueue(q, waiters[q])
  BY IInvQueues
<1>4. \A q \in Resource \ Expired : /\ ~IsQueued(waiters[q], owner[q])
                                    /\ owner[q] = NoClient => waiters[q] = <<>>
  BY DEF IInv, QueuedOnce, NoIdleWaiters
<1>5. Up \in SUBSET control_reg /\ Up \in SUBSET ClientId /\ Expired \in SUBSET Resource
  BY <1>2 DEF Up, TypeOK, Expired
<1>6. /\ owner' \in [Resource -> ClientId \cup {NoClient}]
      /\ waiters' \in [Resource -> Seq(Waiter)]
      /\ \A q \in Resource : /\ GoodQueue(q, waiters'[q])
                             /\ Within(waiters'[q], waiters[q])
                             /\ ~IsQueued(waiters'[q], owner'[q])
                             /\ owner'[q] = NoClient => waiters'[q] = <<>>
      /\ \A q \in Expired : owner'[q] \in Up \cup {NoClient}
      /\ \A q \in Resource \ Expired : owner'[q] = owner[q]
  BY <1>1, <1>2, <1>3, <1>4, <1>5, FreeAndGrantNextProperties, Zenon
<1>7. \A q \in Resource : owner'[q] \in control_reg \cup {NoClient}
  BY <1>5, <1>6 DEF IInv, OnlyRegisteredHold
<1>8. \A q \in Resource : \A i \in DOMAIN waiters'[q] : waiters'[q][i].client \in control_reg
  BY <1>6 DEF Within, IInv, OnlyRegisteredHold
<1>9. \A q \in asked : owner'[q] \in ClientId
  BY DEF SeatInputs
<1>10. control' \in [ClientId -> Seq(ControlMessage)]
  <2> DEFINE msgs(ord) ==
               [c \in ClientId |->
                  GrantsOf(ord, Expired)[c] \o
                  Repeated(Messages("Revoke", ord, SeatInputs(c)), SeatsLost(c))]
  <2>1. PICK ord \in IterationOrders : Push(msgs(ord))
    BY Zenon DEF ForceReclaim
  <2>2. ord \in Seq(Resource)
    BY IterationOrdersType
  <2>3. \A c \in ClientId : msgs(ord)[c] \in Seq(ControlMessage)
    <3> TAKE c \in ClientId
    <3>1. GrantsOf(ord, Expired)[c] \in Seq(ControlMessage)
      BY <2>2, GrantsOfType
    <3>2. Messages("Revoke", ord, SeatInputs(c)) \in Seq(ControlMessage)
      BY <2>2, MessagesType
    <3>3. SeatsLost(c) \in Nat
      <4> DEFINE lost == {d \in Expired \cap Display : owner[d] = c}
      <4>1. lost \in SUBSET Resource
        BY DEF Resource
      <4>2. IsFiniteSet(lost)
        BY <4>1, ConstantsAssumption, FS_Subset
      <4> QED
        BY <4>2, FS_CardinalityType DEF SeatsLost
    <3>4. Repeated(Messages("Revoke", ord, SeatInputs(c)), SeatsLost(c)) \in Seq(ControlMessage)
      BY <3>2, <3>3, RepeatedType
    <3> QED
      BY <3>1, <3>4
  <2> HIDE DEF msgs
  <2> QED
    BY <1>2, <2>1, <2>3, PushType
<1> HIDE DEF asked
<1>11. revoke_deadline' \in [Resource -> NoDeadline .. REVOKE_TIMEOUT]
  BY <1>1, <1>2, ConstantsAssumption DEF TypeOK, NoDeadline
<1>12. \A q \in Resource : owner'[q] = NoClient => revoke_deadline'[q] = NoDeadline
  BY <1>1, <1>6, <1>9, ConstantsAssumption, Zenon DEF IInv, NoIdleWaiters
<1> QED
  BY <1>1, <1>2, <1>6, <1>7, <1>8, <1>10, <1>11, <1>12, IInvFromSlots DEF TypeOK

\* Disconnected: the client leaves every queue and every slot it owns.
LEMMA DisconnectedInv ==
    ASSUME IInv, NEW c \in ClientId, Disconnected(c)
    PROVE  IInv'
<1> DEFINE owned == {r \in Resource : owner[r] = c}
           queue == [r \in Resource |-> Without(waiters[r], c)]
<1>1. /\ control_reg' = control_reg \ {c}
      /\ FreeAndGrantNext(owned, queue, Up \ {c})
      /\ revoke_deadline' =
             [r \in Resource |-> IF r \in owned THEN NoDeadline ELSE revoke_deadline[r]]
      /\ UNCHANGED <<conn, offered, suspended>>
  BY DEF Disconnected
<1>2. TypeOK
  BY DEF IInv
<1>3. \A q \in Resource : /\ GoodQueue(q, queue[q])
                          /\ Within(queue[q], waiters[q])
                          /\ ~IsQueued(queue[q], c)
                          /\ waiters[q] = <<>> => queue[q] = <<>>
  <2> TAKE q \in Resource
  <2>1. GoodQueue(q, waiters[q])
    BY IInvQueues
  <2>2. waiters[q] \in Seq(WaiterOf(ClientId)) /\ Distinct(waiters[q])
    BY <2>1 DEF GoodQueue, Waiter, WaiterOf
  <2>3. queue[q] = Without(waiters[q], c)
    OBVIOUS
  <2>4. /\ queue[q] \in Seq(WaiterOf(ClientId))
        /\ Within(queue[q], waiters[q])
        /\ ~IsQueued(queue[q], c)
        /\ Distinct(queue[q])
        /\ waiters[q] = <<>> => queue[q] = <<>>
    BY <2>2, <2>3, WithoutProperties
  <2> HIDE DEF queue
  <2> QED
    BY <2>1, <2>4 DEF GoodQueue, Within, Waiter, WaiterOf
<1> HIDE DEF queue
<1>4. \A q \in Resource \ owned : /\ ~IsQueued(queue[q], owner[q])
                                  /\ owner[q] = NoClient => queue[q] = <<>>
  <2> TAKE q \in Resource \ owned
  <2>1. ~IsQueued(waiters[q], owner[q]) /\ (owner[q] = NoClient => waiters[q] = <<>>)
    BY DEF IInv, QueuedOnce, NoIdleWaiters
  <2>2. Within(queue[q], waiters[q]) /\ (waiters[q] = <<>> => queue[q] = <<>>)
    BY <1>3
  <2>3. ~IsQueued(queue[q], owner[q])
    BY <2>1, <2>2 DEF IsQueued, Within
  <2> QED
    BY <2>1, <2>2, <2>3
<1>5. /\ Up \ {c} \in SUBSET (control_reg \ {c})
      /\ Up \ {c} \in SUBSET ClientId
      /\ owned \in SUBSET Resource
  BY <1>2 DEF Up, TypeOK
<1>6. \A q \in Resource \ owned : owner[q] # c
  OBVIOUS
<1>7. control' \in [ClientId -> Seq(ControlMessage)]
  <2>1. PICK ord \in IterationOrders : Push(GrantsOf(ord, owned))
    BY DEF Disconnected
  <2>2. ord \in Seq(Resource)
    BY IterationOrdersType
  <2>3. \A o \in ClientId : GrantsOf(ord, owned)[o] \in Seq(ControlMessage)
    BY <2>2, GrantsOfType
  <2> QED
    BY <1>2, <2>1, <2>3, PushType
<1> HIDE DEF owned
<1> DEFINE up == Up \ {c}
<1>u. up \in SUBSET ClientId /\ FreeAndGrantNext(owned, queue, up)
  BY <1>1, <1>5
<1> HIDE DEF up
<1>8. /\ owner' \in [Resource -> ClientId \cup {NoClient}]
      /\ waiters' \in [Resource -> Seq(Waiter)]
      /\ \A q \in Resource : /\ GoodQueue(q, waiters'[q])
                             /\ Within(waiters'[q], queue[q])
                             /\ ~IsQueued(waiters'[q], owner'[q])
                             /\ owner'[q] = NoClient => waiters'[q] = <<>>
      /\ \A q \in owned : owner'[q] \in up \cup {NoClient}
      /\ \A q \in Resource \ owned : owner'[q] = owner[q]
  BY <1>u, <1>2, <1>3, <1>4, <1>5, FreeAndGrantNextProperties, Zenon
<1>9. \A q \in Resource : owner'[q] \in control_reg' \cup {NoClient}
  BY <1>1, <1>5, <1>6, <1>8 DEF IInv, OnlyRegisteredHold, up
<1>10. \A q \in Resource : \A i \in DOMAIN waiters'[q] : waiters'[q][i].client \in control_reg'
  <2> TAKE q \in Resource
  <2> TAKE i \in DOMAIN waiters'[q]
  <2>1. PICK j \in DOMAIN queue[q] : waiters'[q][i] = queue[q][j]
    BY <1>8 DEF Within
  <2>2. PICK k \in DOMAIN waiters[q] : queue[q][j] = waiters[q][k]
    BY <1>3 DEF Within
  <2>3. queue[q][j].client # c
    BY <1>3 DEF IsQueued
  <2>4. waiters[q][k].client \in control_reg
    BY DEF IInv, OnlyRegisteredHold
  <2> QED
    BY <1>1, <2>1, <2>2, <2>3, <2>4
<1>11. revoke_deadline' \in [Resource -> NoDeadline .. REVOKE_TIMEOUT]
  BY <1>1, <1>2, ConstantsAssumption DEF TypeOK, NoDeadline
<1>12. \A q \in Resource : owner'[q] = NoClient => revoke_deadline'[q] = NoDeadline
  BY <1>1, <1>8 DEF IInv, NoIdleWaiters
<1>13. control_reg' \in SUBSET ClientId
  BY <1>1, <1>2 DEF TypeOK
<1> QED
  BY <1>1, <1>2, <1>7, <1>8, <1>9, <1>10, <1>11, <1>12, <1>13, IInvFromSlots, Zenon DEF TypeOK

\* A step that leaves owners and queues alone keeps the invariant if it starts
\* no revoke where there was none and unregisters nobody.
LEMMA SameSlotsInv ==
    ASSUME IInv,
           conn' \in [ClientId -> {"new", "open", "leaving", "closed", "abandoned"}],
           control_reg' \in SUBSET ClientId,
           control_reg \subseteq control_reg',
           control' \in [ClientId -> Seq(ControlMessage)],
           offered' \in SUBSET Resource,
           owner' = owner,
           waiters' = waiters,
           revoke_deadline' \in [Resource -> NoDeadline .. REVOKE_TIMEOUT],
           \A r \in Resource : revoke_deadline[r] = NoDeadline => revoke_deadline'[r] = NoDeadline,
           suspended' \in [Resource -> BOOLEAN]
    PROVE  IInv'
<1>1. TypeOK'
  BY DEF IInv, TypeOK
<1>2. NoIdleWaiters'
  BY DEF IInv, NoIdleWaiters
<1>3. QueuedOnce'
  <2>1. QueuedOnce
    BY DEF IInv
  <2> QED
    BY <2>1 DEF QueuedOnce, IsQueued
<1>4. OnlyRegisteredHold'
  BY DEF IInv, OnlyRegisteredHold
<1>5. FirstOwnerQueuesClaims'
  BY DEF IInv, FirstOwnerQueuesClaims
<1> QED
  BY <1>1, <1>2, <1>3, <1>4, <1>5 DEF IInv

\* A slot is granted by reply only when it is free, so when nobody waits.
LEMMA AcquireGrantedInv ==
    ASSUME IInv, NEW c \in ClientId, c \in control_reg, NEW r \in Resource,
           AcquireGranted(c, r)
    PROVE  IInv'
<1>1. TypeOK
  BY DEF IInv
<1>2. owner[r] = NoClient
  <2>1. PolicyOf[r] \in Policies
    BY ConstantsAssumption
  <2>2. Decision(c, r) = "Grant"
    BY DEF AcquireGranted
  <2> QED
    BY <2>1, <2>2 DEF Decision, Decide, State, Policies
<1>3. waiters[r] = <<>> /\ revoke_deadline[r] = NoDeadline
  BY <1>2 DEF IInv, NoIdleWaiters
<1>4. /\ owner' = [owner EXCEPT ![r] = c]
      /\ UNCHANGED <<conn, control_reg, control, offered, waiters, revoke_deadline, suspended>>
  BY DEF AcquireGranted
<1>5. TypeOK'
  BY <1>1, <1>4 DEF TypeOK
<1>6. NoIdleWaiters'
  BY <1>1, <1>3, <1>4, Zenon DEF IInv, NoIdleWaiters, TypeOK
<1>7. QueuedOnce'
  <2>1. \A q \in Resource : owner'[q] = owner[q] \/ waiters[q] = <<>>
    BY <1>1, <1>3, <1>4 DEF TypeOK
  <2>2. QueuedOnce
    BY DEF IInv
  <2> QED
    BY <1>4, <2>1, <2>2 DEF QueuedOnce, IsQueued
<1>8. OnlyRegisteredHold'
  BY <1>1, <1>4 DEF IInv, OnlyRegisteredHold, TypeOK
<1>9. FirstOwnerQueuesClaims'
  BY <1>4 DEF IInv, FirstOwnerQueuesClaims
<1> QED
  BY <1>5, <1>6, <1>7, <1>8, <1>9 DEF IInv

\* The commands of the hot-plug task.  Resume keeps its owner, which has a
\* control channel.
LEMMA HotplugInv ==
    ASSUME IInv, HotplugCommand
    PROVE  IInv'
<1>1. TypeOK
  BY DEF IInv
<1>2. ASSUME NEW r \in Input, Suspend(r) PROVE IInv'
  <2>1. NoDeadline \in NoDeadline .. REVOKE_TIMEOUT
    BY ConstantsAssumption DEF NoDeadline
  <2>2. /\ revoke_deadline' = [revoke_deadline EXCEPT ![r] = NoDeadline]
        /\ suspended' = [suspended EXCEPT ![r] = TRUE]
        /\ UNCHANGED <<conn, control_reg, control, offered, owner, waiters>>
    BY <1>2 DEF Suspend
  <2>3. /\ revoke_deadline' \in [Resource -> NoDeadline .. REVOKE_TIMEOUT]
        /\ \A q \in Resource : revoke_deadline[q] = NoDeadline => revoke_deadline'[q] = NoDeadline
    BY <1>1, <2>1, <2>2, Zenon DEF TypeOK
  <2>4. suspended' \in [Resource -> BOOLEAN]
    BY <1>1, <2>2, Zenon DEF TypeOK
  <2> QED
    BY <1>1, <2>2, <2>3, <2>4, SameSlotsInv DEF TypeOK
<1>3. ASSUME NEW r \in Input, Resume(r) PROVE IInv'
  <2> DEFINE told(o) == IF owner[r] = o THEN {r} ELSE {}
             msgs == [o \in ClientId |-> Messages("Grant", <<r>>, told(o))]
  <2>1. /\ suspended' = [suspended EXCEPT ![r] = FALSE]
        /\ owner' = [owner EXCEPT ![r] = IF owner[r] \in control_reg THEN @ ELSE NoClient]
        /\ Push(msgs)
        /\ UNCHANGED <<conn, control_reg, offered, waiters, revoke_deadline>>
    BY <1>3 DEF Resume
  <2>2. r \in Resource
    BY DEF Resource
  <2>3. owner' = owner
    BY <1>1, <2>1, <2>2 DEF IInv, OnlyRegisteredHold, TypeOK
  <2>4. suspended' \in [Resource -> BOOLEAN]
    BY <1>1, <2>1, Zenon DEF TypeOK
  <2> HIDE DEF told
  <2>5. \A o \in ClientId : msgs[o] \in Seq(ControlMessage)
    <3> TAKE o \in ClientId
    <3>1. <<r>> \in Seq(Resource)
      BY <2>2
    <3>2. Messages("Grant", <<r>>, told(o)) \in Seq(ControlMessage)
      BY <3>1, MessagesType, Zenon
    <3> QED
      BY <3>2
  <2> HIDE DEF msgs
  <2>6. control' \in [ClientId -> Seq(ControlMessage)]
    BY <1>1, <2>1, <2>5, PushType
  <2> QED
    BY <1>1, <2>1, <2>3, <2>4, <2>6, SameSlotsInv DEF TypeOK
<1>4. ASSUME NEW r \in Input, Offer(r) PROVE IInv'
  <2>1. /\ offered' = offered \cup {r}
        /\ UNCHANGED <<conn, control_reg, control, owner, waiters, revoke_deadline, suspended>>
    BY <1>4 DEF Offer
  <2>2. offered' \in SUBSET Resource
    BY <1>1, <2>1 DEF TypeOK, Resource
  <2> QED
    BY <1>1, <2>1, <2>2, SameSlotsInv DEF TypeOK
<1>5. ASSUME NEW list \in Advertisements, Broadcast(list) PROVE IInv'
  <2> DEFINE msgs == [o \in ClientId |-> <<[type |-> "Advertise", resources |-> list]>>]
  <2>1. /\ Push(msgs)
        /\ UNCHANGED <<conn, control_reg, offered, owner, waiters, revoke_deadline, suspended>>
    BY <1>5 DEF Broadcast, slotVars
  <2>2. \A o \in ClientId : msgs[o] \in Seq(ControlMessage)
    BY DEF ControlMessage
  <2> HIDE DEF msgs
  <2>3. control' \in [ClientId -> Seq(ControlMessage)]
    BY <1>1, <2>1, <2>2, PushType
  <2> QED
    BY <1>1, <2>1, <2>3, SameSlotsInv DEF TypeOK
<1> QED
  BY <1>2, <1>3, <1>4, <1>5 DEF HotplugCommand

\* What the connection tasks and the clock do.
LEMMA ConnectionInv ==
    ASSUME IInv, NEW c \in ClientId, Register(c) \/ Connection(c)
    PROVE  IInv'
<1>1. TypeOK
  BY DEF IInv
<1>2. CASE Register(c)
  <2>1. /\ control_reg' = control_reg \cup {c}
        /\ UNCHANGED <<control, offered, owner, waiters, revoke_deadline, suspended>>
    BY <1>2 DEF Register, slotVars
  <2>2. conn' \in [ClientId -> {"new", "open", "leaving", "closed", "abandoned"}]
    BY <1>1, <1>2 DEF Register, TypeOK
  <2> QED
    BY <1>1, <2>1, <2>2, SameSlotsInv DEF TypeOK
<1>3. CASE Receive(c)
  <2>1. /\ control[c] # <<>>
        /\ control' = [control EXCEPT ![c] = Tail(@)]
        /\ UNCHANGED <<conn, control_reg, offered, owner, waiters, revoke_deadline, suspended>>
    BY <1>3 DEF Receive, slotVars
  <2>2. control[c] \in Seq(ControlMessage)
    BY <1>1 DEF TypeOK
  <2>3. Tail(control[c]) \in Seq(ControlMessage)
    BY <2>1, <2>2
  <2>4. control' \in [ClientId -> Seq(ControlMessage)]
    BY <1>1, <2>1, <2>3 DEF TypeOK
  <2> QED
    BY <1>1, <2>1, <2>4, SameSlotsInv DEF TypeOK
<1>4. CASE Hangup(c) \/ DropReceiver(c) \/ Abandon(c)
  <2>1. /\ conn' \in [ClientId -> {"new", "open", "leaving", "closed", "abandoned"}]
        /\ control' \in [ClientId -> Seq(ControlMessage)]
        /\ UNCHANGED <<control_reg, offered, owner, waiters, revoke_deadline, suspended>>
    <3>1. \A x \in {"leaving", "closed", "abandoned"} :
              [conn EXCEPT ![c] = x]
                  \in [ClientId -> {"new", "open", "leaving", "closed", "abandoned"}]
      BY <1>1 DEF TypeOK
    <3>2. /\ control \in [ClientId -> Seq(ControlMessage)]
          /\ [control EXCEPT ![c] = <<>>] \in [ClientId -> Seq(ControlMessage)]
      BY <1>1 DEF TypeOK
    <3> QED
      BY <1>4, <3>1, <3>2, Zenon DEF Hangup, DropReceiver, Abandon, slotVars
  <2> QED
    BY <1>1, <2>1, SameSlotsInv DEF TypeOK
<1> QED
  BY <1>2, <1>3, <1>4 DEF Connection

\* A tick of the clock moves deadlines and nothing else.
LEMMA TickInv ==
    ASSUME IInv, Tick
    PROVE  IInv'
<1>1. TypeOK
  BY DEF IInv
<1>2. /\ revoke_deadline' = [r \in Resource |-> IF revoke_deadline[r] > 0
                                                THEN revoke_deadline[r] - 1
                                                ELSE revoke_deadline[r]]
      /\ UNCHANGED <<conn, control_reg, control, offered, owner, waiters, suspended>>
  BY DEF Tick
<1>3. \A r \in Resource : revoke_deadline[r] \in NoDeadline .. REVOKE_TIMEOUT
  BY <1>1 DEF TypeOK
<1>4. /\ revoke_deadline' \in [Resource -> NoDeadline .. REVOKE_TIMEOUT]
      /\ \A q \in Resource : revoke_deadline[q] = NoDeadline => revoke_deadline'[q] = NoDeadline
  BY <1>2, <1>3, ConstantsAssumption DEF NoDeadline
<1> QED
  BY <1>1, <1>2, <1>4, SameSlotsInv DEF TypeOK

\* A refused, repeated or ignored request changes nothing.
LEMMA UnchangedInv ==
    ASSUME IInv, UNCHANGED vars
    PROVE  IInv'
<1>1. TypeOK
  BY DEF IInv
<1>2. UNCHANGED <<conn, control_reg, control, offered, owner, waiters,
                  revoke_deadline, suspended>>
  BY DEF vars, slotVars
<1> QED
  BY <1>1, <1>2, SameSlotsInv DEF TypeOK

\* When the daemon starts every slot is free and every queue is empty.
LEMMA InitInv == Init => IInv
<1> SUFFICES ASSUME Init PROVE IInv
  OBVIOUS
<1>1. TypeOK
  BY ConstantsAssumption DEF Init, TypeOK, NoDeadline
<1>2. NoIdleWaiters
  BY DEF Init, NoIdleWaiters
<1>3. QueuedOnce
  BY DEF Init, QueuedOnce, IsQueued
<1>4. OnlyRegisteredHold
  BY DEF Init, OnlyRegisteredHold
<1>5. FirstOwnerQueuesClaims
  BY DEF Init, FirstOwnerQueuesClaims
<1> QED
  BY <1>1, <1>2, <1>3, <1>4, <1>5 DEF IInv

\* Every command, every timeout and every step of a connection keeps the
\* invariant.
LEMMA NextInv ==
    ASSUME IInv, [Next]_vars
    PROVE  IInv'
<1>1. ASSUME NEW c \in ClientId, ClientCommand(c) PROVE IInv'
  <2>1. CASE Register(c)
    BY <2>1, ConnectionInv
  <2>2. CASE Disconnected(c)
    BY <2>2, DisconnectedInv
  <2>3. ASSUME NEW r \in Resource, Release(c, r) PROVE IInv'
    <3>1. CASE ReleaseIgnored(c, r)
      BY <3>1, UnchangedInv DEF ReleaseIgnored
    <3>2. CASE ReleaseOwned(c, r)
      BY <2>3, <3>2, ReleaseOwnedInv DEF Release
    <3> QED
      BY <2>3, <3>1, <3>2 DEF Release
  <2>4. ASSUME NEW r \in Resource, NEW outcome \in Outcome, Acquire(c, r, outcome)
        PROVE  IInv'
    <3>1. CASE AcquireDenied(c, r) \/ AcquireAgain(c, r)
      BY <3>1, UnchangedInv DEF AcquireDenied, AcquireAgain
    <3>2. CASE AcquireGranted(c, r)
      BY <2>4, <3>2, AcquireGrantedInv DEF Acquire
    <3>3. CASE AcquireQueued(c, r)
      BY <2>4, <3>3, AcquireQueuedInv DEF Acquire
    <3> QED
      BY <2>4, <3>1, <3>2, <3>3 DEF Acquire
  <2> QED
    BY <1>1, <2>1, <2>2, <2>3, <2>4 DEF ClientCommand
<1>2. ASSUME NEW c \in ClientId, Connection(c) PROVE IInv'
  BY <1>2, ConnectionInv
<1>3. CASE HotplugCommand
  BY <1>3, HotplugInv
<1>4. CASE Tick
  BY <1>4, TickInv
<1>5. CASE ForceReclaim
  BY <1>5, ForceReclaimInv
<1>6. CASE UNCHANGED vars
  BY <1>6, UnchangedInv
<1> QED
  BY <1>1, <1>2, <1>3, <1>4, <1>5, <1>6 DEF Next

-----------------------------------------------------------------------------
(* The theorems.                                                           *)

\* The engine's invariant holds in every state it reaches.
THEOREM Invariance == Spec => []IInv
<1>1. Init => IInv
  BY InitInv
<1>2. IInv /\ [Next]_vars => IInv'
  BY NextInv
<1> QED
  BY <1>1, <1>2, PTL DEF Spec

\* Type correctness of the slots, the queues and the channels.
THEOREM TypeCorrect == Spec => []TypeOK
<1>1. IInv => TypeOK
  BY DEF IInv
<1> QED
  BY <1>1, Invariance, PTL

\* A free slot has no waiters and no revoke in flight: no handler of the engine
\* strands a waiter on a resource nobody will release.
THEOREM FreeSlotsAreIdle == Spec => []NoIdleWaiters
<1>1. IInv => NoIdleWaiters
  BY DEF IInv
<1> QED
  BY <1>1, Invariance, PTL

\* No client is queued twice for a resource, or for one it owns.
THEOREM NobodyQueuedTwice == Spec => []QueuedOnce
<1>1. IInv => QueuedOnce
  BY DEF IInv
<1> QED
  BY <1>1, Invariance, PTL

\* After Disconnected a client neither owns nor waits for anything.
THEOREM DisconnectedLeavesNothing == Spec => []OnlyRegisteredHold
<1>1. IInv => OnlyRegisteredHold
  BY DEF IInv
<1> QED
  BY <1>1, Invariance, PTL

\* Only seat claims wait for a FirstOwner resource.
THEOREM FirstOwnerQueues == Spec => []FirstOwnerQueuesClaims
<1>1. IInv => FirstOwnerQueuesClaims
  BY DEF IInv
<1> QED
  BY <1>1, Invariance, PTL

\* Nobody waits or is revoked on a slot without an owner, and every owner has a
\* control channel: queueing a client takes the resource from nobody.
LEMMA AcquireKeepsOwners ==
    ASSUME IInv, NEW c \in ClientId, NEW r \in Resource, AcquireQueued(c, r)
    PROVE  owner' = owner
<1>1. TypeOK
  BY DEF IInv
<1>2. owner[r] # NoClient
  <2>1. Decision(c, r) \in {"RevokeAndQueue", "Queue"}
    BY DEF AcquireQueued
  <2> QED
    BY <2>1 DEF Decision, Decide, State, SeatSteal
<1>3. owner[r] \in control_reg
  BY <1>2 DEF IInv, OnlyRegisteredHold
<1>4. FreeAndGrantNext({}, [waiters EXCEPT ![r] = Append(waiters[r],
          [client |-> c, seat_claim |-> SeatSteal(c, r)])], Up)
  BY <1>3 DEF AcquireQueued
<1> QED
  BY <1>1, <1>4 DEF FreeAndGrantNext, TypeOK

\* An owner loses a resource only by its own Release, by the end of its
\* connection, or when the grace period of a Revoke is over.
THEOREM NoPreemption == Spec => NoPreemptionWithoutGrace
<1> DEFINE Kept(r) == owner[r] # NoClient /\ owner'[r] # owner[r] =>
                          \/ revoke_deadline[r] = 0
                          \/ Release(owner[r], r)
                          \/ Disconnected(owner[r])
<1>1. ASSUME IInv, [Next]_vars, NEW q \in Resource PROVE Kept(q)
  <2>1. TypeOK
    BY <1>1 DEF IInv
  <2>2. CASE owner' = owner
    BY <2>2
  <2>3. ASSUME NEW c \in ClientId, NEW r \in Resource, Release(c, r) PROVE Kept(q)
    <3>1. CASE ReleaseIgnored(c, r)
      BY <2>2, <3>1 DEF ReleaseIgnored, vars, slotVars
    <3>2. CASE ReleaseOwned(c, r)
      <4>1. owner[r] = c /\ (q # r => owner'[q] = owner[q])
        BY <2>1, <3>2 DEF ReleaseOwned, FreeAndGrantNext
      <4> QED
        BY <2>3, <4>1, Zenon
    <3> QED
      BY <2>3, <3>1, <3>2 DEF Release
  <2>4. ASSUME NEW c \in ClientId, Disconnected(c) PROVE Kept(q)
    <3>1. owner[q] # c => owner'[q] = owner[q]
      BY <2>4, ZenonT(40) DEF Disconnected, FreeAndGrantNext
    <3> QED
      BY <2>4, <3>1
  <2>5. ASSUME NEW c \in ClientId, NEW r \in Resource, NEW outcome, Acquire(c, r, outcome)
        PROVE  Kept(q)
    <3>1. CASE AcquireDenied(c, r) \/ AcquireAgain(c, r)
      BY <2>2, <3>1 DEF AcquireDenied, AcquireAgain, vars, slotVars
    <3>2. CASE AcquireGranted(c, r)
      <4>1. owner[r] = NoClient
        <5>1. PolicyOf[r] \in Policies /\ Decision(c, r) = "Grant"
          BY <3>2, ConstantsAssumption, Zenon DEF AcquireGranted
        <5> QED
          BY <5>1 DEF Decision, Decide, State, Policies
      <4> QED
        BY <2>1, <3>2, <4>1 DEF AcquireGranted, TypeOK
    <3>3. CASE AcquireQueued(c, r)
      BY <1>1, <2>2, <3>3, AcquireKeepsOwners, Zenon
    <3> QED
      BY <2>5, <3>1, <3>2, <3>3, Zenon DEF Acquire
  <2>6. ASSUME NEW c \in ClientId, Register(c) \/ Connection(c) PROVE Kept(q)
    BY <2>2, <2>6, Zenon DEF Register, Connection, Receive, Hangup, DropReceiver, Abandon, slotVars
  <2>7. CASE HotplugCommand
    <3>1. ASSUME NEW r \in Input, Resume(r) PROVE owner' = owner
      <4>1. r \in Resource
        BY DEF Resource
      <4> QED
        BY <1>1, <2>1, <3>1, <4>1 DEF Resume, IInv, OnlyRegisteredHold, TypeOK
    <3> QED
      BY <2>2, <2>7, <3>1 DEF HotplugCommand, Suspend, Offer, Broadcast, slotVars
  <2>8. CASE Tick \/ UNCHANGED vars
    BY <2>2, <2>8, Zenon DEF Tick, vars, slotVars
  <2>9. CASE ForceReclaim
    BY <2>9 DEF ForceReclaim, FreeAndGrantNext, Expired
  <2> QED
    BY <1>1, <2>3, <2>4, <2>5, <2>6, <2>7, <2>8, <2>9 DEF Next, ClientCommand
<1>2. IInv /\ [Next]_vars => [\A r \in Resource : Kept(r)]_vars
  BY <1>1
<1> QED
  BY <1>2, Invariance, PTL DEF Spec, NoPreemptionWithoutGrace

-----------------------------------------------------------------------------
(* What a handler does to a client that is not its business.               *)

Holds(c) == \E r \in Resource : owner[r] = c \/ IsQueued(waiters[r], c)

\* Nothing reaches a channel that is not registered or not read any more, and
\* nobody comes to hold a resource without having asked for it.
Spares(c) ==
    /\ c \notin Up => control'[c] = control[c]
    /\ ~Holds(c) => ~Holds(c)'

\* The owner grant_next ends with came out of the queue.
LEMMA NextOwnerWaited ==
    ASSUME NEW r, NEW ws, NEW up, NextOwner(r, ws, up) # NoClient
    PROVE  IsQueued(ws, NextOwner(r, ws, up))
<1> DEFINE W == Winner(PolicyOf[r], ws, up)
<1>1. NextOwner(r, ws, up) = IF W = {} THEN NoClient ELSE ws[CHOOSE i \in W : TRUE].client
  BY DEF NextOwner
<1>2. W \subseteq DOMAIN ws
  BY DEF Winner, Servable
<1> HIDE DEF W
<1> QED
  BY <1>1, <1>2, Zenon DEF IsQueued

\* Serving the queues of S gives nothing to a client that is in none of them.
LEMMA FreedSlotsSpare ==
    ASSUME IInv, NEW c \in ClientId, ~Holds(c),
           NEW S \in SUBSET Resource, NEW queue, NEW up \in SUBSET ClientId,
           \A r \in Resource : queue[r] \in Seq(Waiter) /\ ~IsQueued(queue[r], c),
           FreeAndGrantNext(S, queue, up)
    PROVE  ~Holds(c)'
<1> SUFFICES ASSUME NEW r \in Resource
             PROVE  owner'[r] # c /\ ~IsQueued(waiters'[r], c)
  BY DEF Holds
<1>1. CASE r \in S
  <2>1. /\ owner'[r] = NextOwner(r, queue[r], up)
        /\ waiters'[r] = LeftWaiting(PolicyOf[r], queue[r], up)
    BY <1>1 DEF FreeAndGrantNext
  <2>2. owner'[r] # c
    BY <2>1, NextOwnerWaited, ConstantsAssumption
  <2> DEFINE ws == queue[r]
  <2>3. PICK K : K \in SUBSET DOMAIN ws /\ waiters'[r] = Keep(ws, K)
    BY <2>1, Zenon DEF LeftWaiting
  <2>4. ws \in Seq(WaiterOf(ClientId))
    BY Zenon DEF Waiter, WaiterOf
  <2> HIDE DEF ws
  <2>5. Within(waiters'[r], ws)
    BY <2>3, <2>4, KeepQueue
  <2> QED
    BY <2>2, <2>5 DEF Within, IsQueued, ws
<1>2. CASE r \notin S
  BY <1>2 DEF FreeAndGrantNext, Holds
<1> QED
  BY <1>1, <1>2

\* No handler grants, queues or tells a client anything out of turn: only its
\* own Acquire makes it an owner or a waiter where it was neither.
LEMMA HandlersSpare ==
    ASSUME IInv, NEW c \in ClientId,
           \/ \E d \in ClientId : Register(d) \/ Disconnected(d)
           \/ \E d \in ClientId, r \in Resource : Release(d, r)
           \/ \E d \in ClientId \ {c}, r \in Resource, o \in Outcome : Acquire(d, r, o)
           \/ ForceReclaim
           \/ Tick
    PROVE  Spares(c)
<1>1. TypeOK /\ Up \in SUBSET ClientId
  BY DEF IInv, TypeOK, Up
<1>2. ASSUME NEW msgs, Push(msgs) PROVE c \notin Up => control'[c] = control[c]
  BY <1>2 DEF Push
<1>3. CASE control' = control /\ owner' = owner /\ waiters' = waiters
  BY <1>3 DEF Spares, Holds
<1>4. ASSUME NEW d \in ClientId, NEW r \in Resource, Release(d, r) PROVE Spares(c)
  <2>1. CASE ReleaseIgnored(d, r)
    BY <1>3, <2>1, Zenon DEF ReleaseIgnored, vars, slotVars
  <2>2. CASE ReleaseOwned(d, r)
    <3> DEFINE w == [client |-> d, seat_claim |-> FALSE]
               t == RequeueWaiter(PolicyOf[r], waiters[r], w)
               ws == IF revoke_deadline[r] # NoDeadline /\ waiters[r] # <<>>
                     THEN t ELSE waiters[r]
               queue == [waiters EXCEPT ![r] = ws]
    <3>1. /\ owner[r] = d
          /\ FreeAndGrantNext({r}, queue, Up)
          /\ c \notin Up => control'[c] = control[c]
      BY <1>2, <2>2, ZenonT(40) DEF ReleaseOwned
    <3>2. ASSUME ~Holds(c) PROVE ~Holds(c)'
      <4>1. c # d /\ \A q \in Resource : ~IsQueued(waiters[q], c)
        BY <3>1, <3>2 DEF Holds
      <4>2. /\ w \in WaiterOf(ClientId) /\ w.client = d
            /\ waiters[r] \in Seq(WaiterOf(ClientId)) /\ PolicyOf[r] \in Policies
        BY <1>1, ConstantsAssumption, ZenonT(40) DEF TypeOK, Waiter, WaiterOf
      <4>3. /\ t \in Seq(WaiterOf(ClientId))
            /\ \A j \in DOMAIN t : \/ PolicyOf[r] # "FirstOwner" /\ t[j] = w
                                   \/ \E i \in DOMAIN waiters[r] : t[j] = waiters[r][i]
            /\ Distinct(waiters[r]) /\ ~IsQueued(waiters[r], w.client) => Distinct(t)
        BY <4>2, RequeueProperties, Zenon
      <4> HIDE DEF t, w
      <4>4. ws \in Seq(Waiter) /\ ~IsQueued(ws, c)
        BY <4>1, <4>2, <4>3 DEF IsQueued, Waiter, WaiterOf
      <4> HIDE DEF ws
      <4>5. \A q \in Resource : queue[q] \in Seq(Waiter) /\ ~IsQueued(queue[q], c)
        BY <1>1, <4>1, <4>4, Zenon DEF TypeOK
      <4> HIDE DEF queue
      <4> QED
        BY <1>1, <3>1, <3>2, <4>5, FreedSlotsSpare, ZenonT(40)
    <3> QED
      BY <3>1, <3>2 DEF Spares
  <2> QED
    BY <1>4, <2>1, <2>2 DEF Release
<1>5. ASSUME NEW d \in ClientId, Disconnected(d) PROVE Spares(c)
  <2> DEFINE owned == {r \in Resource : owner[r] = d}
             queue == [r \in Resource |-> Without(waiters[r], d)]
  <2>1. /\ FreeAndGrantNext(owned, queue, Up \ {d})
        /\ c \notin Up => control'[c] = control[c]
    BY <1>2, <1>5, ZenonT(40) DEF Disconnected
  <2>2. ASSUME ~Holds(c), NEW q \in Resource
        PROVE  queue[q] \in Seq(Waiter) /\ ~IsQueued(queue[q], c)
    <3>1. waiters[q] \in Seq(WaiterOf(ClientId)) /\ queue[q] = Without(waiters[q], d)
      BY <1>1, Zenon DEF TypeOK, Waiter, WaiterOf
    <3>2. queue[q] \in Seq(WaiterOf(ClientId)) /\ Within(queue[q], waiters[q])
      BY <3>1, WithoutProperties, Zenon
    <3> HIDE DEF queue
    <3> QED
      BY <2>2, <3>2 DEF Within, Waiter, WaiterOf, Holds, IsQueued
  <2>3. owned \in SUBSET Resource /\ Up \ {d} \in SUBSET ClientId
    BY <1>1
  <2> HIDE DEF owned, queue
  <2> QED
    BY <2>1, <2>2, <2>3, FreedSlotsSpare DEF Spares
<1>6. ASSUME NEW d \in ClientId \ {c}, NEW r \in Resource, NEW o, Acquire(d, r, o)
      PROVE  Spares(c)
  <2>1. CASE AcquireDenied(d, r) \/ AcquireAgain(d, r)
    BY <1>3, <2>1 DEF AcquireDenied, AcquireAgain, vars, slotVars
  <2>2. CASE AcquireGranted(d, r)
    BY <1>1, <2>2, Zenon DEF AcquireGranted, Spares, Holds, TypeOK
  <2>3. CASE AcquireQueued(d, r)
    <3> DEFINE w == [client |-> d, seat_claim |-> SeatSteal(d, r)]
               ws == Append(waiters[r], w)
               queue == [waiters EXCEPT ![r] = ws]
    <3>1. PICK freed \in SUBSET Resource : FreeAndGrantNext(freed, queue, Up)
      BY <2>3 DEF AcquireQueued
    <3>2. c \notin Up => control'[c] = control[c]
      BY <1>2, <2>3, Zenon DEF AcquireQueued
    <3>3. ASSUME ~Holds(c) PROVE ~Holds(c)'
      <4>1. \A q \in Resource : ~IsQueued(waiters[q], c)
        BY <3>3, Zenon DEF Holds
      <4>2. w \in Waiter /\ w.client = d /\ waiters[r] \in Seq(Waiter)
        BY <1>1, Zenon DEF TypeOK, Waiter, SeatSteal
      <4> HIDE DEF w
      <4>3. ws \in Seq(Waiter) /\ ~IsQueued(ws, c)
        <5>1. /\ ws \in Seq(Waiter)
              /\ \A i \in DOMAIN ws :
                     ws[i] = w \/ (i \in DOMAIN waiters[r] /\ ws[i] = waiters[r][i])
          BY <4>2
        <5>2. ~IsQueued(waiters[r], c) /\ w.client # c
          BY <4>1, <4>2, Zenon
        <5> HIDE DEF ws
        <5> QED
          BY <5>1, <5>2, Zenon DEF IsQueued
      <4> HIDE DEF ws
      <4>4. \A q \in Resource : queue[q] \in Seq(Waiter) /\ ~IsQueued(queue[q], c)
        BY <1>1, <4>1, <4>3 DEF TypeOK
      <4> HIDE DEF queue
      <4> QED
        BY <1>1, <3>1, <3>3, <4>4, FreedSlotsSpare
    <3> QED
      BY <3>2, <3>3 DEF Spares
  <2> QED
    BY <1>6, <2>1, <2>2, <2>3 DEF Acquire
<1>7. CASE ForceReclaim
  <2>1. FreeAndGrantNext(Expired, waiters, Up) /\ Expired \in SUBSET Resource
    BY <1>7, Zenon DEF ForceReclaim, Expired
  <2>2. c \notin Up => control'[c] = control[c]
    BY <1>2, <1>7, Zenon DEF ForceReclaim
  <2>3. ASSUME ~Holds(c), NEW q \in Resource
        PROVE  waiters[q] \in Seq(Waiter) /\ ~IsQueued(waiters[q], c)
    BY <1>1, <2>3 DEF TypeOK, Holds
  <2>4. ASSUME ~Holds(c) PROVE ~Holds(c)'
    BY <1>1, <2>1, <2>3, <2>4, FreedSlotsSpare
  <2> QED
    BY <2>2, <2>4, Zenon DEF Spares
<1>8. ASSUME NEW d \in ClientId, Register(d) PROVE Spares(c)
  BY <1>3, <1>8 DEF Register, slotVars
<1>9. CASE Tick
  BY <1>3, <1>9 DEF Tick
<1> QED
  BY <1>4, <1>5, <1>6, <1>7, <1>8, <1>9
=============================================================================

---------------------------- MODULE LendingProofs ----------------------------
(***************************************************************************)
(* PolicyEngine implements Lending, for any number of clients and          *)
(* resources, any assignment of policies and any grace period; and what    *)
(* happens in the very step in which a resource changes hands: the new     *)
(* owner is told, a client that leaves the display is asked for its        *)
(* inputs, and FairQueue lets nobody overtake.                             *)
(***************************************************************************)
EXTENDS PolicyEngineProofs

-----------------------------------------------------------------------------
(* What serving a queue owes to the clients in it.                         *)

\* The owner grant_next ends with came out of the queue and can be told, and
\* everybody else who can be told is still in it.
LEMMA NextOwnerServes ==
    ASSUME NEW r \in Resource, NEW ws, GoodQueue(r, ws), NEW up \in SUBSET ClientId
    PROVE  /\ NextOwner(r, ws, up) # NoClient =>
                  /\ NextOwner(r, ws, up) \in up
                  /\ IsQueued(ws, NextOwner(r, ws, up))
           /\ \A c \in up : IsQueued(ws, c) =>
                  \/ c = NextOwner(r, ws, up)
                  \/ IsQueued(LeftWaiting(PolicyOf[r], ws, up), c)
<1> DEFINE W == Winner(PolicyOf[r], ws, up)
           left == LeftWaiting(PolicyOf[r], ws, up)
<1>1. ws \in Seq(WaiterOf(ClientId)) /\ Distinct(ws)
  BY DEF GoodQueue, Waiter, WaiterOf
<1>2. \A k \in W : k \in DOMAIN ws /\ ws[k].client \in up
  BY <1>1, GrantNextProperties
<1>3. NextOwner(r, ws, up) = IF W = {} THEN NoClient ELSE ws[CHOOSE i \in W : TRUE].client
  BY DEF NextOwner
<1>4. \A k, l \in W : k = l
  <2>1. \A k, l \in W : k = l \/ PoppedBefore(PolicyOf[r], ws, k, l)
    BY DEF Winner
  <2>2. \A k, l \in DOMAIN ws :
            ~(PoppedBefore(PolicyOf[r], ws, k, l) /\ PoppedBefore(PolicyOf[r], ws, l, k))
    BY <1>1 DEF PoppedBefore, WaiterOf
  <2> HIDE DEF W
  <2> QED
    BY <1>2, <2>1, <2>2
<1>5. ASSUME NEW i \in DOMAIN ws, ws[i].client \in up
      PROVE  i \in W \/ IsQueued(left, ws[i].client)
  BY <1>1, <1>5, NobodyReachableDropped
<1> HIDE DEF W, left
<1>6. W # {} => \E k \in W : NextOwner(r, ws, up) = ws[k].client
  BY <1>3, Zenon
<1>7. \A k \in W : NextOwner(r, ws, up) = ws[k].client
  BY <1>4, <1>6
<1>8. NextOwner(r, ws, up) # NoClient =>
          NextOwner(r, ws, up) \in up /\ IsQueued(ws, NextOwner(r, ws, up))
  BY <1>2, <1>3, <1>6 DEF IsQueued
<1>9. \A c \in up : IsQueued(ws, c) => c = NextOwner(r, ws, up) \/ IsQueued(left, c)
  BY <1>5, <1>7 DEF IsQueued
<1> QED
  BY <1>8, <1>9 DEF left

-----------------------------------------------------------------------------
(* What a step of the engine does to one resource.                         *)

\* The clauses of Lending, said of the engine's own state.  Who waits for a
\* slot and who owns it is read off the invariants.
SlotLends(r) ==
    /\ \A c \in Up' : IsQueued(waiters[r], c) =>
           IsQueued(waiters'[r], c) \/ owner'[r] = c
    /\ \/ owner'[r] = NoClient
       \/ owner[r] = NoClient /\ owner'[r] \in Up' /\ waiters'[r] = <<>>
             /\ revoke_deadline'[r] = NoDeadline
       \/ /\ owner'[r] = owner[r]
          /\ \/ \A c \in ClientId : IsQueued(waiters'[r], c) => IsQueued(waiters[r], c)
             \/ revoke_deadline'[r] # NoDeadline /\ ~suspended'[r]
          /\ revoke_deadline[r] # NoDeadline /\ revoke_deadline'[r] = NoDeadline =>
                 suspended'[r] \/ \A c \in Up' : ~IsQueued(waiters[r], c)
       \/ /\ owner[r] # NoClient /\ owner'[r] # owner[r]
          /\ owner'[r] \in Up' /\ IsQueued(waiters[r], owner'[r])
          /\ \A c \in ClientId : IsQueued(waiters'[r], c) =>
                 IsQueued(waiters[r], c) \/ (c = owner[r] /\ revoke_deadline[r] # NoDeadline)

\* A step in which every slot does so is a step of Lending.
LEMMA SlotsLend ==
    ASSUME IInv, IInv', \A r \in Resource : SlotLends(r)
    PROVE  Lent!Next
<1> SUFFICES ASSUME NEW r \in Resource
             PROVE  /\ Lent!NobodyDropped(r)
                    /\ \/ Lent!Idle(r) \/ Lent!Taken(r) \/ Lent!Kept(r)
                       \/ Lent!Passed(r) \/ Lent!Freed(r)
  BY DEF Lent!Next
<1>1. /\ \A c : c \in Waiting[r] <=> IsQueued(waiters[r], c)
      /\ \A c : c \in Waiting'[r] <=> IsQueued(waiters'[r], c)
  BY DEF Waiting, IsQueued
<1>2. /\ Asked[r] = (revoke_deadline[r] # NoDeadline)
      /\ Asked'[r] = (revoke_deadline'[r] # NoDeadline)
  BY Zenon DEF Asked
<1>3. /\ \A c : IsQueued(waiters[r], c) => c \in ClientId
      /\ \A c : IsQueued(waiters'[r], c) => c \in ClientId
  <2>1. waiters[r] \in Seq(Waiter) /\ waiters'[r] \in Seq(Waiter)
    BY DEF IInv, TypeOK
  <2>2. \A ws \in Seq(Waiter) : \A i \in DOMAIN ws : ws[i].client \in ClientId
    <3> TAKE ws \in Seq(Waiter)
    <3> TAKE i \in DOMAIN ws
    <3>1. ws[i] \in Waiter
      OBVIOUS
    <3> QED
      BY <3>1 DEF Waiter
  <2> QED
    BY <2>1, <2>2 DEF IsQueued
<1>4. /\ owner'[r] = NoClient => waiters'[r] = <<>> /\ revoke_deadline'[r] = NoDeadline
      /\ ~IsQueued(waiters'[r], owner'[r])
  BY DEF IInv, NoIdleWaiters, QueuedOnce
<1>5. waiters'[r] = <<>> => Waiting'[r] = {}
  BY <1>1 DEF IsQueued
<1>6. SlotLends(r)
  OBVIOUS
<1>7. Lent!NobodyDropped(r)
  BY <1>1, <1>6 DEF SlotLends, Lent!NobodyDropped
<1>8. CASE owner'[r] = NoClient
  BY <1>2, <1>4, <1>5, <1>7, <1>8, Zenon DEF Lent!Idle, Lent!Freed
<1>9. CASE owner'[r] # NoClient /\ owner[r] = NoClient
  BY <1>2, <1>4, <1>5, <1>6, <1>7, <1>9, Zenon DEF SlotLends, Lent!Taken
<1>10. CASE owner'[r] # NoClient /\ owner[r] # NoClient
  <2>1. CASE owner'[r] = owner[r]
    <3>1. \/ Waiting'[r] \subseteq Waiting[r]
          \/ Asked'[r] /\ ~suspended'[r]
      BY <1>1, <1>2, <1>3, <1>6, <1>10, <2>1, Zenon DEF SlotLends
    <3>2. Asked[r] /\ ~Asked'[r] => suspended'[r] \/ Waiting[r] \cap Up' = {}
      BY <1>1, <1>2, <1>6, <1>10, <2>1, Zenon DEF SlotLends
    <3> QED
      BY <1>1, <1>4, <1>7, <1>10, <2>1, <3>1, <3>2 DEF Lent!Kept
  <2>2. CASE owner'[r] # owner[r]
    <3>1. /\ owner'[r] \in Waiting[r] \cap Up'
          /\ owner'[r] \notin Waiting'[r]
      BY <1>1, <1>4, <1>6, <1>10, <2>2 DEF SlotLends
    <3>2. Waiting'[r] \subseteq Waiting[r] \cup {c \in {owner[r]} : Asked[r]}
      BY <1>1, <1>2, <1>3, <1>6, <1>10, <2>2, Zenon DEF SlotLends
    <3> QED
      BY <1>7, <1>10, <2>2, <3>1, <3>2 DEF Lent!Passed
  <2> QED
    BY <2>1, <2>2
<1> QED
  BY <1>7, <1>8, <1>9, <1>10

\* A step that moves no owner and no waiter, and drops a revoke only where the
\* device goes away.
LEMMA SameSlotsLend ==
    ASSUME IInv, owner' = owner, waiters' = waiters,
           \A r \in Resource :
               revoke_deadline[r] # NoDeadline /\ revoke_deadline'[r] = NoDeadline =>
                   suspended'[r]
    PROVE  \A r \in Resource : SlotLends(r)
BY DEF SlotLends

-----------------------------------------------------------------------------
(* The handlers that move owners or waiters.                               *)

\* A free slot is granted by reply to a client whose connection is up.
LEMMA AcquireGrantedLends ==
    ASSUME IInv, NEW c \in ClientId, conn[c] = "open", c \in control_reg,
           NEW r \in Resource, AcquireGranted(c, r)
    PROVE  \A q \in Resource : SlotLends(q)
<1>1. TypeOK
  BY DEF IInv
<1>2. owner[r] = NoClient
  <2>1. PolicyOf[r] \in Policies /\ Decision(c, r) = "Grant"
    BY ConstantsAssumption DEF AcquireGranted
  <2> QED
    BY <2>1 DEF Decision, Decide, State, Policies
<1>3. waiters[r] = <<>> /\ revoke_deadline[r] = NoDeadline
  BY <1>2 DEF IInv, NoIdleWaiters
<1>4. /\ owner' = [owner EXCEPT ![r] = c]
      /\ UNCHANGED <<conn, control_reg, waiters, revoke_deadline>>
  BY DEF AcquireGranted
<1>5. c \in Up'
  BY <1>4 DEF Up
<1> SUFFICES ASSUME NEW q \in Resource PROVE SlotLends(q)
  OBVIOUS
<1>6. CASE q = r
  <2>1. owner'[q] = c
    BY <1>1, <1>4, <1>6 DEF TypeOK
  <2> QED
    BY <1>2, <1>3, <1>4, <1>5, <1>6, <2>1 DEF SlotLends, IsQueued
<1>7. CASE q # r
  <2>1. owner'[q] = owner[q]
    BY <1>1, <1>4, <1>7 DEF TypeOK
  <2> QED
    BY <1>4, <2>1 DEF SlotLends
<1> QED
  BY <1>6, <1>7

\* A client that starts to wait has the owner asked.
LEMMA AcquireQueuedLends ==
    ASSUME IInv, NEW c \in ClientId, NEW r \in Resource, AcquireQueued(c, r)
    PROVE  \A q \in Resource : SlotLends(q)
<1> DEFINE w == [client |-> c, seat_claim |-> SeatSteal(c, r)]
<1>1. TypeOK
  BY DEF IInv
<1>2. owner' = owner
  BY AcquireKeepsOwners
<1>3. owner[r] # NoClient /\ owner[r] \in control_reg
  <2>1. Decision(c, r) \in {"RevokeAndQueue", "Queue"}
    BY DEF AcquireQueued
  <2>2. owner[r] # NoClient
    BY <2>1 DEF Decision, Decide, State, SeatSteal
  <2> QED
    BY <2>2 DEF IInv, OnlyRegisteredHold
<1>4. waiters' = [waiters EXCEPT ![r] = Append(waiters[r], w)]
  <2>1. FreeAndGrantNext({}, [waiters EXCEPT ![r] = Append(waiters[r], w)], Up)
    BY <1>3 DEF AcquireQueued
  <2> QED
    BY <1>1, <2>1, Zenon DEF FreeAndGrantNext, TypeOK
<1>5. revoke_deadline' = [revoke_deadline EXCEPT ![r] =
          IF revoke_deadline[r] = NoDeadline THEN REVOKE_TIMEOUT ELSE @]
  BY <1>3, Zenon DEF AcquireQueued
<1>6. ~suspended'[r]
  BY DEF AcquireQueued, Refused
<1>7. revoke_deadline'[r] # NoDeadline
  BY <1>1, <1>5, ConstantsAssumption DEF TypeOK, NoDeadline
<1>8. \A x : IsQueued(waiters[r], x) => IsQueued(waiters'[r], x)
  <2>1. waiters'[r] = Append(waiters[r], w) /\ waiters[r] \in Seq(Waiter)
    BY <1>1, <1>4 DEF TypeOK
  <2>2. \A i \in DOMAIN waiters[r] : i \in DOMAIN waiters'[r] /\ waiters'[r][i] = waiters[r][i]
    BY <2>1
  <2> QED
    BY <2>2 DEF IsQueued
<1>9. \A q \in Resource : q # r => waiters'[q] = waiters[q] /\ revoke_deadline'[q] = revoke_deadline[q]
  BY <1>1, <1>4, <1>5 DEF TypeOK
<1> QED
  BY <1>2, <1>6, <1>7, <1>8, <1>9 DEF SlotLends

\* The slots that are freed are served from queues in which everybody who can
\* be told is, and nobody but who waited and, if it was asked, the owner.
LEMMA FreedSlotsLend ==
    ASSUME IInv, NEW S \in SUBSET Resource, NEW queue,
           FreeAndGrantNext(S, queue, Up'), Up' \in SUBSET ClientId,
           \A r \in Resource : GoodQueue(r, queue[r]),
           \A r \in S : owner[r] # NoClient,
           \A r \in Resource : \A c \in Up' :
               IsQueued(waiters[r], c) => IsQueued(queue[r], c),
           \A r \in Resource : \A c \in ClientId : IsQueued(queue[r], c) =>
               \/ IsQueued(waiters[r], c)
               \/ r \in S /\ c = owner[r] /\ revoke_deadline[r] # NoDeadline,
           \A r \in S : owner'[r] = owner[r] =>
               \A c \in Up' : ~IsQueued(waiters[r], c),
           \A r \in Resource \ S :
               revoke_deadline'[r] = NoDeadline => revoke_deadline[r] = NoDeadline
    PROVE  \A r \in Resource : SlotLends(r)
<1> SUFFICES ASSUME NEW r \in Resource PROVE SlotLends(r)
  OBVIOUS
<1>1. CASE r \in S
  <2>1. /\ owner'[r] = NextOwner(r, queue[r], Up')
        /\ waiters'[r] = LeftWaiting(PolicyOf[r], queue[r], Up')
    BY <1>1 DEF FreeAndGrantNext
  <2> DEFINE up == Up'
  <2>2. up \in SUBSET ClientId /\ GoodQueue(r, queue[r])
    OBVIOUS
  <2> HIDE DEF up
  <2>3. /\ NextOwner(r, queue[r], up) # NoClient =>
               /\ NextOwner(r, queue[r], up) \in up
               /\ IsQueued(queue[r], NextOwner(r, queue[r], up))
        /\ \A c \in up : IsQueued(queue[r], c) =>
               \/ c = NextOwner(r, queue[r], up)
               \/ IsQueued(LeftWaiting(PolicyOf[r], queue[r], up), c)
    BY <2>2, NextOwnerServes
  <2>4. /\ Within(LeftWaiting(PolicyOf[r], queue[r], up), queue[r])
        /\ ~IsQueued(LeftWaiting(PolicyOf[r], queue[r], up), NextOwner(r, queue[r], up))
    BY <2>2, NextOwnerProperties, Zenon
  <2>5. /\ owner'[r] # NoClient => owner'[r] \in Up' /\ IsQueued(queue[r], owner'[r])
        /\ \A c \in Up' : IsQueued(queue[r], c) => c = owner'[r] \/ IsQueued(waiters'[r], c)
        /\ \A c : IsQueued(waiters'[r], c) => IsQueued(queue[r], c)
        /\ ~IsQueued(waiters'[r], owner'[r])
    BY <2>1, <2>3, <2>4 DEF up, Within, IsQueued
  <2>6. CASE owner'[r] = owner[r]
    <3>1. \A c \in ClientId : IsQueued(waiters'[r], c) => IsQueued(waiters[r], c)
      BY <2>5, <2>6
    <3> QED
      BY <1>1, <2>5, <2>6, <3>1 DEF SlotLends
  <2>7. CASE owner'[r] # owner[r] /\ owner'[r] # NoClient
    <3>1. owner'[r] \in ClientId /\ IsQueued(waiters[r], owner'[r])
      BY <1>1, <2>5, <2>7
    <3>2. \A c \in ClientId : IsQueued(waiters'[r], c) =>
              IsQueued(waiters[r], c) \/ (c = owner[r] /\ revoke_deadline[r] # NoDeadline)
      <4> TAKE c \in ClientId
      <4> HAVE IsQueued(waiters'[r], c)
      <4>1. IsQueued(queue[r], c)
        BY <2>5
      <4> QED
        BY <1>1, <4>1
    <3>3. \A c \in Up' : IsQueued(waiters[r], c) => IsQueued(waiters'[r], c) \/ owner'[r] = c
      BY <2>5
    <3>4. owner[r] # NoClient
      BY <1>1
    <3> QED
      BY <2>5, <2>7, <3>1, <3>2, <3>3, <3>4, Zenon DEF SlotLends
  <2>8. CASE owner'[r] = NoClient
    BY <2>5, <2>8 DEF SlotLends
  <2> QED
    BY <2>6, <2>7, <2>8
<1>2. CASE r \notin S
  <2>1. owner'[r] = owner[r] /\ waiters'[r] = queue[r]
    BY <1>2 DEF FreeAndGrantNext
  <2> QED
    BY <1>2, <2>1 DEF SlotLends
<1> QED
  BY <1>1, <1>2

\* An owner that releases a resource is its owner again only if nobody who
\* waited can be told.
LEMMA OwnerThatReleasesYields ==
    ASSUME IInv, NEW c \in ClientId, NEW r \in Resource, ReleaseOwned(c, r),
           owner'[r] = c, NEW x \in Up
    PROVE  ~IsQueued(waiters[r], x)
<1> DEFINE w == [client |-> c, seat_claim |-> FALSE]
           ws == IF revoke_deadline[r] # NoDeadline /\ waiters[r] # <<>>
                 THEN RequeueWaiter(PolicyOf[r], waiters[r], w)
                 ELSE waiters[r]
           W == Winner(PolicyOf[r], ws, Up)
<1>1. TypeOK
  BY DEF IInv
<1>2. owner[r] = c /\ ~IsQueued(waiters[r], c)
  BY DEF ReleaseOwned, IInv, QueuedOnce
<1>3. w \in WaiterOf(ClientId) /\ w.client = c /\ ~w.seat_claim
  BY DEF WaiterOf
<1>4. waiters[r] \in Seq(WaiterOf(ClientId)) /\ PolicyOf[r] \in Policies
  BY <1>1, ConstantsAssumption, Zenon DEF TypeOK, Waiter, WaiterOf
<1>5. NextOwner(r, ws, Up) = c
  <2>1. FreeAndGrantNext({r}, [waiters EXCEPT ![r] = ws], Up)
    BY DEF ReleaseOwned
  <2> HIDE DEF ws
  <2> QED
    BY <1>1, <2>1 DEF FreeAndGrantNext, TypeOK
<1>6. PICK k \in W : ws[k].client = c
  BY <1>5, ConstantsAssumption, Zenon DEF NextOwner
<1>7. ws = RequeueWaiter(PolicyOf[r], waiters[r], w)
  <2>1. IsQueued(ws, c)
    BY <1>6 DEF Winner, Servable, IsQueued
  <2> QED
    BY <1>2, <2>1
<1>8. \A i \in DOMAIN waiters[r] : waiters[r][i].client \notin Up
  <2> HIDE DEF ws, w
  <2> QED
    BY <1>2, <1>3, <1>4, <1>6, <1>7, RequeuedServedLast
<1> QED
  BY <1>8 DEF IsQueued

\* Release: an owner that was asked is requeued, and gets the resource straight
\* back only if nobody who waited can be told.
LEMMA ReleaseOwnedLends ==
    ASSUME IInv, NEW c \in ClientId, NEW r \in Resource, ReleaseOwned(c, r)
    PROVE  \A q \in Resource : SlotLends(q)
<1> DEFINE revoking == revoke_deadline[r] # NoDeadline
           w == [client |-> c, seat_claim |-> FALSE]
           ws == IF revoking /\ waiters[r] # <<>>
                 THEN RequeueWaiter(PolicyOf[r], waiters[r], w)
                 ELSE waiters[r]
           queue == [waiters EXCEPT ![r] = ws]
           inputs == IF r \in Display THEN SeatInputs(c) ELSE {}
<1>1. /\ owner[r] = c
      /\ FreeAndGrantNext({r}, queue, Up)
      /\ revoke_deadline' =
             [i \in Resource |-> IF i \in inputs THEN REVOKE_TIMEOUT
                                 ELSE IF i = r THEN NoDeadline
                                 ELSE revoke_deadline[i]]
      /\ UNCHANGED <<conn, control_reg>>
  BY DEF ReleaseOwned
<1>2. TypeOK
  BY DEF IInv
<1>3. GoodQueue(r, waiters[r]) /\ ~IsQueued(waiters[r], c)
  BY <1>1, IInvQueues DEF IInv, QueuedOnce
<1>4. w \in WaiterOf(ClientId) /\ w.client = c /\ ~w.seat_claim
  BY DEF WaiterOf
<1>5. waiters[r] \in Seq(WaiterOf(ClientId)) /\ PolicyOf[r] \in Policies
  BY <1>2, ConstantsAssumption, Zenon DEF TypeOK, Waiter, WaiterOf
<1>6. Up' = Up /\ Up' \in SUBSET ClientId
  BY <1>1, <1>2 DEF Up, TypeOK
<1>7. /\ GoodQueue(r, ws)
      /\ \A x : IsQueued(waiters[r], x) => IsQueued(ws, x)
      /\ \A x : IsQueued(ws, x) => IsQueued(waiters[r], x) \/ (x = c /\ revoking)
  <2> DEFINE t == RequeueWaiter(PolicyOf[r], waiters[r], w)
  <2>1. /\ t \in Seq(WaiterOf(ClientId))
        /\ \A j \in DOMAIN t : \/ PolicyOf[r] # "FirstOwner" /\ t[j] = w
                               \/ \E i \in DOMAIN waiters[r] : t[j] = waiters[r][i]
        /\ Distinct(waiters[r]) /\ ~IsQueued(waiters[r], w.client) => Distinct(t)
    BY <1>4, <1>5, RequeueProperties, Zenon
  <2>2. \A x : IsQueued(waiters[r], x) => IsQueued(t, x)
    BY <1>4, <1>5, RequeueKeeps
  <2> HIDE DEF t, w
  <2>3. GoodQueue(r, t)
    BY <1>3, <1>4, <2>1 DEF GoodQueue, Waiter, WaiterOf
  <2>4. \A x : IsQueued(t, x) => IsQueued(waiters[r], x) \/ x = c
    BY <1>4, <2>1 DEF IsQueued
  <2>5. CASE revoking /\ waiters[r] # <<>>
    <3>1. ws = t
      BY <2>5 DEF t
    <3> HIDE DEF ws
    <3> QED
      BY <2>2, <2>3, <2>4, <2>5, <3>1
  <2>6. CASE ~(revoking /\ waiters[r] # <<>>)
    <3>1. ws = waiters[r]
      BY <2>6
    <3> HIDE DEF ws
    <3> QED
      BY <1>3, <3>1
  <2> QED
    BY <2>5, <2>6
<1>8. owner'[r] = c => \A x \in Up' : ~IsQueued(waiters[r], x)
  BY <1>6, OwnerThatReleasesYields
<1> HIDE DEF ws, inputs
<1>9. \A q \in Resource : queue[q] = IF q = r THEN ws ELSE waiters[q]
  BY <1>2 DEF TypeOK
<1> HIDE DEF queue
<1>10. \A q \in Resource : GoodQueue(q, queue[q])
  BY <1>7, <1>9, IInvQueues
<1>11. owner[r] # NoClient
  BY <1>1, ConstantsAssumption
<1>12. \A q \in Resource : \A x \in Up' : IsQueued(waiters[q], x) => IsQueued(queue[q], x)
  BY <1>7, <1>9
<1>13. \A q \in Resource : \A x \in ClientId : IsQueued(queue[q], x) =>
           \/ IsQueued(waiters[q], x)
           \/ q \in {r} /\ x = owner[q] /\ revoke_deadline[q] # NoDeadline
  BY <1>1, <1>7, <1>9
<1>14. \A q \in Resource \ {r} : revoke_deadline'[q] = NoDeadline => revoke_deadline[q] = NoDeadline
  BY <1>1, ConstantsAssumption DEF NoDeadline
<1>15. \A q \in {r} : owner'[q] = owner[q] => \A x \in Up' : ~IsQueued(waiters[q], x)
  BY <1>1, <1>8
<1>16. FreeAndGrantNext({r}, queue, Up')
  BY <1>1, <1>6
<1> QED
  BY <1>6, <1>10, <1>11, <1>12, <1>13, <1>14, <1>15, <1>16, FreedSlotsLend

\* The timeout: an elapsed slot has an owner, which is not requeued.
LEMMA ForceReclaimLends ==
    ASSUME IInv, ForceReclaim
    PROVE  \A q \in Resource : SlotLends(q)
<1> DEFINE losers == {o \in ClientId : SeatsLost(o) > 0}
           asked == UNION {SeatInputs(c) : c \in losers}
<1>1. /\ FreeAndGrantNext(Expired, waiters, Up)
      /\ revoke_deadline' =
             [r \in Resource |-> IF r \in asked THEN REVOKE_TIMEOUT
                                 ELSE IF r \in Expired THEN NoDeadline
                                 ELSE revoke_deadline[r]]
      /\ UNCHANGED <<conn, control_reg>>
  BY DEF ForceReclaim
<1>2. TypeOK
  BY DEF IInv
<1>3. \A q \in Resource : GoodQueue(q, waiters[q])
  BY IInvQueues
<1>4. Up' = Up /\ Up' \in SUBSET ClientId /\ Expired \in SUBSET Resource
  BY <1>1, <1>2 DEF Up, TypeOK, Expired
<1>5. \A q \in Expired : owner[q] # NoClient
  BY DEF Expired, IInv, NoIdleWaiters, NoDeadline
<1>6. \A q \in Expired : owner'[q] # owner[q]
  <2> SUFFICES ASSUME NEW q \in Expired, owner'[q] = owner[q] PROVE FALSE
    OBVIOUS
  <2>1. q \in Resource /\ GoodQueue(q, waiters[q]) /\ Up \in SUBSET ClientId
    BY <1>3, <1>4
  <2>2. owner'[q] = NextOwner(q, waiters[q], Up)
    BY <1>1, <2>1 DEF FreeAndGrantNext
  <2>3. IsQueued(waiters[q], owner[q])
    BY <1>5, <2>1, <2>2, NextOwnerServes, Zenon
  <2> QED
    BY <2>1, <2>3 DEF IInv, QueuedOnce
<1> HIDE DEF asked
<1>7. \A q \in Resource \ Expired :
          revoke_deadline'[q] = NoDeadline => revoke_deadline[q] = NoDeadline
  BY <1>1, ConstantsAssumption DEF NoDeadline
<1>8. FreeAndGrantNext(Expired, waiters, Up')
  BY <1>1, <1>4
<1> QED
  BY <1>3, <1>4, <1>5, <1>6, <1>7, <1>8, FreedSlotsLend

\* Disconnected: the client leaves every queue, and can no longer be told.
LEMMA DisconnectedLends ==
    ASSUME IInv, NEW c \in ClientId, Disconnected(c)
    PROVE  \A q \in Resource : SlotLends(q)
<1> DEFINE owned == {r \in Resource : owner[r] = c}
           queue == [r \in Resource |-> Without(waiters[r], c)]
<1>1. /\ control_reg' = control_reg \ {c}
      /\ FreeAndGrantNext(owned, queue, Up \ {c})
      /\ revoke_deadline' =
             [r \in Resource |-> IF r \in owned THEN NoDeadline ELSE revoke_deadline[r]]
      /\ UNCHANGED conn
  BY DEF Disconnected
<1>2. TypeOK
  BY DEF IInv
<1>3. Up' = Up \ {c} /\ Up' \in SUBSET ClientId
  BY <1>1, <1>2 DEF Up, TypeOK
<1>4. \A q \in Resource : /\ GoodQueue(q, queue[q])
                          /\ ~IsQueued(queue[q], c)
                          /\ \A x : IsQueued(queue[q], x) => IsQueued(waiters[q], x)
                          /\ \A x : x # c /\ IsQueued(waiters[q], x) => IsQueued(queue[q], x)
  <2> TAKE q \in Resource
  <2>1. GoodQueue(q, waiters[q])
    BY IInvQueues
  <2>2. waiters[q] \in Seq(WaiterOf(ClientId)) /\ Distinct(waiters[q])
    BY <2>1 DEF GoodQueue, Waiter, WaiterOf
  <2>3. queue[q] = Without(waiters[q], c)
    OBVIOUS
  <2>4. /\ queue[q] \in Seq(WaiterOf(ClientId))
        /\ Within(queue[q], waiters[q])
        /\ ~IsQueued(queue[q], c)
        /\ Distinct(queue[q])
    BY <2>2, <2>3, WithoutProperties
  <2>5. \A x : x # c /\ IsQueued(waiters[q], x) => IsQueued(queue[q], x)
    BY <2>2, <2>3, WithoutKeeps
  <2> HIDE DEF queue
  <2>6. GoodQueue(q, queue[q])
    BY <2>1, <2>4 DEF GoodQueue, Within, Waiter, WaiterOf
  <2>7. \A x : IsQueued(queue[q], x) => IsQueued(waiters[q], x)
    BY <2>4 DEF Within, IsQueued
  <2> QED
    BY <2>4, <2>5, <2>6, <2>7
<1> HIDE DEF queue
<1>5. owned \in SUBSET Resource /\ \A q \in owned : owner[q] = c /\ owner[q] # NoClient
  BY ConstantsAssumption
<1> HIDE DEF owned
<1>6. FreeAndGrantNext(owned, queue, Up')
  BY <1>1, <1>3
<1>7. \A q \in owned : owner'[q] # owner[q]
  <2> SUFFICES ASSUME NEW q \in owned, owner'[q] = owner[q] PROVE FALSE
    OBVIOUS
  <2> DEFINE up == Up'
  <2>1. q \in Resource /\ GoodQueue(q, queue[q]) /\ up \in SUBSET ClientId
    BY <1>3, <1>4, <1>5
  <2>2. owner'[q] = NextOwner(q, queue[q], up)
    BY <1>6, <2>1 DEF FreeAndGrantNext
  <2> HIDE DEF up
  <2>3. IsQueued(queue[q], c)
    BY <1>5, <2>1, <2>2, NextOwnerServes, Zenon
  <2> QED
    BY <1>4, <2>1, <2>3
<1>8. \A q \in Resource \ owned :
          revoke_deadline'[q] = NoDeadline => revoke_deadline[q] = NoDeadline
  BY <1>1
<1>9. \A q \in Resource : \A x \in Up' : IsQueued(waiters[q], x) => IsQueued(queue[q], x)
  BY <1>3, <1>4
<1> QED
  BY <1>3, <1>4, <1>5, <1>6, <1>7, <1>8, <1>9, FreedSlotsLend, Zenon

\* The commands of the hot-plug task: only Suspend drops a revoke.
LEMMA HotplugLends ==
    ASSUME IInv, HotplugCommand
    PROVE  \A q \in Resource : SlotLends(q)
<1>1. TypeOK
  BY DEF IInv
<1>2. ASSUME NEW r \in Input, Suspend(r) PROVE \A q \in Resource : SlotLends(q)
  <2>1. r \in Resource
    BY DEF Resource
  <2>2. /\ owner' = owner /\ waiters' = waiters
        /\ \A q \in Resource :
               revoke_deadline[q] # NoDeadline /\ revoke_deadline'[q] = NoDeadline =>
                   suspended'[q]
    BY <1>1, <1>2, <2>1 DEF Suspend, TypeOK
  <2> QED
    BY <2>2, SameSlotsLend
<1>3. ASSUME NEW r \in Input, Resume(r) PROVE \A q \in Resource : SlotLends(q)
  <2>1. r \in Resource
    BY DEF Resource
  <2>2. owner' = owner /\ waiters' = waiters /\ revoke_deadline' = revoke_deadline
    BY <1>1, <1>3, <2>1 DEF Resume, IInv, OnlyRegisteredHold, TypeOK
  <2> QED
    BY <2>2, SameSlotsLend
<1>4. ASSUME NEW r \in Input, Offer(r) PROVE \A q \in Resource : SlotLends(q)
  BY <1>4, SameSlotsLend DEF Offer
<1>5. ASSUME NEW list \in Advertisements, Broadcast(list)
      PROVE  \A q \in Resource : SlotLends(q)
  BY <1>5, SameSlotsLend DEF Broadcast, slotVars
<1> QED
  BY <1>2, <1>3, <1>4, <1>5 DEF HotplugCommand

\* Every step of the engine, of a connection and of the clock is a step of
\* Lending.
LEMMA NextLends ==
    ASSUME IInv, [Next]_vars
    PROVE  \A q \in Resource : SlotLends(q)
<1> DEFINE Goal == \A q \in Resource : SlotLends(q)
<1>1. CASE UNCHANGED vars
  BY <1>1, SameSlotsLend DEF vars, slotVars
<1>2. ASSUME NEW c \in ClientId, ClientCommand(c) PROVE Goal
  <2>1. CASE Register(c)
    BY <2>1, SameSlotsLend DEF Register, slotVars
  <2>2. CASE Disconnected(c)
    BY <2>2, DisconnectedLends
  <2>3. ASSUME NEW r \in Resource, Release(c, r) PROVE Goal
    <3>1. CASE ReleaseIgnored(c, r)
      BY <1>1, <3>1 DEF ReleaseIgnored
    <3>2. CASE ReleaseOwned(c, r)
      BY <3>2, ReleaseOwnedLends
    <3> QED
      BY <2>3, <3>1, <3>2 DEF Release
  <2>4. ASSUME NEW r \in Resource, NEW outcome \in Outcome, Acquire(c, r, outcome)
        PROVE  Goal
    <3>1. CASE AcquireDenied(c, r) \/ AcquireAgain(c, r)
      BY <1>1, <3>1 DEF AcquireDenied, AcquireAgain
    <3>2. CASE AcquireGranted(c, r)
      BY <2>4, <3>2, AcquireGrantedLends DEF Acquire
    <3>3. CASE AcquireQueued(c, r)
      BY <3>3, AcquireQueuedLends
    <3> QED
      BY <2>4, <3>1, <3>2, <3>3 DEF Acquire
  <2> QED
    BY <1>2, <2>1, <2>2, <2>3, <2>4 DEF ClientCommand
<1>3. ASSUME NEW c \in ClientId, Connection(c) PROVE Goal
  BY <1>3, SameSlotsLend DEF Connection, Receive, Hangup, DropReceiver, Abandon, slotVars
<1>4. CASE HotplugCommand
  BY <1>4, HotplugLends
<1>5. CASE Tick
  <2>1. /\ owner' = owner /\ waiters' = waiters
        /\ \A r \in Resource : revoke_deadline[r] # NoDeadline => revoke_deadline'[r] # NoDeadline
    BY <1>5 DEF Tick, IInv, TypeOK, NoDeadline
  <2> QED
    BY <2>1, SameSlotsLend
<1>6. CASE ForceReclaim
  BY <1>6, ForceReclaimLends
<1> QED
  BY <1>1, <1>2, <1>3, <1>4, <1>5, <1>6 DEF Next

-----------------------------------------------------------------------------
(* The theorems.                                                           *)

\* The engine implements Lending: whatever the policies, a resource passes only
\* to a client that waits and can be told, whoever starts to wait has the owner
\* asked, and no waiter that can be told is ever dropped.
THEOREM EngineLends == Spec => LendingImplemented
<1>1. Init => Lent!Init
  <2> SUFFICES ASSUME Init PROVE Lent!Init
    OBVIOUS
  <2>1. Up = {}
    BY DEF Init, Up
  <2>2. Waiting = [r \in Resource |-> {}]
    BY DEF Init, Waiting
  <2>3. Asked = [r \in Resource |-> FALSE]
    BY Zenon DEF Init, Asked
  <2> QED
    BY <2>1, <2>2, <2>3 DEF Init, Lent!Init
<1>2. IInv /\ IInv' /\ [Next]_vars => [Lent!Next]_(Lent!vars)
  BY NextLends, SlotsLend
<1> QED
  BY <1>1, <1>2, Invariance, PTL DEF Spec, LendingImplemented, Lent!Spec

\* The owner that answers a Revoke is not granted the resource straight back
\* while a client that can be told waits, under any policy.
THEOREM AskedOwnersYield == Spec => RevokedOwnerYields
<1> DEFINE Yields(r, c) == /\ owner[r] = c
                           /\ revoke_deadline[r] # NoDeadline
                           /\ \E i \in DOMAIN waiters[r] : waiters[r][i].client \in Up
                           /\ Release(c, r)
                           => owner'[r] # c
<1>1. ASSUME IInv, NEW r \in Resource, NEW c \in ClientId PROVE Yields(r, c)
  <2> SUFFICES ASSUME owner[r] = c, Release(c, r), owner'[r] = c,
                      NEW i \in DOMAIN waiters[r], waiters[r][i].client \in Up
               PROVE  FALSE
    OBVIOUS
  <2>1. ReleaseOwned(c, r)
    BY DEF Release, ReleaseIgnored
  <2>2. ~IsQueued(waiters[r], waiters[r][i].client)
    BY <1>1, <2>1, OwnerThatReleasesYields
  <2> QED
    BY <2>2 DEF IsQueued
<1>2. IInv => [\A r \in Resource, c \in ClientId : Yields(r, c)]_vars
  BY <1>1
<1> QED
  BY <1>2, Invariance, PTL DEF Spec, RevokedOwnerYields

-----------------------------------------------------------------------------
(* The step in which a resource changes hands.                             *)

\* The handlers that take a resource from an owner; every other step leaves the
\* owners alone or gives away a slot nobody waits for.
LEMMA OwnersMove ==
    ASSUME IInv, [Next]_vars
    PROVE  \/ \A r \in Resource :
                  \/ owner'[r] = owner[r]
                  \/ owner[r] = NoClient /\ waiters[r] = <<>>
           \/ \E c \in ClientId, r \in Resource : c \in control_reg /\ ReleaseOwned(c, r)
           \/ ForceReclaim
           \/ \E c \in ClientId : Disconnected(c)
<1> DEFINE Same == \A r \in Resource : \/ owner'[r] = owner[r]
                                       \/ owner[r] = NoClient /\ waiters[r] = <<>>
<1>1. TypeOK
  BY DEF IInv
<1>2. CASE owner' = owner
  BY <1>2
<1>3. ASSUME NEW c \in ClientId, NEW r \in Resource, NEW outcome, Acquire(c, r, outcome)
      PROVE  Same
  <2>1. CASE AcquireDenied(c, r) \/ AcquireAgain(c, r)
    BY <2>1 DEF AcquireDenied, AcquireAgain, vars, slotVars
  <2>2. CASE AcquireGranted(c, r)
    <3>1. owner[r] = NoClient
      <4>1. PolicyOf[r] \in Policies /\ Decision(c, r) = "Grant"
        BY <2>2, ConstantsAssumption DEF AcquireGranted
      <4> QED
        BY <4>1 DEF Decision, Decide, State, Policies
    <3>2. waiters[r] = <<>>
      BY <3>1 DEF IInv, NoIdleWaiters
    <3> QED
      BY <1>1, <2>2, <3>1, <3>2 DEF AcquireGranted, TypeOK
  <2>3. CASE AcquireQueued(c, r)
    BY <2>3, AcquireKeepsOwners
  <2> QED
    BY <1>3, <2>1, <2>2, <2>3, Zenon DEF Acquire
<1>4. ASSUME NEW c \in ClientId, Register(c) \/ Connection(c) PROVE Same
  BY <1>4 DEF Register, Connection, Receive, Hangup, DropReceiver, Abandon, slotVars
<1>5. CASE HotplugCommand
  <2>1. ASSUME NEW r \in Input, Resume(r) PROVE owner' = owner
    <3>1. r \in Resource
      BY Zenon DEF Resource
    <3> QED
      BY <1>1, <2>1, <3>1 DEF Resume, IInv, OnlyRegisteredHold, TypeOK
  <2> QED
    BY <1>2, <1>5, <2>1 DEF HotplugCommand, Suspend, Offer, Broadcast, slotVars
<1>6. CASE Tick \/ UNCHANGED vars
  BY <1>2, <1>6 DEF Tick, vars, slotVars
<1>7. ASSUME NEW c \in ClientId, NEW r \in Resource, Release(c, r)
      PROVE  Same \/ (c \in control_reg /\ ReleaseOwned(c, r))
  BY <1>7 DEF Release, ReleaseIgnored, vars, slotVars
<1> QED
  BY <1>3, <1>4, <1>5, <1>6, <1>7 DEF Next, ClientCommand

-----------------------------------------------------------------------------
(* Leaving the display.                                                    *)

\* A client that stops holding a display, by its own Release or by a timeout,
\* is asked in the same step for every input it holds, one it is handed in that
\* step included.
THEOREM SeatGivesInputsBack == Spec => LeavingSeatAsksInputs
<1> DEFINE Asks(c) == HoldsDisplay(c) /\ ~HoldsDisplay(c)' =>
                          \A r \in Input :
                              owner'[r] = c => revoke_deadline'[r] = REVOKE_TIMEOUT
<1>1. ASSUME IInv, IInv', [Next]_vars, NEW c \in ClientId PROVE Asks(c)
  <2> SUFFICES ASSUME NEW d \in Display, owner[d] = c, owner'[d] # c,
                      NEW r \in Input, owner'[r] = c
               PROVE  revoke_deadline'[r] = REVOKE_TIMEOUT
    BY DEF HoldsDisplay
  <2>1. d \in Resource /\ r \in Resource /\ c # NoClient
    BY ConstantsAssumption DEF Resource
  <2>2. c \in control_reg
    BY <1>1, <2>1 DEF IInv, OnlyRegisteredHold
  <2>3. r \in SeatInputs(c)
    BY <2>2, Zenon DEF SeatInputs
  <2>4. ASSUME NEW o \in ClientId, NEW q \in Resource, ReleaseOwned(o, q)
        PROVE  revoke_deadline'[r] = REVOKE_TIMEOUT
    <3>1. q = d /\ o = c
      BY <2>1, <2>4 DEF ReleaseOwned, FreeAndGrantNext
    <3> QED
      BY <2>1, <2>3, <2>4, <3>1, Zenon DEF ReleaseOwned
  <2>5. CASE ForceReclaim
    <3>1. d \in Expired
      BY <2>1, <2>5 DEF ForceReclaim, FreeAndGrantNext
    <3> DEFINE lost == {x \in Expired \cap Display : owner[x] = c}
    <3>2. d \in lost /\ lost \in SUBSET Resource
      BY <3>1 DEF Resource
    <3> HIDE DEF lost
    <3>3. IsFiniteSet(lost) /\ Cardinality(lost) \in Nat /\ Cardinality(lost) # 0
      BY <3>2, ConstantsAssumption, FS_Subset, FS_CardinalityType, FS_EmptySet
    <3>4. SeatsLost(c) > 0
      BY <3>3 DEF SeatsLost, lost
    <3>5. r \in UNION {SeatInputs(o) : o \in {x \in ClientId : SeatsLost(x) > 0}}
      BY <2>3, <3>4
    <3> QED
      BY <2>1, <2>5, <3>5 DEF ForceReclaim
  <2>6. ASSUME NEW o \in ClientId, Disconnected(o)
        PROVE  revoke_deadline'[r] = REVOKE_TIMEOUT
    <3>1. o = c
      BY <2>1, <2>6 DEF Disconnected, FreeAndGrantNext
    <3>2. c \notin control_reg'
      BY <2>6, <3>1 DEF Disconnected
    <3> QED
      BY <1>1, <2>1, <3>2, Zenon DEF IInv, OnlyRegisteredHold
  <2> QED
    BY <1>1, <2>1, <2>4, <2>5, <2>6, OwnersMove
<1>2. IInv /\ IInv' /\ [Next]_vars => [\A c \in ClientId : Asks(c)]_vars
  BY <1>1
<1> QED
  BY <1>2, Invariance, PTL DEF Spec, LeavingSeatAsksInputs

-----------------------------------------------------------------------------
(* Telling the new owner.                                                  *)

\* A visit of the slots visits each of them.
LEMMA OrdersVisitAll ==
    ASSUME NEW ord \in IterationOrders, NEW r \in Resource
    PROVE  \E i \in DOMAIN ord : ord[i] = r
<1> DEFINE n == Cardinality(Resource)
<1>1. n \in Nat /\ IsFiniteSet(Resource)
  BY ConstantsAssumption, FS_CardinalityType
<1>2. IsFiniteSet(1 .. n) /\ Cardinality(1 .. n) = n
  <2> HIDE DEF n
  <2> QED
    BY <1>1, FS_Interval
<1>3. ord \in Injection(1 .. n, Resource)
  BY DEF IterationOrders, Injection, IsInjective
<1>4. ord \in Surjection(1 .. n, Resource)
  BY <1>1, <1>2, <1>3, FS_Injection
<1> QED
  BY <1>4 DEF Surjection, IterationOrders

\* The messages about a set of slots have one for each of them.
LEMMA MessagesMention ==
    ASSUME NEW ord \in IterationOrders, NEW type \in {"Grant", "Revoke"}, NEW S,
           NEW r \in Resource, r \in S
    PROVE  \E j \in DOMAIN Messages(type, ord, S) :
               Messages(type, ord, S)[j] = [type |-> type, resource |-> r]
<1> DEFINE K == {i \in DOMAIN ord : ord[i] \in S}
<1>1. ord \in Seq(Resource) /\ K \in SUBSET DOMAIN ord
  BY IterationOrdersType
<1>2. PICK i \in K : ord[i] = r
  BY OrdersVisitAll
<1>3. /\ DOMAIN Messages(type, ord, S) = DOMAIN Keep(ord, K)
      /\ \A j \in DOMAIN Keep(ord, K) :
             Messages(type, ord, S)[j] = [type |-> type, resource |-> Keep(ord, K)[j]]
  BY DEF Messages
<1> HIDE DEF K
<1>4. Rank(K, i) \in DOMAIN Keep(ord, K) /\ Keep(ord, K)[Rank(K, i)] = r
  BY <1>1, <1>2, KeepOnto
<1> QED
  BY <1>3, <1>4

\* How often a client is an ex-seat is a number.
LEMMA SeatsLostType ==
    ASSUME NEW c
    PROVE  SeatsLost(c) \in Nat
<1> DEFINE lost == {d \in Expired \cap Display : owner[d] = c}
<1>1. lost \in SUBSET Resource
  BY DEF Resource
<1>2. IsFiniteSet(lost)
  BY <1>1, ConstantsAssumption, FS_Subset
<1> QED
  BY <1>2, FS_CardinalityType DEF SeatsLost

\* Where the elements of b are in a \o b.
LEMMA AppendedAfter ==
    ASSUME NEW S, NEW a \in Seq(S), NEW b \in Seq(S), NEW j \in 1 .. Len(b)
    PROVE  /\ Len(a) + j \in Len(a) + 1 .. Len(a \o b)
           /\ (a \o b)[Len(a) + j] = b[j]
<1>1. Len(a) \in Nat /\ Len(b) \in Nat
  OBVIOUS
<1>2. Len(a \o b) = Len(a) + Len(b)
  OBVIOUS
<1>3. Len(a) + j \in 1 .. Len(a) + Len(b) /\ Len(a) + j > Len(a)
  BY <1>1
<1>4. (a \o b)[Len(a) + j] = b[(Len(a) + j) - Len(a)]
  BY <1>1, <1>3
<1>5. (Len(a) + j) - Len(a) = j
  BY <1>1
<1> QED
  BY <1>1, <1>2, <1>3, <1>4, <1>5

\* Whoever is handed a resource from the queue is sent its Grant in the same
\* step, by whichever of the three handlers that hand over.
THEOREM NewOwnersAreTold == Spec => HandoverIsTold
<1> DEFINE Told(r, c) ==
               owner[r] \notin {NoClient, c} /\ owner'[r] = c =>
                   \E k \in Len(control[c]) + 1 .. Len(control'[c]) :
                       control'[c][k] = [type |-> "Grant", resource |-> r]
<1>1. ASSUME IInv, [Next]_vars, NEW r \in Resource, NEW c \in ClientId
      PROVE  Told(r, c)
  <2> SUFFICES ASSUME owner[r] # NoClient, owner[r] # c, owner'[r] = c
               PROVE  \E k \in Len(control[c]) + 1 .. Len(control'[c]) :
                          control'[c][k] = [type |-> "Grant", resource |-> r]
    OBVIOUS
  <2> DEFINE Goal == \E k \in Len(control[c]) + 1 .. Len(control'[c]) :
                         control'[c][k] = [type |-> "Grant", resource |-> r]
             grant == [type |-> "Grant", resource |-> r]
  <2>1. TypeOK /\ c # NoClient
    BY <1>1, ConstantsAssumption, Zenon DEF IInv
  <2>2. c \in Up'
    <3>1. SlotLends(r)
      BY <1>1, NextLends, Zenon
    <3> QED
      BY <2>1, <3>1 DEF SlotLends
  <2>3. ASSUME NEW ord \in IterationOrders, NEW S, r \in S, c \in Up,
               NEW msgs, Push(msgs), NEW rest \in Seq(ControlMessage),
               msgs[c] = GrantsOf(ord, S)[c] \o rest
        PROVE  Goal
    <3> DEFINE mine == {q \in S : owner'[q] = c}
               first == Messages("Grant", ord, mine)
    <3>1. GrantsOf(ord, S)[c] = first
      BY DEF GrantsOf
    <3>2. ord \in Seq(Resource)
      BY IterationOrdersType
    <3>3. first \in Seq(ControlMessage)
      BY <3>2, MessagesType
    <3>4. r \in mine
      BY <2>3
    <3> HIDE DEF mine
    <3>5. \E j \in DOMAIN Messages("Grant", ord, mine) :
              Messages("Grant", ord, mine)[j] = [type |-> "Grant", resource |-> r]
      BY <3>4, MessagesMention
    <3> HIDE DEF first, grant
    <3>6. PICK j \in DOMAIN first : first[j] = grant
      BY <3>5 DEF first, grant
    <3>7. msgs[c] = first \o rest
      BY <2>3, <3>1
    <3>8. /\ first \o rest \in Seq(ControlMessage)
          /\ j \in 1 .. Len(first \o rest)
          /\ (first \o rest)[j] = first[j]
      BY <3>3, <3>6
    <3>9. /\ msgs[c] \in Seq(ControlMessage)
          /\ j \in 1 .. Len(msgs[c])
          /\ msgs[c][j] = grant
      BY <3>6, <3>7, <3>8
    <3>10. control[c] \in Seq(ControlMessage)
      BY <2>1 DEF TypeOK
    <3>11. control'[c] = control[c] \o msgs[c]
      BY <2>3, Zenon DEF Push
    <3>12. /\ Len(control[c]) + j \in Len(control[c]) + 1 .. Len(control[c] \o msgs[c])
           /\ (control[c] \o msgs[c])[Len(control[c]) + j] = msgs[c][j]
      <4> DEFINE old == control[c]
                 new == msgs[c]
      <4>1. old \in Seq(ControlMessage) /\ new \in Seq(ControlMessage) /\ j \in 1 .. Len(new)
        BY <3>9, <3>10
      <4> HIDE DEF old, new
      <4>2. /\ Len(old) + j \in Len(old) + 1 .. Len(old \o new)
            /\ (old \o new)[Len(old) + j] = new[j]
        BY <4>1, AppendedAfter, ZenonT(40)
      <4> QED
        BY <4>2, Zenon DEF old, new
    <3> QED
      <4>1. Len(control[c]) + j \in Len(control[c]) + 1 .. Len(control'[c])
        BY <3>11, <3>12, Zenon
      <4>2. control'[c][Len(control[c]) + j] = grant
        BY <3>9, <3>11, <3>12, Zenon
      <4> QED
        BY <4>1, <4>2 DEF grant
  <2>4. ASSUME NEW o \in ClientId, NEW q \in Resource, ReleaseOwned(o, q) PROVE Goal
    <3>1. q = r
      BY <2>4 DEF ReleaseOwned, FreeAndGrantNext
    <3>2. c \in Up
      BY <2>2, <2>4, ZenonT(40) DEF ReleaseOwned, Up
    <3> DEFINE inputs == IF q \in Display THEN SeatInputs(o) ELSE {}
               asked(x) == IF x = o THEN inputs ELSE {}
               msgs(ord) == [x \in ClientId |-> GrantsOf(ord, {q})[x] \o
                                                Messages("Revoke", ord, asked(x))]
    <3>3. PICK ord \in IterationOrders : Push(msgs(ord))
      BY <2>4, Zenon DEF ReleaseOwned
    <3>4. ord \in Seq(Resource)
      BY IterationOrdersType
    <3> HIDE DEF asked
    <3>5. Messages("Revoke", ord, asked(c)) \in Seq(ControlMessage)
      BY <3>4, MessagesType
    <3>6. msgs(ord)[c] = GrantsOf(ord, {q})[c] \o Messages("Revoke", ord, asked(c))
      OBVIOUS
    <3>7. r \in {q}
      BY <3>1, Zenon
    <3> HIDE DEF msgs
    <3> QED
      BY <2>3, <3>2, <3>3, <3>5, <3>6, <3>7, ZenonT(40)
  <2>5. CASE ForceReclaim
    <3>1. r \in Expired
      BY <2>5 DEF ForceReclaim, FreeAndGrantNext
    <3>2. c \in Up
      BY <2>2, <2>5 DEF ForceReclaim, Up
    <3> DEFINE rest(ord, x) == Repeated(Messages("Revoke", ord, SeatInputs(x)), SeatsLost(x))
               msgs(ord) == [x \in ClientId |-> GrantsOf(ord, Expired)[x] \o rest(ord, x)]
    <3>3. PICK ord \in IterationOrders : Push(msgs(ord))
      BY <2>5, Zenon DEF ForceReclaim
    <3>4. ord \in Seq(Resource)
      BY IterationOrdersType
    <3>5. Messages("Revoke", ord, SeatInputs(c)) \in Seq(ControlMessage)
      BY <3>4, MessagesType
    <3>6. SeatsLost(c) \in Nat
      BY SeatsLostType
    <3>7. rest(ord, c) \in Seq(ControlMessage)
      BY <3>5, <3>6, RepeatedType
    <3> HIDE DEF rest
    <3>8. msgs(ord)[c] = GrantsOf(ord, Expired)[c] \o rest(ord, c)
      OBVIOUS
    <3> HIDE DEF msgs
    <3> QED
      BY <2>3, <3>1, <3>2, <3>3, <3>7, <3>8, Zenon
  <2>6. ASSUME NEW o \in ClientId, Disconnected(o) PROVE Goal
    <3> DEFINE owned == {q \in Resource : owner[q] = o}
    <3>1. r \in owned
      BY <2>6 DEF Disconnected, FreeAndGrantNext
    <3>2. c \in Up
      BY <2>2, <2>6, Zenon DEF Disconnected, Up
    <3>3. PICK ord \in IterationOrders : Push(GrantsOf(ord, owned))
      BY <2>6 DEF Disconnected
    <3>4. ord \in Seq(Resource)
      BY IterationOrdersType, Zenon
    <3> HIDE DEF owned
    <3>5. GrantsOf(ord, owned)[c] \in Seq(ControlMessage)
      BY <3>4, GrantsOfType
    <3>6. GrantsOf(ord, owned)[c] = GrantsOf(ord, owned)[c] \o <<>>
      BY <3>5
    <3>7. <<>> \in Seq(ControlMessage)
      OBVIOUS
    <3> QED
      BY <2>3, <3>1, <3>2, <3>3, <3>6, <3>7, ZenonT(40)
  <2> QED
    BY <1>1, <2>4, <2>5, <2>6, OwnersMove
<1>2. IInv /\ [Next]_vars => [\A r \in Resource, c \in ClientId : Told(r, c)]_vars
  BY <1>1
<1> QED
  BY <1>2, Invariance, PTL DEF Spec, HandoverIsTold

-----------------------------------------------------------------------------
(* Serving in order.                                                       *)

\* grant_next under FairQueue, on a queue with a ahead of b: if b is served and
\* a still waits, b is a claim and a is not.
LEMMA ServedInOrder ==
    ASSUME NEW r \in Resource, PolicyOf[r] = "FairQueue",
           NEW ws \in Seq(Waiter), Distinct(ws), NEW up,
           NEW a \in DOMAIN ws, NEW b \in DOMAIN ws, a < b,
           NextOwner(r, ws, up) = ws[b].client,
           IsQueued(LeftWaiting("FairQueue", ws, up), ws[a].client)
    PROVE  ws[b].seat_claim /\ ~ws[a].seat_claim
<1> DEFINE W == Winner("FairQueue", ws, up)
<1>1. ws \in Seq(WaiterOf(ClientId))
  BY DEF Waiter, WaiterOf
<1>2. ws[b] \in Waiter
  OBVIOUS
<1>3. ws[b].client # NoClient
  BY <1>2, ConstantsAssumption DEF Waiter
<1>4. W # {} /\ ws[CHOOSE i \in W : TRUE].client = ws[b].client
  BY <1>3 DEF NextOwner
<1>5. \A i \in W : i \in DOMAIN ws
  BY DEF Winner, Servable
<1> HIDE DEF W
<1>6. PICK k \in W : ws[k].client = ws[b].client
  BY <1>4
<1>7. b \in W
  BY <1>5, <1>6 DEF Distinct
<1> QED
  BY <1>1, <1>7, FairQueueOrder DEF W

\* Under FairQueue nobody is served ahead of a client that was in front of it
\* and still waits, except a seat claim ahead of a plain request: not when the
\* owner releases and is requeued, not when several slots are reclaimed at
\* once, and not when entries of a disconnecting client leave the queue.
THEOREM FairQueueServesInOrder == Spec => NoOvertaking
<1> DEFINE InOrder(r, i, j) ==
               /\ i < j
               /\ owner'[r] = waiters[r][j].client
               /\ IsQueued(waiters'[r], waiters[r][i].client)
               => waiters[r][j].seat_claim /\ ~waiters[r][i].seat_claim
<1>1. ASSUME IInv, [Next]_vars, NEW r \in Resource, PolicyOf[r] = "FairQueue",
             NEW i \in DOMAIN waiters[r], NEW j \in DOMAIN waiters[r]
      PROVE  InOrder(r, i, j)
  <2> SUFFICES ASSUME i < j, owner'[r] = waiters[r][j].client,
                      IsQueued(waiters'[r], waiters[r][i].client)
               PROVE  waiters[r][j].seat_claim /\ ~waiters[r][i].seat_claim
    OBVIOUS
  <2> DEFINE Goal == waiters[r][j].seat_claim /\ ~waiters[r][i].seat_claim
             ahead == waiters[r][i]
             served == waiters[r][j]
  <2>1. waiters[r] \in Seq(Waiter) /\ Distinct(waiters[r])
    BY <1>1, IInvQueues DEF GoodQueue
  <2>2. ahead \in Waiter /\ served \in Waiter
    BY <2>1
  <2>3. waiters \in [Resource -> Seq(Waiter)]
    BY <1>1 DEF IInv, TypeOK
  <2>4. owner'[r] # owner[r] /\ waiters[r] # <<>>
    BY <1>1, SMTT(30) DEF IInv, QueuedOnce, IsQueued
  <2>5. ASSUME NEW ws \in Seq(Waiter), Distinct(ws), NEW up,
               NEW a \in DOMAIN ws, NEW b \in DOMAIN ws, a < b,
               ws[a] = ahead, ws[b] = served,
               owner'[r] = NextOwner(r, ws, up),
               waiters'[r] = LeftWaiting(PolicyOf[r], ws, up)
        PROVE  Goal
    <3>1. NextOwner(r, ws, up) = ws[b].client
      BY <2>5, Zenon
    <3>2. IsQueued(LeftWaiting("FairQueue", ws, up), ws[a].client)
      BY <1>1, <2>5
    <3>3. ws[b].seat_claim /\ ~ws[a].seat_claim
      BY <1>1, <2>5, <3>1, <3>2, ServedInOrder, ZenonT(40)
    <3> QED
      BY <2>5, <3>3, Zenon
  <2>6. ASSUME NEW c \in ClientId, NEW q \in Resource, ReleaseOwned(c, q) PROVE Goal
    <3> DEFINE w == [client |-> c, seat_claim |-> FALSE]
               t == RequeueWaiter(PolicyOf[q], waiters[q], w)
               ws == IF revoke_deadline[q] # NoDeadline /\ waiters[q] # <<>>
                     THEN t ELSE waiters[q]
    <3>1. owner[q] = c /\ FreeAndGrantNext({q}, [waiters EXCEPT ![q] = ws], Up)
      BY <2>6, ZenonT(40) DEF ReleaseOwned
    <3>2. q = r
      <4> HIDE DEF ws
      <4> QED
        BY <2>4, <3>1, Zenon DEF FreeAndGrantNext
    <3>3. owner'[r] = NextOwner(r, ws, Up) /\ waiters'[r] = LeftWaiting(PolicyOf[r], ws, Up)
      <4> HIDE DEF ws
      <4> QED
        BY <2>3, <3>1, <3>2 DEF FreeAndGrantNext
    <3>4. w \in WaiterOf(ClientId) /\ w.client = c
      BY DEF WaiterOf
    <3>5. waiters[r] \in Seq(WaiterOf(ClientId)) /\ "FairQueue" \in Policies
      BY <2>1, Zenon DEF Waiter, WaiterOf, Policies
    <3>6. ~IsQueued(waiters[r], c)
      BY <1>1, <3>1, <3>2 DEF IInv, QueuedOnce
    <3> HIDE DEF w
    <3>7. t \in Seq(WaiterOf(ClientId)) /\ Distinct(t)
      BY <1>1, <2>1, <3>2, <3>4, <3>5, <3>6, RequeueProperties, ZenonT(40)
    <3>8. DOMAIN t = 1 .. Len(waiters[r]) + 1 /\ \A k \in 1 .. Len(waiters[r]) : t[k] = waiters[r][k]
      BY <1>1, <3>2, <3>4, <3>5, RequeueOrder, SMTT(30)
    <3>9. t \in Seq(Waiter)
      BY <3>7 DEF Waiter, WaiterOf
    <3> HIDE DEF t
    <3>10. /\ ws \in Seq(Waiter) /\ Distinct(ws)
           /\ i \in DOMAIN ws /\ j \in DOMAIN ws
           /\ ws[i] = ahead /\ ws[j] = served
      <4>1. CASE ws = waiters[r]
        BY <2>1, <4>1, Zenon
      <4>2. CASE ws = t
        <5>1. Len(waiters[r]) \in Nat /\ i \in 1 .. Len(waiters[r]) /\ j \in 1 .. Len(waiters[r])
          BY <2>1
        <5>2. i \in DOMAIN t /\ j \in DOMAIN t /\ t[i] = ahead /\ t[j] = served
          BY <3>8, <5>1, SMTT(30)
        <5> HIDE DEF ws
        <5> QED
          BY <3>7, <3>9, <4>2, <5>2, Zenon
      <4> QED
        BY <3>2, <4>1, <4>2, ZenonT(40)
    <3> HIDE DEF ws
    <3> QED
      BY <2>5, <3>3, <3>10, ZenonT(40)
  <2>7. CASE ForceReclaim
    <3>1. owner'[r] = NextOwner(r, waiters[r], Up) /\ waiters'[r] = LeftWaiting(PolicyOf[r], waiters[r], Up)
      BY <2>4, <2>7, ZenonT(40) DEF ForceReclaim, FreeAndGrantNext
    <3> QED
      BY <2>1, <2>5, <3>1
  <2>8. ASSUME NEW c \in ClientId, Disconnected(c) PROVE Goal
    <3> DEFINE ws == Without(waiters[r], c)
    <3>1. owner'[r] = NextOwner(r, ws, Up \ {c}) /\ waiters'[r] = LeftWaiting(PolicyOf[r], ws, Up \ {c})
      BY <2>4, <2>8, ZenonT(40) DEF Disconnected, FreeAndGrantNext
    <3>2. waiters[r] \in Seq(WaiterOf(ClientId))
      BY <2>1, Zenon DEF Waiter, WaiterOf
    <3>3. /\ ws \in Seq(WaiterOf(ClientId)) /\ Distinct(ws)
          /\ ~IsQueued(ws, c) /\ Within(ws, waiters[r])
      BY <2>1, <3>2, WithoutProperties, Zenon
    <3>4. ws \in Seq(Waiter)
      BY <3>3 DEF Waiter, WaiterOf
    <3> HIDE DEF ws
    <3>5. ahead.client # c
      <4>1. Within(LeftWaiting(PolicyOf[r], ws, Up \ {c}), ws)
        BY <3>3, GrantNextProperties, ZenonT(40)
      <4>2. IsQueued(ws, ahead.client)
        BY <3>1, <4>1, ZenonT(40) DEF Within, IsQueued
      <4> QED
        BY <3>3, <4>2
    <3>6. served.client # c
      <4>1. Up \ {c} \in SUBSET ClientId
        BY <1>1 DEF IInv, TypeOK, Up
      <4>2. GoodQueue(r, ws)
        BY <1>1, <3>3, <3>4, Zenon DEF GoodQueue
      <4>3. NextOwner(r, ws, Up \ {c}) \in (Up \ {c}) \cup {NoClient}
        BY <4>1, <4>2, NextOwnerProperties, Zenon
      <4>4. served.client # NoClient
        BY <2>2, ConstantsAssumption, Zenon DEF Waiter
      <4> QED
        BY <3>1, <4>3, <4>4, Zenon
    <3>7. InThisOrder(Without(waiters[r], c), waiters[r][i], waiters[r][j])
      BY <3>2, <3>5, <3>6, WithoutOrder, Zenon
    <3>8. PICK a \in DOMAIN ws, b \in DOMAIN ws : a < b /\ ws[a] = ahead /\ ws[b] = served
      BY <3>7 DEF ws, InThisOrder
    <3> QED
      BY <2>5, <3>1, <3>3, <3>4, <3>8, Zenon
  <2> QED
    BY <1>1, <2>4, <2>6, <2>7, <2>8, OwnersMove, Zenon
<1>2. IInv /\ [Next]_vars =>
          [\A r \in Resource : PolicyOf[r] = "FairQueue" =>
              \A i, j \in DOMAIN waiters[r] : InOrder(r, i, j)]_vars
  BY <1>1
<1> QED
  BY <1>2, Invariance, PTL DEF Spec, NoOvertaking
==============================================================================

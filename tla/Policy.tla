------------------------------- MODULE Policy -------------------------------
(***************************************************************************)
(* The pure decisions of the policy engine: what a slot answers to an      *)
(* Acquire, who is served next from its queue, and where a preempted owner *)
(* goes back into it.  No state: PolicyEngine applies these operators to   *)
(* its slots.                                                              *)
(*                                                                         *)
(* A slot's queue is a sequence of waiters, front first, as in the code's  *)
(* VecDeque.  A waiter is a client and the seat_claim flag: TRUE when the  *)
(* client held a display and queued to take an input device from a holder  *)
(* that had none.                                                          *)
(***************************************************************************)
EXTENDS Integers, Sequences, FiniteSets

Policies == {"FirstOwner", "LatestOwner", "FairQueue"}

\* Policy::decide.
Decide(policy, state) ==
    CASE state = "Free"                                -> "Grant"
      [] state # "Free" /\ policy = "FirstOwner"       -> "Deny"
      [] state = "Granted" /\ policy # "FirstOwner"    -> "RevokeAndQueue"
      [] state = "Revoking" /\ policy # "FirstOwner"   -> "Queue"

\* Faults: the two ends of the queue are mixed up; FirstOwner requeues like the
\* others.
RequeueSwapped(policy, ws, w) ==
    CASE policy = "FirstOwner"  -> ws
      [] policy = "LatestOwner" -> Append(ws, w)
      [] policy = "FairQueue"   -> <<w>> \o ws

RequeueAlways(policy, ws, w) ==
    IF policy = "LatestOwner" THEN <<w>> \o ws ELSE Append(ws, w)

\* Policy::requeue_waiter: LatestOwner pops from the back, so both orders
\* put the preempted owner where it is served last.
RequeueWaiter(policy, ws, w) ==
    CASE policy = "FirstOwner"  -> ws
      [] policy = "LatestOwner" -> <<w>> \o ws
      [] policy = "FairQueue"   -> Append(ws, w)

-----------------------------------------------------------------------------
(***************************************************************************)
(* The elements of s at the positions in K, in their order in s: what      *)
(* VecDeque::retain and VecDeque::remove leave behind.                     *)
(***************************************************************************)
Rank(K, i) == Cardinality({k \in K : k <= i})

Position(K, j) == CHOOSE i \in K : Rank(K, i) = j

Keep(s, K) == [j \in 1 .. Cardinality(K) |-> s[Position(K, j)]]

\* Fault: nothing is removed.
WithoutNothing(ws, c) == ws

\* waiters.retain(|waiter| waiter.client != c)
Without(ws, c) == Keep(ws, {i \in DOMAIN ws : ws[i].client # c})

\* Fault: only the front of the queue is looked at.
IsAtFront(ws, c) == ws # <<>> /\ ws[1].client = c

\* Slot::is_queued
IsQueued(ws, c) == \E i \in DOMAIN ws : ws[i].client = c

-----------------------------------------------------------------------------
(***************************************************************************)
(* grant_next pops seat claims first, oldest first, then asks the policy:  *)
(* FairQueue pops the front, LatestOwner the back, FirstOwner nothing.  A  *)
(* popped waiter whose channel does not take the Grant is dropped and the  *)
(* next one is popped.  Up is the set of clients whose channel does.       *)
(***************************************************************************)

\* Fault: FirstOwner serves nobody, not even a claim.
PoppableByPolicy(policy, w) == policy # "FirstOwner"

\* Slot::pop_seat_claim and Policy::pop_waiter between them can pop w.
Poppable(policy, w) == w.seat_claim \/ policy # "FirstOwner"

\* Fault: every policy serves the newest waiter first.
NewestFirst(policy, ws, i, j) ==
    \/ ws[i].seat_claim /\ ~ws[j].seat_claim
    \/ ws[i].seat_claim = ws[j].seat_claim /\ j < i

\* Position i of ws is popped before position j.
PoppedBefore(policy, ws, i, j) ==
    \/ ws[i].seat_claim /\ ~ws[j].seat_claim
    \/ ws[i].seat_claim /\ ws[j].seat_claim /\ i < j
    \/ /\ ~ws[i].seat_claim /\ ~ws[j].seat_claim
       /\ IF policy = "LatestOwner" THEN j < i ELSE i < j

\* Fault: the result of the send is not looked at.
ServableUnchecked(policy, ws, Up) == {i \in DOMAIN ws : Poppable(policy, ws[i])}

\* The positions the loop can end on, the winner among them, and its queue
\* when it has ended.  Winner is {} when no waiter could be told.
Servable(policy, ws, Up) ==
    {i \in DOMAIN ws : Poppable(policy, ws[i]) /\ ws[i].client \in Up}

Winner(policy, ws, Up) ==
    {i \in Servable(policy, ws, Up) :
        \A j \in Servable(policy, ws, Up) :
            i = j \/ PoppedBefore(policy, ws, i, j)}

\* Fault: the queue goes with the owner it was for.
LeftBehind(policy, ws, Up) == <<>>

LeftWaiting(policy, ws, Up) ==
    Keep(ws, {i \in DOMAIN ws :
                 \/ ~Poppable(policy, ws[i])
                 \/ \E k \in Winner(policy, ws, Up) :
                        PoppedBefore(policy, ws, k, i)})
=============================================================================

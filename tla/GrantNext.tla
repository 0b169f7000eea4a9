----------------------------- MODULE GrantNext ------------------------------
(***************************************************************************)
(* grant_next as the loop it is in the code: pop a waiter, try to tell it, *)
(* and go on until one has been told or nobody can be popped.              *)
(*                                                                         *)
(* Policy gives the outcome of this loop in closed form (Winner and        *)
(* LeftWaiting), which is what PolicyEngine and its proofs use.  Here the  *)
(* two are compared for every queue a slot can have.                       *)
(***************************************************************************)
EXTENDS Policy

CONSTANTS
    ClientId,
    NoClient

ASSUME ClientsAssumption == IsFiniteSet(ClientId)

VARIABLES
    policy,    \* slot.policy
    up,        \* the clients whose control channel takes a message
    queue,     \* slot.waiters when grant_next is called
    waiters,   \* slot.waiters
    owner,     \* slot.owner, freed by the caller
    running

vars == <<policy, up, queue, waiters, owner, running>>

\* The queues of a slot: nobody waits twice, and for FirstOwner only claims do.
Queues ==
    {ws \in UNION {[1 .. n -> [client : ClientId, seat_claim : BOOLEAN]] :
                      n \in 0 .. Cardinality(ClientId)} :
        \A i, j \in DOMAIN ws : ws[i].client = ws[j].client => i = j}

Init ==
    /\ policy \in Policies
    /\ up \in SUBSET ClientId
    /\ queue \in Queues
    /\ policy = "FirstOwner" => \A i \in DOMAIN queue : queue[i].seat_claim
    /\ waiters = queue
    /\ owner = NoClient
    /\ running = TRUE

\* What VecDeque::remove and the two pops leave of a queue.
Remove(ws, i) == SubSeq(ws, 1, i - 1) \o SubSeq(ws, i + 1, Len(ws))

\* Slot::pop_seat_claim: the position of the first claim.
SeatClaim ==
    {i \in DOMAIN waiters :
        /\ waiters[i].seat_claim
        /\ \A j \in DOMAIN waiters : waiters[j].seat_claim => i <= j}

\* Policy::pop_waiter: the position it pops.
PopWaiter ==
    {i \in DOMAIN waiters : \/ policy = "LatestOwner" /\ i = Len(waiters)
                            \/ policy = "FairQueue" /\ i = 1}

\* Fault: the policy's waiter is popped first.
PopWaiterFirst == IF PopWaiter # {} THEN PopWaiter ELSE SeatClaim

Popped == IF SeatClaim # {} THEN SeatClaim ELSE PopWaiter

\* One turn of the loop.
NobodyLeft ==
    /\ running
    /\ Popped = {}
    /\ running' = FALSE
    /\ UNCHANGED <<policy, up, queue, waiters, owner>>

\* Fault: the queue is emptied when somebody has been told.
DeliverAndClear(i) ==
    /\ running
    /\ waiters[i].client \in up
    /\ waiters' = <<>>
    /\ owner' = waiters[i].client
    /\ running' = FALSE
    /\ UNCHANGED <<policy, up, queue>>

Deliver(i) ==
    /\ running
    /\ waiters[i].client \in up
    /\ waiters' = Remove(waiters, i)
    /\ owner' = waiters[i].client
    /\ running' = FALSE
    /\ UNCHANGED <<policy, up, queue>>

\* Fault: a waiter that could not be told is looked at and not removed.
PeekWaiter(i) ==
    /\ running
    /\ waiters[i].client \notin up
    /\ UNCHANGED vars

DropWaiter(i) ==
    /\ running
    /\ waiters[i].client \notin up
    /\ waiters' = Remove(waiters, i)
    /\ UNCHANGED <<policy, up, queue, owner, running>>

Next == NobodyLeft \/ \E i \in Popped : Deliver(i) \/ DropWaiter(i)

\* The engine runs the loop without giving up its thread.
Spec == Init /\ [][Next]_vars /\ WF_vars(Next)

-----------------------------------------------------------------------------
\* grant_next ends with the owner and the queue that Policy's closed form
\* gives, for every policy, queue and set of dead channels.
ClosedFormAgrees ==
    ~running =>
        /\ owner = LET won == Winner(policy, queue, up)
                   IN  IF won = {} THEN NoClient
                                   ELSE queue[CHOOSE i \in won : TRUE].client
        /\ waiters = LeftWaiting(policy, queue, up)

\* The loop drops only waiters whose channel is gone: whoever can be told is
\* the new owner or still waits.
NoLiveWaiterDropped ==
    \A i \in DOMAIN queue :
        queue[i].client \in up =>
            owner = queue[i].client \/ IsQueued(waiters, queue[i].client)

\* The loop ends, also when every channel is dead.
LoopEnds == <>~running
=============================================================================

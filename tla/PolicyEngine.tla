---------------------------- MODULE PolicyEngine ----------------------------
(***************************************************************************)
(* The policy engine: one task that owns every slot and handles one        *)
(* command at a time.  Each command is one action; a revoke deadline that  *)
(* elapses is another.                                                     *)
(*                                                                         *)
(* The connection tasks appear only as far as the engine depends on them:  *)
(* when a client's channel exists, when it stops taking messages, and      *)
(* which commands a client can still have in the engine's mailbox.         *)
(***************************************************************************)
EXTENDS Policy

CONSTANTS
    ClientId,        \* connections, over the whole run: ids are never reused
    NoClient,        \* None, for a slot's owner
    Display,         \* the DRM cards and the framebuffer
    Input,           \* the input devices
    Boot,            \* the resources registered when the daemon starts
    PolicyOf,        \* the policy of each slot
    Advertisements,  \* the resource lists the hot-plug task may push
    REVOKE_TIMEOUT   \* the grace period of a revoke, in ticks of the clock

Resource == Display \cup Input

ASSUME ConstantsAssumption ==
    /\ NoClient \notin ClientId
    /\ Display \cap Input = {}
    /\ IsFiniteSet(Resource)
    /\ Boot \subseteq Resource
    /\ PolicyOf \in [Resource -> Policies]
    /\ REVOKE_TIMEOUT \in Nat \ {0}

VARIABLES
    conn,             \* where each connection is in its life
    control_reg,      \* the clients that have a control channel registered
    control,          \* what each control channel holds, oldest first
    offered,          \* the resources that have a slot
    owner,            \* slot.owner
    waiters,          \* slot.waiters
    revoke_deadline,  \* slot.revoke_deadline, as the ticks left until it elapses
    suspended         \* slot.suspended

slotVars == <<offered, owner, waiters, revoke_deadline, suspended>>
vars == <<conn, control_reg, control, slotVars>>

NoDeadline == -1

Waiter == [client : ClientId, seat_claim : BOOLEAN]

ControlMessage ==
    [type : {"Grant", "Revoke"}, resource : Resource]
        \cup [type : {"Advertise"}, resources : Advertisements]

Outcome == {"Granted", "Queued", "Denied"}

TypeOK ==
    /\ conn \in [ClientId -> {"new", "open", "leaving", "closed", "abandoned"}]
    /\ control_reg \in SUBSET ClientId
    /\ control \in [ClientId -> Seq(ControlMessage)]
    /\ offered \in SUBSET Resource
    /\ owner \in [Resource -> ClientId \cup {NoClient}]
    /\ waiters \in [Resource -> Seq(Waiter)]
    /\ revoke_deadline \in [Resource -> NoDeadline .. REVOKE_TIMEOUT]
    /\ suspended \in [Resource -> BOOLEAN]

Init ==
    /\ conn = [c \in ClientId |-> "new"]
    /\ control_reg = {}
    /\ control = [c \in ClientId |-> <<>>]
    /\ offered = Boot
    /\ owner = [r \in Resource |-> NoClient]
    /\ waiters = [r \in Resource |-> <<>>]
    /\ revoke_deadline = [r \in Resource |-> NoDeadline]
    /\ suspended = [r \in Resource |-> FALSE]

-----------------------------------------------------------------------------
(* What the handlers share.                                                *)

\* Slot::state
State(r) ==
    CASE owner[r] = NoClient                                     -> "Free"
      [] owner[r] # NoClient /\ revoke_deadline[r] = NoDeadline  -> "Granted"
      [] owner[r] # NoClient /\ revoke_deadline[r] # NoDeadline  -> "Revoking"

HoldsDisplay(c) == \E d \in Display : owner[d] = c

\* The registered clients for which control.send succeeds: the receiver is
\* dropped when the connection task returns.
Up == {c \in control_reg : conn[c] \in {"open", "leaving"}}

\* grant_next on a slot whose queue is ws: the owner it ends with.
NextOwner(r, ws, up) ==
    LET w == Winner(PolicyOf[r], ws, up)
    IN  IF w = {} THEN NoClient ELSE ws[CHOOSE i \in w : TRUE].client

\* Frees the slots in S and runs grant_next on each, with queue[r] as r's
\* queue; the other slots keep their owner.
FreeAndGrantNext(S, queue, up) ==
    /\ owner' = [r \in Resource |->
                    IF r \in S THEN NextOwner(r, queue[r], up) ELSE owner[r]]
    /\ waiters' = [r \in Resource |->
                      IF r \in S THEN LeftWaiting(PolicyOf[r], queue[r], up)
                                 ELSE queue[r]]

\* The orders in which a HashMap can visit the slots.
IterationOrders ==
    {ord \in [1 .. Cardinality(Resource) -> Resource] :
        \A i, j \in DOMAIN ord : ord[i] = ord[j] => i = j}

\* One message for each resource of S, in the order ord visits them.
Messages(type, ord, S) ==
    LET visited == Keep(ord, {i \in DOMAIN ord : ord[i] \in S})
    IN  [j \in DOMAIN visited |-> [type |-> type, resource |-> visited[j]]]

\* s, n times over.
Repeated(s, n) == [j \in 1 .. n * Len(s) |-> s[((j - 1) % Len(s)) + 1]]

\* Pushes msgs[c] to every client that can be told; a send to a dropped
\* receiver fails and leaves nothing behind.
Push(msgs) ==
    control' = [c \in ClientId |->
                   IF c \in Up THEN control[c] \o msgs[c] ELSE control[c]]

\* The Grants of the slots in S just handed over, for each client.
GrantsOf(ord, S) ==
    [c \in ClientId |-> Messages("Grant", ord, {r \in S : owner'[r] = c})]

\* Fault: the inputs it held before the display changed hands.
SeatInputsBefore(c) == {r \in Input : c \in control_reg /\ owner[r] = c}

\* The inputs release_seat_inputs asks back from c, once ownership is final.
SeatInputs(c) == {r \in Input : c \in control_reg /\ owner'[r] = c}

-----------------------------------------------------------------------------
(* Acquire: acquire_one.                                                   *)

\* The app on the display takes a device from a holder that has no display.
SeatSteal(c, r) ==
    /\ r \in Input
    /\ HoldsDisplay(c)
    /\ owner[r] # NoClient
    /\ ~HoldsDisplay(owner[r])

\* Fault: the app on the display takes the device without asking its holder.
StealAtOnce(c, r) ==
    IF SeatSteal(c, r) THEN "Grant" ELSE Decide(PolicyOf[r], State(r))

\* A seat's claim goes before the policy.
Decision(c, r) ==
    IF SeatSteal(c, r) THEN "RevokeAndQueue" ELSE Decide(PolicyOf[r], State(r))

Refused(c, r) ==
    \/ r \notin offered
    \/ owner[r] = c
    \/ suspended[r]
    \/ r \in Input /\ ~HoldsDisplay(c) /\ owner[r] # NoClient
    \/ Decision(c, r) = "Deny"

AcquireDenied(c, r) ==
    /\ Refused(c, r)
    /\ UNCHANGED vars

AcquireGranted(c, r) ==
    /\ ~Refused(c, r)
    /\ Decision(c, r) = "Grant"
    /\ owner' = [owner EXCEPT ![r] = c]
    /\ UNCHANGED <<conn, control_reg, control, offered, waiters,
                   revoke_deadline, suspended>>

\* Already waiting: the client keeps its position.
AcquireAgain(c, r) ==
    /\ ~Refused(c, r)
    /\ Decision(c, r) \in {"RevokeAndQueue", "Queue"}
    /\ IsQueued(waiters[r], c)
    /\ UNCHANGED vars

\* Fault: the new waiter is queued and the owner is not asked.
AcquireUnasked(c, r) ==
    /\ ~Refused(c, r)
    /\ Decision(c, r) \in {"RevokeAndQueue", "Queue"}
    /\ ~IsQueued(waiters[r], c)
    /\ waiters' = [waiters EXCEPT ![r] = Append(@, [client     |-> c,
                                                   seat_claim |-> SeatSteal(c, r)])]
    /\ UNCHANGED <<conn, control_reg, control, offered, owner,
                   revoke_deadline, suspended>>

\* A new waiter, and a revoke of the owner unless one is already in flight.
\* An owner with no control channel cannot be asked: it is reclaimed.
AcquireQueued(c, r) ==
    LET ws       == Append(waiters[r], [client     |-> c,
                                        seat_claim |-> SeatSteal(c, r)])
        revokes  == revoke_deadline[r] = NoDeadline
        vanished == revokes /\ owner[r] \notin control_reg
        freed    == IF vanished THEN {r} ELSE {}
    IN  /\ ~Refused(c, r)
        /\ Decision(c, r) \in {"RevokeAndQueue", "Queue"}
        /\ ~IsQueued(waiters[r], c)
        /\ FreeAndGrantNext(freed, [waiters EXCEPT ![r] = ws], Up)
        /\ revoke_deadline' =
               [revoke_deadline EXCEPT ![r] =
                   IF revokes /\ ~vanished THEN REVOKE_TIMEOUT ELSE @]
        /\ Push([o \in ClientId |->
                    GrantsOf(<<r>>, freed)[o] \o
                    Messages("Revoke", <<r>>,
                             IF revokes /\ ~vanished /\ owner[r] = o THEN {r} ELSE {})])
        /\ UNCHANGED <<conn, control_reg, offered, suspended>>

\* The whole handler, with the outcome it replies.  The task awaits the reply,
\* so its connection is still up.
Acquire(c, r, outcome) ==
    /\ conn[c] = "open"
    /\ c \in control_reg
    /\ \/ outcome = "Denied"  /\ AcquireDenied(c, r)
       \/ outcome = "Granted" /\ AcquireGranted(c, r)
       \/ outcome = "Queued"  /\ AcquireAgain(c, r)
       \/ outcome = "Queued"  /\ AcquireQueued(c, r)

-----------------------------------------------------------------------------
(* Release: release_one, then release_seat_inputs for a display.  A Release *)
(* can still be in the mailbox when its connection has gone.               *)

ReleaseIgnored(c, r) ==
    /\ owner[r] # c
    /\ UNCHANGED vars

\* A revoked owner that answers goes back into the queue if anybody waits.
ReleaseOwned(c, r) ==
    LET revoking == revoke_deadline[r] # NoDeadline
        ws       == IF revoking /\ waiters[r] # <<>>
                    THEN RequeueWaiter(PolicyOf[r], waiters[r],
                                       [client |-> c, seat_claim |-> FALSE])
                    ELSE waiters[r]
        inputs   == IF r \in Display THEN SeatInputs(c) ELSE {}
    IN  /\ owner[r] = c
        /\ FreeAndGrantNext({r}, [waiters EXCEPT ![r] = ws], Up)
        /\ revoke_deadline' =
               [i \in Resource |-> IF i \in inputs THEN REVOKE_TIMEOUT
                                   ELSE IF i = r THEN NoDeadline
                                   ELSE revoke_deadline[i]]
        /\ \E ord \in IterationOrders :
               Push([o \in ClientId |->
                        GrantsOf(ord, {r})[o] \o
                        Messages("Revoke", ord, IF o = c THEN inputs ELSE {})])
        /\ UNCHANGED <<conn, control_reg, offered, suspended>>

Release(c, r) ==
    /\ conn[c] # "abandoned"
    /\ c \in control_reg
    /\ ReleaseIgnored(c, r) \/ ReleaseOwned(c, r)

-----------------------------------------------------------------------------
(* A revoke's grace period, and what the engine does when it is over.      *)

Tick ==
    /\ \E r \in Resource : revoke_deadline[r] > 0
    /\ revoke_deadline' =
           [r \in Resource |-> IF revoke_deadline[r] > 0
                               THEN revoke_deadline[r] - 1
                               ELSE revoke_deadline[r]]
    /\ UNCHANGED <<conn, control_reg, control, offered, owner, waiters, suspended>>

\* Fault: a timeout reclaims every slot that is being revoked.
EveryRevoking == {r \in Resource : revoke_deadline[r] # NoDeadline}

Expired == {r \in Resource : revoke_deadline[r] = 0}

\* How many displays c loses to this timeout: it is an ex-seat once for each.
SeatsLost(c) == Cardinality({d \in Expired \cap Display : owner[d] = c})

\* run_engine's timeout branch: force_reclaim every elapsed slot, then
\* release_seat_inputs for the former owner of each elapsed display.
ForceReclaim ==
    LET asked == UNION {SeatInputs(c) : c \in {o \in ClientId : SeatsLost(o) > 0}}
    IN  /\ Expired # {}
        /\ FreeAndGrantNext(Expired, waiters, Up)
        /\ revoke_deadline' =
               [r \in Resource |-> IF r \in asked THEN REVOKE_TIMEOUT
                                   ELSE IF r \in Expired THEN NoDeadline
                                   ELSE revoke_deadline[r]]
        /\ \E ord \in IterationOrders :
               Push([c \in ClientId |->
                        GrantsOf(ord, Expired)[c] \o
                        Repeated(Messages("Revoke", ord, SeatInputs(c)), SeatsLost(c))])
        /\ UNCHANGED <<conn, control_reg, offered, suspended>>

-----------------------------------------------------------------------------
(* The other commands.                                                     *)

\* The connection task does not wait for its Register to be handled, and may
\* have ended by then.
Register(c) ==
    /\ conn[c] = "new"
    /\ \E now \in {"open", "leaving", "closed", "abandoned"} :
           conn' = [conn EXCEPT ![c] = now]
    /\ control_reg' = control_reg \cup {c}
    /\ UNCHANGED <<control, slotVars>>

\* Fault: the slots of the client are freed and nobody is served.
DisconnectedUnserved(c) ==
    /\ conn[c] \in {"leaving", "closed"}
    /\ c \in control_reg
    /\ control_reg' = control_reg \ {c}
    /\ owner' = [r \in Resource |-> IF owner[r] = c THEN NoClient ELSE owner[r]]
    /\ waiters' = [r \in Resource |-> Without(waiters[r], c)]
    /\ revoke_deadline' =
           [r \in Resource |-> IF owner[r] = c THEN NoDeadline ELSE revoke_deadline[r]]
    /\ UNCHANGED <<conn, control, offered, suspended>>

Disconnected(c) ==
    LET owned == {r \in Resource : owner[r] = c}
    IN  /\ conn[c] \in {"leaving", "closed"}
        /\ c \in control_reg
        /\ control_reg' = control_reg \ {c}
        /\ FreeAndGrantNext(owned, [r \in Resource |-> Without(waiters[r], c)], Up \ {c})
        /\ revoke_deadline' =
               [r \in Resource |-> IF r \in owned THEN NoDeadline
                                   ELSE revoke_deadline[r]]
        /\ \E ord \in IterationOrders : Push(GrantsOf(ord, owned))
        /\ UNCHANGED <<conn, offered, suspended>>

\* The hot-plug task suspends, resumes and offers input devices only.  Suspend
\* and Resume of an unknown slot, Resume of a slot in service and Offer of a
\* known one are ignored: no action, the state does not change.
Suspend(r) ==
    /\ r \in Input \cap offered
    /\ suspended' = [suspended EXCEPT ![r] = TRUE]
    /\ revoke_deadline' = [revoke_deadline EXCEPT ![r] = NoDeadline]
    /\ UNCHANGED <<conn, control_reg, control, offered, owner, waiters>>

\* Fault: the device is back in service and its holder is not told.
ResumeUntold(r) ==
    /\ r \in Input \cap offered
    /\ suspended[r]
    /\ suspended' = [suspended EXCEPT ![r] = FALSE]
    /\ UNCHANGED <<conn, control_reg, control, offered, owner, waiters, revoke_deadline>>

\* The holder kept the resource and is granted the device that came back.  A
\* holder with no control channel loses it, and nobody is served.
Resume(r) ==
    LET told == owner[r] \in control_reg
    IN  /\ r \in Input \cap offered
        /\ suspended[r]
        /\ suspended' = [suspended EXCEPT ![r] = FALSE]
        /\ owner' = [owner EXCEPT ![r] = IF told THEN @ ELSE NoClient]
        /\ Push([c \in ClientId |->
                    Messages("Grant", <<r>>, IF owner[r] = c THEN {r} ELSE {})])
        /\ UNCHANGED <<conn, control_reg, offered, waiters, revoke_deadline>>

\* The slot of a name that is not offered holds nothing yet.
Offer(r) ==
    /\ r \in Input \ offered
    /\ offered' = offered \cup {r}
    /\ UNCHANGED <<conn, control_reg, control, owner, waiters,
                   revoke_deadline, suspended>>

Broadcast(list) ==
    /\ Push([c \in ClientId |-> <<[type |-> "Advertise", resources |-> list]>>])
    /\ UNCHANGED <<conn, control_reg, slotVars>>

-----------------------------------------------------------------------------
(* What the connection tasks do between their commands.                    *)

\* handle_connection's control arm takes the next message.
Receive(c) ==
    /\ conn[c] = "open"
    /\ control[c] # <<>>
    /\ control' = [control EXCEPT ![c] = Tail(@)]
    /\ UNCHANGED <<conn, control_reg, slotVars>>

\* The loop has ended and Disconnected is in the mailbox.
Hangup(c) ==
    /\ conn[c] = "open"
    /\ conn' = [conn EXCEPT ![c] = "leaving"]
    /\ UNCHANGED <<control_reg, control, slotVars>>

\* The task returns and its receiver goes, with whatever it held.
DropReceiver(c) ==
    /\ conn[c] = "leaving"
    /\ conn' = [conn EXCEPT ![c] = "closed"]
    /\ control' = [control EXCEPT ![c] = <<>>]
    /\ UNCHANGED <<control_reg, slotVars>>

\* The first Advertise cannot be written: the task returns before it has read
\* a request, and sends no Disconnected.
Abandon(c) ==
    /\ conn[c] = "open"
    /\ \A r \in Resource : owner[r] # c /\ ~IsQueued(waiters[r], c)
    /\ conn' = [conn EXCEPT ![c] = "abandoned"]
    /\ control' = [control EXCEPT ![c] = <<>>]
    /\ UNCHANGED <<control_reg, slotVars>>

-----------------------------------------------------------------------------
ClientCommand(c) ==
    \/ Register(c)
    \/ Disconnected(c)
    \/ \E r \in Resource : Release(c, r)
    \/ \E r \in Resource, outcome \in Outcome : Acquire(c, r, outcome)

HotplugCommand ==
    \/ \E r \in Input : Suspend(r) \/ Resume(r) \/ Offer(r)
    \/ \E list \in Advertisements : Broadcast(list)

Connection(c) == Receive(c) \/ Hangup(c) \/ DropReceiver(c) \/ Abandon(c)

Next ==
    \/ \E c \in ClientId : ClientCommand(c) \/ Connection(c)
    \/ HotplugCommand
    \/ Tick
    \/ ForceReclaim

Spec == Init /\ [][Next]_vars

-----------------------------------------------------------------------------
(* Properties of the engine.                                               *)

\* A slot nobody owns has nobody waiting for it and no revoke in flight:
\* every way a slot is freed serves the queue until it is empty or somebody
\* has been told.  A waiter left on a free slot would never be served, since
\* only the loss of an owner runs grant_next.
NoIdleWaiters ==
    \A r \in Resource :
        owner[r] = NoClient => waiters[r] = <<>> /\ revoke_deadline[r] = NoDeadline

\* A client is in a queue at most once, and never in the queue of a resource
\* it owns: not after a requeue, a re-Acquire or a dropped waiter.
QueuedOnce ==
    \A r \in Resource :
        /\ \A i, j \in DOMAIN waiters[r] :
              waiters[r][i].client = waiters[r][j].client => i = j
        /\ ~IsQueued(waiters[r], owner[r])

\* Disconnected leaves nothing behind: whoever owns or waits still has a
\* control channel registered.  The engine's branches for an owner that
\* vanished without a Disconnected are never taken.
OnlyRegisteredHold ==
    \A r \in Resource :
        /\ owner[r] \in control_reg \cup {NoClient}
        /\ \A i \in DOMAIN waiters[r] : waiters[r][i].client \in control_reg

\* FirstOwner serves nobody but a seat claim, so nothing else may wait there:
\* neither an Acquire nor the requeue of a revoked owner puts one in.
FirstOwnerQueuesClaims ==
    \A r \in Resource : PolicyOf[r] = "FirstOwner" =>
        \A i \in DOMAIN waiters[r] : waiters[r][i].seat_claim

\* An owner loses a resource only by its own Release, by the end of its
\* connection, or when the grace period of a Revoke is over: no Acquire of
\* another client, no hot-plug command and no other slot's timeout takes it.
NoPreemptionWithoutGrace ==
    [][\A r \in Resource :
          owner[r] # NoClient /\ owner'[r] # owner[r] =>
              \/ revoke_deadline[r] = 0
              \/ Release(owner[r], r)
              \/ Disconnected(owner[r])]_vars

\* Whoever is handed a resource from the queue can be told and is told: its
\* Grant is pushed in the same step.
HandoverIsTold ==
    [][\A r \in Resource, c \in ClientId :
          owner[r] \notin {NoClient, c} /\ owner'[r] = c =>
              \E k \in Len(control[c]) + 1 .. Len(control'[c]) :
                  control'[c][k] = [type |-> "Grant", resource |-> r]]_vars

\* FairQueue serves in order: nobody is granted a resource ahead of a client
\* that was in front of it and still waits, unless it is the app on the
\* display taking an input device.
NoOvertaking ==
    [][\A r \in Resource : PolicyOf[r] = "FairQueue" =>
          \A i, j \in DOMAIN waiters[r] :
              /\ i < j
              /\ owner'[r] = waiters[r][j].client
              /\ IsQueued(waiters'[r], waiters[r][i].client)
              => waiters[r][j].seat_claim /\ ~waiters[r][i].seat_claim]_vars

\* The owner that answers a Revoke is not granted the resource straight back
\* while a client that can be told is waiting, under any policy.
RevokedOwnerYields ==
    [][\A r \in Resource, c \in ClientId :
          /\ owner[r] = c
          /\ revoke_deadline[r] # NoDeadline
          /\ \E i \in DOMAIN waiters[r] : waiters[r][i].client \in Up
          /\ Release(c, r)
          => owner'[r] # c]_vars

\* A client that stops holding a display is asked for every input it holds in
\* the same step, including one it is handed in that step.
LeavingSeatAsksInputs ==
    [][\A c \in ClientId :
          HoldsDisplay(c) /\ ~HoldsDisplay(c)' =>
              \A r \in Input :
                  owner'[r] = c => revoke_deadline'[r] = REVOKE_TIMEOUT]_vars

-----------------------------------------------------------------------------
(* The engine implements Lending.                                          *)

Waiting == [r \in Resource |-> {waiters[r][i].client : i \in DOMAIN waiters[r]}]

Asked == [r \in Resource |-> revoke_deadline[r] # NoDeadline]

Lent == INSTANCE Lending WITH
            Client <- ClientId, reachable <- Up, away <- suspended,
            waiting <- Waiting, asked <- Asked

\* The queues, deadlines, policies and hot-plug commands of the engine amount to
\* lending: a resource passes only to a client that waits and can be told, whoever
\* starts to wait has the owner asked, and no waiter that can be told is dropped.
LendingImplemented == Lent!Spec

-----------------------------------------------------------------------------
(* What comments and documents say of the engine, and the code contradicts. *)

\* The app on the display that has claimed a device in service never waits
\* for a holder without a display that has not been asked to give it up.
SeatNeverWaitsUnasked ==
    \A r \in Input : \A i \in DOMAIN waiters[r] :
        /\ waiters[r][i].seat_claim
        /\ HoldsDisplay(waiters[r][i].client)
        /\ ~HoldsDisplay(owner[r])
        /\ ~suspended[r]
        => revoke_deadline[r] # NoDeadline
=============================================================================

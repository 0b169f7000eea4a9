----------------------------- MODULE DrmDevice ------------------------------
(***************************************************************************)
(* The DRM cards the server is master of.  A card is Locked or carries one *)
(* lease; grant_lease and revoke_lease hold its mutex from beginning to    *)
(* end, so each call is one action.  Every ioctl in them can fail.         *)
(*                                                                         *)
(* The kernel is external: a lease lives until it is revoked or its last   *)
(* fd is closed, and objects under a live lease cannot be leased again.    *)
(***************************************************************************)
CONSTANTS
    Card,      \* the displays that are DRM cards
    LeaseId,
    Locked     \* the state of a card that carries no lease

ASSUME LockedAssumption == Locked \notin LeaseId

VARIABLES
    state,     \* DrmDevice.state: Locked, or the lease of the Leased device
    live,      \* the kernel's live leases on the card's objects
    fds        \* the live leases a client has been given an fd of

drmVars == <<state, live, fds>>

CardTypes ==
    /\ state \in [Card -> LeaseId \cup {Locked}]
    /\ live \in [Card -> SUBSET LeaseId]
    /\ fds \in [Card -> SUBSET LeaseId]

CardInit ==
    /\ state = [k \in Card |-> Locked]
    /\ live = [k \in Card |-> {}]
    /\ fds = [k \in Card |-> {}]

-----------------------------------------------------------------------------
\* The device goes to state s and the kernel keeps the leases in alive.
Becomes(k, s, alive) ==
    /\ state' = [state EXCEPT ![k] = s]
    /\ live' = [live EXCEPT ![k] = alive]

\* What is alive once the lease of state[k] is revoked.
Revoked(k) == live[k] \ {state[k]}

\* Fault: the error path forgets the lease.
StaleLeaseLost(k) ==
    /\ state[k] # Locked
    /\ state' = [state EXCEPT ![k] = Locked]
    /\ UNCHANGED live

\* The ways grant_lease fails.  A stale lease that cannot be revoked stays; a
\* card that cannot be leased is left Locked; a lease whose fd cannot be
\* duplicated stays, to be revoked by the next grant.
StaleRevokeFails(k) ==
    /\ state[k] # Locked
    /\ UNCHANGED <<state, live>>

CreateFails(k) == Becomes(k, Locked, Revoked(k))

Created(k, id) ==
    /\ Revoked(k) = {}
    /\ Becomes(k, id, {id})

\* grant_lease, where id is the lease the kernel would create.  Its caller sends
\* the fd it returns; a lease whose fd was not sent has been given to nobody.
\* The fds of a dead lease are of no use to whoever holds them.
GrantLeaseFails(k, id) ==
    \/ StaleRevokeFails(k) /\ UNCHANGED fds
    \/ CreateFails(k)      /\ fds' = [fds EXCEPT ![k] = @ \cap Revoked(k)]
    \/ Created(k, id)      /\ fds' = [fds EXCEPT ![k] = {}]

GrantLease(k, id, sent) ==
    /\ Created(k, id)
    /\ fds' = [fds EXCEPT ![k] = IF sent THEN {id} ELSE {}]

\* DrmDevice::revoke_lease: a no-op when Locked; the ioctl can fail and then
\* the lease is kept.
RevokeLeaseOk(k) ==
    /\ Becomes(k, Locked, Revoked(k))
    /\ fds' = [fds EXCEPT ![k] = @ \cap Revoked(k)]

\* Fault: a failed revoke ends in Locked like a successful one.
RevokeFailureIgnored(k) ==
    /\ state[k] # Locked
    /\ state' = [state EXCEPT ![k] = Locked]
    /\ UNCHANGED <<live, fds>>

RevokeLeaseFails(k) ==
    /\ state[k] # Locked
    /\ UNCHANGED drmVars

RevokeLease(k) == RevokeLeaseOk(k) \/ RevokeLeaseFails(k)

\* A client closes the fd it was given.  The lease dies with its last fd, and
\* the server keeps one while the device is Leased.
ClientCloses(k, id) ==
    /\ id \in fds[k]
    /\ fds' = [fds EXCEPT ![k] = @ \ {id}]
    /\ live' = [live EXCEPT ![k] = IF state[k] = id THEN @ ELSE @ \ {id}]
    /\ UNCHANGED state

CardNext ==
    \E k \in Card :
        \/ RevokeLease(k)
        \/ \E id \in LeaseId :
               \/ GrantLeaseFails(k, id)
               \/ \E sent \in BOOLEAN : GrantLease(k, id, sent)
               \/ ClientCloses(k, id)

CardSpec == CardInit /\ [][CardNext]_drmVars

-----------------------------------------------------------------------------
\* "Never lose the lease on an ioctl error": after any sequence of grants and
\* revokes, whichever of them failed and wherever, the lease the kernel has on
\* a card is the one the device can still revoke.  A lease lost here would
\* leave the card unleasable until the daemon restarts.
NoLostLease ==
    \A k \in Card : live[k] = IF state[k] = Locked THEN {} ELSE {state[k]}

\* A lease ends only when the server revokes it, in revoke_lease or ahead of a
\* new lease: never because a client closed its fd.
OnlyServerEndsLease ==
    [][\A k \in Card, id \in LeaseId :
          id \in live[k] /\ id \notin live'[k] =>
              state[k] = id /\ state'[k] # id]_drmVars
=============================================================================

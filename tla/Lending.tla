------------------------------ MODULE Lending ------------------------------
(***************************************************************************)
(* What the daemon promises its clients about a resource, whatever the     *)
(* policy: it is lent to one client at a time, and whoever waits for it    *)
(* and can be told goes on waiting until it is lent to them.  There are no *)
(* queues, no deadlines and no messages here; PolicyEngine implements it.  *)
(*                                                                         *)
(* It is the slot's life cycle, Free, Granted and Revoking, with the edges *)
(* the engine really has.  Several resources may change in one step: a     *)
(* client that leaves gives all of them back at once.                      *)
(***************************************************************************)
CONSTANTS
    Client,
    NoClient,
    Resource

VARIABLES
    reachable,  \* the clients that can be told something
    away,       \* whether the device of a resource is unplugged
    owner,      \* who a resource is lent to
    waiting,    \* who waits for it
    asked       \* whether the owner has been asked to give it back

vars == <<reachable, away, owner, waiting, asked>>

Init ==
    /\ reachable = {}
    /\ away = [r \in Resource |-> FALSE]
    /\ owner = [r \in Resource |-> NoClient]
    /\ waiting = [r \in Resource |-> {}]
    /\ asked = [r \in Resource |-> FALSE]

\* Nobody has it, and nobody waits for it.
Idle(r) ==
    /\ owner[r] = NoClient
    /\ owner'[r] = NoClient
    /\ waiting'[r] = {}
    /\ ~asked'[r]

\* A free resource is lent to a client that asks for it.
Taken(r) ==
    /\ owner[r] = NoClient
    /\ owner'[r] \in reachable'
    /\ waiting'[r] = {}
    /\ ~asked'[r]

\* The owner keeps it.  A client that starts to wait has the owner asked, and
\* the owner stays asked until the device is away or nobody who could be told
\* is waiting any more.
Kept(r) ==
    /\ owner[r] # NoClient
    /\ owner'[r] = owner[r]
    /\ owner[r] \notin waiting'[r]
    /\ \/ waiting'[r] \subseteq waiting[r]
       \/ asked'[r] /\ ~away'[r]
    /\ asked[r] /\ ~asked'[r] => away'[r] \/ waiting[r] \cap reachable' = {}

\* It passes to a client that waits and can be told.  The former owner waits in
\* its turn only if it was asked, and nobody else has joined.
Passed(r) ==
    /\ owner[r] # NoClient
    /\ owner'[r] # owner[r]
    /\ owner'[r] \in waiting[r] \cap reachable'
    /\ owner'[r] \notin waiting'[r]
    /\ waiting'[r] \subseteq waiting[r] \cup {c \in {owner[r]} : asked[r]}

\* It is given back.
Freed(r) ==
    /\ owner[r] # NoClient
    /\ owner'[r] = NoClient
    /\ waiting'[r] = {}
    /\ ~asked'[r]

\* Whoever can be told stops waiting only as the owner.
NobodyDropped(r) ==
    waiting[r] \cap reachable' \subseteq waiting'[r] \cup {owner'[r]}

Next ==
    \A r \in Resource :
        /\ NobodyDropped(r)
        /\ Idle(r) \/ Taken(r) \/ Kept(r) \/ Passed(r) \/ Freed(r)

Spec == Init /\ [][Next]_vars
=============================================================================

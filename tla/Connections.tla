----------------------------- MODULE Connections -----------------------------
(***************************************************************************)
(* The connection tasks: handle_connection, one task for each client.      *)
(*                                                                         *)
(* A task sends commands to the engine's bounded mailbox and waits when it *)
(* is full; it waits for the answer to an Acquire on a oneshot channel, and *)
(* takes what the engine pushes from its control channel.  The cards are   *)
(* shared by the tasks, behind a mutex each, and the engine does not touch *)
(* them.  What the engine does is in Daemon.                               *)
(*                                                                         *)
(* An Ack, which only stops a warning from being logged, is left out.      *)
(***************************************************************************)
EXTENDS Integers, Sequences, FiniteSets, DrmDevice

CONSTANTS
    ClientId,
    NoClient,
    Display,
    Input,
    MAILBOX,         \* the capacity of the engine's mailbox
    MaxRequests,     \* bound: the requests a client sends over its connection
    None             \* no resource, and no reply yet

Resource == Display \cup Input

ASSUME ConnectionsAssumption ==
    /\ NoClient \notin ClientId
    /\ Card \subseteq Display
    /\ ClientId \subseteq LeaseId   \* a lease is named after the client it is for
    /\ MAILBOX \in Nat \ {0}
    /\ MaxRequests \in Nat
    /\ None \notin Resource \cup {"Granted", "Queued", "Denied"}

VARIABLES
    task,            \* where each connection task is, and on which resource
    requests,        \* how many requests it has read
    reply,           \* the oneshot channel of its Acquire
    mailbox,         \* the engine's commands, oldest first
    control_reg, control, offered, owner, waiters, revoke_deadline,
    suspended        \* the engine's: see PolicyEngine

connVars == <<task, requests, reply>>
slotVars == <<offered, owner, waiters, revoke_deadline, suspended>>
engineVars == <<control_reg, control, slotVars>>
vars == <<connVars, mailbox, engineVars, drmVars>>

Location ==
    {"new",         \* not accepted yet
     "advertise",   \* writing the first Advertise
     "loop",        \* in the select loop
     "write",       \* in the loop, writing a message to the client
     "acquire",     \* an Acquire is read, and not sent to the engine yet
     "reply",       \* waiting for the engine's answer to an Acquire
     "grant",       \* the engine granted the resource: about to send the fd
     "rollback",    \* the fd could not be sent: giving the resource back
     "release",     \* the lease is revoked, the Release not sent yet
     "disconnect",  \* out of the loop, Disconnected not sent yet
     "ended",       \* Disconnected is sent, the receiver not dropped yet
     "gone",
     "abandoned"}   \* returned before the loop, without a Disconnected

Command ==
    [cmd : {"Register", "Disconnected"}, client : ClientId]
        \cup [cmd : {"Acquire", "Release"}, client : ClientId, resource : Resource]

TypeOK ==
    /\ task \in [ClientId -> [at : Location, on : Resource \cup {None}]]
    /\ requests \in [ClientId -> 0 .. MaxRequests]
    /\ reply \in [ClientId -> {None, "Granted", "Queued", "Denied"}]
    /\ mailbox \in Seq(Command)
    /\ Len(mailbox) <= MAILBOX

At(c, place) == task[c].at = place

Go(c, place, r) == task' = [task EXCEPT ![c] = [at |-> place, on |-> r]]

\* Fault: the mailbox is not bounded.
SendUnbounded(command) == mailbox' = Append(mailbox, command)

Send(command) ==
    /\ Len(mailbox) < MAILBOX
    /\ mailbox' = Append(mailbox, command)

\* What the engine sees of a connection: it is new until its Register has been
\* handled, whatever its task has done by then.
Registering(c) ==
    \E i \in DOMAIN mailbox : mailbox[i] = [cmd |-> "Register", client |-> c]

EngineConn ==
    [c \in ClientId |->
        CASE At(c, "new") \/ Registering(c)           -> "new"
          [] At(c, "ended") /\ ~Registering(c)        -> "leaving"
          [] At(c, "gone") /\ ~Registering(c)         -> "closed"
          [] At(c, "abandoned") /\ ~Registering(c)    -> "abandoned"
          [] OTHER                                    -> "open"]

-----------------------------------------------------------------------------
(* The connection task: handle_connection.                                 *)

Connect(c) ==
    /\ At(c, "new")
    /\ Go(c, "advertise", None)
    /\ Send([cmd |-> "Register", client |-> c])
    /\ UNCHANGED <<requests, reply, engineVars, drmVars>>

\* Only the loop is wrapped: an error here returns at once.
Advertise(c) ==
    /\ At(c, "advertise")
    /\ \/ Go(c, "loop", None) /\ UNCHANGED control
       \/ Go(c, "abandoned", None) /\ control' = [control EXCEPT ![c] = <<>>]
    /\ UNCHANGED <<requests, reply, mailbox, control_reg, slotVars, drmVars>>

\* The message is written; an error ends the loop.  A client that does not read
\* keeps the task here.
Write(c) ==
    /\ At(c, "write")
    /\ Go(c, "loop", None) \/ Go(c, "disconnect", None)
    /\ UNCHANGED <<requests, reply, mailbox, engineVars, drmVars>>

ReadRequest(c) ==
    /\ At(c, "loop")
    /\ requests[c] < MaxRequests
    /\ requests' = [requests EXCEPT ![c] = @ + 1]

ReadAcquire(c, r) ==
    /\ ReadRequest(c)
    /\ Go(c, "acquire", r)
    /\ UNCHANGED <<reply, mailbox, engineVars, drmVars>>

\* Fault: a command that finds the mailbox full is dropped.
TryAcquire(c) ==
    /\ At(c, "acquire")
    /\ mailbox' = IF Len(mailbox) < MAILBOX
                  THEN Append(mailbox, [cmd |-> "Acquire", client |-> c,
                                        resource |-> task[c].on])
                  ELSE mailbox
    /\ Go(c, "reply", task[c].on)
    /\ UNCHANGED <<requests, reply, engineVars, drmVars>>

\* handle_acquire, up to the reply.
SendAcquire(c) ==
    /\ At(c, "acquire")
    /\ Send([cmd |-> "Acquire", client |-> c, resource |-> task[c].on])
    /\ Go(c, "reply", task[c].on)
    /\ UNCHANGED <<requests, reply, engineVars, drmVars>>

\* handle_acquire, from the reply on.
TakeReply(c) ==
    /\ At(c, "reply")
    /\ \/ reply[c] = "Granted" /\ Go(c, "grant", task[c].on)
       \/ reply[c] = "Queued" /\ Go(c, "loop", None)
       \/ reply[c] = "Denied" /\ Go(c, "write", None)
    /\ reply' = [reply EXCEPT ![c] = None]
    /\ UNCHANGED <<requests, mailbox, engineVars, drmVars>>

\* process_control_message: a Revoke and a list are written, a Grant needs an
\* fd first.
TakeControl(c) ==
    /\ At(c, "loop")
    /\ control[c] # <<>>
    /\ control' = [control EXCEPT ![c] = Tail(@)]
    /\ LET msg == Head(control[c])
       IN  \/ msg.type \in {"Revoke", "Advertise"} /\ Go(c, "write", None)
           \/ msg.type = "Grant" /\ Go(c, "grant", msg.resource)
    /\ UNCHANGED <<requests, reply, mailbox, control_reg, slotVars, drmVars>>

\* send_grant: a fresh lease for a card, a dup of the fd for the rest.  The
\* lease made for c is known by c.  Either the fd or the socket can fail.
SendGrantOk(c, r) ==
    /\ IF r \in Card THEN GrantLease(r, c, TRUE) ELSE UNCHANGED drmVars
    /\ Go(c, "loop", None)

SendGrantFails(c, r) ==
    /\ IF r \in Card
       THEN GrantLeaseFails(r, c) \/ GrantLease(r, c, FALSE)
       ELSE UNCHANGED drmVars
    /\ Go(c, "rollback", r)

SendGrant(c) ==
    /\ At(c, "grant")
    /\ SendGrantOk(c, task[c].on) \/ SendGrantFails(c, task[c].on)
    /\ UNCHANGED <<requests, reply, mailbox, engineVars>>

\* Fault: the client is denied and still the owner.
DenyOnly(c) ==
    /\ At(c, "rollback")
    /\ Go(c, "write", None)
    /\ UNCHANGED <<requests, reply, mailbox, engineVars, drmVars>>

\* The ownership goes back to the engine, then the client is denied.
Rollback(c) ==
    /\ At(c, "rollback")
    /\ Send([cmd |-> "Release", client |-> c, resource |-> task[c].on])
    /\ Go(c, "write", None)
    /\ UNCHANGED <<requests, reply, engineVars, drmVars>>

\* handle_release: the lease goes first, whoever sends the Release.
ReadRelease(c, r) ==
    /\ ReadRequest(c)
    /\ IF r \in Card THEN RevokeLease(r) ELSE UNCHANGED drmVars
    /\ Go(c, "release", r)
    /\ UNCHANGED <<reply, mailbox, engineVars>>

SendRelease(c) ==
    /\ At(c, "release")
    /\ Send([cmd |-> "Release", client |-> c, resource |-> task[c].on])
    /\ Go(c, "loop", None)
    /\ UNCHANGED <<requests, reply, engineVars, drmVars>>

\* Fault: an error in the loop returns from the task at once.
ReturnFromLoop(c) ==
    /\ At(c, "loop")
    /\ Go(c, "gone", None)
    /\ control' = [control EXCEPT ![c] = <<>>]
    /\ UNCHANGED <<requests, reply, mailbox, control_reg, slotVars, drmVars>>

\* Fault: the arm that meets the end of file sends the Disconnected as well.
LeaveAndTell(c) ==
    /\ At(c, "loop")
    /\ Send([cmd |-> "Disconnected", client |-> c])
    /\ Go(c, "disconnect", None)
    /\ UNCHANGED <<requests, reply, engineVars, drmVars>>

\* The peer closed, a read failed or a frame was malformed.
LeaveLoop(c) ==
    /\ At(c, "loop")
    /\ Go(c, "disconnect", None)
    /\ UNCHANGED <<requests, reply, mailbox, engineVars, drmVars>>

\* Fault: a Disconnected that finds the mailbox full is dropped.
TryDisconnected(c) ==
    /\ At(c, "disconnect")
    /\ mailbox' = IF Len(mailbox) < MAILBOX
                  THEN Append(mailbox, [cmd |-> "Disconnected", client |-> c])
                  ELSE mailbox
    /\ Go(c, "ended", None)
    /\ UNCHANGED <<requests, reply, engineVars, drmVars>>

SendDisconnected(c) ==
    /\ At(c, "disconnect")
    /\ Send([cmd |-> "Disconnected", client |-> c])
    /\ Go(c, "ended", None)
    /\ UNCHANGED <<requests, reply, engineVars, drmVars>>

\* The task returns, and its receiver goes with what it holds.
Return(c) ==
    /\ At(c, "ended")
    /\ Go(c, "gone", None)
    /\ control' = [control EXCEPT ![c] = <<>>]
    /\ UNCHANGED <<requests, reply, mailbox, control_reg, slotVars, drmVars>>

\* Whatever its task does, a client closes the fd of a lease when it likes.
CloseLease(c) ==
    /\ \E k \in Card : ClientCloses(k, c)
    /\ UNCHANGED <<connVars, mailbox, engineVars>>

-----------------------------------------------------------------------------
\* The steps of a task that wait for the engine, or for room in its mailbox,
\* and not for the client.
Proceed(c) ==
    \/ SendAcquire(c) \/ TakeReply(c) \/ SendGrant(c) \/ Rollback(c)
    \/ SendRelease(c) \/ SendDisconnected(c) \/ Return(c)

Connection(c) ==
    \/ Connect(c) \/ Advertise(c) \/ Write(c) \/ TakeControl(c) \/ LeaveLoop(c)
    \/ \E r \in Resource : ReadAcquire(c, r) \/ ReadRelease(c, r)
    \/ Proceed(c)

-----------------------------------------------------------------------------
(* Properties of the daemon's mailbox: see Daemon.                          *)

\* The command at the head of the mailbox is one the engine expects of that
\* client.  A Register is the client's first and only one; whoever sends anything
\* else has a channel registered by then; whoever acquires still waits for this
\* very answer; and nothing comes after a Disconnected.
CommandsAreExpected ==
    mailbox # <<>> =>
        LET m == Head(mailbox)
            c == m.client
        IN  IF m.cmd = "Register"
            THEN /\ c \notin control_reg
                 /\ \A i \in 2 .. Len(mailbox) : mailbox[i] # m
            ELSE /\ c \in control_reg
                 /\ m.cmd = "Acquire" => /\ EngineConn[c] = "open" /\ reply[c] = None
                                        /\ task[c] = [at |-> "reply", on |-> m.resource]
                 /\ m.cmd = "Release" => EngineConn[c] # "abandoned"
                 /\ m.cmd = "Disconnected" =>
                        /\ EngineConn[c] \in {"leaving", "closed"}
                        /\ \A i \in 2 .. Len(mailbox) : mailbox[i].client # c

Waiting(c, r) == \E i \in DOMAIN waiters[r] : waiters[r][i].client = c

\* A task that waits for an answer has its Acquire in the mailbox or the answer
\* in its channel, and a connection that is over holds nothing unless its
\* Disconnected is still to be handled: no command gets lost, however full the
\* mailbox was and wherever the connection broke.
NoCommandLost ==
    \A c \in ClientId :
        /\ At(c, "reply") /\ reply[c] = None =>
               \E i \in DOMAIN mailbox :
                   mailbox[i] = [cmd |-> "Acquire", client |-> c, resource |-> task[c].on]
        /\ At(c, "ended") \/ At(c, "gone") \/ At(c, "abandoned") =>
               \/ \E i \in DOMAIN mailbox :
                      mailbox[i] = [cmd |-> "Disconnected", client |-> c]
               \/ \A r \in Resource : owner[r] # c /\ ~Waiting(c, r)
==============================================================================

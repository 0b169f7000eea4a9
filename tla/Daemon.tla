------------------------------- MODULE Daemon -------------------------------
(***************************************************************************)
(* The daemon under its clients' requests: the connection tasks, the       *)
(* engine's mailbox, the engine itself, the control channels and the DRM   *)
(* cards.                                                                  *)
(*                                                                         *)
(* A connection task and the engine never share state.  The engine takes   *)
(* the tasks' commands one at a time from its mailbox, answers an Acquire  *)
(* and pushes to the control channels, which never fill.                   *)
(*                                                                         *)
(* No device comes or goes here: HotplugDaemon adds the task that follows  *)
(* them.                                                                   *)
(***************************************************************************)
EXTENDS Connections

CONSTANTS
    Boot,            \* the resources opened when the daemon starts
    Advertisements,  \* the lists the hot-plug task may push
    PolicyOf,
    REVOKE_TIMEOUT

Engine == INSTANCE PolicyEngine WITH conn <- EngineConn

ASSUME EngineAssumption == Engine!ConstantsAssumption

Init ==
    /\ task = [c \in ClientId |-> [at |-> "new", on |-> None]]
    /\ requests = [c \in ClientId |-> 0]
    /\ reply = [c \in ClientId |-> None]
    /\ mailbox = <<>>
    /\ Engine!Init
    /\ CardInit

-----------------------------------------------------------------------------
(* The engine task: run_engine.                                            *)

HandleCommand ==
    /\ mailbox # <<>>
    /\ mailbox' = Tail(mailbox)
    /\ UNCHANGED <<task, requests, drmVars>>
    /\ LET m == Head(mailbox)
       IN  \/ m.cmd = "Register" /\ Engine!Register(m.client) /\ UNCHANGED reply
           \/ m.cmd = "Release" /\ Engine!Release(m.client, m.resource) /\ UNCHANGED reply
           \/ m.cmd = "Disconnected" /\ Engine!Disconnected(m.client) /\ UNCHANGED reply
           \/ /\ m.cmd = "Acquire"
              /\ \E outcome \in Engine!Outcome :
                     /\ Engine!Acquire(m.client, m.resource, outcome)
                     /\ reply' = [reply EXCEPT ![m.client] = outcome]

\* Fault: deadlines are looked at only when a command arrives.
TimeoutOnCommand ==
    /\ mailbox # <<>>
    /\ UNCHANGED <<connVars, mailbox, drmVars>>
    /\ Engine!ForceReclaim

\* timeout_at polls the mailbox first: a deadline is seen only when the engine
\* has nothing else to do.
Timeout ==
    /\ mailbox = <<>>
    /\ UNCHANGED <<connVars, mailbox, drmVars>>
    /\ Engine!ForceReclaim

Tick ==
    /\ UNCHANGED <<connVars, mailbox, drmVars>>
    /\ Engine!Tick

-----------------------------------------------------------------------------
\* Every connection is over and the engine waits for the next one.
Idle ==
    /\ \A c \in ClientId : At(c, "gone") \/ At(c, "abandoned")
    /\ mailbox = <<>>
    /\ UNCHANGED vars

Next ==
    \/ \E c \in ClientId : Connection(c) \/ CloseLease(c)
    \/ HandleCommand
    \/ Timeout
    \/ Tick
    \/ Idle

\* What only HandleCommand does, and it can whenever there is a command.
TakesCommand == mailbox # <<>> /\ mailbox' = Tail(mailbox)

\* The engine task is scheduled, time passes, and a task that waits for the
\* engine or for room in the mailbox goes on when it can.  A task that waits for
\* its client to send or to read may stay there for ever.
Fairness ==
    /\ WF_mailbox(TakesCommand)
    /\ WF_vars(Timeout)
    /\ WF_vars(Tick)
    /\ \A c \in ClientId : WF_vars(Proceed(c))

Spec == Init /\ [][Next]_vars /\ Fairness

-----------------------------------------------------------------------------
(* Properties: with those of the mailbox, CommandsAreExpected and          *)
(* NoCommandLost, in Connections.                                          *)

\* Seen from its mailbox the engine is the one PolicyEngine describes: commands
\* arrive only from connections that PolicyEngine lets send them, in an order
\* it allows, for every way the tasks interleave and the mailbox fills.
EngineImplemented == Engine!Spec

\* FairQueue: once the owner of a display has been asked to yield, the client at
\* the head of the queue is granted it or leaves the queue, whatever the owner
\* does.  It may answer the Revoke, stay silent, fail its own grant or die.  Of an
\* input only this is true: the owner loses it and the revoke is over.  A claim of
\* the app on the display, queued later, is served before the head.
RevokeServesHead ==
    \A c \in ClientId, r \in Resource :
        /\ PolicyOf[r] = "FairQueue"
        /\ revoke_deadline[r] # Engine!NoDeadline
        /\ waiters[r] # <<>> /\ Head(waiters[r]).client = c
        ~> ~Waiting(c, r) \/ (r \in Input /\ revoke_deadline[r] = Engine!NoDeadline)

\* A connection that has left its loop, by an end of file or by an error, is in
\* the end neither owner nor waiter: its Disconnected gets through.
EndedHoldsNothing ==
    \A c \in ClientId :
        At(c, "disconnect") ~> \A r \in Resource : owner[r] # c /\ ~Waiting(c, r)

\* An Acquire is answered: a task that has read one finds room in the mailbox and
\* gets its reply, and does not wait for ever with its control channel unread.
AcquireIsAnswered ==
    \A c \in ClientId : At(c, "acquire") ~> At(c, "reply") /\ reply[c] # None
=============================================================================

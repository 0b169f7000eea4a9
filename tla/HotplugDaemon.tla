---------------------------- MODULE HotplugDaemon ----------------------------
(***************************************************************************)
(* The daemon while devices come and go: the connection tasks, the engine  *)
(* and the hot-plug task, which share the engine's mailbox, the fd table   *)
(* and the advertised list.                                                *)
(*                                                                         *)
(* The hot-plug task and a connection task never meet.  What one of them   *)
(* does between two steps of the other reaches it through the engine, or   *)
(* as an fd that is gone and a list that has changed.                      *)
(***************************************************************************)
EXTENDS Daemon

CONSTANTS
    Device, NoDevice, Capabilities, PATHS, INDEXES, SYSFS, MAX_RETRIES, MaxChanges

VARIABLES
    home, node, busy, exists, changes,         \* the world's: see Hotplug
    inputs, parked, registry, advertised,      \* the inventory's
    watching, events, unseen,                  \* the watch's
    stage, attempt, probed, present, unswept, retry, script,  \* the hot-plug task's
    handed,  \* the device behind the last fd a client was sent for a name
    list,    \* the inputs on the last list a client was sent
    swapped  \* history: the fd of a name has become another device's, with no
             \* gap, since this client was sent it

Devices == INSTANCE Hotplug

hotplugVars == <<home, node, busy, exists, changes, inputs, parked, registry, advertised,
                 watching, events, unseen, stage, attempt, probed, present, unswept,
                 retry, script>>
clientVars == <<handed, list, swapped>>
allVars == <<vars, hotplugVars, clientVars>>

AllInit ==
    /\ Init
    /\ Devices!TaskInit
    /\ advertised = Boot \cap Input
    /\ handed = [c \in ClientId |-> [r \in Input |-> NoDevice]]
    /\ list = [c \in ClientId |-> {}]
    /\ swapped = [c \in ClientId |-> {}]

-----------------------------------------------------------------------------
(* The connection tasks, with the lists and the fds they send.             *)

\* Fault: a client is sent the list the daemon started with.
FirstListOfBoot(c) ==
    /\ Advertise(c)
    /\ list' = [list EXCEPT ![c] = Boot \cap Input]
    /\ UNCHANGED <<handed, swapped>>

\* The first list is read after the Register is sent, handled or not.
FirstList(c) ==
    /\ Advertise(c)
    /\ list' = [list EXCEPT ![c] = advertised]
    /\ UNCHANGED <<handed, swapped>>

TakeMessage(c) ==
    /\ TakeControl(c)
    /\ list' = IF Head(control[c]).type = "Advertise"
               THEN [list EXCEPT ![c] = Head(control[c]).resources] ELSE list
    /\ UNCHANGED <<handed, swapped>>

\* grant_fd: an input is granted as a dup of the fd its name has now.
GrantInput(c) ==
    LET r    == task[c].on
        sent == r \in Input /\ task'[c].at = "loop"
    IN  /\ SendGrant(c)
        /\ sent => r \in DOMAIN registry
        /\ handed' = IF sent THEN [handed EXCEPT ![c][r] = registry[r]] ELSE handed
        /\ swapped' = IF sent THEN [swapped EXCEPT ![c] = @ \ {r}] ELSE swapped
        /\ UNCHANGED list

\* A client that releases a device gives up the fd it has of it.
GiveBack(c, r) ==
    /\ ReadRelease(c, r)
    /\ handed' = IF r \in Input THEN [handed EXCEPT ![c][r] = NoDevice] ELSE handed
    /\ UNCHANGED <<list, swapped>>

ClientTask(c) ==
    \/ FirstList(c) \/ TakeMessage(c) \/ GrantInput(c)
    \/ \E r \in Resource : GiveBack(c, r)
    \/ /\ \/ Connect(c) \/ Write(c) \/ LeaveLoop(c) \/ SendAcquire(c) \/ TakeReply(c)
          \/ Rollback(c) \/ SendRelease(c) \/ SendDisconnected(c) \/ Return(c)
          \/ CloseLease(c) \/ \E r \in Resource : ReadAcquire(c, r)
       /\ UNCHANGED clientVars

-----------------------------------------------------------------------------
(* The engine, the hot-plug task and the world.                            *)

\* handle_command, for what the hot-plug task sends.  A name is offered once and
\* suspended after that; a device replaced within one pass is resumed without
\* having been suspended, and that Resume is ignored.
HandleHotplugCommand ==
    /\ mailbox # <<>>
    /\ mailbox' = Tail(mailbox)
    /\ UNCHANGED <<connVars, drmVars>>
    /\ LET m == Head(mailbox)
       IN  \/ m.cmd = "Offer" /\ Engine!Offer(m.resource)
           \/ m.cmd = "Suspend" /\ Engine!Suspend(m.resource)
           \/ m.cmd = "Resume" /\ Engine!Resume(m.resource)
           \/ m.cmd = "Resume" /\ ~suspended[m.resource] /\ UNCHANGED engineVars
           \/ m.cmd = "Broadcast" /\ Engine!Broadcast(m.resources)

EngineTask == HandleCommand \/ HandleHotplugCommand \/ Timeout \/ Tick

\* The names whose fd goes over to another device in one step.  A name whose fd
\* is dropped first is not one of them: the engine is told to suspend it.
Swapped ==
    {r \in DOMAIN registry \cap DOMAIN registry' : registry'[r] # registry[r]}

HotplugStep ==
    /\ Devices!World \/ Devices!Reconciler
    /\ swapped' = [c \in ClientId |-> (swapped[c] \cup Swapped) \cap DOMAIN registry']
    /\ UNCHANGED <<connVars, control_reg, control, owner, waiters, revoke_deadline,
                   drmVars, handed, list>>

AllNext ==
    \/ (\E c \in ClientId : ClientTask(c)) /\ UNCHANGED hotplugVars
    \/ EngineTask /\ UNCHANGED <<hotplugVars, clientVars>>
    \/ HotplugStep

AllSpec == AllInit /\ [][AllNext]_allVars

-----------------------------------------------------------------------------
(* Properties.                                                             *)

\* Nothing is under way between c and the daemon, and no transition is.
AtRest(c) ==
    /\ At(c, "loop") /\ control[c] = <<>>
    /\ mailbox = <<>> /\ script = <<>>

\* A client that has read what it was sent knows what the daemon offers,
\* whenever it connected: a change of the list is in the first list it gets or
\* is pushed to it after that list.
ListReachesClient ==
    \A c \in ClientId : AtRest(c) => list[c] = advertised

\* A client that owns a device has been sent an fd of it, and when the device is
\* back after a gap, an fd of the one that is there now: a grant that cannot be
\* sent, because the device was unplugged before the task came to it, gives the
\* ownership back, and a Resume reaches the owner.  Only when the fd of a name
\* became another device's with no gap may the owner be left with the old one.
OwnerHasDevice ==
    \A c \in ClientId, r \in Input :
        AtRest(c) /\ owner[r] = c =>
            /\ handed[c][r] # NoDevice
            /\ r \in DOMAIN registry \ swapped[c] => handed[c][r] = registry[r]

-----------------------------------------------------------------------------
(* What a comment says, and the code contradicts.                          *)

\* A client that uses a device keeps it while the device is unplugged and
\* plugged in again: no task finds that the fd it is to send has gone, and gives
\* up the device, for a client that has had one.
UnplugCostsNobody ==
    [][\A c \in ClientId :
          /\ At(c, "grant") /\ task'[c].at = "rollback"
          /\ task[c].on \notin DOMAIN registry
          => handed[c][task[c].on] = NoDevice]_allVars

\* A device replaced by another of its class inside one pass: its holder keeps
\* the name and gets the new device's fd, as if the daemon had seen the gap.  A
\* Resume of an owned name has the engine push the owner a Grant.
ReplacementReachesOwner ==
    [][\A c \in ClientId, r \in Input :
          /\ mailbox # <<>> /\ mailbox' = Tail(mailbox)
          /\ Head(mailbox).cmd = "Resume" /\ Head(mailbox).resource = r
          /\ owner[r] = c
          => control'[c] = Append(control[c], [type |-> "Grant", resource |-> r])]_allVars
=============================================================================

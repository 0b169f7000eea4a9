------------------------------ MODULE Hotplug ------------------------------
(***************************************************************************)
(* The input devices: what the daemon opens when it starts, and the task   *)
(* that keeps its index, its fds and the advertised list in step with      *)
(* /dev/input while it runs.                                               *)
(*                                                                         *)
(* The world moves between any two steps of a pass: nodes are made and     *)
(* removed, devices come and go, and a node need not open yet.  Only the   *)
(* reconciler writes the index; the fds, the list and the engine's mailbox *)
(* are shared with the connection tasks, so each of its writes to them is  *)
(* a step of its own.  The engine appears by its two flags for a name:     *)
(* offered and suspended.                                                  *)
(***************************************************************************)
EXTENDS Integers, Sequences, FiniteSets

CONSTANTS
    Device,        \* plugged-in devices: a replug is another inputN of sysfs
    NoDevice,
    Capabilities,  \* what each device reports, as far as classify looks
    PATHS,         \* the number of event nodes, named 0, 1, ... in sorted order
    INDEXES,       \* the range of a name's index: 2^8 in the code
    SYSFS,         \* whether there is a sysfs to ask
    MAX_RETRIES,
    MAILBOX,       \* the capacity of the engine's mailbox
    MaxChanges     \* bound: what happens to the world in one run

ASSUME HotplugAssumption ==
    /\ NoDevice \notin Device
    /\ Capabilities \in [Device -> SUBSET {"ABS_MT", "ABS_X", "ABS_Y", "REL_X",
                                           "REL_Y", "BTN_MOUSE", "TYPING_KEY"}]
    /\ PATHS \in Nat \ {0} /\ INDEXES \in Nat \ {0}
    /\ MAX_RETRIES \in Nat \ {0} /\ MAILBOX \in Nat \ {0}
    /\ MaxChanges \in Nat /\ SYSFS \in BOOLEAN

Path == 0 .. PATHS - 1
NoNode == -1
Inode == {0, 1}    \* one value for the inode held at a path, one for any other
NoClass == "None"
InputClass == {"Mouse", "Keyboard", "Touch"}
InputResource == [class : InputClass, index : 0 .. INDEXES - 1]

VARIABLES
    home,        \* the device each event node belongs to
    node,        \* the inode at each path
    busy,        \* the nodes that are there and do not open yet
    exists,      \* the devices sysfs has
    changes,     \* how much of the world's budget is spent
    inputs,      \* Inventory.inputs: what is held, by path
    parked,      \* the suspended names that were moved off their path
    registry,    \* Inventory.fds: the device behind each fd
    advertised,  \* the inputs on the advertised list
    watching,    \* there is an inotify watch
    events,      \* its queue is not empty
    unseen,      \* history: a watched node changed since the last pass began
    stage,       \* where the reconciler is
    attempt, probed, present, unswept, retry, script,  \* its locals
    mailbox, offered, suspended                        \* the engine's

worldVars == <<home, node, busy, exists, changes>>
inventoryVars == <<inputs, parked, registry, advertised>>
watchVars == <<watching, events, unseen>>
passVars == <<probed, present, unswept, retry, script>>
engineVars == <<mailbox, offered, suspended>>
vars == <<worldVars, inventoryVars, watchVars, stage, attempt, passVars, engineVars>>

HeldInput ==
    [resource : InputResource, ino : Inode, device : Device \cup {NoDevice}, gone : BOOLEAN]

Command ==
    [cmd : {"Offer", "Suspend", "Resume"}, resource : InputResource]
        \cup [cmd : {"Broadcast"}, resources : SUBSET InputResource]

\* What is left of the transition a pass is in the middle of.
Step ==
    [do : {"list", "unlist", "drop", "Offer", "Suspend", "Resume"}, resource : InputResource]
        \cup [do : {"push"}]
        \cup [do : {"adopt"}, path : Path, class : InputClass]
        \cup [do : {"resume", "reopen"}, path : Path, resource : InputResource]

TypeOK ==
    /\ home \in [Path -> Device \cup {NoDevice}]
    /\ node \in [Path -> Inode \cup {NoNode}]
    /\ busy \subseteq Path /\ exists \subseteq Device
    /\ DOMAIN inputs \subseteq Path /\ \A p \in DOMAIN inputs : inputs[p] \in HeldInput
    /\ parked \subseteq InputResource /\ advertised \subseteq InputResource
    /\ DOMAIN registry \subseteq InputResource
    /\ \A r \in DOMAIN registry : registry[r] \in Device
    /\ stage \in {"start", "wait", "coalesce", "probe", "devices", "sweep", "sleep"}
    /\ attempt \in 0 .. MAX_RETRIES
    /\ probed \in [Path -> InputClass \cup {NoClass}]
    /\ present \subseteq Path /\ unswept \subseteq Path
    /\ script \in Seq(Step)
    /\ mailbox \in Seq(Command) /\ Len(mailbox) <= MAILBOX

\* A map with key k set to v, and one without the keys in S.
Insert(m, k, v) == [q \in DOMAIN m \cup {k} |-> IF q = k THEN v ELSE m[q]]
Remove(m, S) == [q \in DOMAIN m \ S |-> m[q]]

Lowest(S) == CHOOSE i \in S : \A j \in S : i <= j

-----------------------------------------------------------------------------
(* Discovery.                                                              *)

\* classify: touch before mouse before keyboard.
Classify(caps) ==
    IF "ABS_MT" \in caps \/ {"ABS_X", "ABS_Y"} \subseteq caps THEN "Touch"
    ELSE IF {"REL_X", "REL_Y", "BTN_MOUSE"} \subseteq caps THEN "Mouse"
    ELSE IF "TYPING_KEY" \in caps THEN "Keyboard"
    ELSE NoClass

CanOpen(p) == node[p] # NoNode /\ p \notin busy

\* device_identity: the device sysfs names for the node at p.
Identity(p) == IF SYSFS THEN home[p] ELSE NoDevice

\* probe_all: a node that does not open, or has no class, is not in the result.
ProbeAll ==
    [p \in Path |-> IF CanOpen(p) THEN Classify(Capabilities[home[p]]) ELSE NoClass]

\* discover: the nodes of a class are numbered in the order of their paths.
DiscoveredIndex(p) == Cardinality({q \in Path : q < p /\ ProbeAll[q] = ProbeAll[p]})

Discovered(p) == [class |-> ProbeAll[p], index |-> DiscoveredIndex(p)]

\* open_devices: what opens is held; what does not keeps its number.
Startup ==
    \E opened \in SUBSET {p \in Path : ProbeAll[p] # NoClass} :
        /\ \A p \in opened : DiscoveredIndex(p) < INDEXES
        /\ inputs = [p \in opened |->
                        [resource |-> Discovered(p), ino |-> node[p],
                         device |-> Identity(p), gone |-> FALSE]]
        /\ advertised = {Discovered(p) : p \in opened}
        /\ registry = [r \in advertised |->
                          home[CHOOSE p \in opened : Discovered(p) = r]]

TaskInit ==
    /\ home \in [Path -> Device \cup {NoDevice}]
    /\ \A p, q \in Path : home[p] = home[q] => p = q \/ home[p] = NoDevice
    /\ node = [p \in Path |-> IF home[p] = NoDevice THEN NoNode ELSE 0]
    /\ busy = {}
    /\ exists = {home[p] : p \in Path} \ {NoDevice}
    /\ changes = 0
    /\ Startup
    /\ parked = {}
    /\ watching = FALSE /\ events = FALSE /\ unseen = FALSE
    /\ stage = "start" /\ attempt = 0
    /\ probed = [p \in Path |-> NoClass]
    /\ present = {} /\ unswept = {} /\ retry = FALSE /\ script = <<>>

Init ==
    /\ TaskInit
    /\ mailbox = <<>>
    /\ offered = advertised
    /\ suspended = [r \in InputResource |-> FALSE]

-----------------------------------------------------------------------------
(* The world.                                                              *)

Change ==
    /\ changes < MaxChanges
    /\ changes' = changes + 1
    /\ UNCHANGED <<inventoryVars, stage, attempt, passVars, engineVars>>

\* The directory changed: an event is queued if there is a watch.
Noticed ==
    /\ events' = watching
    /\ unseen' = watching
    /\ UNCHANGED watching

\* An inode that is not the one held at p.
NewNode(p) ==
    \E ino \in Inode, ready \in BOOLEAN :
        /\ p \in DOMAIN inputs => ino # inputs[p].ino
        /\ p \notin DOMAIN inputs => ino = 0
        /\ node' = [node EXCEPT ![p] = ino]
        /\ busy' = IF ready THEN busy \ {p} ELSE busy \cup {p}

\* A device is plugged in and takes a free event node.
Plug(d, p) ==
    /\ d \notin exists
    /\ \A q \in DOMAIN inputs : inputs[q].device = d => inputs[q].gone
    /\ home[p] = NoDevice
    /\ home' = [home EXCEPT ![p] = d]
    /\ exists' = exists \cup {d}
    /\ NewNode(p) /\ Noticed /\ Change

\* The event node goes first, unless udev has just removed it, and is free for
\* the next device; what sysfs has of the input device goes a moment later, and
\* makes no event.
Unplug(p) ==
    /\ home[p] # NoDevice
    /\ home' = [home EXCEPT ![p] = NoDevice]
    /\ node' = [node EXCEPT ![p] = NoNode]
    /\ busy' = busy \ {p}
    /\ UNCHANGED exists
    /\ IF node[p] = NoNode THEN UNCHANGED watchVars ELSE Noticed
    /\ Change

Vanish(d) ==
    /\ d \in exists
    /\ \A p \in Path : home[p] # d
    /\ exists' = exists \ {d}
    /\ UNCHANGED <<home, node, busy, changes, inventoryVars, watchVars,
                   stage, attempt, passVars, engineVars>>

\* udev removes the node of a device that stays, and makes it again.
RemoveNode(p) ==
    /\ node[p] # NoNode
    /\ node' = [node EXCEPT ![p] = NoNode]
    /\ busy' = busy \ {p}
    /\ UNCHANGED <<home, exists>>
    /\ Noticed /\ Change

RecreateNode(p) ==
    /\ home[p] # NoDevice
    /\ node[p] = NoNode
    /\ NewNode(p)
    /\ UNCHANGED <<home, exists>>
    /\ Noticed /\ Change

\* udev is done with a node: a change of mode, which the watch does not report.
BecomesReady(p) ==
    /\ p \in busy
    /\ busy' = busy \ {p}
    /\ UNCHANGED <<home, node, exists, changes, inventoryVars, watchVars,
                   stage, attempt, passVars, engineVars>>

World ==
    \/ \E d \in Device : Vanish(d) \/ \E p \in Path : Plug(d, p)
    \/ \E p \in Path : Unplug(p) \/ RemoveNode(p) \/ RecreateNode(p) \/ BecomesReady(p)

-----------------------------------------------------------------------------
(* What wakes the reconciler: run, run_watched and run_polling.            *)

Wake ==
    /\ stage' = "probe"
    /\ attempt' = 0

\* Watch::new, or polling from the start.
StartWatch ==
    /\ stage = "start"
    /\ watching' \in BOOLEAN
    /\ stage' = "wait"
    /\ UNCHANGED <<worldVars, inventoryVars, events, unseen, attempt, passVars, engineVars>>

\* Watch::changed, up to its sleep.
ReadEvents ==
    /\ stage = "wait" /\ watching /\ events
    /\ events' = FALSE
    /\ stage' = "coalesce"
    /\ UNCHANGED <<worldVars, inventoryVars, watching, unseen, attempt, passVars, engineVars>>

\* What the burst added while changed slept is discarded.
Coalesce ==
    /\ stage = "coalesce"
    /\ events' = FALSE
    /\ Wake
    /\ UNCHANGED <<worldVars, inventoryVars, watching, unseen, passVars, engineVars>>

\* Fault: the safety pass runs only when something happened.
TickOnEvent ==
    /\ stage \in {"wait", "coalesce"} /\ watching /\ events
    /\ Wake
    /\ UNCHANGED <<worldVars, inventoryVars, watchVars, passVars, engineVars>>

\* The safety interval is over.  changed is dropped where it is, asleep or not.
SafetyTick ==
    /\ stage \in {"wait", "coalesce"} /\ watching
    /\ Wake
    /\ UNCHANGED <<worldVars, inventoryVars, watchVars, passVars, engineVars>>

\* Reading the watch fails: polling from now on.
WatchFails ==
    /\ stage = "wait" /\ watching
    /\ changes < MaxChanges
    /\ changes' = changes + 1
    /\ watching' = FALSE /\ events' = FALSE
    /\ UNCHANGED <<home, node, busy, exists, inventoryVars, unseen, stage,
                   attempt, passVars, engineVars>>

PollTick ==
    /\ stage = "wait" /\ ~watching
    /\ Wake
    /\ UNCHANGED <<worldVars, inventoryVars, watchVars, passVars, engineVars>>

\* The sleep before a pass is tried again.
RetryTick ==
    /\ stage = "sleep"
    /\ stage' = "probe"
    /\ UNCHANGED <<worldVars, inventoryVars, watchVars, attempt, passVars, engineVars>>

-----------------------------------------------------------------------------
(* A pass: reconcile.                                                      *)

BeginPass(found) ==
    /\ stage = "probe"
    /\ stage' = "devices"
    /\ probed' = found
    /\ unseen' = FALSE
    /\ UNCHANGED <<inventoryVars, watching, events, attempt, present, unswept, retry,
                   script, engineVars>>

Probe ==
    /\ BeginPass(ProbeAll)
    /\ UNCHANGED worldVars

\* /dev/input cannot be listed: the pass goes on with no device.
ProbeFails ==
    /\ changes < MaxChanges
    /\ changes' = changes + 1
    /\ BeginPass([p \in Path |-> NoClass])
    /\ UNCHANGED <<home, node, busy, exists>>

Names == parked \cup {inputs[p].resource : p \in DOMAIN inputs}

\* free_index: the lowest index of the class no held name has, if there is one.
FreeNames(class) == [class : {class}, index : 0 .. INDEXES - 1] \ Names

LowestName(S) == CHOOSE r \in S : \A s \in S : r.index <= s.index

\* suspended_peer: the suspended names of the class whose path is not there.
SuspendedPeers(class) ==
    {r \in parked : r.class = class}
        \cup {inputs[p].resource : p \in {q \in DOMAIN inputs :
                  /\ inputs[q].gone
                  /\ inputs[q].resource.class = class
                  /\ node[q] = NoNode}}

\* Fault: the fd goes before the engine is told.
DropThenSuspend(r) ==
    << [do |-> "unlist", resource |-> r], [do |-> "drop", resource |-> r],
       [do |-> "Suspend", resource |-> r], [do |-> "push"] >>

\* Fault: a suspended name stays on the list.
StayListed(r) ==
    << [do |-> "Suspend", resource |-> r], [do |-> "drop", resource |-> r], [do |-> "push"] >>

\* suspend, once the entry is marked: what others can see of it, in order.
Suspending(r) ==
    << [do |-> "unlist", resource |-> r], [do |-> "Suspend", resource |-> r],
       [do |-> "drop", resource |-> r], [do |-> "push"] >>

Adopting(p, class) == <<[do |-> "adopt", path |-> p, class |-> class]>>
Resuming(p, r) == <<[do |-> "resume", path |-> p, resource |-> r]>>
Reopening(p, r) == <<[do |-> "reopen", path |-> p, resource |-> r]>>

\* Fault: the entry is dropped from the index.
Forget(p) ==
    /\ inputs' = Remove(inputs, {p})
    /\ UNCHANGED parked

\* park: the name leaves the path and keeps waiting for a device of its class.
Park(p) ==
    /\ inputs' = Remove(inputs, {p})
    /\ parked' = parked \cup {inputs[p].resource}

\* The arms of the match on what is held at p, for a device of the class found.
SameNode(p) == p \in DOMAIN inputs /\ node[p] = inputs[p].ino

Kept(p) ==
    /\ SameNode(p)
    /\ UNCHANGED <<inputs, parked, script>>

DeviceBack(p, class) ==
    /\ p \in DOMAIN inputs /\ ~SameNode(p) /\ inputs[p].gone
    /\ IF inputs[p].resource.class = class
       THEN /\ script' = Resuming(p, inputs[p].resource)
            /\ UNCHANGED <<inputs, parked>>
       ELSE /\ script' = Adopting(p, class)
            /\ Park(p)

SameDevice(p) == Identity(p) # NoDevice /\ inputs[p].device = Identity(p)

NodeRecreated(p) ==
    /\ p \in DOMAIN inputs /\ ~SameNode(p) /\ ~inputs[p].gone
    /\ SameDevice(p) \/ inputs[p].device \in exists
    /\ script' = Reopening(p, inputs[p].resource)
    /\ UNCHANGED <<inputs, parked>>

DeviceReplaced(p, class) ==
    /\ p \in DOMAIN inputs /\ ~SameNode(p) /\ ~inputs[p].gone
    /\ ~SameDevice(p) /\ inputs[p].device \notin exists
    /\ IF inputs[p].resource.class = class
       THEN /\ script' = Resuming(p, inputs[p].resource)
            /\ UNCHANGED <<inputs, parked>>
       ELSE /\ script' = Suspending(inputs[p].resource) \o Adopting(p, class)
            /\ Park(p)

NewDevice(p, class) ==
    /\ p \notin DOMAIN inputs
    /\ script' = IF SuspendedPeers(class) # {}
                 THEN Resuming(p, LowestName(SuspendedPeers(class)))
                 ELSE Adopting(p, class)
    /\ UNCHANGED <<inputs, parked>>

ToExamine == {p \in Path : probed[p] # NoClass}

Examine ==
    /\ stage = "devices" /\ script = <<>> /\ ToExamine # {}
    /\ LET p == Lowest(ToExamine)
       IN  /\ probed' = [probed EXCEPT ![p] = NoClass]
           /\ present' = present \cup {p}
           /\ \/ Kept(p)
              \/ DeviceBack(p, probed[p])
              \/ NodeRecreated(p)
              \/ DeviceReplaced(p, probed[p])
              \/ NewDevice(p, probed[p])
    /\ UNCHANGED <<worldVars, registry, advertised, watchVars, stage, attempt,
                   unswept, retry, engineVars>>

-----------------------------------------------------------------------------
(* The steps of the transitions that others can see.                       *)

Doing(what) == script # <<>> /\ Head(script).do = what

\* open_device, and what every transition that opens a node records: r stands
\* for the node at p and for nothing else, and its fd is the new one.
OpenAs(p, r) ==
    /\ CanOpen(p)
    /\ registry' = Insert(registry, r, home[p])
    /\ inputs' = Insert(Remove(inputs, {q \in DOMAIN inputs : inputs[q].resource = r}), p,
                        [resource |-> r, ino |-> node[p], device |-> Identity(p),
                         gone |-> FALSE])
    /\ parked' = parked \ {r}
    /\ UNCHANGED retry

NotTaken ==
    /\ retry' = TRUE
    /\ script' = Tail(script)
    /\ UNCHANGED <<inputs, parked, registry>>

\* Fault: the list is pushed before the engine is told.
PushFirst(cmd, r) ==
    << [do |-> "list", resource |-> r], [do |-> "push"], [do |-> cmd, resource |-> r] >>

\* The rest of adopt and of resume.
Announcing(cmd, r) ==
    << [do |-> "list", resource |-> r], [do |-> cmd, resource |-> r], [do |-> "push"] >>

Adopt ==
    /\ Doing("adopt")
    /\ LET p == Head(script).path
           free == FreeNames(Head(script).class)
       IN  \/ /\ free # {}
              /\ OpenAs(p, LowestName(free))
              /\ script' = Announcing("Offer", LowestName(free))
           \/ (free = {} \/ ~CanOpen(p)) /\ NotTaken
    /\ UNCHANGED <<worldVars, advertised, watchVars, stage, attempt, probed, present,
                   unswept, engineVars>>

Resume ==
    /\ Doing("resume")
    /\ LET p == Head(script).path
           r == Head(script).resource
       IN  \/ OpenAs(p, r) /\ script' = Announcing("Resume", r)
           \/ ~CanOpen(p) /\ NotTaken
    /\ UNCHANGED <<worldVars, advertised, watchVars, stage, attempt, probed, present,
                   unswept, engineVars>>

Reopen ==
    /\ Doing("reopen")
    /\ LET p == Head(script).path
           r == Head(script).resource
       IN  \/ OpenAs(p, r) /\ script' = Tail(script)
           \/ ~CanOpen(p) /\ NotTaken
    /\ UNCHANGED <<worldVars, advertised, watchVars, stage, attempt, probed, present,
                   unswept, engineVars>>

ListStep ==
    /\ \/ Doing("list") /\ advertised' = advertised \cup {Head(script).resource}
       \/ Doing("unlist") /\ advertised' = advertised \ {Head(script).resource}
    /\ script' = Tail(script)
    /\ UNCHANGED <<worldVars, inputs, parked, registry, watchVars, stage, attempt,
                   probed, present, unswept, retry, engineVars>>

DropFd ==
    /\ Doing("drop")
    /\ registry' = Remove(registry, {Head(script).resource})
    /\ script' = Tail(script)
    /\ UNCHANGED <<worldVars, inputs, parked, advertised, watchVars, stage, attempt,
                   probed, present, unswept, retry, engineVars>>

\* Fault: the mailbox is not bounded.
SendUnbounded(command) ==
    /\ mailbox' = Append(mailbox, command)
    /\ script' = Tail(script)
    /\ UNCHANGED <<worldVars, inventoryVars, watchVars, stage, attempt, probed, present,
                   unswept, retry, offered, suspended>>

Send(command) ==
    /\ Len(mailbox) < MAILBOX
    /\ mailbox' = Append(mailbox, command)
    /\ script' = Tail(script)
    /\ UNCHANGED <<worldVars, inventoryVars, watchVars, stage, attempt, probed, present,
                   unswept, retry, offered, suspended>>

Tell ==
    /\ Doing("Offer") \/ Doing("Suspend") \/ Doing("Resume")
    /\ Send([cmd |-> Head(script).do, resource |-> Head(script).resource])

PushList ==
    /\ Doing("push")
    /\ Send([cmd |-> "Broadcast", resources |-> advertised])

-----------------------------------------------------------------------------
(* The held devices the pass has not seen, and the end of the pass.        *)

DevicesDone ==
    /\ stage = "devices" /\ script = <<>> /\ ToExamine = {}
    /\ stage' = "sweep"
    /\ unswept' = {p \in DOMAIN inputs : ~inputs[p].gone /\ p \notin present}
    /\ UNCHANGED <<worldVars, inventoryVars, watchVars, attempt, probed, present,
                   retry, script, engineVars>>

\* A device that is still there keeps its name while its node is away.
Sweep(p) ==
    /\ stage = "sweep" /\ script = <<>> /\ p \in unswept
    /\ unswept' = unswept \ {p}
    /\ IF inputs[p].device \in exists
       THEN UNCHANGED <<inputs, script>>
       ELSE /\ inputs' = [inputs EXCEPT ![p].gone = TRUE]
            /\ script' = Suspending(inputs[p].resource)
    /\ UNCHANGED <<worldVars, parked, registry, advertised, watchVars, stage, attempt,
                   probed, present, retry, engineVars>>

\* Fault: the events of the pass are discarded at its end.
EndPassAndDiscard ==
    LET again == watching /\ retry /\ attempt + 1 < MAX_RETRIES
    IN  /\ stage = "sweep" /\ script = <<>> /\ unswept = {}
        /\ attempt' = IF again THEN attempt + 1 ELSE 0
        /\ stage' = IF again THEN "sleep" ELSE "wait"
        /\ present' = {} /\ retry' = FALSE
        /\ events' = FALSE
        /\ UNCHANGED <<worldVars, inventoryVars, watching, unseen, probed, unswept, script,
                       engineVars>>

\* A pass that could not take a device is retried, unless the task is polling.
EndPass ==
    LET again == watching /\ retry /\ attempt + 1 < MAX_RETRIES
    IN  /\ stage = "sweep" /\ script = <<>> /\ unswept = {}
        /\ attempt' = IF again THEN attempt + 1 ELSE 0
        /\ stage' = IF again THEN "sleep" ELSE "wait"
        /\ present' = {} /\ retry' = FALSE
        /\ UNCHANGED <<worldVars, inventoryVars, watchVars, probed, unswept, script,
                       engineVars>>

-----------------------------------------------------------------------------
\* The engine handles the oldest command, as far as its flags go.
HandleCommand ==
    /\ mailbox # <<>>
    /\ mailbox' = Tail(mailbox)
    /\ LET m == Head(mailbox)
       IN  \/ /\ m.cmd = "Offer"
              /\ offered' = offered \cup {m.resource}
              /\ UNCHANGED suspended
           \/ /\ m.cmd \in {"Suspend", "Resume"}
              /\ suspended' = IF m.resource \in offered
                              THEN [suspended EXCEPT ![m.resource] = m.cmd = "Suspend"]
                              ELSE suspended
              /\ UNCHANGED offered
           \/ m.cmd = "Broadcast" /\ UNCHANGED <<offered, suspended>>
    /\ UNCHANGED <<worldVars, inventoryVars, watchVars, stage, attempt, passVars>>

Wakeup ==
    \/ StartWatch \/ ReadEvents \/ Coalesce \/ SafetyTick \/ WatchFails \/ PollTick
    \/ RetryTick

Pass ==
    \/ Probe \/ ProbeFails \/ Examine
    \/ Adopt \/ Resume \/ Reopen \/ ListStep \/ DropFd \/ Tell \/ PushList
    \/ DevicesDone \/ (\E p \in Path : Sweep(p)) \/ EndPass

Reconciler == Wakeup \/ Pass

Next == World \/ Reconciler \/ HandleCommand

\* The task is scheduled, its timers fire and the engine takes its commands.  An
\* unplugged device leaves sysfs.  Nothing else is promised of the world, and no
\* event is: a wake-up may come from the safety interval alone.
Fairness ==
    /\ WF_vars(StartWatch) /\ WF_vars(Coalesce) /\ WF_vars(SafetyTick)
    /\ WF_vars(PollTick) /\ WF_vars(RetryTick) /\ WF_vars(Pass)
    /\ WF_vars(HandleCommand)
    /\ \A d \in Device : WF_vars(Vanish(d))

Spec == Init /\ [][Next]_vars /\ Fairness

-----------------------------------------------------------------------------
(* Properties.                                                             *)

InPass == stage \in {"devices", "sweep"}

Live == {inputs[p].resource : p \in {q \in DOMAIN inputs : ~inputs[q].gone}}
Gone == parked \cup {inputs[p].resource : p \in {q \in DOMAIN inputs : inputs[q].gone}}

\* check_consistency reports nothing: its rules, in its order.
CheckConsistency ==
    /\ \A p, q \in DOMAIN inputs : inputs[p].resource = inputs[q].resource => p = q
    /\ \A p \in DOMAIN inputs : inputs[p].resource \notin parked
    /\ \A r \in Gone : r \notin DOMAIN registry /\ r \notin advertised
    /\ \A r \in Live : r \in DOMAIN registry /\ r \in advertised
    /\ advertised \subseteq Names
    /\ DOMAIN registry \subseteq advertised

\* The four rules of check_consistency hold after every pass, and until the next
\* one, whatever the world did during it: one entry for a name; a live name is
\* advertised and has an fd; a suspended one is not and has none; nothing else is
\* advertised or has an fd.
ConsistentAfterPass == ~InPass => CheckConsistency

\* The last thing the engine has been told, or will be once its mailbox is
\* drained, of whether r is suspended.
Told(r) ==
    LET about == {i \in DOMAIN mailbox : /\ mailbox[i].cmd \in {"Suspend", "Resume"}
                                         /\ mailbox[i].resource = r}
    IN  IF about = {} THEN suspended[r]
        ELSE mailbox[CHOOSE i \in about : \A j \in about : j <= i].cmd = "Suspend"

\* The engine is told before the fd goes and after it is back: a name without
\* an fd is one the engine has been told to suspend.  Between transitions its
\* flag and the index's device_gone agree, in either direction.
SuspendedMeansGone ==
    \A r \in Names :
        /\ r \notin DOMAIN registry => Told(r)
        /\ script = <<>> => (Told(r) <=> r \in Gone)

\* A list pushed to the clients has only names the engine knows when it handles
\* the push, so a client that acts on it at once finds a slot.
OfferedBeforePushed ==
    \A i \in DOMAIN mailbox : mailbox[i].cmd = "Broadcast" =>
        \A r \in mailbox[i].resources :
            \/ r \in offered
            \/ \E j \in 1 .. i - 1 : mailbox[j] = [cmd |-> "Offer", resource |-> r]

\* A name is never forgotten and never renamed: a suspended one keeps its place
\* in the index until a device of its class comes back.
NamesAreKept == [][Names \subseteq Names']_vars

\* No wake-up is lost: a task that waits has seen every change of a node since
\* its last pass began, or finds an event in the queue of the watch.
NoChangeMissed == stage = "wait" /\ watching /\ unseen => events

\* What the daemon holds is what is plugged in.
InStep ==
    /\ \A p \in Path :
          /\ CanOpen(p)
          /\ Classify(Capabilities[home[p]]) # NoClass
          => /\ p \in DOMAIN inputs
             /\ ~inputs[p].gone
             /\ inputs[p].ino = node[p]
             /\ registry[inputs[p].resource] = home[p]
    /\ \A p \in DOMAIN inputs : ~inputs[p].gone => inputs[p].device \in exists
    /\ \A r \in Names : suspended[r] <=> r \in Gone

\* When the world is quiet, the daemon holds every device that opens and
\* nothing that is unplugged, whether or not an event told of the last change.
Converges == SYSFS => <>[]InStep

=============================================================================

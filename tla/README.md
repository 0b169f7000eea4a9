# Verification of simple-graphics-controller

TLA+ specifications of the daemon in `src/`, model-checked with TLC on small
instances, and theorems about them proved with TLAPS for every instance.

## The system

The daemon owns the display (DRM cards or the framebuffer) and the input
devices of a machine, and lends them to client processes over a Unix socket.

| part | source | what it does | module |
| --- | --- | --- | --- |
| Windowing policy | `windowing/policy.rs` | what an Acquire gets, who is served next, where a preempted owner is requeued | `Policy` |
| Policy engine | `windowing/engine.rs` | one task that owns every slot; commands, revoke handshake, seat rule, hot-plug commands | `PolicyEngine`, `GrantNext` |
| Connection tasks | `client_handler/{mod,requests,control}.rs` | one task per client: requests to the engine, pushed messages to the client, fds | `Connections`, `Daemon` |
| Wire framing | `client_handler/wire.rs` | frames from partial reads | `Wire`; `Connections` takes whole requests |
| DRM leases | `resource_manager/drm.rs` | the lease state of a card behind its mutex | `DrmDevice` |
| Inventory | `resource_manager/mod.rs` | fd table, cards, input index | `Hotplug`; `Connections`: `grant_fd`, `revoke_lease` |
| Hot-plug reconciler | `resource_manager/hotplug.rs` | compares `/dev/input` with the index; offers, suspends, resumes | `Hotplug`, its commands in `PolicyEngine` |
| Input discovery | `resource_manager/input.rs` | opens and classifies evdev devices | `Hotplug` |
| Advertised list | `types.rs` | shared list of what is offered | `Hotplug`, `HotplugDaemon` |
| Startup, accept loop | `main.rs`, `server.rs` | slots at startup, one task per connection | `Daemon`: `Init`; `Connections`: `Connect` |
| Framebuffer, errors, packaging | `fbdev.rs`, `error.rs`, `packaging/` | one open at startup; types; files | not modelled |

The parts interact in four ways. Tasks send commands to the engine through a
bounded mailbox and wait while it is full; an Acquire also waits for its reply.
The engine pushes Grant, Revoke and Advertise to unbounded control channels, and
never waits for a task. The tasks use the cards directly: the engine decides who
owns a card and does not touch it. The hot-plug task sends to the same mailbox,
and writes the fd table and the advertised list that the connection tasks read.

## The modules

**Policy** has no state. `Decide`, `RequeueWaiter` and `IsQueued` are the
functions of those names. `grant_next` is given in closed form: `Winner` is the
position it ends on and `LeftWaiting` the queue it leaves, `Up` being the clients
whose channel takes a message. **GrantNext** is the same function as the loop it
is in the code, and its run compares the two.

**PolicyEngine** has the fields of `Slot` as functions of the resource, the set
of registered control channels (`control_reg`), what the channels hold
(`control`), and the stage of each connection (`conn`) as far as the engine
depends on it. One action is one arm of `handle_command`, with every call it
makes: `Acquire` (denied, granted, already queued, queued), `Release`,
`Register`, `Disconnected`, `Suspend`, `Resume`, `Offer`, `Broadcast`. A
`Release` of a display includes `release_seat_inputs`. `ForceReclaim` is the
timeout branch of `run_engine`, over every elapsed slot. A deadline is the
number of ticks left; `Tick` lets time pass. Messages pushed while a `HashMap` is
visited come in any order (`IterationOrders`).

**Lending** is what the engine promises, without queues, deadlines or messages:
the slot's life cycle of `docs/policy-engine.md` (Free, Granted, Revoking) with
the edges the engine really has. A client that waits and can be told stops
waiting only as the owner; who joins has the owner asked; an asked owner stays
asked until the device is away or nobody waits. `PolicyEngine` implements it
with `waiting` as the clients of the queue and `asked` as the presence of a
deadline (`LendingImplemented`).

**DrmDevice** has a card's state (`Locked`, or its lease), the kernel's live
leases, and the leases a client holds an fd of. `GrantLease`, `GrantLeaseFails`
and `RevokeLease` are whole calls, atomic because of the mutex, with every
failure of an ioctl as a disjunct. The kernel is external: a lease lives until
it is revoked or its last fd is closed, and its objects cannot be leased twice.

**Connections** has the connection tasks, and the mailbox they send to. Each task
has a location, one for each place where the code awaits or where another task
can step in between: writing the first Advertise, in the loop, holding a request
for which the mailbox has no room, waiting for the reply, about to send the fd,
rolling back, and so on. The cards' calls are DrmDevice's, which it extends; a
lease is named after the client it is for, and a client closes the fd of its
lease at any time (`CloseLease`, a step of the client's, not of its task).

**Daemon** adds the engine: its handlers are PolicyEngine's actions, taken from
the head of the mailbox (`HandleCommand`). The timeout is taken only with an
empty mailbox, because `timeout_at` polls the mailbox before the deadline.

**Hotplug** is the hot-plug task and the world it looks at. The world has event
nodes with an inode, the device behind each, the devices sysfs has, and the
nodes that do not open yet; devices are plugged, unplugged and leave sysfs, and
udev removes and re-creates nodes, between any two steps of the task. The task's
wake-up (`StartWatch`, `ReadEvents`, `Coalesce`, `SafetyTick`, `WatchFails`,
`PollTick`, `RetryTick`) has a step for each await. A pass probes all nodes
(`Probe`), then examines them one by one: `Kept`, `DeviceBack`, `NodeRecreated`,
`DeviceReplaced` and `NewDevice` are the arms of the match in `reconcile`; then
it sweeps what it did not see. What a transition does that others can observe is
a script of small steps (`Suspending`, `Announcing`, and the opening steps
`Adopt`, `Resume`, `Reopen`): a write to the list, a write to the fd table, a
command to the mailbox, each taken on its own. The index is read and written by
this task only, so its marks are made at the start of a transition. `ProbeAll`,
one match arm, and an open with its identity check are one step each. The engine
is there by its two flags for a name, `offered` and `suspended`.

**HotplugDaemon** composes `Daemon` and `Hotplug`, with one mailbox, one fd table
and one list. It adds what the clients have been given: the device behind the
last fd (`handed`) and the last list (`list`), and a history variable
(`swapped`): the names whose fd has gone over to another device, without having
been dropped in between, since the client was sent it.

**Wire** is `process_wire_bytes` in the select loop. A byte is its place in the
stream, so a frame that is shifted, repeated or lost shows; a frame parses, has a
payload that does not, or has a header that does not.

`MCPolicyEngine`, `MCDaemon`, `MCHotplug` and `MCHotplugDaemon` give the policies,
the devices and the symmetry.
Definitions marked *Fault* are plausible wrong versions of the definition that
follows them; no specification uses them. Replacing the definition by its fault
breaks the property that `PROJECT.json` names, which shows that the property
depends on the code being as it is.

## The runs

All runs except `GrantNext`, whose loop ends, check for deadlock as well.

| run | instance | shows |
| --- | --- | --- |
| `EngineFirstOwner` | 3 clients, a display, an input, first-owner | only seat claims wait, and none on a free slot; no owner loses a resource before its grace period is over |
| `EngineFairQueue` | same, fair-queue | no double entry, no overtaking, nothing held by an unregistered client, no owner loses a resource before its grace period is over, a preempted owner yields, whoever is handed a resource is told, a former seat is asked for all its inputs; the engine implements `Lending` |
| `EngineTwoDisplays` | 2 clients, 2 displays, an input, latest-owner | who is handed a resource is told, a preempted owner yields, a former seat is asked and `Lending` is implemented where several slots are freed in one step and the newest waiter is served first |
| `GrantNext` | every queue of 3 clients, policy and set of dead channels | the loop ends, drops no live waiter, and agrees with the closed form |
| `DaemonCard` | 2 clients, a card, mailbox of 2 | a command reaches the engine only when it can expect it, and none is lost; the composition implements `PolicyEngine`; no failure of an ioctl loses a lease, in any order of the tasks' calls, and only the server ends one |
| `DaemonLiveness` | 2 clients, the framebuffer, an input, mailbox of 1 | a revoke of the display serves the head of its queue, one of an input ends; an ended connection loses everything; an Acquire that was read is answered |
| `Hotplug` | 3 devices of 2 classes, 2 nodes, 3 changes of the world | the index, the fds, the list and the engine agree after every pass; names are never forgotten; the engine knows every name of a pushed list; no change is missed; what is held ends in step with what is plugged in |
| `HotplugDaemon` | a client, 3 devices on a node, 3 changes | a client at rest has the daemon's list, and an fd of the device it owns, unless that device took the name over from another with no gap |
| `Wire` | every stream of 3 frames, cut in every way | requests are dispatched whole, in order, once, and without another byte from the client |
| `SeatNeverWaitsUnasked`, `UnplugCostsNobody`, `ReplacementReachesOwner` | | what comments and documents say and the code contradicts: see below |

### Bounds

- Three clients are an owner, a preemptor and a second waiter, which is what
  requeueing, overtaking and dropped waiters need. One display and one input are
  what the seat rule relates; the input is not there at startup, so `Offer` is
  reached. A second display makes one client an ex-seat twice in one timeout.
- `REVOKE_TIMEOUT` is 2 ticks in the engine runs, so that revokes started at
  different times elapse at different times; 1 in the daemon runs.
- `MAILBOX` is 1 or 2 instead of 64: it is full in many states.
- `MaxRequests` = 2 requests per connection: an Acquire and a Release, two
  Acquires, and so on. It bounds only the client's requests; what the engine
  pushes is not bounded.
- `DaemonCard` has one card: cards share nothing. `DaemonLiveness` has an input so
  that the app on the display can claim it and have its owner asked; a third
  client, which it would take for a claim to be served before the head of a
  queue, is in `EngineFairQueue` (`NoOvertaking`).
- The engine never reads the control channels, so the engine runs leave their
  contents out of the view by which TLC tells states apart
  (`WithoutChannels`). What each step pushes is still computed and is
  checked by `HandoverIsTold`, which speaks of one step only. Clients are
  symmetric; only safety is checked in those runs.

- `MaxChanges` = 3: what happens to the world, a failing watch and a directory
  that cannot be listed included. Three are enough to unplug a device, plug in
  another at its node and have the first back at a different one, with a pass
  cut anywhere by each; leaving sysfs and becoming ready are not counted.
- `INDEXES` = 2 (1 with the daemon) instead of 256, so that a class runs out of
  names. `MAX_RETRIES` = 2 (1 with the daemon) is one retry and the end of them.
- `Inode` has two values, one for the inode held at a path and one for any
  other: the code only compares the two for equality. A node re-created with the
  very inode number of the held one is not a case.
- `HotplugDaemon` has one client, with one request per connection: what it checks
  is between the client, the hot-plug task and the engine. Several clients and a
  device that is away are in the engine's runs.
- `Wire`: a header of 2 bytes, payloads of 0 and 1, reads of at most 3: a read can
  end inside a header, inside a frame, and hold the end of one and the start of
  the next; an empty payload makes a frame of just its header.

### Fairness

`Daemon` assumes weak fairness of the engine's steps (tokio schedules a ready
task), of time, and of the steps in which a task waits for the engine or for
room in the mailbox. For the engine's commands it is stated of the mailbox
(`TakesCommand`): `HandleCommand` alone takes from it, and is enabled whenever it
is not empty. `write_all` has none: a client that does not read keeps its
task in the write for ever. Reading the next request or control message has
none either: a silent client is one of the cases. The
mailbox is finite in a run because requests are; the real engine does not see a
deadline while commands keep arriving faster than it handles them, and
`RevokeServesHead` says nothing of such an endless stream. For the same reason
weak fairness is enough for a task that waits for room; tokio's channel hands out
room in the order of asking.

`RevokeServesHead` says less of an input than of a display, because a claim of the
app on the display is served before the head of the queue, and ends the revoke
the head was waiting on. Let b take a keyboard. Let a take the display and claim
the keyboard; b answers the Revoke, is requeued, and a is served. Let d take the
display by timeout: a is now asked for the keyboard, with b at the head. If d
claims the keyboard too, d is served first and nobody asks d for it: b waits
until d leaves the display or gives the keyboard back. This is the seat rule of
`docs/policy-engine.md`, and no promise to b is broken.

`Hotplug` assumes that the task is scheduled, that its timers fire, that the
engine takes its commands, and that an unplugged device leaves sysfs. It does not
assume that an event is ever delivered, that udev finishes with a node, or that
devices stay; `Converges` speaks of what the world has once it is quiet, which
`MaxChanges` makes it. `Converges` needs sysfs: see below.

`Wire` assumes weak fairness of reading and dispatching, and strong fairness of
the readable arm of the select: `tokio::select!` picks at random among the arms
that are ready, so a control channel that is always ready does not starve the
wire. A handler may wait for ever for a client that does not read.

## Where the code and what is said of it differ

Three are runs that TLC ends with a counterexample; `PROJECT.json` quotes the
sentence.

| run | what the code does |
| --- | --- |
| `SeatNeverWaitsUnasked` | a revoke dropped when a device is unplugged is not started again when it is back, and the app on the display waits for a holder nobody asks |
| `UnplugCostsNobody` | the Grant that follows a return is acted on after the device is unplugged again: the fd is gone, the task rolls back, and the holder has lost its device |
| `ReplacementReachesOwner` | a device replaced by another of its class within one pass is resumed without having been suspended; the engine ignores that Resume, and the holder keeps the fd of the device that is gone |

The others are visible in the models and have no run.

The engine and the connection tasks:

- `engine.rs:72`, "Nothing else can take it in the meantime.": a device that is
  away passes to a waiter when its owner releases it or disconnects
  (`ReleaseOwned`, `Disconnected`).
- `docs/policy-engine.md:192`, "so nothing is held off-screen": a queued seat
  claim is served after its client has left the display (`Winner`).
- `docs/policy-engine.md:395`, "Releaser is not the owner | warn, ignore": the
  task ends the lease of the card before the engine sees the Release
  (`ReadRelease`).
- `docs/policy-engine.md:414`, "The lease is revoked on the client's `Release`
  — or, if it stays silent, by the next grant's stale-revoke": the stale-revoke
  of a Grant acted on late ends the lease of the present owner (`SendGrant`).
- `docs/policy-engine.md:196`, "The low class never queues": a display-less
  holder that answers the Revoke of a seat claim is requeued
  (`ReleaseOwned`).
- `engine.rs:564`, "Nothing can be handed over while the device is away: drop a
  revoke that was in flight": leaving the seat starts one on a device that is
  away (`SeatInputs` does not look at `suspended`).
- `docs/policy-engine.md:172`, "only one Revoke is ever in flight per resource":
  leaving the seat, taking it again and leaving it once more within the grace
  period sends a second Revoke and starts the deadline again.
- `client_handler/mod.rs:39`, "Unregistered on disconnect": a connection whose
  first Advertise cannot be written returns without a Disconnected (`Advertise`,
  location `abandoned`) and stays registered.
- An end of file drops the whole frames that were read before it
  (`wire.rs:34`, `Drain`).

The hot-plug task:

- `hotplug.rs:95`, "so reconcile once here to close the gap": there is no pass
  before the watch's loop; the gap is closed by the first event or by the safety
  pass a minute later (`StartWatch`).
- The retries are for a device that was seen and could not be taken. A node that
  does not open is skipped by `probe_all`, which asks for no retry, so only the
  next event or the safety pass takes it (`ProbeAll`, `NotTaken`).
- `hotplug.rs:315`, "If the old device is still there (an odd udev event) the
  holder's fd keeps working": a device that was unplugged may still be in sysfs
  when another has taken its node. The node is then re-opened and the holder
  is told nothing (`NodeRecreated`). This and the run above are the two ways a
  name gets another device with no gap, which `OwnerHasDevice` leaves out.
- A device that moves to another node within one pass is adopted under a new
  name, because new devices come before lost ones are suspended (`NewDevice`).
- Without sysfs, a device that fails one probe is suspended, and resumed only if
  its inode changes (`Kept`): `Converges` has `SYSFS` as a premise.
- Between `advertised.insert` and `engine.offer` a connecting client can read a
  name for which the engine has no slot yet, and is denied it; pushed lists are
  free of this (`OfferedBeforePushed`).

## The proofs

Every theorem holds for all values of the constants that satisfy the named
assumption of its module.

| module | proves | for any | from |
| --- | --- | --- | --- |
| `PolicyEngineProofs`, `LendingProofs` | the engine | clients, finite set of resources, policies, grace period | `ConstantsAssumption` |
| `GrantNextProofs` | `grant_next`'s loop | finite set of clients, queue, policy, dead channels | `ClientsAssumption` |
| `ConnectionProofs` | a card's lease; what the connection tasks do to the mailbox | clients, resources, cards, capacity of the mailbox, number of requests | `LockedAssumption`, `ConnectionsAssumption` |
| `DaemonProofs` | the connection tasks, the mailbox, the engine and the cards together | those of both | the same, and `EngineAssumption` |
| `WireProofs` | how requests are read | frames, lengths, sizes of a header and of a read | `WireAssumption` |
| `HotplugProofs` | the hot-plug task | devices, nodes, names, mailbox, changes of the world | `HotplugAssumption` |

`PolicyProofs` has what the first three share: what `Keep`, `Without`, `Winner`
and `LeftWaiting` return. Filtering a sequence by a set of positions needs facts
about ranks and cardinalities, and a finite queue with a waiter that can be told
has a winner.

### The engine

`Invariance` is the inductive invariant `IInv`. `TypeCorrect`, `FreeSlotsAreIdle`,
`NobodyQueuedTwice`, `DisconnectedLeavesNothing` and `FirstOwnerQueues` follow
from it, and `NoPreemption` is an action property that needs it.

`IInv` is the conjunction of `TypeOK` and the four other invariants: none is
inductive alone, because they need each other. A freed slot is idle
only if `grant_next` drops everybody it pops, and under first-owner it pops only
claims, so `NoIdleWaiters` needs `FirstOwnerQueuesClaims`. `Resume` frees a slot
without serving its queue when the holder is not registered, so `NoIdleWaiters`
needs `OnlyRegisteredHold`: the branch is never taken. The reclaim of a vanished
owner in `acquire_one` would break `NoPreemptionWithoutGrace` but for the same
fact. `OnlyRegisteredHold` in turn rests on the guards of `Acquire` and
`Release`, that a command comes from a client whose Register was handled before
and whose Disconnected was not: the order of the mailbox ensures it
(`EngineIsImplemented`). The proof has one lemma for each handler and a shared one
for the handlers that free slots.

`LendingProofs` has `EngineLends`, that every step of the engine is a step of
`Lending` or a stutter, and `AskedOwnersYield`. Each handler is shown to do to
a slot one of four things (leave it, queue on it, free and serve it, drop its
revoke), and each of those to be a step of `Lending`; `IInv` rules out the
reclaims of owners that are not registered. `SeatGivesInputsBack`,
`NewOwnersAreTold` and `FairQueueServesInOrder` are about the step in which a
resource changes hands, for any order in which a `HashMap` is visited.

`GrantNextProofs`: `LoopIsClosedForm` and `LiveWaitersStay`. The invariant
(`LoopInv`) is that the queue is the one the loop began with, without some
waiters that could not be told and come before every other that can be popped
(`LeftOf`). A pop then takes the first position that is left, and when the loop
stops that position is `Winner`. It is the justification for the closed form that
the engine's model uses.

### The daemon

`DaemonInvariance` is the inductive invariant `DInv`: the types, the bounds, the
engine's `IInv`, and for every client `ClientInv`, which relates where its task
is to what the mailbox holds of it.

- `RegisterInv`: its Register comes first, and until it is handled the engine
  knows nothing of the client.
- `AcquireInv`: it has at most one Acquire in the mailbox, and then it waits for
  that answer.
- `DisconnectedInv`: its Disconnected comes last, and is there once the loop has
  ended unless it has been handled.

Neither half is inductive alone. The engine's invariant needs the commands to
come when it expects them, which is `ClientInv`; and `ClientInv` says that a
client the engine does not know holds nothing, which needs the engine not to
serve one (`HandlersSpare` in `PolicyEngineProofs`). A step of one client moves
the commands of another by at most one place (`Shifted`), so `OthersKeep` deals
with all others at once; what is left is a client's own steps (`OwnMoves`,
`OwnSends`, `ConnectKeeps`) and the handling of its own command
(`HandledKeeps`). All this is in `ConnectionProofs`, whatever the engine's
handler does beyond what a command may do to its sender; `DaemonProofs` shows
that PolicyEngine's handlers do no more.

`DaemonTypes`, `CommandsComeInOrder` and `NothingIsLost` follow.
`EngineIsImplemented` is the refinement: every step of the composition is a step
of `PolicyEngine`, with `EngineConn` as the stages of the connections, or changes
nothing of its variables. With it, every theorem about the engine holds under the
connection tasks: the daemon implements `Lending` too. The proof takes the engine's
invariant from an instance of `PolicyEngineProofs` (`EP`), and shows that its
actions are those of the instance the model is made of (`SameHandlers`,
`SameSteps`).

Of the cards alone, `LeasesAreKept` (its invariant is `NoLostLease` with the
types) and `ServerEndsLeases`. The tasks use the cards by those calls only
(`CardsAreImplemented`), so both hold of the whole daemon: `DaemonKeepsLeases` and
`DaemonEndsLeases`. That each call is atomic is what the card's mutex is assumed
to give.

### The wire

`RequestsAreRead` and `ConformingClientStays`. The invariant adds `BufferInv`,
that the buffer holds the bytes from the start of the first frame not taken to
the last byte read: without it nothing says that the reader looks at a header
where a frame starts. Where the frames start is a recursive function (`Start`).
The prover has no induction to offer for it, so `SumsExist` shows that the
running sums of a list exist, by taking a least length for which they do not; a
set of naturals has a least member (`LeastMember`).

### The hot-plug task

`HotplugInvariance` is the inductive invariant. From it come `HotplugTypes`,
`Consistency`, `SuspendedIffGone`, `OfferPrecedesPush` and `NoWakeupLost`;
`NoNameForgotten` is an action property that needs it. The module first states the
invariant and shows of which kind every step is, then that a step of each kind
keeps each part. The lemmas that speak of the lowest free name take as a
hypothesis that a set of naturals has a least member (`LeastExists`), which is
proved at the end, where the theorems on finite sets are brought in.

The hot-plug properties speak of the state between two transitions, so none is
inductive: the invariant says what holds in the middle of one. The steps a script
still has to take for a name are `Pending`, and each part of the invariant allows
the difference they make. `ListInv` relates the list and the fds to the live names
up to pending writes; `ToldInv` relates the last command about a name, in the
mailbox or already handled, to the index up to a pending `Suspend` or `Resume`;
`OfferInv` says that a name is offered earlier in the mailbox than anything else
that is said of it. They rest on the shape of a script: a node is opened in
its last step (`ScriptInv`), and the engine is told before the fd goes and before
the list is pushed (`OrderInv`). `IndexInv` is needed for the names to be one
per entry, and at startup follows from the way `discover` numbers the nodes; this
is where the theorems need the guard of `Startup`, that no class has more devices
than there are indexes.
Every step is shown to be of one of five kinds (nothing others could see, a name
lost, a name gained, a step of the script, a command handled), and each part of
the invariant is proved by kind.

### What is only model-checked

Every invariant, action property and refinement that the runs check has a theorem
but two: `ListReachesClient` and `OwnerHasDevice` of `HotplugDaemon`, which need
an invariant of the whole daemon with both of its senders. All liveness
(`LoopEnds`, `RevokeServesHead`, `EndedHoldsNothing`, `AcquireIsAnswered`,
`Converges`, `WrittenIsDispatched`) is under fairness and out of the prover's
reach.

## Not modelled

The Ack of a Grant and its timer only log. The enumeration of cards and the
opening of the framebuffer happen once, in sequence, before any other task
exists, and ask the hardware: a model would restate the code. Logging, reasons of
a Deny, `SGC_POLICY` parsing, the wire encoding, the order of the advertised list
and packaging have no state that a property speaks of. The counters of input
discovery are `u8` and wrap at 257 devices of a class, which no instance reaches.
A restart of the daemon is a new run: nothing is persisted.

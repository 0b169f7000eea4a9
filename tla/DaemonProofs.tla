---------------------------- MODULE DaemonProofs ----------------------------
(***************************************************************************)
(* The daemon around the engine, for any number of clients and resources,  *)
(* any capacity of the mailbox and any number of requests.                 *)
(***************************************************************************)
EXTENDS Daemon, ConnectionProofs

-----------------------------------------------------------------------------
(* The connections as the engine sees them.                                *)

\* Seen by the engine, a step of a connection task is one that PolicyEngine
\* describes, or nothing.
LEMMA ConnectionSimulated ==
    ASSUME NEW S, NEW M, Typed(S), ControlTyped(M), \A d \in ClientId : ClientInv(d),
           NEW c \in ClientId, Connection(c)
    PROVE  Engine!Connection(c) \/ UNCHANGED <<EngineConn, engineVars>>
<1> DEFINE reg == Has(c, "Register")
           stays == UNCHANGED <<EngineConn, engineVars>>
<1>1. Typed(S)' /\ OthersStay(c)
  BY ConnectionKeeps
<1>2. /\ EngineConn[c] = View(task[c].at, reg)
      /\ EngineConn' = [EngineConn EXCEPT ![c] = View(task'[c].at, reg')]
  BY <1>1, ViewOfStep
<1>3. EngineConn = [d \in ClientId |-> EngineConn[d]]
  BY DEF EngineConn
<1>4. mailbox' = mailbox => (reg' <=> reg)
  BY DEF Has, From
<1>5. ASSUME NEW m \in Command, m.client = c, Send(m)
      PROVE  reg' <=> reg \/ m.cmd = "Register"
  BY <1>5, SentFrom
<1>6. ASSUME NEW place, NEW r, Go(c, place, r) PROVE task'[c].at = place
  BY <1>6 DEF Go, Typed
<1>7. /\ At(c, "new") \/ reg => control[c] = <<>>
      /\ Outside(c) => ~Holds(c)
  BY Zenon DEF ClientInv, RegisterInv
<1>8. control = [d \in ClientId |-> control[d]]
  BY DEF ControlTyped
<1> HIDE DEF EngineConn, reg
<1>9. ASSUME UNCHANGED engineVars, View(task'[c].at, reg') = View(task[c].at, reg)
      PROVE  stays
  BY <1>2, <1>3, <1>9
<1>10. ASSUME control' = [control EXCEPT ![c] = <<>>], reg,
              UNCHANGED <<control_reg, slotVars>>, reg' <=> reg
       PROVE  stays
  BY <1>2, <1>3, <1>7, <1>8, <1>10, Zenon DEF engineVars, View
<1>11. CASE Connect(c)
  <2>1. reg'
    <3> DEFINE m == [cmd |-> "Register", client |-> c]
    <3>1. m \in Command /\ m.client = c /\ m.cmd = "Register" /\ Send(m)
      BY <1>11 DEF Connect, Command
    <3> QED
      BY <1>5, <3>1
  <2> QED
    BY <1>9, <1>11, <2>1 DEF Connect, View, At
<1>12. CASE Advertise(c)
  <2>1. mailbox' = mailbox /\ UNCHANGED <<control_reg, slotVars>> /\ At(c, "advertise")
    BY <1>12 DEF Advertise
  <2>2. CASE Go(c, "loop", None) /\ UNCHANGED control
    <3>1. task'[c].at = "loop"
      BY <1>6, <2>2 DEF Location
    <3> QED
      BY <1>4, <1>9, <2>1, <2>2, <3>1 DEF View, At, engineVars
  <2>3. CASE Go(c, "abandoned", None) /\ control' = [control EXCEPT ![c] = <<>>]
    <3>1. task'[c].at = "abandoned"
      BY <1>6, <2>3 DEF Location
    <3>2. CASE reg
      BY <1>4, <1>10, <2>1, <2>3, <3>2
    <3>3. CASE ~reg
      <4>1. EngineConn[c] = "open" /\ EngineConn' = [EngineConn EXCEPT ![c] = "abandoned"]
        BY <1>2, <1>4, <2>1, <3>1, <3>3, Zenon DEF View, At
      <4>2. \A r \in Engine!Resource : owner[r] # c /\ ~Engine!IsQueued(waiters[r], c)
        BY <1>7, <2>1, Zenon DEF Outside, Holds, Waiting, Engine!IsQueued, Engine!Resource, Resource
      <4> QED
        BY <2>1, <2>3, <4>1, <4>2, Zenon
           DEF Engine!Connection, Engine!Abandon, slotVars, Engine!slotVars
    <3> QED
      BY <3>2, <3>3
  <2> QED
    BY <1>12, <2>2, <2>3 DEF Advertise
<1>13. CASE TakeControl(c)
  <2>1. /\ mailbox' = mailbox /\ UNCHANGED <<control_reg, slotVars>> /\ At(c, "loop")
        /\ control[c] # <<>> /\ control' = [control EXCEPT ![c] = Tail(@)]
    BY <1>13 DEF TakeControl
  <2>2. ~reg /\ ~reg'
    BY <1>4, <1>7, <2>1
  <2>3. PICK place \in {"write", "grant"} : \E r : Go(c, place, r)
    BY <1>13 DEF TakeControl
  <2>4. task'[c].at = place
    BY <1>6, <2>3
  <2>5. EngineConn[c] = "open" /\ EngineConn' = EngineConn
    BY <1>2, <1>3, <2>1, <2>2, <2>4 DEF View, At
  <2> QED
    BY <2>1, <2>5 DEF Engine!Connection, Engine!Receive, slotVars, Engine!slotVars
<1>14. CASE Return(c)
  <2>1. /\ mailbox' = mailbox /\ UNCHANGED <<control_reg, slotVars>> /\ At(c, "ended")
        /\ control' = [control EXCEPT ![c] = <<>>]
    BY <1>14 DEF Return
  <2>2. task'[c].at = "gone"
    BY <1>6, <1>14 DEF Return, Location
  <2>3. CASE reg
    BY <1>4, <1>10, <2>1, <2>3
  <2>4. CASE ~reg
    <3>1. EngineConn[c] = "leaving" /\ EngineConn' = [EngineConn EXCEPT ![c] = "closed"]
      BY <1>2, <1>4, <2>1, <2>2, <2>4, ZenonT(40) DEF View, At
    <3> QED
      BY <2>1, <3>1 DEF Engine!Connection, Engine!DropReceiver, slotVars, Engine!slotVars
  <2> QED
    BY <2>3, <2>4
<1>15. CASE SendDisconnected(c)
  <2>1. reg' <=> reg
    <3> DEFINE m == [cmd |-> "Disconnected", client |-> c]
    <3>1. m \in Command /\ m.client = c /\ m.cmd # "Register" /\ Send(m)
      BY <1>15 DEF SendDisconnected, Command
    <3> QED
      BY <1>5, <3>1
  <2>2. task'[c].at = "ended" /\ At(c, "disconnect") /\ UNCHANGED engineVars
    BY <1>6, <1>15 DEF SendDisconnected, Location
  <2>3. CASE reg
    BY <1>9, <2>1, <2>2, <2>3 DEF View
  <2>4. CASE ~reg
    <3>1. EngineConn[c] = "open" /\ EngineConn' = [EngineConn EXCEPT ![c] = "leaving"]
      BY <1>2, <2>1, <2>2, <2>4, ZenonT(40) DEF View, At
    <3> QED
      BY <2>2, <3>1
         DEF Engine!Connection, Engine!Hangup, engineVars, slotVars, Engine!slotVars
  <2> QED
    BY <2>3, <2>4
<1>16. CASE SendAcquire(c)
  <2> DEFINE m == [cmd |-> "Acquire", client |-> c, resource |-> task[c].on]
  <2>1. task[c].at = "acquire" /\ task[c].on \in Resource
    BY <1>16 DEF SendAcquire, At, Typed
  <2>2. m \in Command /\ m.client = c /\ m.cmd # "Register" /\ Send(m)
    BY <1>16, <2>1, Zenon DEF SendAcquire, Command
  <2>3. task'[c].at = "reply" /\ UNCHANGED engineVars
    BY <1>6, <1>16, Zenon DEF SendAcquire
  <2> QED
    BY <1>5, <1>9, <2>1, <2>2, <2>3, ZenonT(40) DEF View
<1>17. CASE Rollback(c) \/ SendRelease(c)
  <2> DEFINE m == [cmd |-> "Release", client |-> c, resource |-> task[c].on]
  <2>1. task[c].at \in {"rollback", "release"} /\ task[c].on \in Resource
    BY <1>17 DEF Rollback, SendRelease, At, Typed
  <2>2. m \in Command /\ m.client = c /\ m.cmd # "Register" /\ Send(m)
    BY <1>17, <2>1, Zenon DEF Rollback, SendRelease, Command
  <2>3. task'[c].at \in {"write", "loop"} /\ UNCHANGED engineVars
    BY <1>6, <1>17 DEF Rollback, SendRelease, Location
  <2> QED
    BY <1>5, <1>9, <2>1, <2>2, <2>3, ZenonT(40) DEF View
<1>18. CASE \/ Write(c) \/ LeaveLoop(c) \/ TakeReply(c) \/ SendGrant(c)
            \/ \E r \in Resource : ReadAcquire(c, r) \/ ReadRelease(c, r)
  <2>1. mailbox' = mailbox /\ UNCHANGED engineVars
    BY <1>18, Zenon DEF Write, LeaveLoop, TakeReply, SendGrant, ReadAcquire, ReadRelease
  <2>2. task[c].at \in {"write", "loop", "reply", "grant"}
    BY <1>18, Zenon DEF Write, LeaveLoop, TakeReply, SendGrant, ReadAcquire, ReadRelease,
                 ReadRequest, At
  <2>3. PICK place \in {"loop", "disconnect", "grant", "write", "rollback", "acquire", "release"} :
            \E r : Go(c, place, r)
    BY <1>18, Zenon DEF Write, LeaveLoop, TakeReply, SendGrant, SendGrantOk, SendGrantFails,
                 ReadAcquire, ReadRelease
  <2>4. task'[c].at = place
    BY <1>6, <2>3
  <2> QED
    BY <1>4, <1>9, <2>1, <2>2, <2>4 DEF View
<1> QED
  BY <1>11, <1>12, <1>13, <1>14, <1>15, <1>16, <1>17, <1>18 DEF Connection, Proceed

-----------------------------------------------------------------------------
(* The bounds, and the cards.                                              *)

\* No step sends to a full mailbox, and no task reads more than its share.
LEMMA NextBounded ==
    ASSUME NEW S, mailbox \in Seq(S), Bounded, [Next]_vars
    PROVE  Bounded'
<1>1. CASE \E c \in ClientId : Connection(c)
  BY <1>1, ConnectionBounded
<1>2. CASE HandleCommand
  <2>1. Len(mailbox') = Len(mailbox) - 1 /\ Len(mailbox) \in Nat
    BY <1>2 DEF HandleCommand
  <2> QED
    BY <1>2, <2>1, ConnectionsAssumption DEF HandleCommand, Bounded
<1>3. CASE (\E c \in ClientId : CloseLease(c)) \/ Timeout \/ Tick \/ Idle \/ UNCHANGED vars
  BY <1>3, Zenon DEF CloseLease, Timeout, Tick, Idle, vars, connVars, Bounded
<1> QED
  BY <1>1, <1>2, <1>3 DEF Next

\* What a step does to the cards is one whole call, or nothing.
LEMMA CardsStep ==
    ASSUME [Next]_vars
    PROVE  [CardNext]_drmVars
<1>1. CASE \E c \in ClientId : Connection(c)
  BY <1>1, ConnectionCards
<1>2. CASE HandleCommand \/ Timeout \/ Tick \/ Idle \/ UNCHANGED vars
  BY <1>2 DEF HandleCommand, Timeout, Tick, Idle, vars, drmVars
<1>3. ASSUME NEW c \in ClientId, CloseLease(c) PROVE CardNext
  BY <1>3, ConnectionsAssumption DEF CloseLease, CardNext
<1> QED
  BY <1>1, <1>2, <1>3 DEF Next

\* The tasks, in whatever order they come to the cards, and the clients that
\* close the fds they were sent, do to the cards only what DrmDevice describes.
LEMMA CardsAreImplemented == Spec => CardSpec
<1>1. Init => CardInit
  BY DEF Init
<1>2. [Next]_vars => [CardNext]_drmVars
  BY CardsStep
<1> QED
  BY <1>1, <1>2, PTL DEF Spec, CardSpec

\* So the daemon never loses a lease, whichever tasks come to a card, in
\* whatever order, and whichever ioctl fails.
THEOREM DaemonKeepsLeases == Spec => []NoLostLease
BY CardsAreImplemented, LeasesAreKept, PTL

\* And no lease of the daemon ends but by the server.
THEOREM DaemonEndsLeases == Spec => OnlyServerEndsLease
BY CardsAreImplemented, ServerEndsLeases, PTL

-----------------------------------------------------------------------------
(* The steps of the daemon, given what the engine leaves alone.            *)

\* A command handled is a step of the engine, and has the effect Handled says.
LEMMA HandleCommandSteps ==
    ASSUME Typed(Command), HandleCommand
    PROVE  /\ mailbox # <<>> /\ mailbox' = Tail(mailbox) /\ UNCHANGED task
           /\ Head(mailbox) \in Command /\ Head(mailbox).client \in ClientId
           /\ Handled(Head(mailbox))
           /\ \/ Engine!Register(Head(mailbox).client)
              \/ Engine!Disconnected(Head(mailbox).client)
              \/ \E r \in Resource : Engine!Release(Head(mailbox).client, r)
              \/ /\ Head(mailbox).cmd = "Acquire"
                 /\ \E r \in Resource, o \in Engine!Outcome :
                        Engine!Acquire(Head(mailbox).client, r, o)
<1> DEFINE m == Head(mailbox)
<1>1. mailbox # <<>> /\ mailbox' = Tail(mailbox) /\ UNCHANGED task
  BY DEF HandleCommand
<1>2. m \in Command
  BY <1>1 DEF Typed
<1>3. /\ m.client \in ClientId
      /\ m.cmd \in {"Acquire", "Release"} => m.resource \in Resource
  BY <1>2 DEF Command
<1> HIDE DEF m
<1>4. \/ m.cmd = "Register" /\ Engine!Register(m.client) /\ UNCHANGED reply
      \/ m.cmd = "Release" /\ Engine!Release(m.client, m.resource) /\ UNCHANGED reply
      \/ m.cmd = "Disconnected" /\ Engine!Disconnected(m.client) /\ UNCHANGED reply
      \/ /\ m.cmd = "Acquire"
         /\ \E o \in Engine!Outcome : /\ Engine!Acquire(m.client, m.resource, o)
                                      /\ reply' = [reply EXCEPT ![m.client] = o]
  BY DEF HandleCommand, m
<1>5. Engine!Register(m.client) => control_reg' = control_reg \cup {m.client}
  BY DEF Engine!Register
<1>6. Engine!Disconnected(m.client) => control_reg' = control_reg \ {m.client}
  BY DEF Engine!Disconnected
<1>7. Engine!Release(m.client, m.resource) => UNCHANGED control_reg
  BY Zenon DEF Engine!Release, Engine!ReleaseIgnored, Engine!ReleaseOwned, Engine!vars
<1>8. ASSUME NEW o, Engine!Acquire(m.client, m.resource, o) PROVE UNCHANGED control_reg
  BY <1>8, Zenon DEF Engine!Acquire, Engine!AcquireDenied, Engine!AcquireGranted,
              Engine!AcquireAgain, Engine!AcquireQueued, Engine!vars
<1>9. Handled(m)
  BY <1>4, <1>5, <1>6, <1>7, <1>8 DEF Handled, Engine!Outcome
<1> QED
  BY <1>1, <1>2, <1>3, <1>4, <1>9 DEF m

\* Nothing has been sent and nobody is known.
LEMMA InitTasks ==
    ASSUME Init, \A c \in ClientId : Holds(c) => c \in control_reg
    PROVE  Typed(Command) /\ Bounded /\ \A c \in ClientId : ClientInv(c)
<1>1. /\ task = [c \in ClientId |-> [at |-> "new", on |-> None]]
      /\ requests = [c \in ClientId |-> 0]
      /\ reply = [c \in ClientId |-> None]
      /\ mailbox = <<>>
      /\ control_reg = {} /\ control = [c \in ClientId |-> <<>>]
  BY DEF Init, Engine!Init
<1>2. Typed(Command) /\ Bounded
  BY <1>1, ConnectionsAssumption DEF Typed, Bounded, Location, Command, Sendable
<1>3. ASSUME NEW c \in ClientId PROVE ClientInv(c)
  <2>1. /\ At(c, "new") /\ ~At(c, "reply") /\ ~At(c, "ended") /\ ~At(c, "gone")
        /\ DOMAIN mailbox = {} /\ reply[c] = None /\ control[c] = <<>> /\ ~Holds(c)
    BY <1>1 DEF At
  <2> QED
    BY <1>1, <2>1, Zenon DEF ClientInv, RegisterInv, AcquireInv, DisconnectedInv, Has
<1> QED
  BY <1>2, <1>3

\* Every step of the daemon is a step of the engine, or none of its business.
LEMMA EngineStep ==
    ASSUME NEW M, Typed(Command), ControlTyped(M), \A c \in ClientId : ClientInv(c), [Next]_vars
    PROVE  [Engine!Next]_(Engine!vars)
<1>1. ASSUME UNCHANGED <<EngineConn, engineVars>> PROVE UNCHANGED Engine!vars
  BY <1>1 DEF engineVars, Engine!vars, Engine!slotVars, slotVars
<1>2. ASSUME NEW c \in ClientId, Connection(c) PROVE [Engine!Next]_(Engine!vars)
  BY <1>1, <1>2, ConnectionSimulated DEF Engine!Next
<1>3. CASE HandleCommand
  <2>1. \E c \in ClientId : Engine!ClientCommand(c)
    BY <1>3, HandleCommandSteps DEF Engine!ClientCommand, Resource, Engine!Resource
  <2> QED
    BY <2>1 DEF Engine!Next
<1>4. CASE Timeout \/ Tick
  BY <1>4 DEF Timeout, Tick, Engine!Next
<1>5. CASE (\E c \in ClientId : CloseLease(c)) \/ Idle \/ UNCHANGED vars
  <2>1. UNCHANGED <<connVars, mailbox, engineVars>>
    BY <1>5, Zenon DEF CloseLease, Idle, vars
  <2> QED
    BY <1>1, <2>1 DEF connVars, EngineConn, At, Registering
<1> QED
  BY <1>2, <1>3, <1>4, <1>5 DEF Next

\* A step of the engine, other than its answer to c.
EngineActs(c) ==
    \/ \E d \in ClientId : Engine!Register(d) \/ Engine!Disconnected(d)
    \/ \E d \in ClientId, r \in Resource : Engine!Release(d, r)
    \/ \E d \in ClientId \ {c}, r \in Resource, o \in Engine!Outcome :
           Engine!Acquire(d, r, o)
    \/ Engine!ForceReclaim
    \/ Engine!Tick

\* Every step of the daemon keeps the order of each client's commands.
LEMMA NextTasks ==
    ASSUME NEW M, Typed(Command), ControlTyped(M), \A c \in ClientId : ClientInv(c), [Next]_vars,
           \A c \in ClientId : EngineActs(c) => Spared(c)
    PROVE  Typed(Command)' /\ \A c \in ClientId : ClientInv(c)'
<1>1. ASSUME NEW c \in ClientId, Connection(c)
      PROVE  Typed(Command)' /\ \A d \in ClientId : ClientInv(d)'
  BY <1>1, ConnectionKeeps
<1>2. ASSUME HandleCommand
      PROVE  Typed(Command)' /\ \A d \in ClientId : ClientInv(d)'
  <2> DEFINE m == Head(mailbox)
  <2>1. /\ mailbox # <<>> /\ mailbox' = Tail(mailbox) /\ UNCHANGED task
        /\ m \in Command /\ m.client \in ClientId /\ Handled(m)
    BY <1>2, HandleCommandSteps, Zenon
  <2>2. ASSUME NEW d \in ClientId, d # m.client \/ m.cmd # "Acquire" PROVE Spared(d)
    BY <1>2, <2>2, HandleCommandSteps DEF EngineActs
  <2>3. Typed(Command)'
    BY <2>1, HandledTyped
  <2>4. ASSUME NEW d \in ClientId PROVE ClientInv(d)'
    <3>1. CASE d = m.client
      BY <2>1, <2>2, <3>1, HandledKeeps
    <3>2. CASE d # m.client
      BY <2>1, <2>2, <2>3, <3>2, HandledSpares, Zenon
    <3> QED
      BY <3>1, <3>2
  <2> QED
    BY <2>3, <2>4
<1>3. ASSUME UNCHANGED <<task, reply, mailbox, control_reg>>,
             \A d \in ClientId : Spared(d)
      PROVE  Typed(Command)' /\ \A d \in ClientId : ClientInv(d)'
  <2>1. Typed(Command)'
    BY <1>3 DEF Typed
  <2> QED
    BY <1>3, <2>1, QuietKeeps
<1>4. CASE Timeout \/ Tick
  <2>1. \A d \in ClientId : Spared(d)
    BY <1>4 DEF Timeout, Tick, EngineActs
  <2>2. UNCHANGED <<task, reply, mailbox, control_reg>>
    BY <1>4, Zenon DEF Timeout, Tick, connVars, Engine!ForceReclaim, Engine!Tick
  <2> QED
    BY <1>3, <2>1, <2>2
<1>5. CASE (\E c \in ClientId : CloseLease(c)) \/ Idle \/ UNCHANGED vars
  <2>1. UNCHANGED <<connVars, mailbox, engineVars>>
    BY <1>5, Zenon DEF CloseLease, Idle, vars
  <2>2. \A d \in ClientId : Spared(d)
    BY <2>1 DEF engineVars, slotVars, Spared, Holds, Waiting
  <2>3. UNCHANGED <<task, reply, mailbox, control_reg>>
    BY <2>1 DEF connVars, engineVars
  <2> QED
    BY <1>3, <2>2, <2>3
<1> QED
  BY <1>1, <1>2, <1>4, <1>5 DEF Next

-----------------------------------------------------------------------------
(* The engine is instantiated twice, once as the specification and once     *)
(* with what is proved about it: the two instances say the same.            *)

EP == INSTANCE PolicyEngineProofs WITH conn <- EngineConn

\* The constants are such that what is proved of the engine applies.
LEMMA ConstantsHold == EP!ConstantsAssumption
BY EngineAssumption, ZenonT(40)
DEF  Engine!ConstantsAssumption, EP!ConstantsAssumption, Engine!Resource,
     EP!Resource, Engine!Policies, EP!Policies, Engine!IsFiniteSet,
     EP!IsFiniteSet

\* The handlers of the two instances.
LEMMA SameHandlers ==
    ASSUME NEW c, NEW r, NEW o
    PROVE  /\ Engine!Register(c) => EP!Register(c)
           /\ Engine!Disconnected(c) => EP!Disconnected(c)
           /\ Engine!Release(c, r) => EP!Release(c, r)
           /\ Engine!Acquire(c, r, o) => EP!Acquire(c, r, o)
           /\ Engine!ForceReclaim => EP!ForceReclaim
           /\ Engine!Tick => EP!Tick
<1>1. Engine!Register(c) => EP!Register(c)
  BY ZenonT(40) DEF Engine!Register, EP!Register, Engine!slotVars, EP!slotVars
<1>2. Engine!Disconnected(c) => EP!Disconnected(c)
  BY ZenonT(40) DEF Engine!Disconnected, EP!Disconnected, Engine!Without, EP!Without,
         Engine!Resource, EP!Resource, Engine!NoDeadline, EP!NoDeadline,
         Engine!Up, EP!Up, Engine!Cardinality, EP!Cardinality, Engine!Rank,
         EP!Rank, Engine!Position, EP!Position, Engine!Keep, EP!Keep,
         Engine!Poppable, EP!Poppable, Engine!PoppedBefore, EP!PoppedBefore,
         Engine!Servable, EP!Servable, Engine!Winner, EP!Winner,
         Engine!LeftWaiting, EP!LeftWaiting, Engine!NextOwner, EP!NextOwner,
         Engine!FreeAndGrantNext, EP!FreeAndGrantNext,
         Engine!IterationOrders, EP!IterationOrders, Engine!Messages,
         EP!Messages, Engine!GrantsOf, EP!GrantsOf, Engine!Push, EP!Push
<1>3. Engine!Tick => EP!Tick
  BY ZenonT(40) DEF Engine!Tick, EP!Tick, Engine!Resource, EP!Resource
<1>4. Engine!ForceReclaim => EP!ForceReclaim
  BY ZenonT(40) DEF Engine!ForceReclaim, EP!ForceReclaim, Engine!Expired, EP!Expired,
         Engine!SeatsLost, EP!SeatsLost, Engine!SeatInputs, EP!SeatInputs,
         Engine!Repeated, EP!Repeated, Engine!Resource, EP!Resource,
         Engine!NoDeadline, EP!NoDeadline, Engine!Up, EP!Up,
         Engine!Cardinality, EP!Cardinality, Engine!Rank, EP!Rank,
         Engine!Position, EP!Position, Engine!Keep, EP!Keep, Engine!Poppable,
         EP!Poppable, Engine!PoppedBefore, EP!PoppedBefore, Engine!Servable,
         EP!Servable, Engine!Winner, EP!Winner, Engine!LeftWaiting,
         EP!LeftWaiting, Engine!NextOwner, EP!NextOwner,
         Engine!FreeAndGrantNext, EP!FreeAndGrantNext,
         Engine!IterationOrders, EP!IterationOrders, Engine!Messages,
         EP!Messages, Engine!GrantsOf, EP!GrantsOf, Engine!Push, EP!Push
<1>5. Engine!Release(c, r) => EP!Release(c, r)
  BY ZenonT(40) DEF Engine!Release, EP!Release, Engine!ReleaseIgnored,
         EP!ReleaseIgnored, Engine!ReleaseOwned, EP!ReleaseOwned,
         Engine!RequeueWaiter, EP!RequeueWaiter, Engine!SeatInputs,
         EP!SeatInputs, Engine!vars, EP!vars, Engine!slotVars, EP!slotVars,
         Engine!Resource, EP!Resource, Engine!NoDeadline, EP!NoDeadline,
         Engine!Up, EP!Up, Engine!Cardinality, EP!Cardinality, Engine!Rank,
         EP!Rank, Engine!Position, EP!Position, Engine!Keep, EP!Keep,
         Engine!Poppable, EP!Poppable, Engine!PoppedBefore, EP!PoppedBefore,
         Engine!Servable, EP!Servable, Engine!Winner, EP!Winner,
         Engine!LeftWaiting, EP!LeftWaiting, Engine!NextOwner, EP!NextOwner,
         Engine!FreeAndGrantNext, EP!FreeAndGrantNext,
         Engine!IterationOrders, EP!IterationOrders, Engine!Messages,
         EP!Messages, Engine!GrantsOf, EP!GrantsOf, Engine!Push, EP!Push
<1>6. Engine!Acquire(c, r, o) => EP!Acquire(c, r, o)
  BY ZenonT(40) DEF Engine!Acquire, EP!Acquire, Engine!AcquireDenied, EP!AcquireDenied,
         Engine!AcquireGranted, EP!AcquireGranted, Engine!AcquireAgain,
         EP!AcquireAgain, Engine!AcquireQueued, EP!AcquireQueued,
         Engine!Refused, EP!Refused, Engine!Decision, EP!Decision,
         Engine!Decide, EP!Decide, Engine!SeatSteal, EP!SeatSteal,
         Engine!HoldsDisplay, EP!HoldsDisplay, Engine!State, EP!State,
         Engine!IsQueued, EP!IsQueued, Engine!vars, EP!vars, Engine!slotVars,
         EP!slotVars, Engine!Resource, EP!Resource, Engine!NoDeadline,
         EP!NoDeadline, Engine!Up, EP!Up, Engine!Cardinality, EP!Cardinality,
         Engine!Rank, EP!Rank, Engine!Position, EP!Position, Engine!Keep,
         EP!Keep, Engine!Poppable, EP!Poppable, Engine!PoppedBefore,
         EP!PoppedBefore, Engine!Servable, EP!Servable, Engine!Winner,
         EP!Winner, Engine!LeftWaiting, EP!LeftWaiting, Engine!NextOwner,
         EP!NextOwner, Engine!FreeAndGrantNext, EP!FreeAndGrantNext,
         Engine!IterationOrders, EP!IterationOrders, Engine!Messages,
         EP!Messages, Engine!GrantsOf, EP!GrantsOf, Engine!Push, EP!Push
<1> QED
  BY <1>1, <1>2, <1>3, <1>4, <1>5, <1>6, ZenonT(40)

\* The behaviours of the two instances.
LEMMA SameSteps ==
    /\ Engine!Init => EP!Init
    /\ [Engine!Next]_(Engine!vars) => [EP!Next]_(EP!vars)
<1>1. Engine!Init => EP!Init
  BY ZenonT(40) DEF Engine!Init, EP!Init, Engine!Resource, EP!Resource, Engine!NoDeadline, EP!NoDeadline
<1>2. ASSUME NEW c \in ClientId, Engine!Connection(c) PROVE EP!Connection(c)
  BY <1>2, ZenonT(40) DEF Engine!Connection, EP!Connection, Engine!Receive, EP!Receive,
              Engine!Hangup, EP!Hangup, Engine!DropReceiver, EP!DropReceiver,
              Engine!Abandon, EP!Abandon, Engine!IsQueued, EP!IsQueued,
              Engine!Resource, EP!Resource, Engine!slotVars, EP!slotVars
<1>3. ASSUME NEW c \in ClientId, Engine!ClientCommand(c) PROVE EP!ClientCommand(c)
  BY <1>3, SameHandlers, ZenonT(40) DEF Engine!ClientCommand, EP!ClientCommand, Engine!Resource,
                            EP!Resource, Engine!Outcome, EP!Outcome
<1>4. Engine!HotplugCommand => EP!HotplugCommand
  BY ZenonT(40) DEF Engine!HotplugCommand, EP!HotplugCommand, Engine!Suspend, EP!Suspend,
         Engine!Resume, EP!Resume, Engine!Offer, EP!Offer, Engine!Broadcast,
         EP!Broadcast, Engine!NoDeadline, EP!NoDeadline, Engine!Messages, EP!Messages,
         Engine!Keep, EP!Keep, Engine!Rank, EP!Rank, Engine!Position, EP!Position,
         Engine!Cardinality, EP!Cardinality, Engine!Push, EP!Push, Engine!Up, EP!Up,
         Engine!slotVars, EP!slotVars
<1>5. Engine!Next => EP!Next
  <2>1. (Engine!ForceReclaim => EP!ForceReclaim) /\ (Engine!Tick => EP!Tick)
    BY SameHandlers, ZenonT(40)
  <2> QED
    BY <1>2, <1>3, <1>4, <2>1, ZenonT(40) DEF Engine!Next, EP!Next
<1>6. UNCHANGED Engine!vars => UNCHANGED EP!vars
  BY DEF Engine!vars, EP!vars, Engine!slotVars, EP!slotVars
<1> QED
  BY <1>1, <1>5, <1>6, ZenonT(40)

\* What the engine's invariant says of the channels and of who holds what.
LEMMA EngineInvMeans ==
    ASSUME EP!IInv
    PROVE  ControlTyped(Engine!ControlMessage) /\ \A c \in ClientId : Holds(c) => c \in control_reg
<1>1. ControlTyped(Engine!ControlMessage)
  BY DEF EP!IInv, EP!TypeOK, ControlTyped, EP!ControlMessage, Engine!ControlMessage,
         EP!Resource, Engine!Resource, Resource
<1>2. EP!OnlyRegisteredHold /\ EP!ConstantsAssumption
  BY ConstantsHold, ZenonT(40) DEF EP!IInv
<1>3. \A c \in ClientId : Holds(c) => c \in control_reg
  BY <1>2, ZenonT(40) DEF Holds, Waiting, EP!OnlyRegisteredHold, EP!Resource, Resource,
              EP!ConstantsAssumption
<1> QED
  BY <1>1, <1>3, ZenonT(40)

\* What a handler leaves alone.
LEMMA EngineSpares ==
    ASSUME EP!IInv, NEW c \in ClientId, EngineActs(c)
    PROVE  Spared(c)
<1>1. \/ \E d \in ClientId : EP!Register(d) \/ EP!Disconnected(d)
      \/ \E d \in ClientId, r \in EP!Resource : EP!Release(d, r)
      \/ \E d \in ClientId \ {c}, r \in EP!Resource, o \in EP!Outcome : EP!Acquire(d, r, o)
      \/ EP!ForceReclaim
      \/ EP!Tick
  BY SameHandlers, ZenonT(40) DEF EngineActs, Resource, EP!Resource, Engine!Outcome, EP!Outcome
<1>2. EP!Spares(c)
  BY <1>1, ConstantsHold, EP!HandlersSpare, ZenonT(40) DEF EP!ConstantsAssumption
<1> QED
  BY <1>2, ZenonT(40) DEF EP!Spares, EP!Up, EP!Holds, EP!IsQueued, EP!Resource, Spared, Holds, Waiting,
              Resource

-----------------------------------------------------------------------------
(* The daemon's invariant, and what follows from it.                       *)

\* The types, the order of each client's commands and the engine's own
\* invariant are inductive together.  The engine's needs the commands to come
\* when it can expect them; their order needs the engine not to serve a client
\* it does not know.
DInv ==
    /\ Typed(Command) /\ Bounded
    /\ EP!IInv
    /\ \A c \in ClientId : ClientInv(c)

\* The invariant holds in every state the daemon reaches.
THEOREM DaemonInvariance == Spec => []DInv
<1>1. Init => DInv
  <2> SUFFICES ASSUME Init PROVE DInv
    OBVIOUS
  <2>1. EP!IInv
    BY SameSteps, ConstantsHold, EP!InitInv, ZenonT(40) DEF Init, EP!ConstantsAssumption
  <2> QED
    BY <2>1, EngineInvMeans, InitTasks, ZenonT(40) DEF DInv
<1>2. DInv /\ [Next]_vars => DInv'
  <2> SUFFICES ASSUME DInv, [Next]_vars PROVE DInv'
    OBVIOUS
  <2>1. /\ Typed(Command) /\ Bounded /\ EP!IInv /\ ControlTyped(Engine!ControlMessage)
        /\ \A c \in ClientId : ClientInv(c)
    BY EngineInvMeans, ZenonT(40) DEF DInv
  <2>2. EP!IInv'
    BY <2>1, EngineStep, SameSteps, ConstantsHold, EP!NextInv, ZenonT(40) DEF EP!ConstantsAssumption
  <2>3. Typed(Command)' /\ \A c \in ClientId : ClientInv(c)'
    BY <2>1, NextTasks, EngineSpares, ZenonT(40)
  <2>4. Bounded'
    BY <2>1, NextBounded, ZenonT(40) DEF Typed
  <2> QED
    BY <2>2, <2>3, <2>4, ZenonT(40) DEF DInv
<1> QED
  BY <1>1, <1>2, PTL DEF Spec

\* The mailbox never holds more than its capacity, and only commands that a
\* connection task sends.
THEOREM DaemonTypes == Spec => []TypeOK
<1>1. DInv => TypeOK
  BY ZenonT(40) DEF DInv, Typed, Bounded, TypeOK
<1> QED
  BY <1>1, DaemonInvariance, PTL

\* The engine takes no command it does not expect: each client registers once
\* and first, waits for the answer to every Acquire, and sends nothing after its
\* Disconnected, for every way the tasks interleave.
THEOREM CommandsComeInOrder == Spec => []CommandsAreExpected
<1>1. DInv => CommandsAreExpected
  BY CommandsExpected, ZenonT(40) DEF DInv
<1> QED
  BY <1>1, DaemonInvariance, PTL

\* No command is lost, however small the mailbox: a task that waits has its
\* Acquire pending, and a connection that is over holds nothing once its
\* Disconnected has been handled.
THEOREM NothingIsLost == Spec => []NoCommandLost
<1>1. DInv => NoCommandLost
  BY CommandsArrive, EngineInvMeans, ZenonT(40) DEF DInv
<1> QED
  BY <1>1, DaemonInvariance, PTL

\* The daemon's engine is PolicyEngine: what its theorems say of every state and
\* of every step holds under the tasks, for every capacity of the mailbox.
THEOREM EngineIsImplemented == Spec => EngineImplemented
<1>1. Init => Engine!Init
  BY DEF Init
<1>2. DInv /\ [Next]_vars => [Engine!Next]_(Engine!vars)
  BY EngineStep, EngineInvMeans, ZenonT(40) DEF DInv
<1> QED
  BY <1>1, <1>2, DaemonInvariance, PTL DEF Spec, EngineImplemented, Engine!Spec
=============================================================================

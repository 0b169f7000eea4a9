-------------------------- MODULE ConnectionProofs --------------------------
(***************************************************************************)
(* What the connection tasks guarantee of the mailbox and of the cards,    *)
(* for any engine that leaves alone what is not its business: the lemmas   *)
(* that DaemonProofs puts together with the engine's own.                  *)
(***************************************************************************)
EXTENDS Connections, TLAPS

-----------------------------------------------------------------------------
(* The cards themselves.                                                   *)

\* The invariant of the cards: the kernel's lease is the device's.
CardsInv == CardTypes /\ NoLostLease

\* One card changes: to Locked with no lease, or to Leased with one.
LEMMA BecomesInv ==
    ASSUME CardsInv, NEW k \in Card, NEW s \in LeaseId \cup {Locked},
           Becomes(k, s, IF s = Locked THEN {} ELSE {s}),
           fds' \in [Card -> SUBSET LeaseId]
    PROVE  CardsInv'
<1> DEFINE alive == IF s = Locked THEN {} ELSE {s}
<1>1. CardTypes /\ NoLostLease
  BY DEF CardsInv
<1>2. state' = [state EXCEPT ![k] = s] /\ live' = [live EXCEPT ![k] = alive]
  BY DEF Becomes
<1>3. alive \in SUBSET LeaseId
  OBVIOUS
<1>4. CardTypes'
  BY <1>1, <1>2, <1>3 DEF CardTypes
<1>5. NoLostLease'
  <2> SUFFICES ASSUME NEW q \in Card
               PROVE  live'[q] = IF state'[q] = Locked THEN {} ELSE {state'[q]}
    BY DEF NoLostLease
  <2>1. CASE q = k
    BY <1>1, <1>2, <2>1 DEF CardTypes
  <2>2. CASE q # k
    BY <1>1, <1>2, <2>2 DEF CardTypes, NoLostLease
  <2> QED
    BY <2>1, <2>2
<1> QED
  BY <1>4, <1>5 DEF CardsInv

\* Revoking the device's lease leaves none.
LEMMA RevokedIsEmpty ==
    ASSUME CardsInv, NEW k \in Card
    PROVE  Revoked(k) = {}
BY DEF CardsInv, CardTypes, NoLostLease, Revoked

\* Every outcome of a grant, of a revoke and of a client's close keeps it.
LEMMA CardsNext ==
    ASSUME CardsInv, [CardNext]_drmVars
    PROVE  CardsInv'
<1>1. CardTypes
  BY DEF CardsInv
<1>2. ASSUME NEW k \in Card, NEW S \in SUBSET LeaseId
      PROVE  [fds EXCEPT ![k] = S] \in [Card -> SUBSET LeaseId]
  BY <1>1 DEF CardTypes
<1>3. CASE UNCHANGED drmVars
  BY <1>3 DEF CardsInv, CardTypes, NoLostLease, drmVars
<1>4. ASSUME NEW k \in Card, Becomes(k, Locked, Revoked(k)),
             fds' = [fds EXCEPT ![k] = @ \cap Revoked(k)]
      PROVE  CardsInv'
  <2>1. fds' \in [Card -> SUBSET LeaseId]
    BY <1>1, <1>4, RevokedIsEmpty DEF CardTypes
  <2>2. Becomes(k, Locked, {})
    BY <1>4, RevokedIsEmpty
  <2> QED
    BY <2>1, <2>2, BecomesInv, Zenon
<1>5. ASSUME NEW k \in Card, NEW id \in LeaseId, Created(k, id),
             NEW S \in SUBSET LeaseId, fds' = [fds EXCEPT ![k] = S]
      PROVE  CardsInv'
  <2>1. Becomes(k, id, {id}) /\ id # Locked
    BY <1>5, LockedAssumption DEF Created
  <2>2. fds' \in [Card -> SUBSET LeaseId]
    BY <1>2, <1>5
  <2> QED
    BY <2>1, <2>2, BecomesInv, Zenon
<1>6. ASSUME NEW k \in Card, RevokeLease(k) PROVE CardsInv'
  BY <1>3, <1>4, <1>6 DEF RevokeLease, RevokeLeaseOk, RevokeLeaseFails
<1>7. ASSUME NEW k \in Card, NEW id \in LeaseId, GrantLeaseFails(k, id) PROVE CardsInv'
  <2>1. CASE StaleRevokeFails(k) /\ UNCHANGED fds
    BY <1>3, <2>1 DEF StaleRevokeFails, drmVars
  <2>2. CASE CreateFails(k) /\ fds' = [fds EXCEPT ![k] = @ \cap Revoked(k)]
    BY <1>4, <2>2, Zenon DEF CreateFails
  <2>3. CASE Created(k, id) /\ fds' = [fds EXCEPT ![k] = {}]
    BY <1>5, <2>3, Zenon
  <2> QED
    BY <1>7, <2>1, <2>2, <2>3 DEF GrantLeaseFails
<1>8. ASSUME NEW k \in Card, NEW id \in LeaseId, NEW sent \in BOOLEAN,
             GrantLease(k, id, sent)
      PROVE  CardsInv'
  <2> DEFINE S == IF sent THEN {id} ELSE {}
  <2>1. S \in SUBSET LeaseId /\ Created(k, id) /\ fds' = [fds EXCEPT ![k] = S]
    BY <1>8 DEF GrantLease
  <2> HIDE DEF S
  <2> QED
    BY <1>5, <2>1, Zenon
<1>9. ASSUME NEW k \in Card, NEW id \in LeaseId, ClientCloses(k, id) PROVE CardsInv'
  <2>1. live' = live
    <3>1. state[k] # id => id \notin live[k]
      BY Zenon DEF CardsInv, NoLostLease
    <3> QED
      BY <1>1, <1>9, <3>1 DEF ClientCloses, CardTypes
  <2>2. state' = state /\ fds' \in [Card -> SUBSET LeaseId]
    BY <1>1, <1>9 DEF ClientCloses, CardTypes
  <2> QED
    BY <2>1, <2>2 DEF CardsInv, CardTypes, NoLostLease
<1> QED
  BY <1>3, <1>6, <1>7, <1>8, <1>9 DEF CardNext

\* No sequence of grants, revokes and ioctl errors loses a lease: what the
\* kernel has leased on a card is what the device can still revoke.
THEOREM LeasesAreKept == CardSpec => []NoLostLease
<1>1. CardInit => CardsInv
  BY DEF CardInit, CardsInv, CardTypes, NoLostLease
<1>2. CardsInv /\ [CardNext]_drmVars => CardsInv'
  BY CardsNext
<1>3. CardsInv => NoLostLease
  BY DEF CardsInv
<1> QED
  BY <1>1, <1>2, <1>3, PTL DEF CardSpec

\* A lease ends only when the server revokes it: closing an fd never does.
THEOREM ServerEndsLeases == CardSpec => OnlyServerEndsLease
<1> DEFINE Ends == \A k \in Card, id \in LeaseId :
                       id \in live[k] /\ id \notin live'[k] =>
                           state[k] = id /\ state'[k] # id
<1>1. CardInit => CardsInv
  BY DEF CardInit, CardsInv, CardTypes, NoLostLease
<1>2. CardsInv /\ [CardNext]_drmVars => CardsInv'
  BY CardsNext
<1>3. ASSUME CardsInv, CardsInv' PROVE Ends
  BY <1>3 DEF CardsInv, NoLostLease, CardTypes
<1>4. CardsInv /\ CardsInv' => [Ends]_drmVars
  BY <1>3
<1> QED
  BY <1>1, <1>2, <1>4, PTL DEF CardSpec, OnlyServerEndsLease

-----------------------------------------------------------------------------
(* The invariant of the mailbox, client by client.                         *)

\* What a connection task sends.
Sendable == {"Register", "Acquire", "Release", "Disconnected"}

\* The command at i is one of c's.
From(i, c) == mailbox[i].cmd \in Sendable /\ mailbox[i].client = c

\* c has a command of this kind in the mailbox.
Has(c, cmd) == \E i \in DOMAIN mailbox : From(i, c) /\ mailbox[i].cmd = cmd

Over(c) == At(c, "ended") \/ At(c, "gone") \/ At(c, "abandoned")

\* c has not been in its select loop.
Outside(c) == At(c, "new") \/ At(c, "advertise") \/ At(c, "abandoned")

Holds(c) == \E r \in Resource : owner[r] = c \/ Waiting(c, r)

\* c's Register comes first, and until it has been handled the engine knows
\* nothing of c.
RegisterInv(c) ==
    /\ At(c, "new") => \A i \in DOMAIN mailbox : ~From(i, c)
    /\ \A i, j \in DOMAIN mailbox :
           From(i, c) /\ mailbox[i].cmd = "Register" /\ From(j, c) => i <= j
    /\ At(c, "new") \/ Has(c, "Register") => c \notin control_reg /\ control[c] = <<>>
    /\ ~At(c, "new") /\ ~Over(c) => Has(c, "Register") \/ c \in control_reg
    /\ \A i \in DOMAIN mailbox : From(i, c) => Has(c, "Register") \/ c \in control_reg
    /\ Outside(c) => ~Holds(c)

\* c waits for the answer to each Acquire before it goes on.
AcquireInv(c) ==
    /\ \A i \in DOMAIN mailbox :
           From(i, c) /\ mailbox[i].cmd = "Acquire" =>
               reply[c] = None /\ task[c] = [at |-> "reply", on |-> mailbox[i].resource]
    /\ \A i, j \in DOMAIN mailbox :
           /\ From(i, c) /\ mailbox[i].cmd = "Acquire"
           /\ From(j, c) /\ mailbox[j].cmd = "Acquire"
           => i = j
    /\ reply[c] # None => At(c, "reply")
    /\ At(c, "reply") /\ reply[c] = None => Has(c, "Acquire")

\* c's Disconnected is its last command, and is sent if c has been in the loop.
DisconnectedInv(c) ==
    /\ Has(c, "Release") => ~Outside(c)
    /\ \A i \in DOMAIN mailbox :
           From(i, c) /\ mailbox[i].cmd = "Disconnected" =>
               /\ At(c, "ended") \/ At(c, "gone")
               /\ \A j \in DOMAIN mailbox : From(j, c) => j <= i
    /\ At(c, "ended") \/ At(c, "gone") =>
           Has(c, "Disconnected") \/ (c \notin control_reg /\ ~Has(c, "Register"))

ClientInv(c) == RegisterInv(c) /\ AcquireInv(c) /\ DisconnectedInv(c)

\* A task that deals with a resource knows which.  The mailbox may hold other
\* commands, in S, than those of the connection tasks.
Typed(S) ==
    /\ task \in [ClientId -> [at : Location, on : Resource \cup {None}]]
    /\ \A c \in ClientId : task[c].at \in {"acquire", "reply", "grant", "rollback", "release"} =>
           task[c].on \in Resource
    /\ reply \in [ClientId -> {None, "Granted", "Queued", "Denied"}]
    /\ Command \subseteq S
    /\ \A m \in S : m.cmd \in Sendable => m \in Command
    /\ mailbox \in Seq(S)

-----------------------------------------------------------------------------
(* What the steps of one client leave to another.                          *)

\* c's part of the mailbox is the same, k places further down.
Shifted(c, k) ==
    /\ \A i \in DOMAIN mailbox' :
           From(i, c)' => i + k \in DOMAIN mailbox /\ mailbox[i + k] = mailbox'[i]
    /\ \A i \in DOMAIN mailbox :
           From(i, c) => i - k \in DOMAIN mailbox' /\ mailbox'[i - k] = mailbox[i]

\* The same kinds of commands of c are in the mailbox before and after.
LEMMA ShiftedHas ==
    ASSUME NEW S, mailbox \in Seq(S), mailbox' \in Seq(S), NEW c, NEW k \in {0, 1},
           Shifted(c, k), NEW cmd
    PROVE  Has(c, cmd)' <=> Has(c, cmd)
<1>1. /\ DOMAIN mailbox = 1 .. Len(mailbox) /\ Len(mailbox) \in Nat
      /\ DOMAIN mailbox' = 1 .. Len(mailbox') /\ Len(mailbox') \in Nat
  OBVIOUS
<1> QED
  BY <1>1 DEF Shifted, Has, From

\* A step that is not c's own, and does not answer c, keeps c's invariant.
LEMMA OthersKeep ==
    ASSUME NEW S, Typed(S), Typed(S)', NEW c \in ClientId, ClientInv(c),
           NEW k \in {0, 1}, Shifted(c, k),
           task'[c] = task[c], reply'[c] = reply[c],
           c \in control_reg' <=> c \in control_reg,
           c \notin control_reg => control'[c] = control[c],
           ~Holds(c) => ~Holds(c)'
    PROVE  ClientInv(c)'
<1>1. /\ DOMAIN mailbox = 1 .. Len(mailbox) /\ Len(mailbox) \in Nat
      /\ DOMAIN mailbox' = 1 .. Len(mailbox') /\ Len(mailbox') \in Nat
  BY DEF Typed
<1>2. /\ Has(c, "Register")' <=> Has(c, "Register")
      /\ Has(c, "Acquire")' <=> Has(c, "Acquire")
      /\ Has(c, "Release")' <=> Has(c, "Release")
      /\ Has(c, "Disconnected")' <=> Has(c, "Disconnected")
  BY ShiftedHas DEF Typed
<1>3. /\ At(c, "new")' <=> At(c, "new")
      /\ At(c, "reply")' <=> At(c, "reply")
      /\ At(c, "ended")' <=> At(c, "ended")
      /\ At(c, "gone")' <=> At(c, "gone")
  BY DEF At
<1>4. (Over(c)' <=> Over(c)) /\ (Outside(c)' <=> Outside(c))
  BY DEF Over, Outside, At
<1>5. \A i \in DOMAIN mailbox' :
          From(i, c)' => /\ i \in Int /\ i + k \in DOMAIN mailbox
                         /\ mailbox[i + k] = mailbox'[i] /\ From(i + k, c)
  BY <1>1 DEF Shifted, From
<1>6. RegisterInv(c)'
  <2> USE DEF ClientInv, RegisterInv
  <2>1. (At(c, "new") => \A i \in DOMAIN mailbox : ~From(i, c))'
    BY <1>3, <1>5, Zenon
  <2>2. (\A i, j \in DOMAIN mailbox :
             From(i, c) /\ mailbox[i].cmd = "Register" /\ From(j, c) => i <= j)'
    <3> SUFFICES ASSUME NEW i \in DOMAIN mailbox', NEW j \in DOMAIN mailbox',
                        From(i, c)', mailbox'[i].cmd = "Register", From(j, c)'
                 PROVE  i <= j
      OBVIOUS
    <3>1. i + k <= j + k /\ i \in Int /\ j \in Int
      BY <1>5
    <3> QED
      BY <3>1
  <2>3. (At(c, "new") \/ Has(c, "Register") => c \notin control_reg /\ control[c] = <<>>)'
    BY <1>2, <1>3, Zenon
  <2>4. (~At(c, "new") /\ ~Over(c) => Has(c, "Register") \/ c \in control_reg)'
    BY <1>2, <1>3, <1>4, Zenon
  <2>5. (\A i \in DOMAIN mailbox : From(i, c) => Has(c, "Register") \/ c \in control_reg)'
    BY <1>2, <1>5
  <2>6. (Outside(c) => ~Holds(c))'
    BY <1>4, Zenon
  <2> QED
    BY <2>1, <2>2, <2>3, <2>4, <2>5, <2>6, Zenon
<1>7. AcquireInv(c)'
  <2> USE DEF ClientInv, AcquireInv
  <2>1. (\A i \in DOMAIN mailbox :
             From(i, c) /\ mailbox[i].cmd = "Acquire" =>
                 reply[c] = None /\ task[c] = [at |-> "reply", on |-> mailbox[i].resource])'
    BY <1>5
  <2>2. (\A i, j \in DOMAIN mailbox :
             /\ From(i, c) /\ mailbox[i].cmd = "Acquire"
             /\ From(j, c) /\ mailbox[j].cmd = "Acquire"
             => i = j)'
    <3> SUFFICES ASSUME NEW i \in DOMAIN mailbox', NEW j \in DOMAIN mailbox',
                        From(i, c)', mailbox'[i].cmd = "Acquire",
                        From(j, c)', mailbox'[j].cmd = "Acquire"
                 PROVE  i = j
      OBVIOUS
    <3>1. i + k = j + k
      BY <1>5, Zenon
    <3>2. i \in Int /\ j \in Int
      BY <1>1
    <3>3. \A m, n \in Int : m + k = n + k => m = n
      OBVIOUS
    <3> QED
      BY <3>1, <3>2, <3>3, Zenon
  <2>3. (/\ reply[c] # None => At(c, "reply")
         /\ At(c, "reply") /\ reply[c] = None => Has(c, "Acquire"))'
    BY <1>2, <1>3, Zenon
  <2> QED
    BY <2>1, <2>2, <2>3, Zenon
<1>8. DisconnectedInv(c)'
  <2> USE DEF ClientInv, DisconnectedInv
  <2>1. (Has(c, "Release") => ~Outside(c))'
    BY <1>2, <1>4, Zenon
  <2>2. (\A i \in DOMAIN mailbox :
             From(i, c) /\ mailbox[i].cmd = "Disconnected" =>
                 /\ At(c, "ended") \/ At(c, "gone")
                 /\ \A j \in DOMAIN mailbox : From(j, c) => j <= i)'
    <3> SUFFICES ASSUME NEW i \in DOMAIN mailbox', From(i, c)',
                        mailbox'[i].cmd = "Disconnected"
                 PROVE  /\ At(c, "ended")' \/ At(c, "gone")'
                        /\ \A j \in DOMAIN mailbox' : From(j, c)' => j <= i
      BY Zenon
    <3>1. At(c, "ended") \/ At(c, "gone")
      BY <1>5, Zenon
    <3>2. \A j \in DOMAIN mailbox' : From(j, c)' => j + k <= i + k /\ j \in Int /\ i \in Int
      BY <1>5, Zenon
    <3> QED
      BY <1>3, <3>1, <3>2
  <2>3. (At(c, "ended") \/ At(c, "gone") =>
             Has(c, "Disconnected") \/ (c \notin control_reg /\ ~Has(c, "Register")))'
    BY <1>2, <1>3
  <2> QED
    BY <2>1, <2>2, <2>3, Zenon
<1> QED
  BY <1>6, <1>7, <1>8 DEF ClientInv

-----------------------------------------------------------------------------
(* The steps of the connection tasks.                                      *)

\* Only c's task moves.
LEMMA Moved ==
    ASSUME NEW S, Typed(S), NEW c \in ClientId, NEW place \in Location,
           NEW r \in Resource \cup {None}, Go(c, place, r)
    PROVE  /\ task' \in [ClientId -> [at : Location, on : Resource \cup {None}]]
           /\ task'[c] = [at |-> place, on |-> r]
           /\ \A d \in ClientId \ {c} : task'[d] = task[d]
BY DEF Typed, Go

\* A command sent is the last of the mailbox.
LEMMA Sent ==
    ASSUME NEW S, mailbox \in Seq(S), NEW m \in S, Send(m)
    PROVE  /\ mailbox' \in Seq(S)
           /\ Len(mailbox) \in Nat /\ DOMAIN mailbox = 1 .. Len(mailbox)
           /\ Len(mailbox') = Len(mailbox) + 1 /\ DOMAIN mailbox' = 1 .. Len(mailbox) + 1
           /\ \A i \in DOMAIN mailbox : mailbox'[i] = mailbox[i]
           /\ mailbox'[Len(mailbox) + 1] = m
           /\ Len(mailbox) < MAILBOX
BY DEF Send

\* The rest of what a task does: it moves, and may send one command.
TaskStep(c, place, r, m) ==
    /\ Go(c, place, r)
    /\ \/ UNCHANGED mailbox
       \/ m \in Command /\ m.client = c /\ Send(m)
    /\ \A d \in ClientId \ {c} : reply'[d] = reply[d] /\ control'[d] = control[d]
    /\ reply' \in [ClientId -> {None, "Granted", "Queued", "Denied"}]
    /\ UNCHANGED <<control_reg, owner, waiters>>

\* Such a step keeps the types, if it goes to a resource where it needs one.
LEMMA TaskStepTyped ==
    ASSUME NEW S, Typed(S), NEW c \in ClientId, NEW place \in Location,
           NEW r \in Resource \cup {None}, NEW m, TaskStep(c, place, r, m),
           place \in {"acquire", "reply", "grant", "rollback", "release"} => r \in Resource
    PROVE  Typed(S)'
<1>1. /\ task' \in [ClientId -> [at : Location, on : Resource \cup {None}]]
      /\ task'[c] = [at |-> place, on |-> r]
      /\ \A d \in ClientId \ {c} : task'[d] = task[d]
  BY Moved DEF TaskStep
<1>2. \A d \in ClientId : task'[d].at \in {"acquire", "reply", "grant", "rollback", "release"} =>
          task'[d].on \in Resource
  <2> SUFFICES ASSUME NEW d \in ClientId,
                      task'[d].at \in {"acquire", "reply", "grant", "rollback", "release"}
               PROVE  task'[d].on \in Resource
    OBVIOUS
  <2>1. CASE d = c
    BY <1>1, <2>1
  <2>2. CASE d # c
    BY <1>1, <2>2 DEF Typed
  <2> QED
    BY <2>1, <2>2
<1>3. mailbox' \in Seq(S)
  BY Sent, Zenon DEF TaskStep, Typed
<1> QED
  BY <1>1, <1>2, <1>3, Zenon DEF Typed, TaskStep

\* The commands of the other clients stay where they are.
LEMMA TaskStepShifts ==
    ASSUME NEW S, Typed(S), NEW c \in ClientId, NEW place, NEW r, NEW m,
           TaskStep(c, place, r, m), NEW d \in ClientId \ {c}
    PROVE  Shifted(d, 0)
<1>1. /\ DOMAIN mailbox = 1 .. Len(mailbox) /\ Len(mailbox) \in Nat
      /\ \A i \in DOMAIN mailbox : i + 0 = i /\ i - 0 = i
  BY DEF Typed
<1>2. CASE UNCHANGED mailbox
  BY <1>1, <1>2 DEF Shifted, From
<1>3. CASE m \in Command /\ m.client = c /\ Send(m)
  <2>1. /\ DOMAIN mailbox' = 1 .. Len(mailbox) + 1
        /\ \A i \in DOMAIN mailbox : mailbox'[i] = mailbox[i]
        /\ mailbox'[Len(mailbox) + 1].client # d
    BY <1>3, Sent, Zenon DEF Typed
  <2>2. \A i \in DOMAIN mailbox' : From(i, d)' => i \in DOMAIN mailbox
    BY <1>1, <2>1 DEF From
  <2>3. \A i \in DOMAIN mailbox : i \in DOMAIN mailbox'
    BY <1>1, <2>1
  <2> QED
    BY <1>1, <2>1, <2>2, <2>3, Zenon DEF Shifted
<1> QED
  BY <1>2, <1>3 DEF TaskStep

\* Such a step does not concern the other clients.
LEMMA TaskStepSpares ==
    ASSUME NEW S, Typed(S), NEW c \in ClientId, NEW place \in Location,
           NEW r \in Resource \cup {None}, NEW m, TaskStep(c, place, r, m), Typed(S)',
           NEW d \in ClientId \ {c}, ClientInv(d)
    PROVE  ClientInv(d)'
<1>1. task'[d] = task[d]
  BY Moved, Zenon DEF TaskStep
<1>2. Shifted(d, 0)
  BY TaskStepShifts, Zenon
<1>3. Holds(d)' <=> Holds(d)
  BY DEF Holds, Waiting, TaskStep
<1>4. /\ reply'[d] = reply[d] /\ control'[d] = control[d]
      /\ d \in control_reg' <=> d \in control_reg
  BY DEF TaskStep
<1> QED
  BY <1>1, <1>2, <1>3, <1>4, OthersKeep

\* Whose Acquire is in the mailbox waits for its answer.
LEMMA AcquireWaits ==
    ASSUME NEW c \in ClientId, ClientInv(c), NEW i \in DOMAIN mailbox,
           From(i, c), mailbox[i].cmd = "Acquire"
    PROVE  At(c, "reply") /\ reply[c] = None
<1>1. reply[c] = None /\ task[c] = [at |-> "reply", on |-> mailbox[i].resource]
  BY Zenon DEF ClientInv, AcquireInv
<1> QED
  BY <1>1 DEF At

\* A task that sends nothing keeps its own invariant, if it comes from where it
\* may and has no answer left.
LEMMA OwnMoves ==
    ASSUME NEW S, Typed(S), NEW c \in ClientId, ClientInv(c),
           UNCHANGED <<mailbox, control_reg, owner, waiters>>,
           ~At(c, "new"), ~At(c, "abandoned"), At(c, "reply") => reply[c] # None,
           ~At(c, "new")', ~At(c, "reply")', reply'[c] = None,
           At(c, "ended")' \/ At(c, "gone")' <=> At(c, "ended") \/ At(c, "gone"),
           Outside(c)' => Outside(c),
           control[c] = <<>> => control'[c] = <<>>
    PROVE  ClientInv(c)'
<1>1. /\ \A i \in DOMAIN mailbox : From(i, c)' <=> From(i, c)
      /\ Has(c, "Register")' <=> Has(c, "Register")
      /\ Has(c, "Acquire")' <=> Has(c, "Acquire")
      /\ Has(c, "Release")' <=> Has(c, "Release")
      /\ Has(c, "Disconnected")' <=> Has(c, "Disconnected")
      /\ Holds(c)' <=> Holds(c)
  BY DEF From, Has, Holds, Waiting
<1>2. Over(c) => Over(c)'
  BY Zenon DEF Over
<1>3. RegisterInv(c)'
  BY <1>1, <1>2, Zenon DEF ClientInv, RegisterInv
<1>4. AcquireInv(c)'
  <2>1. \A i \in DOMAIN mailbox : ~(From(i, c) /\ mailbox[i].cmd = "Acquire")
    BY AcquireWaits, ZenonT(40)
  <2> QED
    BY <1>1, <2>1 DEF AcquireInv
<1>5. DisconnectedInv(c)'
  BY <1>1, Zenon DEF ClientInv, DisconnectedInv
<1> QED
  BY <1>3, <1>4, <1>5, Zenon DEF ClientInv

\* What the mailbox holds of c once c has sent a command, at n.
LEMMA SentFrom ==
    ASSUME NEW S, Typed(S), NEW c \in ClientId, NEW m \in Command, m.client = c, Send(m)
    PROVE  /\ \E n \in DOMAIN mailbox' :
                  /\ mailbox'[n] = m /\ From(n, c)' /\ n \in Int
                  /\ \A i \in DOMAIN mailbox : i \in DOMAIN mailbox' /\ mailbox'[i] = mailbox[i]
                  /\ \A i \in DOMAIN mailbox : i \in Int /\ i < n
                  /\ \A i \in DOMAIN mailbox' : i \in DOMAIN mailbox \/ i = n
                  /\ \A i \in DOMAIN mailbox : From(i, c)' <=> From(i, c)
           /\ Has(c, "Register")' <=> Has(c, "Register") \/ m.cmd = "Register"
           /\ Has(c, "Acquire")' <=> Has(c, "Acquire") \/ m.cmd = "Acquire"
           /\ Has(c, "Release")' <=> Has(c, "Release") \/ m.cmd = "Release"
           /\ Has(c, "Disconnected")' <=> Has(c, "Disconnected") \/ m.cmd = "Disconnected"
<1>1. PICK n \in Int :
          /\ DOMAIN mailbox = 1 .. n - 1 /\ DOMAIN mailbox' = 1 .. n /\ n \in Nat \ {0}
          /\ \A i \in DOMAIN mailbox : mailbox'[i] = mailbox[i]
          /\ mailbox'[n] = m
  <2>1. /\ Len(mailbox) \in Nat /\ DOMAIN mailbox = 1 .. Len(mailbox)
        /\ DOMAIN mailbox' = 1 .. Len(mailbox) + 1
        /\ \A i \in DOMAIN mailbox : mailbox'[i] = mailbox[i]
        /\ mailbox'[Len(mailbox) + 1] = m
    BY Sent DEF Typed
  <2> WITNESS Len(mailbox) + 1 \in Int
  <2> QED
    BY <2>1
<1>2. m.cmd \in Sendable
  BY DEF Command, Sendable
<1>3. /\ \A i \in DOMAIN mailbox : i \in DOMAIN mailbox'
      /\ \A i \in DOMAIN mailbox : i \in Int /\ i < n
      /\ \A i \in DOMAIN mailbox' : i \in DOMAIN mailbox \/ i = n
      /\ n \in DOMAIN mailbox'
  BY <1>1
<1>4. (\A i \in DOMAIN mailbox : From(i, c)' <=> From(i, c)) /\ From(n, c)'
  BY <1>1, <1>2, Zenon DEF From
<1>5. ASSUME NEW cmd PROVE Has(c, cmd)' <=> Has(c, cmd) \/ m.cmd = cmd
  BY <1>1, <1>3, <1>4 DEF Has
<1> QED
  BY <1>1, <1>3, <1>4, <1>5, Zenon

\* What is below a number, or is it, is not above it.
LEMMA NotAbove ==
    ASSUME NEW i, NEW n \in Int, (i \in Int /\ i < n) \/ i = n
    PROVE  i <= n
OBVIOUS

\* A task's record says where it is, and on what.
LEMMA WhereAt ==
    ASSUME NEW x, NEW place, NEW r, x = [at |-> place, on |-> r]
    PROVE  x.at = place /\ x.on = r
OBVIOUS

\* A connection that registers is known by nothing but its Register.
LEMMA ConnectKeeps ==
    ASSUME NEW S, Typed(S), NEW c \in ClientId, ClientInv(c), Connect(c)
    PROVE  ClientInv(c)'
<1> DEFINE m == [cmd |-> "Register", client |-> c]
<1>1. m \in Command /\ m.client = c /\ m.cmd = "Register"
  BY DEF Command
<1>2. Send(m) /\ UNCHANGED <<reply, control_reg, control, owner, waiters>>
  BY Zenon DEF Connect, engineVars, slotVars
<1>3. At(c, "new") /\ task'[c] = [at |-> "advertise", on |-> None]
  BY Moved DEF Connect, Location
<1> HIDE DEF m
<1>4. PICK n \in Int :
          \A i \in DOMAIN mailbox' : From(i, c)' => i = n /\ mailbox'[i] = m
  <2>1. PICK n \in DOMAIN mailbox' :
            /\ mailbox'[n] = m /\ n \in Int
            /\ \A i \in DOMAIN mailbox' : i \in DOMAIN mailbox \/ i = n
            /\ \A i \in DOMAIN mailbox : From(i, c)' <=> From(i, c)
    BY <1>1, <1>2, SentFrom
  <2>2. \A i \in DOMAIN mailbox : ~From(i, c)
    BY <1>3, Zenon DEF ClientInv, RegisterInv
  <2> QED
    BY <2>1, <2>2, Zenon
<1>5. Has(c, "Register")'
  BY <1>1, <1>2, SentFrom
<1>6. ~Has(c, "Acquire")' /\ ~Has(c, "Release")' /\ ~Has(c, "Disconnected")'
  BY <1>1, <1>4, Zenon DEF Has
<1>7. At(c, "advertise")' /\ ~Over(c)' /\ ~Holds(c)'
  <2>1. task'[c].at = "advertise"
    BY <1>3, WhereAt, Zenon
  <2>2. At(c, "advertise")' /\ ~Over(c)'
    BY <2>1, Zenon DEF At, Over
  <2>3. ~Holds(c)
    BY <1>3, Zenon DEF Outside, ClientInv, RegisterInv
  <2>4. Holds(c)' => Holds(c)
    BY <1>2, Zenon DEF Holds, Waiting
  <2> QED
    BY <2>2, <2>3, <2>4, Zenon
<1>8. c \notin control_reg' /\ control'[c] = <<>> /\ reply'[c] = None
  BY <1>2, <1>3, Zenon DEF ClientInv, RegisterInv, AcquireInv, At
<1>9. RegisterInv(c)'
  <2>1. ~At(c, "new")'
    BY <1>7, Zenon DEF At
  <2>2. \A i, j \in DOMAIN mailbox' : From(i, c)' /\ From(j, c)' => i <= j
    BY <1>4, NotAbove, Zenon
  <2> QED
    BY <1>5, <1>7, <1>8, <2>1, <2>2, Zenon DEF RegisterInv
<1>10. AcquireInv(c)'
  BY <1>1, <1>4, <1>7, <1>8, Zenon DEF AcquireInv, At
<1>11. DisconnectedInv(c)'
  BY <1>1, <1>4, <1>6, <1>7 DEF DisconnectedInv, At
<1> QED
  BY <1>9, <1>10, <1>11, Zenon DEF ClientInv

\* A task in its loop that sends an Acquire, a Release or its Disconnected.
LEMMA OwnSends ==
    ASSUME NEW S, Typed(S), NEW c \in ClientId, ClientInv(c),
           NEW m \in Command, m.client = c, Send(m),
           UNCHANGED <<reply, control_reg, control, owner, waiters>>,
           ~Outside(c), ~Over(c), ~At(c, "reply"), ~Outside(c)',
           \/ m.cmd = "Acquire" /\ task'[c] = [at |-> "reply", on |-> m.resource]
           \/ m.cmd = "Release" /\ ~Over(c)' /\ ~At(c, "reply")'
           \/ m.cmd = "Disconnected" /\ At(c, "ended")'
    PROVE  ClientInv(c)'
<1>1. PICK n \in DOMAIN mailbox' :
          /\ mailbox'[n] = m /\ From(n, c)' /\ n \in Int
          /\ \A i \in DOMAIN mailbox : i \in DOMAIN mailbox' /\ mailbox'[i] = mailbox[i]
          /\ \A i \in DOMAIN mailbox : i \in Int /\ i < n
          /\ \A i \in DOMAIN mailbox' : i \in DOMAIN mailbox \/ i = n
          /\ \A i \in DOMAIN mailbox : From(i, c)' <=> From(i, c)
  BY SentFrom, Zenon
<1>2. /\ Has(c, "Register")' <=> Has(c, "Register")
      /\ Has(c, "Acquire")' <=> Has(c, "Acquire") \/ m.cmd = "Acquire"
      /\ Has(c, "Release")' <=> Has(c, "Release") \/ m.cmd = "Release"
      /\ Has(c, "Disconnected")' <=> Has(c, "Disconnected") \/ m.cmd = "Disconnected"
  BY SentFrom, Zenon
<1>3. Holds(c)' <=> Holds(c)
  BY DEF Holds, Waiting
<1>4. /\ reply[c] = None
      /\ \A i \in DOMAIN mailbox : ~(From(i, c) /\ mailbox[i].cmd = "Acquire")
      /\ \A i \in DOMAIN mailbox : ~(From(i, c) /\ mailbox[i].cmd = "Disconnected")
  <2>1. reply[c] = None
    BY Zenon DEF ClientInv, AcquireInv
  <2>2. \A i \in DOMAIN mailbox : ~(From(i, c) /\ mailbox[i].cmd = "Disconnected")
    BY Zenon DEF ClientInv, DisconnectedInv, Over
  <2> QED
    BY <2>1, <2>2, AcquireWaits, Zenon
<1>5. RegisterInv(c)'
  <2>1. Has(c, "Register") \/ c \in control_reg
    BY Zenon DEF ClientInv, RegisterInv, Outside
  <2>2. ~At(c, "new")'
    BY Zenon DEF Outside
  <2>3. m.cmd # "Register"
    BY Zenon
  <2>4. (\A i, j \in DOMAIN mailbox :
             From(i, c) /\ mailbox[i].cmd = "Register" /\ From(j, c) => i <= j)'
    <3>1. \A i, j \in DOMAIN mailbox :
             From(i, c) /\ mailbox[i].cmd = "Register" /\ From(j, c) => i <= j
      BY ZenonT(40) DEF ClientInv, RegisterInv
    <3>2. SUFFICES ASSUME NEW i \in DOMAIN mailbox', NEW j \in DOMAIN mailbox',
                          From(i, c)', mailbox'[i].cmd = "Register", From(j, c)'
                   PROVE  i <= j
      OBVIOUS
    <3>3. i \in DOMAIN mailbox /\ mailbox[i].cmd = "Register" /\ From(i, c)
      BY <1>1, <2>3, <3>2, Zenon
    <3>4. CASE j \in DOMAIN mailbox
      BY <1>1, <3>1, <3>2, <3>3, <3>4, Zenon
    <3>5. CASE j = n
      BY <1>1, <3>3, <3>5, NotAbove, Zenon
    <3> QED
      BY <1>1, <3>4, <3>5, Zenon
  <2>5. Has(c, "Register") => c \notin control_reg /\ control[c] = <<>>
    BY Zenon DEF ClientInv, RegisterInv
  <2> QED
    BY <1>2, <2>1, <2>2, <2>4, <2>5, Zenon DEF RegisterInv
<1>6. AcquireInv(c)'
  <2>1. \A i \in DOMAIN mailbox' :
            From(i, c)' /\ mailbox'[i].cmd = "Acquire" => i = n /\ m.cmd = "Acquire"
    BY <1>1, <1>4, Zenon
  <2>2. m.cmd # "Acquire" => ~At(c, "reply")'
    BY Zenon DEF At
  <2> QED
    BY <1>1, <1>2, <1>4, <2>1, <2>2, Zenon DEF AcquireInv
<1>7. DisconnectedInv(c)'
  <2>1. \A i \in DOMAIN mailbox' :
            From(i, c)' /\ mailbox'[i].cmd = "Disconnected" => i = n /\ m.cmd = "Disconnected"
    <3> SUFFICES ASSUME NEW i \in DOMAIN mailbox', From(i, c)',
                        mailbox'[i].cmd = "Disconnected"
                 PROVE  i = n /\ m.cmd = "Disconnected"
      BY Zenon
    <3>1. i \in DOMAIN mailbox => From(i, c) /\ mailbox[i].cmd = "Disconnected"
      BY <1>1, Zenon
    <3>2. i = n
      BY <1>1, <1>4, <3>1, ZenonT(40)
    <3> QED
      BY <1>1, <3>2, Zenon
  <2>2. \A j \in DOMAIN mailbox' : j <= n
    BY <1>1, NotAbove, Zenon
  <2>3. m.cmd # "Disconnected" => ~At(c, "ended")' /\ ~At(c, "gone")'
    <3>1. CASE task'[c] = [at |-> "reply", on |-> m.resource]
      <4>1. task'[c].at = "reply"
        BY <3>1
      <4> QED
        BY <4>1, Zenon DEF At
    <3>2. CASE ~Over(c)'
      BY <3>2, Zenon DEF Over
    <3> QED
      BY <3>1, <3>2, Zenon
  <2> QED
    BY <1>2, <2>1, <2>2, <2>3, Zenon DEF DisconnectedInv
<1> QED
  BY <1>5, <1>6, <1>7, Zenon DEF ClientInv

\* The control channels hold messages of M, and a Grant is for a resource.
ControlTyped(M) ==
    /\ control \in [ClientId -> Seq(M)]
    /\ \A m \in M : m.type = "Grant" => m.resource \in Resource

\* The other tasks are where they were, and so are their Registers.
OthersStay(c) ==
    \A d \in ClientId \ {c} :
        task'[d] = task[d] /\ (Has(d, "Register")' <=> Has(d, "Register"))

\* Every step of a connection task keeps the invariant of every client.
LEMMA ConnectionKeeps ==
    ASSUME NEW S, NEW M, Typed(S), ControlTyped(M), \A d \in ClientId : ClientInv(d),
           NEW c \in ClientId, Connection(c)
    PROVE  Typed(S)' /\ OthersStay(c) /\ \A d \in ClientId : ClientInv(d)'
<1>1. ASSUME NEW place \in Location, NEW r \in Resource \cup {None}, NEW m,
             TaskStep(c, place, r, m), ClientInv(c)',
             place \in {"acquire", "reply", "grant", "rollback", "release"} => r \in Resource
      PROVE  Typed(S)' /\ OthersStay(c) /\ \A d \in ClientId : ClientInv(d)'
  <2>1. Typed(S)'
    BY <1>1, TaskStepTyped
  <2>2. \A d \in ClientId \ {c} : ClientInv(d)'
    BY <1>1, <2>1, TaskStepSpares, Zenon
  <2>3. OthersStay(c)
    <3> SUFFICES ASSUME NEW d \in ClientId \ {c}
                 PROVE  task'[d] = task[d] /\ (Has(d, "Register")' <=> Has(d, "Register"))
      BY DEF OthersStay
    <3>1. task'[d] = task[d]
      BY <1>1, Moved, Zenon DEF TaskStep
    <3>2. Shifted(d, 0)
      BY <1>1, TaskStepShifts
    <3>3. mailbox \in Seq(S) /\ mailbox' \in Seq(S)
      BY <2>1 DEF Typed
    <3> QED
      BY <3>1, <3>2, <3>3, ShiftedHas, Zenon
  <2> QED
    BY <1>1, <2>1, <2>2, <2>3
<1>2. reply \in [ClientId -> {None, "Granted", "Queued", "Denied"}]
  BY DEF Typed
<1>3. task[c].on \in Resource \cup {None}
  BY Zenon DEF Typed
<1>4. ~At(c, "reply") => reply[c] = None
  BY Zenon DEF ClientInv, AcquireInv
<1>5. ASSUME NEW place \in Location, NEW r \in Resource \cup {None}, Go(c, place, r)
      PROVE  task'[c] = [at |-> place, on |-> r] /\ task'[c].at = place
  <2>1. task'[c] = [at |-> place, on |-> r]
    BY <1>5, Moved, Zenon
  <2> QED
    BY <2>1, WhereAt, Zenon
<1> USE DEF TaskStep, engineVars, slotVars
<1>6. CASE Connect(c)
  <2> DEFINE m == [cmd |-> "Register", client |-> c]
  <2>1. TaskStep(c, "advertise", None, m) /\ "advertise" \in Location
    BY <1>2, <1>6 DEF Connect, Command, Location
  <2>2. ClientInv(c)'
    BY <1>6, ConnectKeeps, Zenon
  <2> QED
    BY <1>1, <2>1, <2>2, Zenon
<1>7. CASE Advertise(c)
  <2>1. PICK place \in {"loop", "abandoned"} : TaskStep(c, place, None, None)
    BY <1>2, <1>7 DEF Advertise, ControlTyped
  <2>2. control'[c] = control[c] \/ control'[c] = <<>>
    BY <1>7 DEF Advertise, ControlTyped
  <2>3. place \in Location /\ task'[c].at = place /\ At(c, "advertise")
    BY <1>5, <1>7, <2>1, Zenon DEF Location, Advertise
  <2>4. ClientInv(c)'
    BY <1>4, <1>7, <2>1, <2>2, <2>3, OwnMoves, Zenon DEF Advertise, At, Outside
  <2> QED
    BY <1>1, <2>1, <2>3, <2>4
<1>8. CASE Write(c) \/ LeaveLoop(c)
  <2>1. PICK place \in {"loop", "disconnect"} : TaskStep(c, place, None, None)
    BY <1>2, <1>8, Zenon DEF Write, LeaveLoop
  <2>2. place \in Location /\ task'[c].at = place
    BY <1>5, <2>1, Zenon DEF Location
  <2>3. ClientInv(c)'
    BY <1>4, <1>8, <2>1, <2>2, OwnMoves, Zenon DEF Write, LeaveLoop, At, Outside
  <2> QED
    BY <1>1, <2>1, <2>2, <2>3, Zenon
<1>9. CASE TakeControl(c)
  <2>1. PICK place \in {"write", "grant"}, r \in Resource \cup {None} :
            TaskStep(c, place, r, None) /\ (place = "grant" => r \in Resource)
    <3>1. control[c] # <<>> /\ control[c] \in Seq(M)
      BY <1>9, Zenon DEF TakeControl, ControlTyped
    <3>2. Head(control[c]) \in M
      BY <3>1
    <3>3. Head(control[c]).type = "Grant" => Head(control[c]).resource \in Resource
      BY <3>2 DEF ControlTyped
    <3> QED
      BY <1>2, <1>9, <3>3 DEF TakeControl, ControlTyped
  <2>2. place \in Location /\ task'[c].at = place
    BY <1>5, <2>1, ZenonT(40) DEF Location
  <2>3. ClientInv(c)'
    BY <1>4, <1>9, <2>1, <2>2, OwnMoves, Zenon DEF TakeControl, At, Outside
  <2> QED
    BY <1>1, <2>1, <2>2, <2>3, Zenon
<1>10. CASE TakeReply(c)
  <2>1. PICK place \in {"grant", "loop", "write"}, r \in Resource \cup {None} :
            TaskStep(c, place, r, None) /\ (place = "grant" => r = task[c].on)
    BY <1>2, <1>3, <1>10, Zenon DEF TakeReply
  <2>2. place \in Location /\ task'[c].at = place
    BY <1>5, <2>1, Zenon DEF Location
  <2>3. ClientInv(c)'
    <3>1. reply[c] # None /\ reply'[c] = None /\ control' = control
      BY <1>2, <1>10, ConnectionsAssumption, Zenon DEF TakeReply
    <3> QED
      BY <1>10, <2>1, <2>2, <3>1, OwnMoves, Zenon DEF TakeReply, At, Outside
  <2>4. task[c].on \in Resource
    BY <1>10 DEF TakeReply, At, Typed
  <2> QED
    BY <1>1, <2>1, <2>2, <2>3, <2>4, ZenonT(40)
<1>11. CASE SendGrant(c)
  <2>1. task[c].on \in Resource
    BY <1>11 DEF SendGrant, At, Typed
  <2>2. PICK place \in {"loop", "rollback"}, r \in Resource \cup {None} :
            TaskStep(c, place, r, None) /\ (place = "rollback" => r \in Resource)
    BY <1>2, <1>11, <2>1, Zenon DEF SendGrant, SendGrantOk, SendGrantFails
  <2>3. place \in Location /\ task'[c].at = place
    BY <1>5, <2>2, Zenon DEF Location
  <2>4. ClientInv(c)'
    BY <1>4, <1>11, <2>2, <2>3, OwnMoves, Zenon DEF SendGrant, At, Outside
  <2> QED
    BY <1>1, <2>2, <2>3, <2>4, Zenon
<1>12. ASSUME NEW r \in Resource, ReadRelease(c, r)
       PROVE  Typed(S)' /\ OthersStay(c) /\ \A d \in ClientId : ClientInv(d)'
  <2>1. TaskStep(c, "release", r, None) /\ "release" \in Location
    BY <1>2, <1>12, Zenon DEF ReadRelease, Location
  <2>2. task'[c].at = "release"
    BY <1>5, <2>1, Zenon
  <2>3. ClientInv(c)'
    BY <1>4, <1>12, <2>1, <2>2, OwnMoves, Zenon DEF ReadRelease, ReadRequest, At, Outside
  <2> QED
    BY <1>1, <2>1, <2>3, Zenon
<1>13. CASE Return(c)
  <2>1. TaskStep(c, "gone", None, None) /\ "gone" \in Location
    BY <1>2, <1>13 DEF Return, ControlTyped, Location
  <2>2. task'[c].at = "gone" /\ control'[c] = <<>>
    BY <1>5, <1>13, <2>1, Zenon DEF Return, ControlTyped
  <2>3. ClientInv(c)'
    BY <1>4, <1>13, <2>1, <2>2, OwnMoves, Zenon DEF Return, At, Outside
  <2> QED
    BY <1>1, <2>1, <2>3, Zenon
<1>14. ASSUME NEW r \in Resource, ReadAcquire(c, r)
       PROVE  Typed(S)' /\ OthersStay(c) /\ \A d \in ClientId : ClientInv(d)'
  <2>1. TaskStep(c, "acquire", r, None) /\ "acquire" \in Location
    BY <1>2, <1>14, Zenon DEF ReadAcquire, Location
  <2>2. task'[c].at = "acquire"
    BY <1>5, <2>1, Zenon
  <2>3. ClientInv(c)'
    BY <1>4, <1>14, <2>1, <2>2, OwnMoves, Zenon DEF ReadAcquire, ReadRequest, At, Outside
  <2> QED
    BY <1>1, <2>1, <2>3, Zenon
<1>17. CASE SendAcquire(c)
  <2> DEFINE m == [cmd |-> "Acquire", client |-> c, resource |-> task[c].on]
  <2>1. task[c].at = "acquire" /\ task[c].on \in Resource
    BY <1>17, Zenon DEF SendAcquire, At, Typed
  <2>2. m \in Command /\ m.cmd = "Acquire" /\ m.client = c /\ m.resource = task[c].on
    BY <2>1 DEF Command
  <2>3. Send(m)
    BY <1>17, Zenon DEF SendAcquire
  <2> HIDE DEF m
  <2>4. TaskStep(c, "reply", task[c].on, m) /\ "reply" \in Location
    BY <1>2, <1>17, <2>2, <2>3 DEF SendAcquire, Location
  <2>5. task'[c] = [at |-> "reply", on |-> m.resource] /\ task'[c].at = "reply"
    BY <1>3, <1>5, <2>2, <2>4, ZenonT(40)
  <2>6. ClientInv(c)'
    BY <1>17, <2>1, <2>2, <2>3, <2>5, OwnSends, Zenon DEF SendAcquire, At, Outside, Over
  <2> QED
    BY <1>1, <1>3, <2>1, <2>4, <2>6, ZenonT(40)
<1>15. CASE Rollback(c) \/ SendRelease(c)
  <2> DEFINE m == [cmd |-> "Release", client |-> c, resource |-> task[c].on]
  <2>1. task[c].at \in {"rollback", "release"} /\ task[c].on \in Resource
    BY <1>15, Zenon DEF Rollback, SendRelease, At, Typed
  <2>2. m \in Command /\ m.cmd = "Release" /\ m.client = c
    BY <2>1 DEF Command
  <2>3. Send(m)
    BY <1>15, ZenonT(40) DEF Rollback, SendRelease
  <2> HIDE DEF m
  <2>4. PICK place \in {"write", "loop"} : TaskStep(c, place, None, m)
    BY <1>2, <1>15, <2>2, <2>3 DEF Rollback, SendRelease
  <2>5. place \in Location /\ task'[c].at = place
    BY <1>5, <2>4, Zenon DEF Location
  <2>6. ClientInv(c)'
    BY <1>15, <2>1, <2>2, <2>3, <2>5, OwnSends, Zenon DEF Rollback, SendRelease, At, Outside, Over
  <2> QED
    BY <1>1, <2>4, <2>5, <2>6, Zenon
<1>16. CASE SendDisconnected(c)
  <2> DEFINE m == [cmd |-> "Disconnected", client |-> c]
  <2>1. m \in Command /\ m.cmd = "Disconnected" /\ m.client = c
    BY DEF Command
  <2>2. Send(m)
    BY <1>16, Zenon DEF SendDisconnected
  <2> HIDE DEF m
  <2>3. TaskStep(c, "ended", None, m) /\ "ended" \in Location
    BY <1>2, <1>16, <2>1, <2>2 DEF SendDisconnected, Location
  <2>4. task'[c].at = "ended" /\ task[c].at = "disconnect"
    BY <1>5, <1>16, <2>3, Zenon DEF SendDisconnected, At
  <2>5. ClientInv(c)'
    BY <1>16, <2>1, <2>2, <2>4, OwnSends, Zenon DEF SendDisconnected, At, Outside, Over
  <2> QED
    BY <1>1, <2>3, <2>5, ZenonT(40)
<1> QED
  BY <1>6, <1>7, <1>8, <1>9, <1>10, <1>11, <1>12, <1>13, <1>14, <1>15, <1>16, <1>17
     DEF Connection, Proceed

-----------------------------------------------------------------------------
(* The steps of the engine task.                                           *)

\* What the engine leaves alone of a client that is not its business.
Spared(c) ==
    /\ c \notin control_reg => control'[c] = control[c]
    /\ ~Holds(c) => ~Holds(c)'

\* What the handler of m does to the tasks' side: see HandleCommand.
Handled(m) ==
    \/ /\ m.cmd = "Register" /\ UNCHANGED reply
       /\ control_reg' = control_reg \cup {m.client}
    \/ m.cmd = "Release" /\ UNCHANGED <<reply, control_reg>>
    \/ /\ m.cmd = "Disconnected" /\ UNCHANGED reply
       /\ control_reg' = control_reg \ {m.client}
    \/ /\ m.cmd = "Acquire" /\ UNCHANGED control_reg
       /\ \E outcome \in {"Granted", "Queued", "Denied"} :
              reply' = [reply EXCEPT ![m.client] = outcome]

\* Taking the oldest command out of the mailbox.
LEMMA Taken ==
    ASSUME NEW S, mailbox \in Seq(S), mailbox # <<>>, mailbox' = Tail(mailbox)
    PROVE  /\ mailbox' \in Seq(S) /\ Len(mailbox') = Len(mailbox) - 1
           /\ 1 \in DOMAIN mailbox /\ mailbox[1] = Head(mailbox) /\ Head(mailbox) \in S
           /\ \A i \in DOMAIN mailbox' :
                  i \in Int /\ i + 1 \in DOMAIN mailbox /\ mailbox'[i] = mailbox[i + 1]
           /\ \A i \in DOMAIN mailbox :
                  i \in Int /\ (i = 1 \/ (i > 1 /\ i - 1 \in DOMAIN mailbox'
                                            /\ mailbox'[i - 1] = mailbox[i]))
<1>1. /\ Len(mailbox) \in Nat \ {0} /\ DOMAIN mailbox = 1 .. Len(mailbox)
      /\ mailbox' \in Seq(S) /\ Len(mailbox') = Len(mailbox) - 1
      /\ \A i \in 1 .. Len(mailbox) - 1 : mailbox'[i] = mailbox[i + 1]
  OBVIOUS
<1>2. DOMAIN mailbox' = 1 .. Len(mailbox) - 1
  BY <1>1
<1>3. \A i \in DOMAIN mailbox :
          i \in Int /\ (i = 1 \/ (i > 1 /\ i - 1 \in DOMAIN mailbox'
                                    /\ mailbox'[i - 1] = mailbox[i]))
  <2> TAKE i \in DOMAIN mailbox
  <2>1. i \in 1 .. Len(mailbox)
    BY <1>1
  <2>2. i # 1 => i > 1 /\ i - 1 \in 1 .. Len(mailbox) - 1 /\ (i - 1) + 1 = i
    BY <1>1, <2>1
  <2> QED
    BY <1>1, <1>2, <2>1, <2>2
<1> QED
  BY <1>1, <1>2, <1>3

\* Handling the command of one client does not concern the others.
LEMMA HandledSpares ==
    ASSUME NEW S, Typed(S), Typed(S)', mailbox # <<>>, mailbox' = Tail(mailbox),
           UNCHANGED task, Handled(Head(mailbox)), Head(mailbox) \in Command,
           NEW c \in ClientId, ClientInv(c), Head(mailbox).client # c, Spared(c)
    PROVE  ClientInv(c)'
<1> DEFINE m == Head(mailbox)
<1>1. /\ reply'[c] = reply[c]
      /\ c \in control_reg' <=> c \in control_reg
  BY DEF Handled, Typed
<1>2. mailbox \in Seq(S)
  BY Zenon DEF Typed
<1>3. Shifted(c, 1)
  BY <1>2, Taken, Zenon DEF Shifted, From
<1>4. c \notin control_reg => control'[c] = control[c]
  BY Zenon DEF Spared
<1>5. ~Holds(c) => ~Holds(c)'
  BY DEF Spared
<1>6. task'[c] = task[c]
  OBVIOUS
<1> QED
  BY <1>1, <1>3, <1>4, <1>5, <1>6, OthersKeep, ZenonT(40)

\* Handling c's own command: it was the one the engine could expect, and what
\* is left of c's commands is again in order.
LEMMA HandledKeeps ==
    ASSUME NEW S, Typed(S), mailbox # <<>>, mailbox' = Tail(mailbox),
           UNCHANGED task, Handled(Head(mailbox)), Head(mailbox) \in Command,
           NEW c \in ClientId, ClientInv(c), Head(mailbox).client = c,
           Head(mailbox).cmd # "Acquire" => Spared(c)
    PROVE  ClientInv(c)'
<1> DEFINE m == Head(mailbox)
<1>1. /\ 1 \in DOMAIN mailbox /\ mailbox[1] = m /\ From(1, c) /\ m.cmd \in Sendable
      /\ \A i \in DOMAIN mailbox' :
             i \in Int /\ i + 1 \in DOMAIN mailbox /\ mailbox'[i] = mailbox[i + 1]
      /\ \A i \in DOMAIN mailbox :
             i \in Int /\ (i = 1 \/ (i > 1 /\ i - 1 \in DOMAIN mailbox'
                                       /\ mailbox'[i - 1] = mailbox[i]))
  <2>1. mailbox \in Seq(S)
    BY Zenon DEF Typed
  <2>2. m.cmd \in Sendable
    BY Zenon DEF Command, Sendable
  <2> QED
    BY <2>1, <2>2, Taken DEF From
<1>2. \A i \in DOMAIN mailbox' :
          From(i, c)' => i \in Int /\ i >= 1 /\ i + 1 \in DOMAIN mailbox
                         /\ From(i + 1, c) /\ mailbox'[i] = mailbox[i + 1]
  <2>1. \A i \in DOMAIN mailbox' : i >= 1
    <3>1. mailbox' \in Seq(S)
      BY Taken DEF Typed
    <3> QED
      BY <3>1
  <2> QED
    BY <1>1, <2>1 DEF From
<1>3. ASSUME NEW cmd, Has(c, cmd)' PROVE Has(c, cmd)
  BY <1>2, <1>3 DEF Has
<1>4. ASSUME NEW cmd, Has(c, cmd), m.cmd # cmd PROVE Has(c, cmd)'
  BY <1>1, <1>4, ZenonT(40) DEF Has, From
<1>5. ~Has(c, "Register")'
  <2>1. SUFFICES ASSUME NEW i \in DOMAIN mailbox', From(i, c)', mailbox'[i].cmd = "Register"
                 PROVE  FALSE
    BY DEF Has
  <2>2. i + 1 <= 1
    BY <1>1, <1>2, <2>1, ZenonT(40) DEF ClientInv, RegisterInv
  <2> QED
    BY <1>2, <2>1, <2>2
<1>6. ~At(c, "new")
  BY <1>1, Zenon DEF ClientInv, RegisterInv
<1>7. m.cmd = "Register" \/ c \in control_reg
  <2>1. Has(c, "Register") => m.cmd = "Register"
    <3>1. SUFFICES ASSUME NEW i \in DOMAIN mailbox, From(i, c), mailbox[i].cmd = "Register"
                   PROVE  m.cmd = "Register"
      BY Zenon DEF Has
    <3>2. i <= 1
      BY <1>1, <3>1, Zenon DEF ClientInv, RegisterInv
    <3>3. i \in Int /\ (i = 1 \/ i > 1)
      BY <1>1, <3>1, Zenon
    <3>4. i = 1
      BY <3>2, <3>3
    <3> QED
      BY <1>1, <3>1, <3>4, Zenon
  <2> QED
    BY <1>1, <2>1 DEF ClientInv, RegisterInv
<1>8. /\ Over(c)' <=> Over(c)
      /\ Outside(c)' <=> Outside(c)
      /\ At(c, "new")' <=> At(c, "new")
      /\ At(c, "reply")' <=> At(c, "reply")
      /\ At(c, "ended")' <=> At(c, "ended")
      /\ At(c, "gone")' <=> At(c, "gone")
  BY Zenon DEF At, Over, Outside
<1>9. CASE m.cmd = "Disconnected"
  <2>1. At(c, "ended") \/ At(c, "gone")
    BY <1>1, <1>9 DEF ClientInv, DisconnectedInv
  <2>2. \A i \in DOMAIN mailbox' : ~From(i, c)'
    <3>1. SUFFICES ASSUME NEW i \in DOMAIN mailbox', From(i, c)' PROVE FALSE
      OBVIOUS
    <3>2. i + 1 <= 1
      BY <1>1, <1>2, <1>9, <3>1, ZenonT(40) DEF ClientInv, DisconnectedInv
    <3> QED
      BY <1>2, <3>1, <3>2
  <2>3. /\ ~Has(c, "Acquire")' /\ ~Has(c, "Release")' /\ ~Has(c, "Disconnected")'
        /\ ~At(c, "reply") /\ ~Outside(c) /\ Over(c)
    BY <2>1, <2>2, Zenon DEF Has, At, Outside, Over
  <2>4. c \notin control_reg' /\ reply' = reply
    BY <1>9 DEF Handled
  <2>5. RegisterInv(c)'
    BY <1>5, <1>6, <1>8, <2>2, <2>3, Zenon DEF RegisterInv
  <2>6. AcquireInv(c)'
    BY <1>8, <2>2, <2>3, <2>4, Zenon DEF ClientInv, AcquireInv
  <2>7. DisconnectedInv(c)'
    BY <1>5, <2>2, <2>3, <2>4, Zenon DEF DisconnectedInv
  <2> QED
    BY <2>5, <2>6, <2>7, Zenon DEF ClientInv
<1>10. CASE m.cmd # "Disconnected"
  <2>1. c \in control_reg'
    BY <1>7, <1>10 DEF Handled
  <2>2. RegisterInv(c)'
    <3>1. Outside(c) => ~Holds(c)'
      <4>1. m.cmd = "Acquire" => ~Outside(c)
        BY <1>1, AcquireWaits DEF At, Outside
      <4> QED
        BY <4>1, Zenon DEF Spared, ClientInv, RegisterInv
    <3>2. \A i \in DOMAIN mailbox' : ~(From(i, c)' /\ mailbox'[i].cmd = "Register")
      BY <1>5 DEF Has
    <3> QED
      BY <1>5, <1>6, <1>8, <2>1, <3>1, <3>2, Zenon DEF RegisterInv
  <2>3. DisconnectedInv(c)'
    <3>1. Has(c, "Release")' => ~Outside(c)'
      BY <1>3, <1>8 DEF ClientInv, DisconnectedInv
    <3>2. ASSUME NEW i \in DOMAIN mailbox', From(i, c)', mailbox'[i].cmd = "Disconnected"
          PROVE  /\ At(c, "ended") \/ At(c, "gone")
                 /\ \A j \in DOMAIN mailbox' : From(j, c)' => j <= i
      <4>1. /\ At(c, "ended") \/ At(c, "gone")
            /\ \A j \in DOMAIN mailbox : From(j, c) => j <= i + 1
        BY <1>2, <3>2, Zenon DEF ClientInv, DisconnectedInv
      <4>2. \A j \in DOMAIN mailbox' : From(j, c)' => j + 1 <= i + 1 /\ j \in Int /\ i \in Int
        BY <1>2, <3>2, <4>1
      <4> QED
        BY <4>1, <4>2
    <3>3. At(c, "ended") \/ At(c, "gone") => Has(c, "Disconnected")
      <4>1. m.cmd = "Register" => Has(c, "Register")
        BY <1>1 DEF Has
      <4> QED
        BY <1>7, <4>1 DEF ClientInv, DisconnectedInv
    <3> QED
      BY <1>4, <1>8, <1>10, <3>1, <3>2, <3>3, Zenon DEF DisconnectedInv
  <2>4. CASE m.cmd = "Acquire"
    <3>1. At(c, "reply")
      BY <1>1, <2>4, AcquireWaits
    <3>2. \A i \in DOMAIN mailbox' : ~(From(i, c)' /\ mailbox'[i].cmd = "Acquire")
      <4>1. SUFFICES ASSUME NEW i \in DOMAIN mailbox', From(i, c)', mailbox'[i].cmd = "Acquire"
                     PROVE  FALSE
        BY Zenon
      <4>2. /\ i + 1 \in DOMAIN mailbox /\ From(i + 1, c) /\ mailbox[i + 1].cmd = "Acquire"
            /\ i \in Int /\ i >= 1
        BY <1>2, <4>1, Zenon
      <4>3. 1 \in DOMAIN mailbox /\ From(1, c) /\ mailbox[1].cmd = "Acquire"
        BY <1>1, <2>4, Zenon
      <4>4. i + 1 = 1
        BY <4>2, <4>3, Zenon DEF ClientInv, AcquireInv
      <4> QED
        BY <4>2, <4>4
    <3>3. reply'[c] # None
      BY <2>4, ConnectionsAssumption, Zenon DEF Handled, Typed
    <3>4. AcquireInv(c)'
      BY <1>8, <3>1, <3>2, <3>3, Zenon DEF AcquireInv
    <3> QED
      BY <2>2, <2>3, <3>4 DEF ClientInv
  <2>5. CASE m.cmd # "Acquire"
    <3>1. reply' = reply
      BY <2>5, Zenon DEF Handled
    <3>2. \A i \in DOMAIN mailbox' :
              From(i, c)' /\ mailbox'[i].cmd = "Acquire" =>
                  reply[c] = None /\ task[c] = [at |-> "reply", on |-> mailbox'[i].resource]
      BY <1>2, ZenonT(40) DEF ClientInv, AcquireInv
    <3>3. ASSUME NEW i \in DOMAIN mailbox', From(i, c)', mailbox'[i].cmd = "Acquire",
                 NEW j \in DOMAIN mailbox', From(j, c)', mailbox'[j].cmd = "Acquire"
          PROVE  i = j
      <4>1. i + 1 = j + 1
        BY <1>2, <3>3, Zenon DEF ClientInv, AcquireInv
      <4>2. i \in Int /\ j \in Int /\ \A a, b \in Int : a + 1 = b + 1 => a = b
        BY <1>1
      <4> QED
        BY <4>1, <4>2, Zenon
    <3>4. /\ reply[c] # None => At(c, "reply")
          /\ At(c, "reply") /\ reply[c] = None => Has(c, "Acquire")'
      BY <1>4, <2>5, Zenon DEF ClientInv, AcquireInv
    <3>5. AcquireInv(c)'
      BY <1>8, <3>1, <3>2, <3>3, <3>4, Zenon DEF AcquireInv
    <3> QED
      BY <2>2, <2>3, <3>5 DEF ClientInv
  <2> QED
    BY <2>4, <2>5
<1> QED
  BY <1>9, <1>10, Zenon

\* The answer to an Acquire, or nothing, is all a task sees of a command handled.
LEMMA HandledTyped ==
    ASSUME NEW S, Typed(S), mailbox # <<>>, mailbox' = Tail(mailbox),
           UNCHANGED task, Handled(Head(mailbox))
    PROVE  Typed(S)'
<1>1. mailbox' \in Seq(S)
  BY Taken, Zenon DEF Typed
<1>2. reply' \in [ClientId -> {None, "Granted", "Queued", "Denied"}]
  BY Zenon DEF Typed, Handled
<1> QED
  BY <1>1, <1>2, Zenon DEF Typed

\* A step of the engine that handles no command.
LEMMA QuietKeeps ==
    ASSUME NEW S, Typed(S), UNCHANGED <<task, reply, mailbox, control_reg>>,
           NEW c \in ClientId, ClientInv(c), Spared(c)
    PROVE  Typed(S)' /\ ClientInv(c)'
<1>1. Typed(S)'
  BY DEF Typed
<1>2. Shifted(c, 0)
  <2>1. \A i \in DOMAIN mailbox : i + 0 = i /\ i - 0 = i
    BY DEF Typed
  <2> QED
    BY <2>1 DEF Shifted
<1>3. task'[c] = task[c] /\ reply'[c] = reply[c] /\ (c \in control_reg' <=> c \in control_reg)
  OBVIOUS
<1>4. c \notin control_reg => control'[c] = control[c]
  BY Zenon DEF Spared
<1>5. ~Holds(c) => ~Holds(c)'
  BY Zenon DEF Spared
<1> QED
  BY <1>1, <1>2, <1>3, <1>4, <1>5, OthersKeep, Zenon

-----------------------------------------------------------------------------
(* The connections as the engine sees them.                                *)

\* EngineConn[c], from where c's task is and whether its Register is pending.
View(at, registering) ==
    IF at = "new" \/ registering THEN "new"
    ELSE IF at = "ended" THEN "leaving"
    ELSE IF at = "gone" THEN "closed"
    ELSE IF at = "abandoned" THEN "abandoned"
    ELSE "open"

\* A Register in a mailbox is the record the task sends.
LEMMA RegisterRecord ==
    ASSUME NEW S, \A m \in S : m.cmd \in Sendable => m \in Command,
           NEW mb \in Seq(S), NEW c \in ClientId, NEW i \in DOMAIN mb
    PROVE  mb[i] = [cmd |-> "Register", client |-> c] <=>
               mb[i].cmd \in Sendable /\ mb[i].client = c /\ mb[i].cmd = "Register"
<1>1. mb[i] \in S
  OBVIOUS
<1>2. mb[i].cmd = "Register" => mb[i] = [cmd |-> "Register", client |-> mb[i].client]
  BY <1>1 DEF Sendable, Command
<1> QED
  BY <1>2 DEF Sendable

\* What the engine sees of c.
LEMMA EngineConnNow ==
    ASSUME NEW S, Typed(S), NEW c \in ClientId
    PROVE  EngineConn[c] = View(task[c].at, Has(c, "Register"))
<1>1. Registering(c) <=> Has(c, "Register")
  BY RegisterRecord DEF Typed, Registering, Has, From
<1> QED
  BY <1>1, Zenon DEF EngineConn, View, At

\* What the engine sees, before a step and after it.
LEMMA EngineConnView ==
    ASSUME NEW S, Typed(S), Typed(S)'
    PROVE  /\ EngineConn = [c \in ClientId |-> View(task[c].at, Has(c, "Register"))]
           /\ EngineConn' = [c \in ClientId |-> View(task'[c].at, Has(c, "Register")')]
<1>1. \A c \in ClientId : EngineConn[c] = View(task[c].at, Has(c, "Register"))
  BY EngineConnNow
<1>2. ASSUME NEW c \in ClientId
      PROVE  EngineConn'[c] = View(task'[c].at, Has(c, "Register")')
  <2>1. Registering(c)' <=> Has(c, "Register")'
    BY RegisterRecord DEF Typed, Registering, Has, From
  <2> QED
    BY <2>1, Zenon DEF EngineConn, View, At
<1>3. /\ EngineConn = [c \in ClientId |-> EngineConn[c]]
      /\ EngineConn' = [c \in ClientId |-> EngineConn'[c]]
  BY DEF EngineConn
<1> HIDE DEF EngineConn
<1>4. EngineConn = [c \in ClientId |-> View(task[c].at, Has(c, "Register"))]
  BY <1>1, <1>3
<1>5. EngineConn' = [c \in ClientId |-> View(task'[c].at, Has(c, "Register")')]
  BY <1>2, <1>3, Zenon
<1> QED
  BY <1>4, <1>5, Zenon

\* A step of c's task changes the engine's view of c only.
LEMMA ViewOfStep ==
    ASSUME NEW S, Typed(S), Typed(S)', NEW c \in ClientId, OthersStay(c)
    PROVE  /\ EngineConn[c] = View(task[c].at, Has(c, "Register"))
           /\ EngineConn' = [EngineConn EXCEPT ![c] = View(task'[c].at, Has(c, "Register")')]
<1>1. /\ EngineConn = [d \in ClientId |-> View(task[d].at, Has(d, "Register"))]
      /\ EngineConn' = [d \in ClientId |-> View(task'[d].at, Has(d, "Register")')]
  BY EngineConnView, Zenon
<1>2. \A d \in ClientId \ {c} :
          View(task'[d].at, Has(d, "Register")') = View(task[d].at, Has(d, "Register"))
  BY DEF OthersStay, View
<1> HIDE DEF EngineConn
<1> QED
  BY <1>1, <1>2, Zenon

-----------------------------------------------------------------------------
(* What the invariant says of the daemon.                                  *)

\* Every command the engine takes is one it expects.
LEMMA CommandsExpected ==
    ASSUME Typed(Command), \A c \in ClientId : ClientInv(c)
    PROVE  CommandsAreExpected
<1> SUFFICES ASSUME mailbox # <<>>
             PROVE  LET m == Head(mailbox)
                        c == m.client
                    IN  IF m.cmd = "Register"
                        THEN /\ c \notin control_reg
                             /\ \A i \in 2 .. Len(mailbox) : mailbox[i] # m
                        ELSE /\ c \in control_reg
                             /\ m.cmd = "Acquire" =>
                                    /\ EngineConn[c] = "open" /\ reply[c] = None
                                    /\ task[c] = [at |-> "reply", on |-> m.resource]
                             /\ m.cmd = "Release" => EngineConn[c] # "abandoned"
                             /\ m.cmd = "Disconnected" =>
                                    /\ EngineConn[c] \in {"leaving", "closed"}
                                    /\ \A i \in 2 .. Len(mailbox) : mailbox[i].client # c
  BY Zenon DEF CommandsAreExpected
<1> DEFINE m == Head(mailbox)
           c == m.client
<1>1. /\ DOMAIN mailbox = 1 .. Len(mailbox) /\ 1 \in DOMAIN mailbox
      /\ mailbox[1] = m /\ m \in Command
      /\ \A i \in DOMAIN mailbox : i \in Int /\ mailbox[i].cmd \in Sendable
  BY DEF Typed, Command, Sendable
<1>2. \A i \in 2 .. Len(mailbox) : i \in DOMAIN mailbox /\ ~(i <= 1)
  BY <1>1
<1>3. c \in ClientId /\ m.cmd \in Sendable /\ From(1, c)
  BY <1>1 DEF Command, From
<1>4. ClientInv(c) /\ EngineConn[c] = View(task[c].at, Has(c, "Register"))
  BY <1>3, EngineConnNow, Zenon
<1> HIDE DEF c, m
<1>5. CASE m.cmd = "Register"
  <2>1. Has(c, "Register")
    BY <1>1, <1>3, <1>5 DEF Has
  <2>2. \A i \in 2 .. Len(mailbox) : mailbox[i] # m
    <3> SUFFICES ASSUME NEW i \in 2 .. Len(mailbox), mailbox[i] = m PROVE FALSE
      OBVIOUS
    <3>1. i \in DOMAIN mailbox /\ From(i, c)
      BY <1>1, <1>2, <1>3 DEF From
    <3>2. i <= 1
      BY <1>1, <1>3, <1>4, <1>5, <3>1, Zenon DEF ClientInv, RegisterInv
    <3> QED
      BY <1>2, <3>2
  <2> QED
    BY <1>4, <1>5, <2>1, <2>2, Zenon DEF ClientInv, RegisterInv, c, m
<1>6. CASE m.cmd # "Register"
  <2>1. ~Has(c, "Register")
    <3> SUFFICES ASSUME NEW i \in DOMAIN mailbox, From(i, c), mailbox[i].cmd = "Register"
                 PROVE  FALSE
      BY Zenon DEF Has
    <3>1. i <= 1
      BY <1>1, <1>3, <1>4, Zenon DEF ClientInv, RegisterInv
    <3>2. i = 1
      BY <1>1, <3>1
    <3> QED
      BY <1>1, <1>6, <3>2, Zenon
  <2>2. c \in control_reg
    BY <1>1, <1>3, <1>4, <2>1, Zenon DEF ClientInv, RegisterInv
  <2>3. ASSUME m.cmd = "Acquire"
        PROVE  /\ EngineConn[c] = "open" /\ reply[c] = None
               /\ task[c] = [at |-> "reply", on |-> m.resource]
    <3>1. reply[c] = None /\ task[c] = [at |-> "reply", on |-> m.resource]
      BY <1>1, <1>3, <1>4, <2>3, Zenon DEF ClientInv, AcquireInv
    <3>2. task[c].at = "reply"
      BY <3>1, SMTT(30)
    <3> QED
      BY <1>4, <2>1, <3>1, <3>2, Zenon DEF View
  <2>4. ASSUME m.cmd = "Release" PROVE EngineConn[c] # "abandoned"
    <3>1. Has(c, "Release")
      BY <1>1, <1>3, <2>4, Zenon DEF Has
    <3> QED
      BY <1>4, <3>1, Zenon DEF ClientInv, DisconnectedInv, Outside, At, View
  <2>5. ASSUME m.cmd = "Disconnected"
        PROVE  /\ EngineConn[c] \in {"leaving", "closed"}
               /\ \A i \in 2 .. Len(mailbox) : mailbox[i].client # c
    <3>1. /\ At(c, "ended") \/ At(c, "gone")
          /\ \A i \in DOMAIN mailbox : From(i, c) => i <= 1
      BY <1>1, <1>3, <1>4, <2>5, Zenon DEF ClientInv, DisconnectedInv
    <3> QED
      BY <1>1, <1>2, <1>4, <2>1, <3>1, Zenon DEF From, View, At
  <2> QED
    BY <1>6, <2>2, <2>3, <2>4, <2>5, Zenon DEF c, m
<1> QED
  BY <1>5, <1>6, Zenon

\* An Acquire and a Disconnected in the mailbox are the records the task sends.
LEMMA SentRecords ==
    ASSUME Typed(Command), NEW c \in ClientId, NEW i \in DOMAIN mailbox, From(i, c)
    PROVE  /\ mailbox[i].cmd = "Disconnected" =>
                  mailbox[i] = [cmd |-> "Disconnected", client |-> c]
           /\ mailbox[i].cmd = "Acquire" =>
                  mailbox[i] = [cmd |-> "Acquire", client |-> c,
                                resource |-> mailbox[i].resource]
<1>1. mailbox[i] \in Command
  BY DEF Typed
<1> QED
  BY <1>1 DEF Command, From

\* No command is lost on its way to the engine.
LEMMA CommandsArrive ==
    ASSUME Typed(Command), \A c \in ClientId : ClientInv(c),
           \A c \in ClientId : Holds(c) => c \in control_reg
    PROVE  NoCommandLost
<1> SUFFICES ASSUME NEW c \in ClientId
             PROVE  /\ At(c, "reply") /\ reply[c] = None =>
                           \E i \in DOMAIN mailbox :
                               mailbox[i] = [cmd |-> "Acquire", client |-> c,
                                             resource |-> task[c].on]
                    /\ At(c, "ended") \/ At(c, "gone") \/ At(c, "abandoned") =>
                           \/ \E i \in DOMAIN mailbox :
                                  mailbox[i] = [cmd |-> "Disconnected", client |-> c]
                           \/ \A r \in Resource : owner[r] # c /\ ~Waiting(c, r)
  BY Zenon DEF NoCommandLost
<1>1. ClientInv(c)
  OBVIOUS
<1>2. ASSUME At(c, "reply"), reply[c] = None
      PROVE  \E i \in DOMAIN mailbox :
                 mailbox[i] = [cmd |-> "Acquire", client |-> c, resource |-> task[c].on]
  <2>1. PICK i \in DOMAIN mailbox : From(i, c) /\ mailbox[i].cmd = "Acquire"
    BY <1>1, <1>2, Zenon DEF ClientInv, AcquireInv, Has
  <2>2. task[c] = [at |-> "reply", on |-> mailbox[i].resource]
    BY <1>1, <2>1, Zenon DEF ClientInv, AcquireInv
  <2>3. task[c].on = mailbox[i].resource
    BY <2>2, WhereAt, Zenon
  <2>4. mailbox[i] = [cmd |-> "Acquire", client |-> c, resource |-> mailbox[i].resource]
    BY <2>1, SentRecords, ZenonT(40)
  <2> QED
    BY <2>3, <2>4, Zenon
<1>3. ASSUME At(c, "ended") \/ At(c, "gone"), Holds(c)
      PROVE  \E i \in DOMAIN mailbox : mailbox[i] = [cmd |-> "Disconnected", client |-> c]
  <2>1. PICK i \in DOMAIN mailbox : From(i, c) /\ mailbox[i].cmd = "Disconnected"
    BY <1>1, <1>3, Zenon DEF ClientInv, DisconnectedInv, Has
  <2> QED
    BY <2>1, SentRecords
<1>4. At(c, "abandoned") => ~Holds(c)
  BY <1>1, Zenon DEF ClientInv, RegisterInv, Outside
<1> QED
  BY <1>2, <1>3, <1>4, Zenon DEF Holds

\* The bound of the mailbox and the count of requests: the rest of the types.
Bounded ==
    /\ requests \in [ClientId -> 0 .. MaxRequests]
    /\ Len(mailbox) <= MAILBOX

\* No task sends to a full mailbox, or reads more than its share.
LEMMA ConnectionBounded ==
    ASSUME NEW S, mailbox \in Seq(S), Bounded, NEW c \in ClientId, Connection(c)
    PROVE  Bounded'
<1> USE DEF Bounded
<1>1. ASSUME UNCHANGED <<requests, mailbox>> PROVE Bounded'
  BY <1>1
<1>2. ASSUME UNCHANGED requests, NEW m, Send(m) PROVE Bounded'
  <2>1. Len(mailbox') = Len(mailbox) + 1 /\ Len(mailbox) < MAILBOX /\ Len(mailbox) \in Nat
    BY <1>2 DEF Send
  <2> QED
    BY <1>2, <2>1, ConnectionsAssumption
<1>3. ASSUME ReadRequest(c)
      PROVE  requests' \in [ClientId -> 0 .. MaxRequests]
  <2>1. requests[c] \in Int /\ 0 <= requests[c] /\ requests[c] < MaxRequests
    BY <1>3, ConnectionsAssumption DEF ReadRequest
  <2>2. requests[c] + 1 \in 0 .. MaxRequests
    BY <2>1, ConnectionsAssumption
  <2> QED
    BY <1>3, <2>2 DEF ReadRequest
<1>4. ASSUME NEW r \in Resource, ReadAcquire(c, r) PROVE Bounded'
  BY <1>3, <1>4 DEF ReadAcquire
<1>5. ASSUME NEW r \in Resource, ReadRelease(c, r) PROVE Bounded'
  BY <1>3, <1>5 DEF ReadRelease
<1>6. ASSUME \/ Connect(c) \/ Advertise(c) \/ Write(c) \/ TakeControl(c) \/ LeaveLoop(c)
             \/ Proceed(c)
      PROVE  Bounded'
  BY <1>1, <1>2, <1>6, Zenon
     DEF Connect, Advertise, Write, TakeControl, LeaveLoop, Proceed, SendAcquire, TakeReply,
         SendGrant, Rollback, SendRelease, SendDisconnected, Return
<1> QED
  BY <1>4, <1>5, <1>6 DEF Connection

-----------------------------------------------------------------------------
(* The cards.                                                              *)

\* What a step of a task does to the cards is one whole call, or nothing.
LEMMA ConnectionCards ==
    ASSUME NEW c \in ClientId, Connection(c)
    PROVE  [CardNext]_drmVars
<1> USE DEF drmVars
<1>0. c \in LeaseId
  BY ConnectionsAssumption
<1>1. CASE UNCHANGED drmVars
  BY <1>1
<1>2. ASSUME SendGrant(c) PROVE [CardNext]_drmVars
  <2>1. CASE task[c].on \in Card
    <3>1. \/ GrantLeaseFails(task[c].on, c)
          \/ \E sent \in BOOLEAN : GrantLease(task[c].on, c, sent)
      BY <1>2, <2>1, Zenon DEF SendGrant, SendGrantOk, SendGrantFails
    <3> QED
      BY <1>0, <2>1, <3>1 DEF CardNext
  <2>2. CASE task[c].on \notin Card
    BY <1>1, <1>2, <2>2 DEF SendGrant, SendGrantOk, SendGrantFails
  <2> QED
    BY <2>1, <2>2
<1>3. ASSUME NEW r \in Resource, ReadRelease(c, r)
      PROVE  [CardNext]_drmVars
  BY <1>1, <1>3 DEF ReadRelease, CardNext
<1>4. ASSUME \/ Connect(c) \/ Advertise(c) \/ Write(c) \/ TakeControl(c) \/ LeaveLoop(c)
             \/ SendAcquire(c) \/ TakeReply(c) \/ Rollback(c) \/ SendRelease(c)
             \/ SendDisconnected(c) \/ Return(c) \/ \E r \in Resource : ReadAcquire(c, r)
      PROVE  UNCHANGED drmVars
  BY <1>4, Zenon
     DEF Connect, Advertise, Write, TakeControl, LeaveLoop, SendAcquire, TakeReply, Rollback,
         SendRelease, SendDisconnected, Return, ReadAcquire
<1> QED
  BY <1>1, <1>2, <1>3, <1>4 DEF Connection, Proceed

=============================================================================

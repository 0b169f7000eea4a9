--------------------------- MODULE HotplugProofs ----------------------------
(***************************************************************************)
(* What the hot-plug task keeps true for any set of devices, any number of *)
(* nodes and names, and whatever the world does between its steps: the     *)
(* kinds of steps there are, in terms of the names they speak of, the      *)
(* invariant that every one of them keeps, and what follows from it.       *)
(***************************************************************************)
EXTENDS Hotplug, TLAPS

\* The resources for which the transition under way still has a step to take.
PendingIn(s, what) == {s[i].resource : i \in {k \in DOMAIN s : s[k].do = what}}
Pending(what) == PendingIn(script, what)

TypeInv ==
    /\ TypeOK
    /\ suspended \in [InputResource -> BOOLEAN]
    /\ \A p \in Path : node[p] # NoNode => home[p] # NoDevice

\* A name is in the index once.
IndexInv ==
    /\ \A p, q \in DOMAIN inputs : inputs[p].resource = inputs[q].resource => p = q
    /\ \A p \in DOMAIN inputs : inputs[p].resource \notin parked

Opening == {"adopt", "resume", "reopen"}

\* The step finds the index as the match arm that chose it did.
Fits(step) ==
    /\ step.do = "adopt" => step.path \notin DOMAIN inputs
    /\ step.do = "resume" =>
          /\ step.resource \in Names
          /\ step.path \in DOMAIN inputs => inputs[step.path].resource = step.resource
    /\ step.do = "reopen" =>
          /\ step.path \in DOMAIN inputs
          /\ inputs[step.path].resource = step.resource
          /\ ~inputs[step.path].gone

\* A node is opened in the last step of a script, before the sweep; what the
\* sweep has still to look at is live.
ScriptInv ==
    /\ ~InPass => script = <<>>
    /\ unswept # {} => stage = "sweep"
    /\ \A p \in unswept : p \in DOMAIN inputs /\ ~inputs[p].gone
    /\ \A i \in DOMAIN script :
          script[i].do \in Opening =>
              i = Len(script) /\ stage = "devices" /\ Fits(script[i])

\* The engine is told before the fd goes, and before the clients are.
OrderInv ==
    \A i, j \in DOMAIN script :
        /\ script[i].do = "push" /\ script[j].do = "Offer" => j < i
        /\ script[i].do = "drop" /\ script[j].do = "Suspend" => j < i

\* Between transitions the list and the fd table are those of the live names;
\* within one they differ by the steps that are still to be taken.
ListInv ==
    /\ advertised \subseteq Live \cup Pending("unlist")
    /\ Live \subseteq advertised \cup Pending("list")
    /\ DOMAIN registry \subseteq Live \cup Pending("drop")
    /\ Live \subseteq DOMAIN registry
    /\ Pending("unlist") \cup Pending("drop") \subseteq Gone
    /\ Pending("list") \subseteq Live

\* The engine has a slot for r, or will before it handles what is sent now.
Known(r) ==
    \/ r \in offered
    \/ \E j \in DOMAIN mailbox : mailbox[j] = [cmd |-> "Offer", resource |-> r]

KnownAt(i, r) ==
    \/ r \in offered
    \/ \E j \in 1 .. i - 1 : mailbox[j] = [cmd |-> "Offer", resource |-> r]

\* The names a command is of use for only if the engine knows them.
Mentions(m) ==
    IF m.cmd = "Broadcast" THEN m.resources
    ELSE IF m.cmd \in {"Suspend", "Resume"} THEN {m.resource} ELSE {}

\* A name is offered before anything else is said of it.
OfferInv ==
    /\ \A r \in Names : Known(r) \/ r \in Pending("Offer")
    /\ \A r \in Pending("Suspend") \cup Pending("Resume") : Known(r)
    /\ \A i \in DOMAIN mailbox : \A r \in Mentions(mailbox[i]) : KnownAt(i, r)

\* What the engine was told is what the index says, but for what the transition
\* under way is still to tell it; an fd is there until the engine is told.
ToldInv ==
    /\ \A r \in Gone : Told(r) \/ r \in Pending("Suspend")
    /\ \A r \in InputResource : Told(r) => r \in Gone \/ r \in Pending("Resume")
    /\ Pending("Suspend") \subseteq Gone \cap DOMAIN registry
    /\ Pending("Resume") \subseteq Live

\* The watch's queue tells of what no pass has looked at.
WatchInv ==
    /\ stage = "start" => ~watching /\ ~unseen
    /\ watching /\ unseen => events \/ stage \in {"coalesce", "probe"}

IInv ==
    /\ TypeInv /\ IndexInv /\ ScriptInv /\ OrderInv
    /\ ListInv /\ OfferInv /\ ToldInv /\ WatchInv

-----------------------------------------------------------------------------
(* Names.                                                                  *)

\* A set of naturals has a least member.  HotplugProofs proves it.
LeastExists == \A S \in SUBSET Nat : S # {} => \E i \in S : \A j \in S : i <= j

\* The lowest of a set of naturals is one of them.
LEMMA LowestIsOne ==
    ASSUME LeastExists, NEW S \in SUBSET Nat, S # {}
    PROVE  Lowest(S) \in S /\ \A j \in S : Lowest(S) <= j
<1>1. \E i \in S : \A j \in S : i <= j
  BY DEF LeastExists
<1> QED
  BY <1>1, Zenon DEF Lowest

\* LowestName picks one of the names it is given.
LEMMA LowestNameIsOne ==
    ASSUME LeastExists, NEW S \in SUBSET InputResource, S # {}
    PROVE  LowestName(S) \in S
<1> DEFINE T == {r.index : r \in S}
<1>1. \A r \in S : r.index \in Nat
  BY HotplugAssumption DEF InputResource
<1>2. Lowest(T) \in T /\ \A j \in T : Lowest(T) <= j
  <2>1. T \in SUBSET Nat /\ T # {}
    BY <1>1
  <2> HIDE DEF T
  <2> QED
    BY <2>1, LowestIsOne
<1>3. PICK r \in S : r.index = Lowest(T)
  BY <1>2
<1>4. \A s \in S : r.index <= s.index
  BY <1>2, <1>3
<1> QED
  BY <1>4 DEF LowestName

\* A name in the index is live or gone, and not both.
LEMMA LiveOrGone ==
    ASSUME IndexInv
    PROVE  Names = Live \cup Gone /\ Live \cap Gone = {}
BY DEF IndexInv, Names, Live, Gone

\* A parked name is gone from its path and stays a name.
LEMMA ParkMoves ==
    ASSUME IndexInv, NEW p \in DOMAIN inputs, Park(p)
    PROVE  /\ IndexInv'
           /\ Live' = Live \ {inputs[p].resource}
           /\ Gone' = Gone \cup {inputs[p].resource}
           /\ DOMAIN inputs' = DOMAIN inputs \ {p}
           /\ \A q \in DOMAIN inputs' : inputs'[q] = inputs[q]
<1>1. /\ DOMAIN inputs' = DOMAIN inputs \ {p}
      /\ \A q \in DOMAIN inputs' : inputs'[q] = inputs[q]
      /\ parked' = parked \cup {inputs[p].resource}
  BY DEF Park, Remove
<1>2. IndexInv'
  BY <1>1 DEF IndexInv
<1>3. Live' = Live \ {inputs[p].resource}
  BY <1>1 DEF IndexInv, Live
<1>4. Gone' = Gone \cup {inputs[p].resource}
  BY <1>1 DEF IndexInv, Gone
<1> QED
  BY <1>1, <1>2, <1>3, <1>4

\* A device that is gone for good leaves its name suspended at its path.
LEMMA MarkMoves ==
    ASSUME IndexInv, NEW p \in DOMAIN inputs, inputs[p] \in HeldInput,
           inputs' = [inputs EXCEPT ![p].gone = TRUE], UNCHANGED parked
    PROVE  /\ IndexInv'
           /\ Live' = Live \ {inputs[p].resource}
           /\ Gone' = Gone \cup {inputs[p].resource}
           /\ DOMAIN inputs' = DOMAIN inputs
           /\ inputs'[p] = [inputs[p] EXCEPT !.gone = TRUE]
           /\ \A q \in DOMAIN inputs \ {p} : inputs'[q] = inputs[q]
<1>1. /\ DOMAIN inputs' = DOMAIN inputs
      /\ inputs'[p] = [inputs[p] EXCEPT !.gone = TRUE]
      /\ \A q \in DOMAIN inputs \ {p} : inputs'[q] = inputs[q]
  OBVIOUS
<1>2. inputs'[p].gone /\ inputs'[p].resource = inputs[p].resource
  BY <1>1 DEF HeldInput
<1>3. \A q \in DOMAIN inputs : inputs'[q].resource = inputs[q].resource
  BY <1>1, <1>2
<1>4. IndexInv'
  BY <1>1, <1>3 DEF IndexInv
<1>5. Live' = Live \ {inputs[p].resource}
  BY <1>1, <1>2 DEF IndexInv, Live
<1>6. Gone' = Gone \cup {inputs[p].resource}
  BY <1>1, <1>2 DEF IndexInv, Gone
<1> QED
  BY <1>1, <1>4, <1>5, <1>6

\* A node that is opened for r makes r live and disturbs no other name.
LEMMA OpenMoves ==
    ASSUME IndexInv, NEW p, NEW r, OpenAs(p, r),
           p \in DOMAIN inputs => inputs[p].resource = r
    PROVE  /\ IndexInv'
           /\ Live' = Live \cup {r}
           /\ Gone' = Gone \ {r}
           /\ DOMAIN registry' = DOMAIN registry \cup {r}
<1> DEFINE other == {q \in DOMAIN inputs : inputs[q].resource # r}
<1>1. /\ DOMAIN inputs' = other \cup {p}
      /\ p \notin other
      /\ inputs'[p].resource = r /\ ~inputs'[p].gone
      /\ \A q \in other : inputs'[q] = inputs[q]
      /\ parked' = parked \ {r}
  BY DEF OpenAs, Insert, Remove
<1>2. IndexInv'
  BY <1>1 DEF IndexInv
<1>3. Live' = Live \cup {r}
  BY <1>1 DEF IndexInv, Live
<1>4. Gone' = Gone \ {r}
  BY <1>1 DEF IndexInv, Gone
<1>5. DOMAIN registry' = DOMAIN registry \cup {r}
  BY DEF OpenAs, Insert
<1> QED
  BY <1>2, <1>3, <1>4, <1>5, Zenon

-----------------------------------------------------------------------------
(* Scripts.                                                                *)

\* Taking the first step of a script leaves the others.
LEMMA StepTaken ==
    ASSUME NEW s \in Seq(Step), s # <<>>, NEW w
    PROVE  /\ Head(s).do # w => PendingIn(Tail(s), w) = PendingIn(s, w)
           /\ Head(s).do = w =>
                 PendingIn(s, w) = PendingIn(Tail(s), w) \cup {Head(s).resource}
<1> DEFINE t == Tail(s)
<1>1. /\ Len(s) \in Nat /\ Len(s) > 0
      /\ DOMAIN s = 1 .. Len(s)
      /\ DOMAIN t = 1 .. Len(s) - 1
      /\ \A i \in DOMAIN t : t[i] = s[i + 1]
      /\ Head(s) = s[1]
  OBVIOUS
<1> HIDE DEF t
<1>2. ASSUME NEW r \in PendingIn(t, w)
      PROVE  r \in PendingIn(s, w)
  <2>1. PICK i \in DOMAIN t : t[i].do = w /\ t[i].resource = r
    BY <1>2 DEF PendingIn
  <2>2. i + 1 \in DOMAIN s /\ s[i + 1] = t[i]
    BY <1>1
  <2> QED
    BY <2>1, <2>2 DEF PendingIn
<1>3. ASSUME NEW r \in PendingIn(s, w)
      PROVE  r \in PendingIn(t, w) \/ (Head(s).do = w /\ r = Head(s).resource)
  <2>1. PICK i \in DOMAIN s : s[i].do = w /\ s[i].resource = r
    BY <1>3 DEF PendingIn
  <2>2. CASE i = 1
    BY <1>1, <2>1, <2>2
  <2>3. CASE i # 1
    <3>1. i - 1 \in DOMAIN t /\ t[i - 1] = s[i]
      BY <1>1, <2>3
    <3> QED
      BY <2>1, <3>1 DEF PendingIn
  <2> QED
    BY <2>2, <2>3
<1>4. Head(s).do = w => Head(s).resource \in PendingIn(s, w)
  BY <1>1 DEF PendingIn
<1> QED
  BY <1>2, <1>3, <1>4, Zenon DEF t

\* The other steps and their order.
LEMMA StepsFollow ==
    ASSUME NEW s \in Seq(Step), s # <<>>, NEW t, t = Tail(s)
    PROVE  /\ Len(s) \in Nat /\ Len(t) \in Nat /\ Len(t) = Len(s) - 1
           /\ DOMAIN s = 1 .. Len(s) /\ DOMAIN t = 1 .. Len(t)
           /\ \A i \in DOMAIN t : i + 1 \in DOMAIN s /\ t[i] = s[i + 1]
           /\ 1 \in DOMAIN s /\ Head(s) = s[1] /\ Head(s) \in Step
           /\ t \in Seq(Step)
OBVIOUS

Telling == {"list", "unlist", "drop", "Offer", "Suspend", "Resume"}

\* An empty script has nothing left to do for any name.
LEMMA NothingPending ==
    ASSUME script = <<>>
    PROVE  \A w : Pending(w) = {}
BY DEF Pending, PendingIn

\* A script without a step of a kind has nothing left to do of that kind.
LEMMA NoneLeft ==
    ASSUME NEW w, \A j \in DOMAIN script : script[j].do # w
    PROVE  Pending(w) = {}
BY DEF Pending, PendingIn

\* A script that only opens a node has nothing to tell.
LEMMA OpeningScript ==
    ASSUME NEW s \in Seq(Step),
           s = <<>> \/ (Len(s) = 1 /\ s[1].do \in Opening)
    PROVE  \A w \in Telling : PendingIn(s, w) = {}
<1>1. CASE s = <<>>
  BY <1>1 DEF PendingIn
<1>2. CASE Len(s) = 1 /\ s[1].do \in Opening
  <2>1. DOMAIN s = {1}
    BY <1>2
  <2> QED
    BY <1>2, <2>1 DEF PendingIn, Opening, Telling
<1> QED
  BY <1>1, <1>2

\* The scripts that open a node: one step, which tells nobody anything.
LEMMA OpeningScripts ==
    ASSUME NEW p \in Path, NEW c \in InputClass, NEW r \in InputResource, NEW s,
           s \in {Adopting(p, c), Resuming(p, r), Reopening(p, r)}
    PROVE  /\ s \in Seq(Step) /\ Len(s) = 1 /\ DOMAIN s = {1}
           /\ s[1].do \in Opening
<1>1. PICK step \in Step : s = <<step>> /\ step.do \in Opening
  BY DEF Adopting, Resuming, Reopening, Step, Opening
<1> QED
  BY <1>1

\* What follows an opened node: the list, the engine, the push, in this order.
LEMMA AnnouncingScript ==
    ASSUME NEW r \in InputResource, NEW c \in {"Offer", "Resume"}, NEW s,
           s = Announcing(c, r)
    PROVE  /\ s \in Seq(Step) /\ DOMAIN s = 1 .. 3
           /\ s[1] = [do |-> "list", resource |-> r]
           /\ s[2] = [do |-> c, resource |-> r]
           /\ s[3] = [do |-> "push"]
           /\ PendingIn(s, "list") = {r}
           /\ PendingIn(s, c) = {r}
           /\ \A w \in Telling \ {"list", c} : PendingIn(s, w) = {}
<1>1. /\ s \in Seq(Step) /\ DOMAIN s = 1 .. 3
      /\ s[1] = [do |-> "list", resource |-> r]
      /\ s[2] = [do |-> c, resource |-> r]
      /\ s[3] = [do |-> "push"]
  BY DEF Announcing, Step
<1>2. DOMAIN s = {1, 2, 3}
  BY <1>1
<1> QED
  BY <1>1, <1>2 DEF PendingIn, Telling

\* A sequence of steps without a first one is empty.
LEMMA NoMore ==
    ASSUME NEW s \in Seq(Step), Len(s) = 0
    PROVE  s = <<>>
OBVIOUS

\* Facts on a script followed by another: its length, and the steps of each.
LEMMA JoinedLen ==
    ASSUME NEW a \in Seq(Step), NEW b \in Seq(Step)
    PROVE  a \o b \in Seq(Step) /\ Len(a \o b) = Len(a) + Len(b)
OBVIOUS

\* The steps of the first script come first.
LEMMA JoinedFirst ==
    ASSUME NEW a \in Seq(Step), NEW b \in Seq(Step), NEW i \in 1 .. Len(a)
    PROVE  (a \o b)[i] = a[i]
OBVIOUS

\* The steps of the second script come after those of the first.
LEMMA JoinedLast ==
    ASSUME NEW a \in Seq(Step), NEW b \in Seq(Step), NEW i \in 1 .. Len(b)
    PROVE  (a \o b)[Len(a) + i] = b[i]
OBVIOUS

\* A suspension (four steps) followed by the adoption (one step) of the new device.
LEMMA OneMore ==
    ASSUME NEW a \in Seq(Step), NEW b \in Seq(Step), Len(a) = 4, Len(b) = 1
    PROVE  /\ a \o b \in Seq(Step) /\ Len(a \o b) = 5
           /\ (a \o b)[1] = a[1] /\ (a \o b)[2] = a[2] /\ (a \o b)[3] = a[3]
           /\ (a \o b)[4] = a[4] /\ (a \o b)[5] = b[1]
<1>1. /\ 1 \in 1 .. 4 /\ 2 \in 1 .. 4 /\ 3 \in 1 .. 4 /\ 4 \in 1 .. 4
      /\ 1 \in 1 .. 1 /\ 4 + 1 = 5
  OBVIOUS
<1>2. a \o b \in Seq(Step) /\ Len(a \o b) = 5
  BY <1>1, JoinedLen, Zenon
<1>3. /\ (a \o b)[1] = a[1] /\ (a \o b)[2] = a[2]
      /\ (a \o b)[3] = a[3] /\ (a \o b)[4] = a[4]
  BY <1>1, JoinedFirst, ZenonT(40)
<1>4. (a \o b)[Len(a) + 1] = b[1]
  <2>1. 1 \in 1 .. Len(b)
    OBVIOUS
  <2> QED
    BY <2>1, JoinedLast, Zenon
<1>5. Len(a) + 1 = 5
  OBVIOUS
<1> QED
  BY <1>2, <1>3, <1>4, <1>5, Zenon

\* suspend, with or without an adopt after it.
Suspends(s, r, p, c) ==
    /\ s \in Seq(Step) /\ (Len(s) = 4 \/ (Len(s) = 5 /\ s[5] = Adopting(p, c)[1]))
    /\ s = Suspending(r) => Len(s) = 4
    /\ s[1] = [do |-> "unlist", resource |-> r]
    /\ s[2] = [do |-> "Suspend", resource |-> r]
    /\ s[3] = [do |-> "drop", resource |-> r]
    /\ s[4] = [do |-> "push"]
    /\ \A w \in {"unlist", "Suspend", "drop"} : PendingIn(s, w) = {r}
    /\ \A w \in {"list", "Offer", "Resume"} : PendingIn(s, w) = {}

\* What suspend leaves to do, alone or before an adoption at the same path.
LEMMA SuspendingScript ==
    ASSUME NEW r \in InputResource, NEW p \in Path, NEW c \in InputClass, NEW s,
           s = Suspending(r) \/ s = Suspending(r) \o Adopting(p, c)
    PROVE  Suspends(s, r, p, c)
<1>1. /\ Suspending(r) \in Seq(Step) /\ Len(Suspending(r)) = 4
      /\ Adopting(p, c) \in Seq(Step) /\ Len(Adopting(p, c)) = 1
      /\ Adopting(p, c)[1].do = "adopt"
      /\ Suspending(r)[1] = [do |-> "unlist", resource |-> r]
      /\ Suspending(r)[2] = [do |-> "Suspend", resource |-> r]
      /\ Suspending(r)[3] = [do |-> "drop", resource |-> r]
      /\ Suspending(r)[4] = [do |-> "push"]
  BY DEF Suspending, Adopting, Step
<1> HIDE DEF Suspending, Adopting
<1>2. /\ s \in Seq(Step) /\ (Len(s) = 4 \/ (Len(s) = 5 /\ s[5] = Adopting(p, c)[1]))
      /\ s = Suspending(r) => Len(s) = 4
      /\ s[1] = [do |-> "unlist", resource |-> r]
      /\ s[2] = [do |-> "Suspend", resource |-> r]
      /\ s[3] = [do |-> "drop", resource |-> r]
      /\ s[4] = [do |-> "push"]
  <2> DEFINE first == Suspending(r)
             last == Adopting(p, c)
  <2>1. CASE s = first
    BY <1>1, <2>1
  <2>2. CASE s = first \o last
    <3> HIDE DEF first, last
    <3>1. /\ first \in Seq(Step) /\ Len(first) = 4
          /\ last \in Seq(Step) /\ Len(last) = 1
      BY <1>1 DEF first, last
    <3>2. /\ s \in Seq(Step) /\ Len(s) = 5
          /\ s[1] = first[1] /\ s[2] = first[2] /\ s[3] = first[3] /\ s[4] = first[4]
          /\ s[5] = last[1]
      BY <2>2, <3>1, OneMore, Zenon
    <3>3. s # first
      <4>1. 4 # 5
        OBVIOUS
      <4> QED
        BY <3>1, <3>2, <4>1, Zenon
    <3> QED
      BY <1>1, <3>2, <3>3 DEF first, last
  <2> QED
    BY <2>1, <2>2
<1>3. \A w \in {"unlist", "Suspend", "drop"} : PendingIn(s, w) = {r}
  <2>1. DOMAIN s = {1, 2, 3, 4} \/ (DOMAIN s = {1, 2, 3, 4, 5} /\ s[5].do = "adopt")
    BY <1>1, <1>2
  <2> QED
    BY <1>2, <2>1 DEF PendingIn
<1>4. \A w \in {"list", "Offer", "Resume"} : PendingIn(s, w) = {}
  <2>1. DOMAIN s = {1, 2, 3, 4} \/ (DOMAIN s = {1, 2, 3, 4, 5} /\ s[5].do = "adopt")
    BY <1>1, <1>2
  <2> QED
    BY <1>2, <2>1, SMTT(30) DEF PendingIn
<1> QED
  BY <1>2, <1>3, <1>4, Zenon DEF Suspends

-----------------------------------------------------------------------------
(* Types.                                                                  *)

\* The first step of the script, by what it does.
LEMMA HeadTypes ==
    ASSUME TypeInv, script # <<>>
    PROVE  /\ Tail(script) \in Seq(Step)
           /\ Head(script).do \in Telling => Head(script).resource \in InputResource
           /\ Head(script).do \in Opening => Head(script).path \in Path
           /\ Head(script).do = "adopt" => Head(script).class \in InputClass
           /\ Head(script).do \in {"resume", "reopen"} => Head(script).resource \in InputResource
<1>1. script \in Seq(Step)
  BY DEF TypeInv, TypeOK
<1>2. Head(script) \in Step /\ Tail(script) \in Seq(Step)
  BY <1>1
<1> QED
  BY <1>2 DEF Step, Telling, Opening

\* Names of the index, and the names adopt and resume choose from, are names of inputs.
LEMMA NamesType ==
    ASSUME TypeInv
    PROVE  /\ Names \subseteq InputResource
           /\ \A class \in InputClass :
                 /\ FreeNames(class) \subseteq InputResource \ Names
                 /\ SuspendedPeers(class) \subseteq InputResource
                 /\ SuspendedPeers(class) \subseteq Gone
           /\ Live \subseteq InputResource /\ Gone \subseteq InputResource
<1>1. /\ \A p \in DOMAIN inputs : inputs[p].resource \in InputResource
      /\ parked \subseteq InputResource
  BY DEF TypeInv, TypeOK, HeldInput
<1> QED
  BY <1>1 DEF Names, FreeNames, SuspendedPeers, Live, Gone, InputResource

\* An opened node has a device, and its entry is well formed.
LEMMA OpenTypes ==
    ASSUME TypeInv, NEW p \in Path, NEW r \in InputResource, OpenAs(p, r)
    PROVE  /\ DOMAIN inputs' \subseteq Path
           /\ \A q \in DOMAIN inputs' : inputs'[q] \in HeldInput
           /\ parked' \subseteq InputResource
           /\ DOMAIN registry' \subseteq InputResource
           /\ \A s \in DOMAIN registry' : registry'[s] \in Device
<1>1. node[p] \in Inode /\ home[p] \in Device
  BY DEF OpenAs, CanOpen, TypeInv, TypeOK
<1>2. Identity(p) \in Device \cup {NoDevice}
  BY <1>1 DEF Identity
<1>3. [resource |-> r, ino |-> node[p], device |-> Identity(p), gone |-> FALSE] \in HeldInput
  BY <1>1, <1>2, Zenon DEF HeldInput
<1>4. /\ DOMAIN inputs' \subseteq Path
      /\ \A q \in DOMAIN inputs' : inputs'[q] \in HeldInput
  BY <1>3, Zenon DEF OpenAs, Insert, Remove, TypeInv, TypeOK
<1>5. /\ DOMAIN registry' \subseteq InputResource
      /\ \A s \in DOMAIN registry' : registry'[s] \in Device
  BY <1>1, Zenon DEF OpenAs, Insert, TypeInv, TypeOK
<1>6. parked' \subseteq InputResource
  BY Zenon DEF OpenAs, TypeInv, TypeOK
<1> QED
  BY <1>4, <1>5, <1>6, Zenon

\* Parking a name keeps the types of the index.
LEMMA ParkTypes ==
    ASSUME TypeInv, NEW p \in DOMAIN inputs, Park(p)
    PROVE  /\ DOMAIN inputs' \subseteq Path
           /\ \A q \in DOMAIN inputs' : inputs'[q] \in HeldInput
           /\ parked' \subseteq InputResource
<1>1. inputs[p].resource \in InputResource
  BY DEF TypeInv, TypeOK, HeldInput
<1> QED
  BY <1>1 DEF Park, Remove, TypeInv, TypeOK

\* What an examined node leads to is a script.
LEMMA ExamineTypes ==
    ASSUME LeastExists, TypeInv, Examine
    PROVE  /\ DOMAIN inputs' \subseteq Path
           /\ \A q \in DOMAIN inputs' : inputs'[q] \in HeldInput
           /\ parked' \subseteq InputResource
           /\ probed' \in [Path -> InputClass \cup {NoClass}]
           /\ present' \subseteq Path
           /\ script' \in Seq(Step)
<1> DEFINE p == Lowest(ToExamine)
           class == probed[p]
<1>1. p \in Path /\ class \in InputClass
  <2>1. ToExamine \in SUBSET Nat /\ ToExamine # {}
    BY HotplugAssumption DEF Examine, ToExamine, Path
  <2>2. p \in ToExamine
    BY <2>1, LowestIsOne
  <2> QED
    BY <2>2 DEF ToExamine, TypeInv, TypeOK
<1>2. /\ probed' = [probed EXCEPT ![p] = NoClass]
      /\ present' = present \cup {p}
      /\ \/ Kept(p) \/ DeviceBack(p, class) \/ NodeRecreated(p)
         \/ DeviceReplaced(p, class) \/ NewDevice(p, class)
  BY DEF Examine
<1> HIDE DEF p
<1>3. probed' \in [Path -> InputClass \cup {NoClass}] /\ present' \subseteq Path
  BY <1>1, <1>2 DEF TypeInv, TypeOK
<1> HIDE DEF class
<1>4. p \in DOMAIN inputs => inputs[p].resource \in InputResource
  BY DEF TypeInv, TypeOK, HeldInput
<1>5. /\ DOMAIN inputs \subseteq Path
      /\ \A q \in DOMAIN inputs : inputs[q] \in HeldInput
      /\ parked \subseteq InputResource
      /\ script \in Seq(Step)
  BY DEF TypeInv, TypeOK
<1>6. Adopting(p, class) \in Seq(Step)
  BY <1>1 DEF Adopting, Step
<1>7. \A r \in InputResource : Resuming(p, r) \in Seq(Step) /\ Reopening(p, r) \in Seq(Step)
  BY <1>1 DEF Resuming, Reopening, Step
<1>a. CASE Kept(p)
  BY <1>3, <1>5, <1>a DEF Kept
<1>b. CASE DeviceBack(p, class)
  BY <1>3, <1>4, <1>5, <1>6, <1>7, <1>b, ParkTypes, Zenon DEF DeviceBack
<1>c. CASE NodeRecreated(p)
  BY <1>3, <1>4, <1>5, <1>7, <1>c DEF NodeRecreated
<1>d. CASE DeviceReplaced(p, class)
  <2>1. CASE inputs[p].resource.class = class
    BY <1>3, <1>4, <1>5, <1>7, <1>d, <2>1, Zenon DEF DeviceReplaced
  <2>2. CASE inputs[p].resource.class # class
    <3>1. p \in DOMAIN inputs /\ Park(p)
      BY <1>d, <2>2 DEF DeviceReplaced
    <3>2. script' = Suspending(inputs[p].resource) \o Adopting(p, class)
      BY <1>d, <2>2 DEF DeviceReplaced
    <3>3. script' \in Seq(Step)
      BY <1>1, <1>4, <3>1, <3>2, SuspendingScript, Zenon DEF Suspends
    <3> QED
      BY <1>3, <3>1, <3>3, ParkTypes
  <2> QED
    BY <2>1, <2>2
<1>e. CASE NewDevice(p, class)
  <2>1. SuspendedPeers(class) # {} => LowestName(SuspendedPeers(class)) \in InputResource
    <3>1. SuspendedPeers(class) \subseteq InputResource
      BY <1>1, NamesType, Zenon
    <3> QED
      BY <3>1, LowestNameIsOne
  <2> QED
    BY <1>3, <1>5, <1>6, <1>7, <1>e, <2>1 DEF NewDevice
<1> QED
  BY <1>2, <1>a, <1>b, <1>c, <1>d, <1>e

\* A command sent is a command, and the mailbox has room for it.
LEMMA SendTypes ==
    ASSUME TypeInv, NEW command \in Command, Send(command), script # <<>>
    PROVE  TypeInv'
<1>1. mailbox' \in Seq(Command) /\ Len(mailbox') <= MAILBOX
  BY HotplugAssumption DEF Send, TypeInv, TypeOK
<1>2. script' \in Seq(Step)
  BY HeadTypes, Zenon DEF Send
<1> QED
  BY <1>1, <1>2, Zenon DEF Send, TypeInv, TypeOK, worldVars, inventoryVars, watchVars

\* The world (nodes that come and go, changes seen) keeps the types.
LEMMA WorldTypes ==
    ASSUME TypeInv, World
    PROVE  TypeInv'
<1> USE DEF TypeInv, TypeOK, inventoryVars, watchVars, passVars, engineVars
<1>1. ASSUME NEW d \in Device, Vanish(d)
      PROVE  TypeInv'
  BY <1>1, Zenon DEF Vanish
<1>2. ASSUME NEW d \in Device, NEW p \in Path, Plug(d, p)
      PROVE  TypeInv'
  BY <1>2, HotplugAssumption DEF Plug, NewNode, Change
<1>3. ASSUME NEW p \in Path, Unplug(p)
      PROVE  TypeInv'
  BY <1>3, Zenon DEF Unplug, Change
<1>4. ASSUME NEW p \in Path, RemoveNode(p)
      PROVE  TypeInv'
  BY <1>4, Zenon DEF RemoveNode, Change
<1>5. ASSUME NEW p \in Path, RecreateNode(p)
      PROVE  TypeInv'
  BY <1>5 DEF RecreateNode, NewNode, Change
<1>6. ASSUME NEW p \in Path, BecomesReady(p)
      PROVE  TypeInv'
  BY <1>6 DEF BecomesReady
<1> QED
  BY <1>1, <1>2, <1>3, <1>4, <1>5, <1>6, Zenon DEF World

\* What a pass reads of the nodes has its type, whether or not the read fails.
LEMMA ProbeType ==
    ASSUME TypeInv
    PROVE  /\ ProbeAll \in [Path -> InputClass \cup {NoClass}]
           /\ [p \in Path |-> NoClass] \in [Path -> InputClass \cup {NoClass}]
BY DEF ProbeAll, Classify, InputClass, NoClass

\* Taking the head of a bounded mailbox leaves a bounded mailbox.
LEMMA TakenTypes ==
    ASSUME NEW S, NEW m \in Seq(S), NEW n \in Nat, m # <<>>, Len(m) <= n
    PROVE  Tail(m) \in Seq(S) /\ Len(Tail(m)) <= n
OBVIOUS

\* Every step keeps the types: the lowest node, the lowest name and the opened
\* device are there.
LEMMA TypePreserved ==
    ASSUME LeastExists, TypeInv, ScriptInv, [Next]_vars
    PROVE  TypeInv'
<1> USE DEF worldVars, inventoryVars, watchVars, passVars, engineVars
<1>1. CASE UNCHANGED vars
  BY <1>1 DEF vars, TypeInv, TypeOK
<1>2. CASE World
  BY <1>2, WorldTypes, ZenonT(40)
<1>3. CASE Wakeup
  BY <1>3, HotplugAssumption, SMTT(30)
  DEF TypeInv, TypeOK, Wakeup, StartWatch, ReadEvents, Coalesce, SafetyTick,
      WatchFails, PollTick, RetryTick, Wake
<1>4. CASE HandleCommand
  <2>1. mailbox' \in Seq(Command) /\ Len(mailbox') <= MAILBOX
    <3>1. mailbox \in Seq(Command) /\ Len(mailbox) <= MAILBOX /\ MAILBOX \in Nat
      BY HotplugAssumption, Zenon DEF TypeInv, TypeOK
    <3>2. mailbox # <<>> /\ mailbox' = Tail(mailbox)
      BY <1>4, Zenon DEF HandleCommand
    <3> QED
      BY <3>1, <3>2, TakenTypes, Zenon
  <2>2. suspended' \in [InputResource -> BOOLEAN]
    BY <1>4, Zenon DEF HandleCommand, TypeInv
  <2> QED
    BY <1>4, <2>1, <2>2, Zenon DEF HandleCommand, TypeInv, TypeOK
<1>5. CASE Probe \/ ProbeFails
  BY <1>5, ProbeType, Zenon DEF Probe, ProbeFails, BeginPass, TypeInv, TypeOK
<1>6. CASE Examine
  BY <1>6, ExamineTypes, Zenon DEF Examine, TypeInv, TypeOK
<1>7. CASE Adopt
  <2> DEFINE p == Head(script).path
             free == FreeNames(Head(script).class)
             r == LowestName(free)
  <2>1. p \in Path /\ free \subseteq InputResource /\ Tail(script) \in Seq(Step)
    BY <1>7, HeadTypes, NamesType, Zenon DEF Adopt, Doing, Opening
  <2>2. CASE free # {} /\ OpenAs(p, r) /\ script' = Announcing("Offer", r)
    <3>1. r \in InputResource
      BY <2>1, <2>2, LowestNameIsOne
    <3> HIDE DEF p, free, r
    <3>2. script' \in Seq(Step)
      BY <2>2, <3>1, AnnouncingScript, Zenon
    <3> QED
      BY <1>7, <2>1, <2>2, <3>1, <3>2, OpenTypes, Zenon DEF Adopt, TypeInv, TypeOK
  <2>3. CASE NotTaken
    BY <1>7, <2>1, <2>3, Zenon DEF Adopt, NotTaken, TypeInv, TypeOK
  <2> QED
    BY <1>7, <2>2, <2>3, Zenon DEF Adopt
<1>8. CASE Resume
  <2> DEFINE p == Head(script).path
             r == Head(script).resource
  <2>1. p \in Path /\ r \in InputResource /\ Tail(script) \in Seq(Step)
    <3>1. script # <<>> /\ Head(script).do = "resume"
      BY <1>8, Zenon DEF Resume, Doing
    <3> QED
      BY <3>1, HeadTypes, Zenon DEF Opening
  <2>2. CASE OpenAs(p, r) /\ script' = Announcing("Resume", r)
    <3> HIDE DEF p, r
    <3>1. script' \in Seq(Step)
      BY <2>1, <2>2, AnnouncingScript, Zenon
    <3> QED
      BY <1>8, <2>1, <2>2, <3>1, OpenTypes, Zenon DEF Resume, TypeInv, TypeOK
  <2>3. CASE NotTaken
    BY <1>8, <2>1, <2>3, Zenon DEF Resume, NotTaken, TypeInv, TypeOK
  <2> QED
    BY <1>8, <2>2, <2>3, Zenon DEF Resume
<1>9. CASE Reopen
  <2> DEFINE p == Head(script).path
             r == Head(script).resource
  <2>1. p \in Path /\ r \in InputResource /\ Tail(script) \in Seq(Step)
    <3>1. script # <<>> /\ Head(script).do = "reopen"
      BY <1>9, Zenon DEF Reopen, Doing
    <3> QED
      BY <3>1, HeadTypes, Zenon DEF Opening
  <2>2. CASE OpenAs(p, r) /\ script' = Tail(script)
    <3> HIDE DEF p, r
    <3> QED
      <4>1. UNCHANGED <<worldVars, advertised, watchVars, stage, attempt, probed, present,
                        unswept, engineVars>>
        BY <1>9 DEF Reopen
      <4>2. UNCHANGED retry
        BY <2>2, Zenon DEF OpenAs
      <4>3. script' \in Seq(Step)
        BY <2>1, <2>2
      <4> HIDE DEF TypeInv
      <4>4. /\ DOMAIN inputs' \subseteq Path
            /\ \A q \in DOMAIN inputs' : inputs'[q] \in HeldInput
            /\ parked' \subseteq InputResource
            /\ DOMAIN registry' \subseteq InputResource
            /\ \A s \in DOMAIN registry' : registry'[s] \in Device
        BY <2>1, <2>2, OpenTypes, ZenonT(40)
      <4> QED
        BY <4>1, <4>2, <4>3, <4>4, Zenon DEF TypeInv, TypeOK
  <2>3. CASE NotTaken
    BY <1>9, <2>1, <2>3, Zenon DEF Reopen, NotTaken, TypeInv, TypeOK
  <2> QED
    BY <1>9, <2>2, <2>3, Zenon DEF Reopen
<1>10. CASE ListStep
  BY <1>10, HeadTypes, ZenonT(40) DEF ListStep, Doing, Telling, TypeInv, TypeOK
<1>11. CASE DropFd
  BY <1>11, HeadTypes DEF DropFd, Doing, Remove, TypeInv, TypeOK
<1>12. CASE Tell
  <2>1. [cmd |-> Head(script).do, resource |-> Head(script).resource] \in Command
    BY <1>12, HeadTypes DEF Tell, Doing, Telling, Command
  <2> QED
    BY <1>12, <2>1, SendTypes, ZenonT(40) DEF Tell, Doing
<1>13. CASE PushList
  <2>1. [cmd |-> "Broadcast", resources |-> advertised] \in Command
    BY Zenon DEF TypeInv, TypeOK, Command
  <2> QED
    BY <1>13, <2>1, SendTypes, Zenon DEF PushList, Doing
<1>14. CASE DevicesDone
  BY <1>14 DEF DevicesDone, TypeInv, TypeOK
<1>15. CASE \E p \in Path : Sweep(p)
  <2>1. PICK p \in Path : Sweep(p)
    BY <1>15
  <2>2. p \in DOMAIN inputs /\ inputs[p] \in HeldInput
    BY <2>1 DEF Sweep, ScriptInv, TypeInv, TypeOK
  <2>3. CASE UNCHANGED <<inputs, script>>
    BY <2>1, <2>3 DEF Sweep, TypeInv, TypeOK
  <2>4. CASE /\ inputs' = [inputs EXCEPT ![p].gone = TRUE]
             /\ script' = Suspending(inputs[p].resource)
    <3>1. [inputs[p] EXCEPT !.gone = TRUE] \in HeldInput /\ inputs[p].resource \in InputResource
      BY <2>2, Zenon DEF HeldInput
    <3>2. /\ DOMAIN inputs' = DOMAIN inputs
          /\ \A q \in DOMAIN inputs' : inputs'[q] \in HeldInput
      BY <2>2, <2>4, <3>1 DEF TypeInv, TypeOK
    <3>3. script' \in Seq(Step)
      BY <2>4, <3>1 DEF Suspending, Step
    <3> QED
      BY <2>1, <3>2, <3>3 DEF Sweep, TypeInv, TypeOK
  <2> QED
    BY <2>1, <2>3, <2>4 DEF Sweep
<1>16. CASE EndPass
  BY <1>16, HotplugAssumption DEF EndPass, TypeInv, TypeOK
<1> QED
  BY <1>1, <1>2, <1>3, <1>4, <1>5, <1>6, <1>7, <1>8, <1>9, <1>10, <1>11, <1>12, <1>13,
     <1>14, <1>15, <1>16, Zenon DEF Next, Reconciler, Pass

-----------------------------------------------------------------------------
(* What a step does to the names.                                          *)

\* Nothing that a client or the engine could notice.
Unnoticed ==
    /\ Live' = Live /\ Gone' = Gone
    /\ DOMAIN registry' = DOMAIN registry
    /\ UNCHANGED <<advertised, mailbox, offered, suspended>>
    /\ \A w \in Telling : Pending(w)' = Pending(w)

\* A live name is found to be gone; others are still to be told.
Loses(r) ==
    /\ r \in Live
    /\ Live' = Live \ {r} /\ Gone' = Gone \cup {r}
    /\ UNCHANGED <<registry, advertised, mailbox, offered, suspended>>
    /\ \A w \in Telling : Pending(w) = {}
    /\ \A w \in {"unlist", "Suspend", "drop"} : Pending(w)' = {r}
    /\ \A w \in {"list", "Offer", "Resume"} : Pending(w)' = {}

\* A name is opened: a new one, or one the daemon had.
Gains(c, r) ==
    /\ \/ c = "Offer" /\ r \in InputResource \ Names
       \/ c = "Resume" /\ r \in Names
    /\ Live' = Live \cup {r} /\ Gone' = Gone \ {r}
    /\ DOMAIN registry' = DOMAIN registry \cup {r}
    /\ UNCHANGED <<advertised, mailbox, offered, suspended>>
    /\ \A w \in Telling : Pending(w) = {}
    /\ \A w \in {"list", c} : Pending(w)' = {r}
    /\ \A w \in Telling \ {"list", c} : Pending(w)' = {}

\* The index and the script, whose next steps they are.
PlanInv == IndexInv /\ ScriptInv /\ OrderInv

\* The script has at most a node to open.
OpensOnly ==
    \/ script = <<>>
    \/ Len(script) = 1 /\ script[1].do \in Opening /\ Fits(script[1])

\* A new script that opens a node, or has nothing to do.
LEMMA PlansOpening ==
    ASSUME TypeInv, TypeInv', PlanInv, IndexInv',
           OpensOnly, OpensOnly',
           stage = "devices", stage' = "devices", unswept' = unswept,
           Live' = Live, Gone' = Gone, DOMAIN registry' = DOMAIN registry,
           UNCHANGED <<advertised, mailbox, offered, suspended>>
    PROVE  PlanInv' /\ Unnoticed
<1>1. script \in Seq(Step) /\ script' \in Seq(Step)
  BY Zenon DEF TypeInv, TypeOK
<1>2. \A w \in Telling : Pending(w) = {}
  BY <1>1, OpeningScript, ZenonT(40) DEF Pending, OpensOnly
<1>3. \A w \in Telling : Pending(w)' = {}
  BY <1>1, OpeningScript, Zenon DEF Pending, OpensOnly
<1>4. unswept = {}
  BY Zenon DEF PlanInv, ScriptInv
<1>5. \/ DOMAIN script' = {}
      \/ DOMAIN script' = {1} /\ Len(script') = 1 /\ script'[1].do \in Opening /\ Fits(script[1])'
  BY <1>1 DEF OpensOnly
<1>6. ScriptInv'
  <2>1. ASSUME NEW i \in DOMAIN script'
        PROVE  i = Len(script') /\ Fits(script[i])'
    BY <1>5, Zenon
  <2> QED
    BY <1>4, <2>1 DEF ScriptInv, InPass
<1>7. OrderInv'
  BY <1>5 DEF OrderInv, Opening
<1> QED
  BY <1>2, <1>3, <1>6, <1>7, Zenon DEF PlanInv, Unnoticed

\* A new script that suspends a name.
LEMMA PlansSuspending ==
    ASSUME TypeInv, IndexInv', script = <<>>, InPass',
           NEW r \in Live, NEW p \in Path, NEW c \in InputClass,
           \/ script' = Suspending(r)
           \/ /\ script' = Suspending(r) \o Adopting(p, c)
              /\ stage' = "devices" /\ p \notin DOMAIN inputs',
           unswept' # {} => stage' = "sweep",
           \A q \in unswept' : q \in DOMAIN inputs' /\ ~inputs'[q].gone,
           Live' = Live \ {r}, Gone' = Gone \cup {r},
           UNCHANGED <<registry, advertised, mailbox, offered, suspended>>
    PROVE  PlanInv' /\ Loses(r)
<1>0. PICK s : s = script'
  OBVIOUS
<1>1. r \in InputResource
  BY NamesType
<1>2. /\ s \in Seq(Step) /\ (Len(s) = 4 \/ (Len(s) = 5 /\ s[5] = Adopting(p, c)[1]))
      /\ s = Suspending(r) => Len(s) = 4
      /\ s[1] = [do |-> "unlist", resource |-> r]
      /\ s[2] = [do |-> "Suspend", resource |-> r]
      /\ s[3] = [do |-> "drop", resource |-> r]
      /\ s[4] = [do |-> "push"]
      /\ \A w \in {"unlist", "Suspend", "drop"} : PendingIn(s, w) = {r}
      /\ \A w \in {"list", "Offer", "Resume"} : PendingIn(s, w) = {}
  <2>1. s = Suspending(r) \/ s = Suspending(r) \o Adopting(p, c)
    BY <1>0
  <2>2. Suspends(s, r, p, c)
    BY <1>1, <2>1, SuspendingScript, Zenon
  <2> QED
    BY <2>2, Zenon DEF Suspends
<1>3. \A w \in Telling : Pending(w) = {}
  BY NothingPending, Zenon
<1>4. Loses(r)
  BY <1>0, <1>2, <1>3, Zenon DEF Loses, Pending
<1>5. DOMAIN s = 1 .. Len(s)
  BY <1>2
<1>6. Adopting(p, c)[1] = [do |-> "adopt", path |-> p, class |-> c]
  BY DEF Adopting
<1>7. \A i \in DOMAIN s : i \in {1, 2, 3, 4} \/ (i = 5 /\ Len(s) = 5)
  <2>1. Len(s) = 4 \/ Len(s) = 5
    BY <1>2, Zenon
  <2> QED
    BY <1>5, <2>1
<1>8. OrderInv'
  BY <1>0, <1>2, <1>6, <1>7, SMTT(30) DEF OrderInv
<1>9. ASSUME NEW i \in DOMAIN s, s[i].do \in Opening
      PROVE  i = Len(s) /\ stage' = "devices" /\ Fits(script[i])'
  <2>1. i = 5 /\ Len(s) = 5
    BY <1>2, <1>7, <1>9, SMTT(30) DEF Opening
  <2>2. stage' = "devices" /\ p \notin DOMAIN inputs'
    BY <1>0, <1>2, <2>1, SMTT(30)
  <2>3. s[i] = [do |-> "adopt", path |-> p, class |-> c]
    BY <1>2, <1>6, <2>1
  <2> QED
    BY <1>0, <2>1, <2>2, <2>3, SMTT(30) DEF Fits
<1>10. ScriptInv'
  BY <1>0, <1>9 DEF ScriptInv
<1> QED
  BY <1>4, <1>8, <1>10, Zenon DEF PlanInv

\* An examined node is kept, gets a script that opens it, or is found to be
\* another device's.
LEMMA ExamineKinds ==
    ASSUME LeastExists, TypeInv, TypeInv', PlanInv, Examine
    PROVE  PlanInv' /\ (Unnoticed \/ \E r \in Live : Loses(r))
<1> DEFINE p == Lowest(ToExamine)
           class == probed[p]
<1>1. p \in Path /\ class \in InputClass
  <2>1. ToExamine \in SUBSET Nat /\ ToExamine # {}
    BY HotplugAssumption DEF Examine, ToExamine, Path
  <2>2. p \in ToExamine
    BY <2>1, LowestIsOne, Zenon
  <2> QED
    BY <2>2, Zenon DEF ToExamine, TypeInv, TypeOK
<1>2. /\ stage = "devices" /\ stage' = "devices" /\ script = <<>> /\ unswept' = unswept
      /\ UNCHANGED <<registry, advertised, mailbox, offered, suspended, node, exists>>
      /\ \/ Kept(p) \/ DeviceBack(p, class) \/ NodeRecreated(p)
         \/ DeviceReplaced(p, class) \/ NewDevice(p, class)
  BY Zenon DEF Examine, worldVars, engineVars
<1> HIDE DEF p, class
<1>3. unswept' = {} /\ OpensOnly /\ InPass'
  BY <1>2, Zenon DEF PlanInv, ScriptInv, OpensOnly, InPass
<1>4. p \in DOMAIN inputs => inputs[p].resource \in InputResource
  BY DEF TypeInv, TypeOK, HeldInput
<1>5. ASSUME IndexInv', Live' = Live, Gone' = Gone, OpensOnly'
      PROVE  PlanInv' /\ Unnoticed
  BY <1>2, <1>3, <1>5, PlansOpening
<1>6. /\ Adopting(p, class)[1] = [do |-> "adopt", path |-> p, class |-> class]
      /\ Len(Adopting(p, class)) = 1
  BY DEF Adopting
<1>7. \A r \in InputResource :
         /\ Resuming(p, r)[1] = [do |-> "resume", path |-> p, resource |-> r]
         /\ Len(Resuming(p, r)) = 1
         /\ Reopening(p, r)[1] = [do |-> "reopen", path |-> p, resource |-> r]
         /\ Len(Reopening(p, r)) = 1
  BY Zenon DEF Resuming, Reopening
<1>8. UNCHANGED <<inputs, parked>> => /\ IndexInv' /\ Live' = Live /\ Gone' = Gone
                                      /\ Names' = Names
  BY DEF PlanInv, IndexInv, Live, Gone, Names
<1>a. CASE Kept(p)
  <2>1. OpensOnly'
    BY <1>2, <1>a DEF Kept, OpensOnly
  <2> QED
    BY <1>5, <1>8, <1>a, <2>1 DEF Kept
<1>b. CASE DeviceBack(p, class)
  <2>1. CASE inputs[p].resource.class = class
    <3>1. p \in DOMAIN inputs /\ UNCHANGED <<inputs, parked>>
      BY <1>b, <2>1 DEF DeviceBack
    <3>2. script' = Resuming(p, inputs[p].resource)
      BY <1>b, <2>1, Zenon DEF DeviceBack
    <3>3. inputs[p].resource \in Names'
      BY <1>8, <3>1, Zenon DEF Names
    <3>4. OpensOnly'
      <4>1. /\ script'[1] = [do |-> "resume", path |-> p, resource |-> inputs[p].resource]
            /\ Len(script') = 1
        BY <1>4, <1>7, <3>1, <3>2, ZenonT(40)
      <4> QED
        BY <3>1, <3>3, <4>1, SMTT(30) DEF OpensOnly, Opening, Fits
    <3> QED
      BY <1>5, <1>8, <3>1, <3>4
  <2>2. CASE inputs[p].resource.class # class
    <3>1. p \in DOMAIN inputs /\ inputs[p].gone /\ Park(p) /\ script' = Adopting(p, class)
      BY <1>b, <2>2 DEF DeviceBack
    <3>2. /\ IndexInv' /\ Live' = Live \ {inputs[p].resource}
          /\ Gone' = Gone \cup {inputs[p].resource} /\ p \notin DOMAIN inputs'
      BY <3>1, ParkMoves, ZenonT(40) DEF PlanInv
    <3>3. inputs[p].resource \in Gone /\ inputs[p].resource \notin Live
      BY <3>1, Zenon DEF PlanInv, IndexInv, Gone, Live
    <3>4. OpensOnly'
      BY <1>6, <3>1, <3>2 DEF OpensOnly, Opening, Fits
    <3> QED
      BY <1>5, <3>2, <3>3, <3>4
  <2> QED
    BY <2>1, <2>2
<1>c. CASE NodeRecreated(p)
  <2>1. p \in DOMAIN inputs /\ ~inputs[p].gone /\ UNCHANGED <<inputs, parked>>
    BY <1>c DEF NodeRecreated
  <2>2. script' = Reopening(p, inputs[p].resource)
    BY <1>c, Zenon DEF NodeRecreated
  <2>3. OpensOnly'
    <3>1. /\ script'[1] = [do |-> "reopen", path |-> p, resource |-> inputs[p].resource]
          /\ Len(script') = 1
      BY <1>4, <1>7, <2>1, <2>2, Zenon
    <3> QED
      BY <2>1, <3>1 DEF OpensOnly, Opening, Fits
  <2> QED
    BY <1>5, <1>8, <2>1, <2>3, Zenon
<1>d. CASE DeviceReplaced(p, class)
  <2>1. CASE inputs[p].resource.class = class
    <3>1. p \in DOMAIN inputs /\ UNCHANGED <<inputs, parked>>
      BY <1>d, <2>1 DEF DeviceReplaced
    <3>2. script' = Resuming(p, inputs[p].resource)
      BY <1>d, <2>1, Zenon DEF DeviceReplaced
    <3>3. inputs[p].resource \in Names'
      BY <1>8, <3>1 DEF Names
    <3>4. OpensOnly'
      <4>1. /\ script'[1] = [do |-> "resume", path |-> p, resource |-> inputs[p].resource]
            /\ Len(script') = 1
        BY <1>4, <1>7, <3>1, <3>2, Zenon
      <4> QED
        BY <3>1, <3>3, <4>1, SMTT(30) DEF OpensOnly, Opening, Fits
    <3> QED
      BY <1>5, <1>8, <3>1, <3>4
  <2>2. CASE inputs[p].resource.class # class
    <3> DEFINE r == inputs[p].resource
    <3>1. p \in DOMAIN inputs /\ ~inputs[p].gone /\ Park(p)
      BY <1>d, <2>2 DEF DeviceReplaced
    <3>2. script' = Suspending(r) \o Adopting(p, class)
      BY <1>d, <2>2 DEF DeviceReplaced
    <3>3. /\ IndexInv' /\ Live' = Live \ {r}
          /\ Gone' = Gone \cup {r} /\ p \notin DOMAIN inputs'
      BY <3>1, ParkMoves, Zenon DEF PlanInv
    <3>4. r \in Live
      BY <3>1 DEF Live
    <3> HIDE DEF r
    <3> QED
      BY <1>1, <1>2, <1>3, <3>2, <3>3, <3>4, PlansSuspending, Zenon
  <2> QED
    BY <2>1, <2>2
<1>e. CASE NewDevice(p, class)
  <2> DEFINE r == LowestName(SuspendedPeers(class))
  <2>1. p \notin DOMAIN inputs /\ UNCHANGED <<inputs, parked>>
    BY <1>e DEF NewDevice
  <2>2. CASE SuspendedPeers(class) # {}
    <3>1. SuspendedPeers(class) \subseteq InputResource /\ SuspendedPeers(class) \subseteq Gone
      BY <1>1, NamesType
    <3>2. r \in Gone /\ r \in InputResource
      BY <2>2, <3>1, LowestNameIsOne, Zenon
    <3>3. r \in Names'
      BY <1>8, <2>1, <3>2, LiveOrGone DEF PlanInv
    <3>4. script' = Resuming(p, r)
      BY <1>e, <2>2, ZenonT(40) DEF NewDevice
    <3> HIDE DEF r
    <3>5. OpensOnly'
      <4>1. /\ script'[1] = [do |-> "resume", path |-> p, resource |-> r]
            /\ Len(script') = 1
        BY <1>7, <3>2, <3>4, Zenon
      <4> QED
        BY <2>1, <3>3, <4>1 DEF OpensOnly, Opening, Fits
    <3> QED
      BY <1>5, <1>8, <2>1, <3>5
  <2>3. CASE SuspendedPeers(class) = {}
    <3>1. script' = Adopting(p, class)
      BY <1>e, <2>3, Zenon DEF NewDevice
    <3>2. OpensOnly'
      BY <1>6, <2>1, <3>1 DEF OpensOnly, Opening, Fits
    <3> QED
      BY <1>5, <1>8, <2>1, <3>2
  <2> QED
    BY <2>2, <2>3
<1> QED
  BY <1>2, <1>a, <1>b, <1>c, <1>d, <1>e, ZenonT(40)

\* A device the pass did not see is kept or found to be gone.
LEMMA SweepKinds ==
    ASSUME TypeInv, PlanInv, NEW p \in Path, Sweep(p)
    PROVE  PlanInv' /\ (Unnoticed \/ \E r \in Live : Loses(r))
<1> DEFINE r == inputs[p].resource
<1>1. /\ stage = "sweep" /\ stage' = "sweep" /\ script = <<>>
      /\ p \in unswept /\ unswept' = unswept \ {p}
      /\ UNCHANGED <<parked, registry, advertised, mailbox, offered, suspended>>
      /\ p \in DOMAIN inputs /\ ~inputs[p].gone /\ inputs[p] \in HeldInput
  BY DEF Sweep, engineVars, PlanInv, ScriptInv, TypeInv, TypeOK
<1>2. CASE UNCHANGED <<inputs, script>>
  <2>1. PlanInv'
    BY <1>1, <1>2, ZenonT(40) DEF PlanInv, IndexInv, ScriptInv, OrderInv, InPass
  <2>2. Unnoticed
    BY <1>1, <1>2, Zenon DEF Unnoticed, Live, Gone, Pending
  <2> QED
    BY <2>1, <2>2, Zenon
<1>3. CASE /\ inputs' = [inputs EXCEPT ![p].gone = TRUE]
           /\ script' = Suspending(r)
  <2>1. /\ IndexInv' /\ Live' = Live \ {r} /\ Gone' = Gone \cup {r}
        /\ DOMAIN inputs' = DOMAIN inputs
        /\ \A q \in DOMAIN inputs \ {p} : inputs'[q] = inputs[q]
    BY <1>1, <1>3, MarkMoves, Zenon DEF PlanInv
  <2>2. r \in Live
    BY <1>1 DEF Live
  <2>3. \A q \in unswept' : q \in DOMAIN inputs' /\ ~inputs'[q].gone
    BY <1>1, <2>1, Zenon DEF PlanInv, ScriptInv
  <2>4. PICK c \in InputClass : TRUE
    BY DEF InputClass
  <2>5. InPass'
    BY <1>1, Zenon DEF InPass
  <2> HIDE DEF r
  <2> QED
    BY <1>1, <1>3, <2>1, <2>2, <2>3, <2>4, <2>5, PlansSuspending
<1> QED
  BY <1>2, <1>3 DEF Sweep

\* A step that opens a node is the only one of its script.
LEMMA OpeningIsLast ==
    ASSUME TypeInv, PlanInv, script # <<>>, Head(script).do \in Opening
    PROVE  /\ Len(script) = 1 /\ Tail(script) = <<>> /\ stage = "devices"
           /\ script[1] = Head(script) /\ Fits(Head(script))
           /\ OpensOnly /\ unswept = {}
           /\ \A w \in Telling : Pending(w) = {}
<1>1. script \in Seq(Step)
  BY DEF TypeInv, TypeOK
<1>2. 1 \in DOMAIN script /\ script[1] = Head(script) /\ Len(script) \in Nat
  BY <1>1
<1>3. Len(script) = 1 /\ stage = "devices" /\ Fits(Head(script))
  BY <1>2, Zenon DEF PlanInv, ScriptInv
<1>4. Tail(script) = <<>>
  <2>1. Tail(script) \in Seq(Step) /\ Len(Tail(script)) = 0
    BY <1>1, <1>3
  <2> QED
    BY <2>1, NoMore, Zenon
<1>5. \A w \in Telling : Pending(w) = {}
  <2>1. script[1].do \in Opening
    BY <1>2, Zenon
  <2> QED
    BY <1>1, <1>3, <2>1, OpeningScript DEF Pending
<1> QED
  BY <1>2, <1>3, <1>4, <1>5, Zenon DEF OpensOnly, PlanInv, ScriptInv

\* A device that could not be taken changes nothing.
LEMMA NotTakenKinds ==
    ASSUME TypeInv, TypeInv', PlanInv, script # <<>>, Head(script).do \in Opening, NotTaken,
           UNCHANGED <<advertised, stage, unswept, mailbox, offered, suspended>>
    PROVE  PlanInv' /\ Unnoticed
<1>1. /\ Tail(script) = <<>> /\ stage = "devices" /\ OpensOnly /\ unswept = {}
  BY OpeningIsLast
<1>2. OpensOnly'
  BY <1>1 DEF NotTaken, OpensOnly
<1>3. /\ IndexInv' /\ Live' = Live /\ Gone' = Gone /\ DOMAIN registry' = DOMAIN registry
  BY Zenon DEF NotTaken, PlanInv, IndexInv, Live, Gone
<1> QED
  BY <1>1, <1>2, <1>3, PlansOpening

\* A new script that announces a name.
LEMMA PlansAnnouncing ==
    ASSUME IndexInv', NEW r \in InputResource, NEW c \in {"Offer", "Resume"},
           script' = Announcing(c, r),
           stage' = "devices", unswept' = {}
    PROVE  /\ PlanInv'
           /\ \A w \in {"list", c} : Pending(w)' = {r}
           /\ \A w \in Telling \ {"list", c} : Pending(w)' = {}
<1>0. PICK s : s = script'
  BY ZenonT(40)
<1>1. /\ s \in Seq(Step) /\ DOMAIN s = 1 .. 3
      /\ s[1] = [do |-> "list", resource |-> r]
      /\ s[2] = [do |-> c, resource |-> r]
      /\ s[3] = [do |-> "push"]
      /\ PendingIn(s, "list") = {r}
      /\ PendingIn(s, c) = {r}
      /\ \A w \in Telling \ {"list", c} : PendingIn(s, w) = {}
  <2>1. s = Announcing(c, r)
    BY <1>0, ZenonT(40)
  <2>2. /\ s \in Seq(Step) /\ DOMAIN s = 1 .. 3
        /\ s[1] = [do |-> "list", resource |-> r]
        /\ s[2] = [do |-> c, resource |-> r]
        /\ s[3] = [do |-> "push"]
    BY <2>1 DEF Announcing, Step
  <2>3. PendingIn(s, "list") = {r}
    BY <2>1, AnnouncingScript, Zenon
  <2>4. PendingIn(s, c) = {r}
    BY <2>1, AnnouncingScript, ZenonT(40)
  <2>5. \A w \in Telling \ {"list", c} : PendingIn(s, w) = {}
    BY <2>1, AnnouncingScript, Zenon
  <2> QED
    BY <2>2, <2>3, <2>4, <2>5
<1>2. DOMAIN s = {1, 2, 3}
  BY <1>1, SMTT(30)
<1>3. ScriptInv'
  BY <1>0, <1>1, <1>2 DEF ScriptInv, InPass, Opening
<1>4. OrderInv'
  <2>1. /\ s[1].do = "list" /\ s[2].do \in {"Offer", "Resume"} /\ s[3].do = "push"
    BY <1>1
  <2>2. ASSUME NEW i \in DOMAIN s, NEW j \in DOMAIN s
        PROVE  /\ s[i].do = "push" /\ s[j].do = "Offer" => j < i
               /\ s[i].do # "drop"
    BY <1>2, <2>1, SMTT(30)
  <2> QED
    BY <1>0, <2>2, ZenonT(40) DEF OrderInv
<1> QED
  BY <1>0, <1>1, <1>3, <1>4, Zenon DEF PlanInv, Pending

\* An adoption gains a name that was free, or takes nothing.
LEMMA AdoptKinds ==
    ASSUME LeastExists, TypeInv, TypeInv', PlanInv, Adopt
    PROVE  PlanInv' /\ (Unnoticed \/ \E r \in InputResource : Gains("Offer", r))
<1> DEFINE p == Head(script).path
           free == FreeNames(Head(script).class)
           r == LowestName(free)
<1>1. /\ script # <<>> /\ Head(script).do = "adopt"
      /\ UNCHANGED <<advertised, stage, unswept, mailbox, offered, suspended>>
  BY Zenon DEF Adopt, Doing, engineVars
<1>2. Head(script).do \in Opening
  BY <1>1, Zenon DEF Opening
<1>3. /\ stage = "devices" /\ unswept = {} /\ Fits(Head(script))
      /\ \A w \in Telling : Pending(w) = {}
  BY <1>1, <1>2, OpeningIsLast, Zenon
<1>4. CASE NotTaken
  BY <1>1, <1>2, <1>4, NotTakenKinds, Zenon
<1>5. CASE free # {} /\ OpenAs(p, r) /\ script' = Announcing("Offer", r)
  <2>1. r \in InputResource \ Names
    <3>1. free \subseteq InputResource \ Names
      BY <1>1, HeadTypes, NamesType, Zenon
    <3> HIDE DEF free
    <3> QED
      BY <1>5, <3>1, LowestNameIsOne
  <2>2. p \notin DOMAIN inputs
    BY <1>1, <1>3 DEF Fits
  <2> HIDE DEF p, free, r
  <2>3. /\ IndexInv' /\ Live' = Live \cup {r} /\ Gone' = Gone \ {r}
        /\ DOMAIN registry' = DOMAIN registry \cup {r}
    BY <1>5, <2>2, OpenMoves, Zenon DEF PlanInv
  <2>4. /\ PlanInv'
        /\ \A w \in {"list", "Offer"} : Pending(w)' = {r}
        /\ \A w \in Telling \ {"list", "Offer"} : Pending(w)' = {}
    BY <1>1, <1>3, <1>5, <2>1, <2>3, PlansAnnouncing, ZenonT(40)
  <2>5. Gains("Offer", r)
    BY <1>1, <1>3, <2>1, <2>3, <2>4 DEF Gains
  <2> QED
    BY <2>1, <2>4, <2>5, Zenon
<1> QED
  BY <1>4, <1>5, Zenon DEF Adopt

\* A resumption gains back the name it is for, or takes nothing.
LEMMA ResumeKinds ==
    ASSUME TypeInv, TypeInv', PlanInv, Resume
    PROVE  PlanInv' /\ (Unnoticed \/ \E r \in InputResource : Gains("Resume", r))
<1> DEFINE p == Head(script).path
           r == Head(script).resource
<1>1. /\ script # <<>> /\ Head(script).do = "resume"
      /\ UNCHANGED <<advertised, stage, unswept, mailbox, offered, suspended>>
  BY DEF Resume, Doing, engineVars
<1>2. Head(script).do \in Opening
  BY <1>1, Zenon DEF Opening
<1>3. /\ stage = "devices" /\ unswept = {} /\ Fits(Head(script))
      /\ \A w \in Telling : Pending(w) = {}
  BY <1>1, <1>2, OpeningIsLast
<1>4. CASE NotTaken
  BY <1>1, <1>2, <1>4, NotTakenKinds
<1>5. CASE OpenAs(p, r) /\ script' = Announcing("Resume", r)
  <2>1. r \in InputResource /\ r \in Names
    BY <1>1, <1>3, HeadTypes, ZenonT(40) DEF Fits
  <2>2. p \in DOMAIN inputs => inputs[p].resource = r
    BY <1>1, <1>3 DEF Fits
  <2> HIDE DEF p, r
  <2>3. /\ IndexInv' /\ Live' = Live \cup {r} /\ Gone' = Gone \ {r}
        /\ DOMAIN registry' = DOMAIN registry \cup {r}
    BY <1>5, <2>2, OpenMoves, Zenon DEF PlanInv
  <2>4. /\ PlanInv'
        /\ \A w \in {"list", "Resume"} : Pending(w)' = {r}
        /\ \A w \in Telling \ {"list", "Resume"} : Pending(w)' = {}
    BY <1>1, <1>3, <1>5, <2>1, <2>3, PlansAnnouncing, Zenon
  <2>5. Gains("Resume", r)
    BY <1>1, <1>3, <2>1, <2>3, <2>4, Zenon DEF Gains
  <2> QED
    BY <2>1, <2>4, <2>5, Zenon
<1> QED
  BY <1>4, <1>5, Zenon DEF Resume

\* A live name that is re-opened has an fd as before.
LEMMA ReopenKinds ==
    ASSUME TypeInv, TypeInv', PlanInv, ListInv, Reopen
    PROVE  PlanInv' /\ Unnoticed
<1> DEFINE p == Head(script).path
           r == Head(script).resource
<1>1. /\ script # <<>> /\ Head(script).do = "reopen"
      /\ UNCHANGED <<advertised, stage, unswept, mailbox, offered, suspended>>
  BY DEF Reopen, Doing, engineVars
<1>2. Head(script).do \in Opening
  BY <1>1, Zenon DEF Opening
<1>3. /\ stage = "devices" /\ Fits(Head(script)) /\ OpensOnly /\ Tail(script) = <<>>
  BY <1>1, <1>2, OpeningIsLast, Zenon
<1>4. CASE NotTaken
  BY <1>1, <1>2, <1>4, NotTakenKinds, Zenon
<1>5. CASE OpenAs(p, r) /\ script' = Tail(script)
  <2>1. p \in DOMAIN inputs /\ inputs[p].resource = r /\ ~inputs[p].gone
    BY <1>1, <1>3 DEF Fits
  <2> HIDE DEF p, r
  <2>2. r \in Live /\ r \notin Gone
    BY <2>1 DEF Live, Gone, PlanInv, IndexInv
  <2>3. r \in DOMAIN registry
    BY <2>2 DEF ListInv
  <2>4. /\ IndexInv' /\ Live' = Live \cup {r} /\ Gone' = Gone \ {r}
        /\ DOMAIN registry' = DOMAIN registry \cup {r}
    BY <1>5, <2>1, OpenMoves, ZenonT(40) DEF PlanInv
  <2>5. Live' = Live /\ Gone' = Gone /\ DOMAIN registry' = DOMAIN registry
    BY <2>2, <2>3, <2>4
  <2>6. OpensOnly'
    BY <1>3, <1>5 DEF OpensOnly
  <2> QED
    BY <1>1, <1>3, <2>4, <2>5, <2>6, PlansOpening, Zenon
<1> QED
  BY <1>4, <1>5, Zenon DEF Reopen

\* A step that only tells somebody.
Tells == ListStep \/ DropFd \/ Tell \/ PushList

\* A step that tells (list, engine, push) is taken off the script and moves no name.
LEMMA TellsKeepPlan ==
    ASSUME TypeInv, PlanInv, Tells
    PROVE  /\ PlanInv'
           /\ script # <<>> /\ script' = Tail(script) /\ script \in Seq(Step)
           /\ Live' = Live /\ Gone' = Gone
<1>1. /\ script # <<>> /\ script' = Tail(script) /\ script \in Seq(Step)
      /\ UNCHANGED <<inputs, parked, stage, unswept>>
  BY Zenon DEF Tells, ListStep, DropFd, Tell, PushList, Send, Doing, inventoryVars, TypeInv, TypeOK
<1>2. /\ Len(script) \in Nat /\ Len(script') \in Nat /\ Len(script') = Len(script) - 1
      /\ DOMAIN script = 1 .. Len(script) /\ DOMAIN script' = 1 .. Len(script')
      /\ \A i \in DOMAIN script' : i + 1 \in DOMAIN script /\ script'[i] = script[i + 1]
  BY <1>1, StepsFollow, ZenonT(40)
<1>3. IndexInv' /\ Live' = Live /\ Gone' = Gone /\ Names' = Names
  BY <1>1 DEF PlanInv, IndexInv, Live, Gone, Names
<1>4. ScriptInv'
  <2>1. ASSUME NEW i \in DOMAIN script', script'[i].do \in Opening
        PROVE  i = Len(script') /\ stage' = "devices" /\ Fits(script[i])'
    <3>1. i + 1 \in DOMAIN script /\ script'[i] = script[i + 1]
      BY <1>2, Zenon
    <3>2. i + 1 = Len(script) /\ stage = "devices" /\ Fits(script[i + 1])
      BY <2>1, <3>1, Zenon DEF PlanInv, ScriptInv
    <3>3. i = Len(script')
      BY <1>2, <3>2
    <3> QED
      BY <1>1, <1>3, <3>1, <3>2, <3>3 DEF Fits
  <2>2. InPass'
    BY <1>1, Zenon DEF PlanInv, ScriptInv, InPass
  <2> QED
    BY <1>1, <2>1, <2>2, ZenonT(40) DEF PlanInv, ScriptInv
<1>5. OrderInv'
  <2>1. ASSUME NEW i \in DOMAIN script', NEW j \in DOMAIN script'
        PROVE  /\ script'[i].do = "push" /\ script'[j].do = "Offer" => j < i
               /\ script'[i].do = "drop" /\ script'[j].do = "Suspend" => j < i
    <3>1. /\ i + 1 \in DOMAIN script /\ script'[i] = script[i + 1]
          /\ j + 1 \in DOMAIN script /\ script'[j] = script[j + 1]
      BY <1>2, Zenon
    <3>2. /\ script'[i].do = "push" /\ script'[j].do = "Offer" => j + 1 < i + 1
          /\ script'[i].do = "drop" /\ script'[j].do = "Suspend" => j + 1 < i + 1
      BY <3>1, Zenon DEF PlanInv, OrderInv
    <3>3. i \in Int /\ j \in Int
      BY <1>2
    <3> QED
      BY <3>2, <3>3
  <2> QED
    BY <2>1, Zenon DEF OrderInv
<1> QED
  BY <1>1, <1>3, <1>4, <1>5 DEF PlanInv

\* The plan is nobody else's business.
LEMMA OthersKeepPlan ==
    ASSUME PlanInv, UNCHANGED <<inputs, parked, stage, unswept, script>>
    PROVE  PlanInv' /\ Live' = Live /\ Gone' = Gone /\ \A w : Pending(w)' = Pending(w)
<1>1. IndexInv' /\ Live' = Live /\ Gone' = Gone /\ Names' = Names
  BY Zenon DEF PlanInv, IndexInv, Live, Gone, Names
<1>2. ScriptInv' /\ OrderInv'
  BY <1>1, Zenon DEF PlanInv, ScriptInv, OrderInv, InPass, Fits
<1> QED
  BY <1>1, <1>2, Zenon DEF PlanInv, Pending

\* The world, the wake-ups and the ends of a pass touch no name.
LEMMA QuietKinds ==
    ASSUME TypeInv, PlanInv,
           \/ World \/ Wakeup \/ Probe \/ ProbeFails \/ DevicesDone \/ EndPass
           \/ UNCHANGED vars
    PROVE  PlanInv' /\ Unnoticed
<1> USE DEF worldVars, inventoryVars, watchVars, passVars, engineVars
<1>1. CASE World \/ UNCHANGED vars
  <2>1. UNCHANGED <<inputs, parked, registry, advertised, stage, unswept, script, mailbox,
                    offered, suspended>>
    BY <1>1, Zenon DEF vars, World, Vanish, Plug, Unplug, RemoveNode, RecreateNode, BecomesReady,
       Change
  <2> QED
    BY <2>1, OthersKeepPlan, Zenon DEF Unnoticed
<1>2. CASE Wakeup \/ Probe \/ ProbeFails \/ DevicesDone \/ EndPass
  <2>1. /\ UNCHANGED <<inputs, parked, registry, advertised, script, mailbox, offered,
                       suspended>>
        /\ script = <<>>
        /\ \/ unswept' = {}
           \/ /\ stage' = "sweep"
              /\ \A p \in unswept' : p \in DOMAIN inputs /\ ~inputs[p].gone
    <3>1. CASE Wakeup
      BY <1>2, <3>1, Zenon DEF Wakeup, StartWatch, ReadEvents, Coalesce, SafetyTick, WatchFails,
         PollTick, RetryTick, Wake, PlanInv, ScriptInv, InPass
    <3>2. CASE Probe \/ ProbeFails
      BY <1>2, <3>2, Zenon DEF Probe, ProbeFails, BeginPass, PlanInv, ScriptInv, InPass
    <3>3. CASE DevicesDone
      BY <1>2, <3>3, Zenon DEF DevicesDone
    <3>4. CASE EndPass
      BY <1>2, <3>4, Zenon DEF EndPass
    <3> QED
      BY <1>2, <3>1, <3>2, <3>3, <3>4, Zenon
  <2>2. PlanInv'
    <3>1. IndexInv'
      BY <2>1, Zenon DEF PlanInv, IndexInv
    <3>2. DOMAIN script' = {} /\ script' = <<>>
      BY <2>1
    <3>3. ScriptInv'
      BY <2>1, <3>2 DEF ScriptInv
    <3>4. OrderInv'
      BY <3>2 DEF OrderInv
    <3> QED
      BY <3>1, <3>3, <3>4, Zenon DEF PlanInv
  <2>3. Unnoticed
    BY <2>1, Zenon DEF Unnoticed, Live, Gone, Pending
  <2> QED
    BY <2>2, <2>3
<1> QED
  BY <1>1, <1>2

\* Every step is of one of these kinds, and keeps the plan.
LEMMA StepKinds ==
    ASSUME LeastExists, TypeInv, TypeInv', PlanInv, ListInv, [Next]_vars
    PROVE  /\ PlanInv'
           /\ \/ Unnoticed \/ Tells \/ HandleCommand
              \/ \E r \in InputResource : Loses(r) \/ Gains("Offer", r) \/ Gains("Resume", r)
<1>0. Live \subseteq InputResource
  BY NamesType
<1>1. CASE \/ World \/ Wakeup \/ Probe \/ ProbeFails \/ DevicesDone \/ EndPass
           \/ UNCHANGED vars
  BY <1>1, QuietKinds
<1>2. CASE HandleCommand
  <2>1. UNCHANGED <<inputs, parked, stage, unswept, script>>
    BY <1>2 DEF HandleCommand, inventoryVars, passVars
  <2> QED
    BY <1>2, <2>1, OthersKeepPlan, ZenonT(40)
<1>3. CASE Examine
  BY <1>0, <1>3, ExamineKinds
<1>4. CASE \E p \in Path : Sweep(p)
  BY <1>0, <1>4, SweepKinds
<1>5. CASE Adopt
  BY <1>5, AdoptKinds
<1>6. CASE Resume
  BY <1>6, ResumeKinds
<1>7. CASE Reopen
  BY <1>7, ReopenKinds
<1>8. CASE Tells
  BY <1>8, TellsKeepPlan
<1> QED
  BY <1>1, <1>2, <1>3, <1>4, <1>5, <1>6, <1>7, <1>8 DEF Next, Reconciler, Pass, Tells

-----------------------------------------------------------------------------
(* The list and the fd table.                                              *)

\* The list and the fds follow the live names up to the pending writes.
LEMMA ListPreserved ==
    ASSUME LeastExists, TypeInv, TypeInv', PlanInv, ListInv, [Next]_vars
    PROVE  ListInv'
<1>1. CASE Unnoticed
  BY <1>1, ZenonT(40) DEF Unnoticed, ListInv, Telling
<1>2. ASSUME NEW r \in InputResource, Loses(r)
      PROVE  ListInv'
  <2>1. /\ Pending("unlist") = {} /\ Pending("drop") = {} /\ Pending("list") = {}
        /\ Pending("unlist")' = {r} /\ Pending("drop")' = {r} /\ Pending("list")' = {}
    BY <1>2, Zenon DEF Loses, Telling
  <2> QED
    BY <1>2, <2>1 DEF Loses, ListInv
<1>3. ASSUME NEW c \in {"Offer", "Resume"}, NEW r \in InputResource, Gains(c, r)
      PROVE  ListInv'
  <2>1. /\ Pending("unlist") = {} /\ Pending("drop") = {} /\ Pending("list") = {}
        /\ Pending("unlist")' = {} /\ Pending("drop")' = {} /\ Pending("list")' = {r}
    BY <1>3, Zenon DEF Gains, Telling
  <2>2. /\ Live' = Live \cup {r} /\ DOMAIN registry' = DOMAIN registry \cup {r}
        /\ advertised' = advertised
    BY <1>3, Zenon DEF Gains
  <2> QED
    BY <2>1, <2>2, Zenon DEF ListInv
<1>4. CASE Tells
  <2>1. /\ script # <<>> /\ script' = Tail(script) /\ script \in Seq(Step)
        /\ Live' = Live /\ Gone' = Gone
    BY <1>4, TellsKeepPlan
  <2> DEFINE h == Head(script)
  <2>2. \A w : /\ h.do # w => Pending(w)' = Pending(w)
               /\ h.do = w => Pending(w) = Pending(w)' \cup {h.resource}
    BY <2>1, StepTaken, Zenon DEF Pending
  <2>3. Live \cap Gone = {}
    BY LiveOrGone DEF PlanInv
  <2>4. CASE h.do = "list" /\ advertised' = advertised \cup {h.resource} /\ UNCHANGED registry
    <3>1. /\ Pending("list") = Pending("list")' \cup {h.resource}
          /\ Pending("unlist")' = Pending("unlist") /\ Pending("drop")' = Pending("drop")
      BY <2>2, <2>4, ZenonT(40)
    <3> HIDE DEF h
    <3> QED
      BY <2>1, <2>4, <3>1, Zenon DEF ListInv
  <2>5. CASE h.do = "unlist" /\ advertised' = advertised \ {h.resource} /\ UNCHANGED registry
    <3>1. /\ Pending("unlist") = Pending("unlist")' \cup {h.resource}
          /\ Pending("list")' = Pending("list") /\ Pending("drop")' = Pending("drop")
      BY <2>2, <2>5, ZenonT(40)
    <3> HIDE DEF h
    <3> QED
      BY <2>1, <2>3, <2>5, <3>1 DEF ListInv
  <2>6. CASE DropFd
    <3>1. /\ h.do = "drop" /\ DOMAIN registry' = DOMAIN registry \ {h.resource}
          /\ advertised' = advertised
      BY <2>6, Zenon DEF DropFd, Doing, Remove
    <3>2. /\ Pending("drop") = Pending("drop")' \cup {h.resource}
          /\ Pending("list")' = Pending("list") /\ Pending("unlist")' = Pending("unlist")
      BY <2>2, <3>1, Zenon
    <3> HIDE DEF h
    <3> QED
      BY <2>1, <2>3, <3>1, <3>2, Zenon DEF ListInv
  <2>7. CASE Tell \/ PushList
    <3>1. /\ h.do \notin {"list", "unlist", "drop"}
          /\ UNCHANGED <<advertised, registry>>
      BY <2>7, Zenon DEF Tell, PushList, Send, Doing, inventoryVars
    <3>2. /\ Pending("list")' = Pending("list") /\ Pending("unlist")' = Pending("unlist")
          /\ Pending("drop")' = Pending("drop")
      BY <2>2, <3>1
    <3> QED
      BY <2>1, <3>1, <3>2, Zenon DEF ListInv
  <2> QED
    BY <1>4, <2>4, <2>5, <2>6, <2>7, Zenon DEF Tells, ListStep, Doing
<1>5. CASE HandleCommand
  <2>1. UNCHANGED <<inputs, parked, registry, advertised, script>>
    BY <1>5, Zenon DEF HandleCommand, inventoryVars, passVars
  <2> QED
    BY <2>1, ZenonT(40) DEF ListInv, Live, Gone, Pending
<1> QED
  BY <1>1, <1>2, <1>3, <1>4, <1>5, StepKinds, Zenon

-----------------------------------------------------------------------------
(* The watch.                                                              *)

\* A change is seen, or an event of the watch or a pass is still to come for it.
LEMMA WatchPreserved ==
    ASSUME WatchInv, [Next]_vars
    PROVE  WatchInv'
<1> USE DEF watchVars, WatchInv
<1>1. CASE UNCHANGED <<watching, events, unseen, stage>>
  BY <1>1
<1>2. CASE World
  <2>1. CASE UNCHANGED watchVars /\ UNCHANGED stage
    BY <2>1, Zenon
  <2>2. CASE Noticed /\ Change
    BY <2>2, Zenon DEF Noticed, Change
  <2> QED
    BY <1>2, <2>1, <2>2, Zenon DEF World, Vanish, Plug, Unplug, RemoveNode, RecreateNode,
       BecomesReady, Change
<1>3. CASE Wakeup
  BY <1>3 DEF Wakeup, StartWatch, ReadEvents, Coalesce, SafetyTick, WatchFails, PollTick,
     RetryTick, Wake
<1>4. CASE Probe \/ ProbeFails
  BY <1>4, Zenon DEF Probe, ProbeFails, BeginPass
<1>5. CASE DevicesDone \/ EndPass
  BY <1>5 DEF DevicesDone, EndPass
<1>6. CASE UNCHANGED vars
  BY <1>6, ZenonT(40) DEF vars
<1> QED
  BY <1>1, <1>2, <1>3, <1>4, <1>5, <1>6, Zenon DEF Next, Reconciler, Pass, Examine, Adopt, Resume,
     Reopen, ListStep, DropFd, Tell, PushList, Send, Sweep, HandleCommand

-----------------------------------------------------------------------------
(* What the engine knows.                                                  *)

\* A command that is sent does not disturb the ones before it.
LEMMA SentLast ==
    ASSUME mailbox \in Seq(Command), NEW m, mailbox' = Append(mailbox, m), UNCHANGED offered,
           NEW n, n = Len(mailbox) + 1
    PROVE  /\ DOMAIN mailbox' = DOMAIN mailbox \cup {n}
           /\ mailbox'[n] = m
           /\ \A i \in DOMAIN mailbox : mailbox'[i] = mailbox[i]
           /\ \A r : Known(r) => Known(r)' /\ KnownAt(n, r)'
           /\ \A i \in DOMAIN mailbox : \A r : KnownAt(i, r) => KnownAt(i, r)'
<1>1. /\ Len(mailbox) \in Nat /\ DOMAIN mailbox = 1 .. Len(mailbox)
      /\ DOMAIN mailbox' = 1 .. n
      /\ mailbox'[n] = m
      /\ \A i \in DOMAIN mailbox : mailbox'[i] = mailbox[i]
  OBVIOUS
<1>2. DOMAIN mailbox' = DOMAIN mailbox \cup {n}
  BY <1>1, SMTT(30)
<1>3. ASSUME NEW r, Known(r)
      PROVE  Known(r)' /\ KnownAt(n, r)'
  <2>1. CASE r \in offered
    BY <2>1, Zenon DEF Known, KnownAt
  <2>2. CASE \E j \in DOMAIN mailbox : mailbox[j] = [cmd |-> "Offer", resource |-> r]
    <3>1. PICK j \in DOMAIN mailbox : mailbox[j] = [cmd |-> "Offer", resource |-> r]
      BY <2>2, ZenonT(40)
    <3>2. /\ j \in DOMAIN mailbox' /\ j \in 1 .. n - 1
          /\ mailbox'[j] = [cmd |-> "Offer", resource |-> r]
      BY <1>1, <3>1
    <3>3. Known(r)'
      BY <3>2, Zenon DEF Known
    <3> QED
      BY <1>1, <3>2, <3>3, Zenon DEF KnownAt
  <2> QED
    BY <1>3, <2>1, <2>2, Zenon DEF Known
<1>4. ASSUME NEW i \in DOMAIN mailbox, NEW r, KnownAt(i, r)
      PROVE  KnownAt(i, r)'
  <2>1. \A j \in 1 .. i - 1 : mailbox'[j] = mailbox[j]
    BY <1>1
  <2> QED
    BY <1>4, <2>1, Zenon DEF KnownAt
<1> QED
  BY <1>1, <1>2, <1>3, <1>4, Zenon

\* A command that is handled takes effect before the ones behind it.
LEMMA HandledFirst ==
    ASSUME mailbox \in Seq(Command), HandleCommand
    PROVE  /\ DOMAIN mailbox' = 1 .. Len(mailbox) - 1 /\ Len(mailbox) \in Nat
           /\ \A i \in DOMAIN mailbox' :
                 i + 1 \in DOMAIN mailbox /\ mailbox'[i] = mailbox[i + 1]
           /\ \A r : Known(r) => Known(r)'
           /\ \A i \in DOMAIN mailbox' : \A r : KnownAt(i + 1, r) => KnownAt(i, r)'
<1>1. /\ mailbox # <<>> /\ mailbox' = Tail(mailbox)
      /\ Len(mailbox) \in Nat /\ DOMAIN mailbox = 1 .. Len(mailbox)
      /\ DOMAIN mailbox' = 1 .. Len(mailbox) - 1
      /\ \A i \in DOMAIN mailbox' : mailbox'[i] = mailbox[i + 1]
      /\ Head(mailbox) = mailbox[1]
  BY DEF HandleCommand
<1>2. offered \subseteq offered'
  BY ZenonT(40) DEF HandleCommand
<1>3. \A r : mailbox[1] = [cmd |-> "Offer", resource |-> r] => r \in offered'
  BY <1>1 DEF HandleCommand
<1>4. ASSUME NEW r, NEW j \in DOMAIN mailbox, mailbox[j] = [cmd |-> "Offer", resource |-> r]
      PROVE  \/ r \in offered'
             \/ j - 1 \in DOMAIN mailbox' /\ mailbox'[j - 1] = [cmd |-> "Offer", resource |-> r]
  <2>1. CASE j = 1
    BY <1>3, <1>4, <2>1, Zenon
  <2>2. CASE j # 1
    <3>1. j - 1 \in DOMAIN mailbox' /\ mailbox'[j - 1] = mailbox[j]
      BY <1>1, <2>2
    <3> QED
      BY <1>4, <3>1
  <2> QED
    BY <2>1, <2>2, Zenon
<1>5. \A r : Known(r) => Known(r)'
  BY <1>2, <1>4, Zenon DEF Known
<1>6. ASSUME NEW i \in DOMAIN mailbox', NEW r, KnownAt(i + 1, r)
      PROVE  KnownAt(i, r)'
  <2>1. CASE r \in offered
    BY <1>2, <2>1, ZenonT(40) DEF KnownAt
  <2>2. CASE \E j \in 1 .. (i + 1) - 1 : mailbox[j] = [cmd |-> "Offer", resource |-> r]
    <3>1. PICK j \in 1 .. i : mailbox[j] = [cmd |-> "Offer", resource |-> r]
      BY <1>1, <2>2
    <3>2. j \in DOMAIN mailbox
      BY <1>1, SMTT(30)
    <3>3. CASE r \in offered'
      BY <3>3, Zenon DEF KnownAt
    <3>4. CASE j - 1 \in DOMAIN mailbox' /\ mailbox'[j - 1] = [cmd |-> "Offer", resource |-> r]
      <4>1. j - 1 \in 1 .. i - 1
        BY <1>1, <3>4
      <4> QED
        BY <3>4, <4>1, Zenon DEF KnownAt
    <3> QED
      BY <1>4, <3>1, <3>2, <3>3, <3>4, Zenon
  <2>3. r \in offered \/ \E j \in 1 .. (i + 1) - 1 : mailbox[j] = [cmd |-> "Offer", resource |-> r]
    BY <1>6, Zenon DEF KnownAt
  <2> QED
    BY <2>1, <2>2, <2>3
<1>7. \A i \in DOMAIN mailbox' : i + 1 \in DOMAIN mailbox
  BY <1>1
<1> QED
  BY <1>1, <1>5, <1>6, <1>7, ZenonT(40)

\* A name is offered in the mailbox before anything else that is said of it.
LEMMA OfferPreserved ==
    ASSUME LeastExists, TypeInv, TypeInv', PlanInv, ListInv, OfferInv, [Next]_vars
    PROVE  OfferInv'
<1>0. Names = Live \cup Gone /\ Names' = Live' \cup Gone'
  <2>1. PlanInv'
    BY StepKinds
  <2>2. Names = Live \cup Gone
    BY LiveOrGone DEF PlanInv
  <2>3. Names' = Live' \cup Gone'
    BY DEF Names, Live, Gone
  <2> QED
    BY <2>2, <2>3
<1>1. CASE Unnoticed
  <2>1. /\ Names' = Names /\ UNCHANGED <<mailbox, offered>>
        /\ \A w \in Telling : Pending(w)' = Pending(w)
    BY <1>0, <1>1, ZenonT(40) DEF Unnoticed
  <2>2. \A r : (Known(r)' <=> Known(r)) /\ \A i : KnownAt(i, r)' <=> KnownAt(i, r)
    BY <2>1 DEF Known, KnownAt
  <2> QED
    BY <2>1, <2>2, Zenon DEF OfferInv, Telling
<1>2. ASSUME NEW r \in InputResource, Loses(r)
      PROVE  OfferInv'
  <2>1. /\ Names' = Names /\ UNCHANGED <<mailbox, offered>> /\ r \in Names
        /\ Pending("Offer") = {}
        /\ Pending("Offer")' = {} /\ Pending("Suspend")' = {r} /\ Pending("Resume")' = {}
    BY <1>0, <1>2, Zenon DEF Loses, Telling
  <2>2. \A s : (Known(s)' <=> Known(s)) /\ \A i : KnownAt(i, s)' <=> KnownAt(i, s)
    BY <2>1 DEF Known, KnownAt
  <2> QED
    BY <2>1, <2>2, Zenon DEF OfferInv
<1>3. ASSUME NEW r \in InputResource, Gains("Offer", r)
      PROVE  OfferInv'
  <2>1. /\ Names' \subseteq Names \cup {r} /\ UNCHANGED <<mailbox, offered>>
        /\ Pending("Offer") = {}
        /\ Pending("Offer")' = {r} /\ Pending("Suspend")' = {} /\ Pending("Resume")' = {}
    BY <1>0, <1>3, ZenonT(40) DEF Gains, Telling
  <2>2. \A s : (Known(s)' <=> Known(s)) /\ \A i : KnownAt(i, s)' <=> KnownAt(i, s)
    BY <2>1 DEF Known, KnownAt
  <2> QED
    BY <2>1, <2>2 DEF OfferInv
<1>4. ASSUME NEW r \in InputResource, Gains("Resume", r)
      PROVE  OfferInv'
  <2>1. /\ Names' \subseteq Names /\ r \in Names /\ UNCHANGED <<mailbox, offered>>
        /\ Pending("Offer") = {}
        /\ Pending("Offer")' = {} /\ Pending("Suspend")' = {} /\ Pending("Resume")' = {r}
    BY <1>0, <1>4, ZenonT(40) DEF Gains, Telling
  <2>2. \A s : (Known(s)' <=> Known(s)) /\ \A i : KnownAt(i, s)' <=> KnownAt(i, s)
    BY <2>1 DEF Known, KnownAt
  <2> QED
    BY <2>1, <2>2, Zenon DEF OfferInv
<1>5. CASE HandleCommand
  <2>1. UNCHANGED <<inputs, parked, script>> /\ mailbox \in Seq(Command)
    BY <1>5, ZenonT(40) DEF HandleCommand, inventoryVars, passVars, TypeInv, TypeOK
  <2>2. Names' = Names /\ \A w : Pending(w)' = Pending(w)
    BY <2>1 DEF Names, Pending
  <2>3. /\ \A i \in DOMAIN mailbox' :
              i + 1 \in DOMAIN mailbox /\ mailbox'[i] = mailbox[i + 1]
        /\ \A r : Known(r) => Known(r)'
        /\ \A i \in DOMAIN mailbox' : \A r : KnownAt(i + 1, r) => KnownAt(i, r)'
    BY <1>5, <2>1, HandledFirst, Zenon
  <2>4. ASSUME NEW i \in DOMAIN mailbox', NEW r \in Mentions(mailbox'[i])
        PROVE  KnownAt(i, r)'
    BY <2>3, <2>4, ZenonT(40) DEF OfferInv
  <2>5. \A i \in DOMAIN mailbox' : Mentions(mailbox'[i]) = Mentions(mailbox[i])'
    BY DEF Mentions
  <2> QED
    BY <2>2, <2>3, <2>4, <2>5, Zenon DEF OfferInv
<1>6. CASE Tells
  <2>1. /\ script # <<>> /\ script' = Tail(script) /\ script \in Seq(Step)
        /\ Names' = Names /\ mailbox \in Seq(Command)
    BY <1>0, <1>6, TellsKeepPlan, Zenon DEF TypeInv, TypeOK
  <2> DEFINE h == Head(script)
  <2>2. \A w : /\ h.do # w => Pending(w)' = Pending(w)
               /\ h.do = w => Pending(w) = Pending(w)' \cup {h.resource}
    BY <2>1, StepTaken, Zenon DEF Pending
  <2>3. CASE ListStep \/ DropFd
    <3>1. UNCHANGED <<mailbox, offered>> /\ h.do \in {"list", "unlist", "drop"}
      BY <2>3, ZenonT(40) DEF ListStep, DropFd, Doing, engineVars
    <3>2. \A s : (Known(s)' <=> Known(s)) /\ \A i : KnownAt(i, s)' <=> KnownAt(i, s)
      BY <3>1 DEF Known, KnownAt
    <3>3. \A w \in {"Offer", "Suspend", "Resume"} : Pending(w)' = Pending(w)
      BY <2>2, <3>1, Zenon
    <3> QED
      BY <2>1, <3>1, <3>2, <3>3, Zenon DEF OfferInv
  <2>4. ASSUME NEW m, mailbox' = Append(mailbox, m), UNCHANGED offered,
               \A r \in Mentions(m) : Known(r),
               \A r \in Pending("Offer") \ Pending("Offer")' : Known(r)'
        PROVE  OfferInv'
    <3>0. PICK n : n = Len(mailbox) + 1
      OBVIOUS
    <3>1. /\ DOMAIN mailbox' = DOMAIN mailbox \cup {n} /\ mailbox'[n] = m
          /\ \A i \in DOMAIN mailbox : mailbox'[i] = mailbox[i]
          /\ \A r : Known(r) => Known(r)' /\ KnownAt(n, r)'
          /\ \A i \in DOMAIN mailbox : \A r : KnownAt(i, r) => KnownAt(i, r)'
      BY <2>1, <2>4, <3>0, SentLast, ZenonT(40)
    <3>2. \A w : Pending(w)' \subseteq Pending(w)
      BY <2>2
    <3>3. ASSUME NEW i \in DOMAIN mailbox', NEW r \in Mentions(mailbox'[i])
          PROVE  KnownAt(i, r)'
      <4>1. CASE i = n
        BY <2>4, <3>1, <3>3, <4>1, Zenon
      <4>2. CASE i \in DOMAIN mailbox
        BY <3>1, <3>3, <4>2, Zenon DEF OfferInv
      <4> QED
        BY <3>1, <4>1, <4>2, Zenon
    <3>4. \A i \in DOMAIN mailbox' : Mentions(mailbox'[i]) = Mentions(mailbox[i])'
      BY DEF Mentions
    <3>5. \A r \in Names' : Known(r)' \/ r \in Pending("Offer")'
      BY <2>1, <2>4, <3>1, Zenon DEF OfferInv
    <3>6. \A r \in Pending("Suspend")' \cup Pending("Resume")' : Known(r)'
      BY <3>1, <3>2, Zenon DEF OfferInv
    <3> QED
      BY <3>3, <3>4, <3>5, <3>6, Zenon DEF OfferInv
  <2>5. CASE Tell
    <3> DEFINE m == [cmd |-> h.do, resource |-> h.resource]
    <3>1. /\ mailbox' = Append(mailbox, m) /\ UNCHANGED offered
          /\ h.do \in {"Offer", "Suspend", "Resume"}
      BY <2>5, Zenon DEF Tell, Send, Doing
    <3>2. \A r \in Mentions(m) : Known(r)
      <4>1. CASE h.do = "Offer"
        BY <4>1, Zenon DEF Mentions
      <4>2. CASE h.do \in {"Suspend", "Resume"}
        <5>1. h.resource \in Pending("Suspend") \cup Pending("Resume")
          BY <2>2, <4>2, ZenonT(40)
        <5>2. Mentions(m) = {h.resource}
          BY <4>2 DEF Mentions
        <5> QED
          BY <5>1, <5>2, Zenon DEF OfferInv
      <4> QED
        BY <3>1, <4>1, <4>2, Zenon
    <3>3. \A r \in Pending("Offer") \ Pending("Offer")' : Known(r)'
      <4>1. ASSUME NEW r \in Pending("Offer"), r \notin Pending("Offer")'
            PROVE  m = [cmd |-> "Offer", resource |-> r]
        BY <2>2, <4>1
      <4>2. /\ Len(mailbox) + 1 \in DOMAIN mailbox'
            /\ mailbox'[Len(mailbox) + 1] = m
        <5> HIDE DEF m
        <5> QED
          BY <2>1, <3>1
      <4> QED
        BY <4>1, <4>2, ZenonT(40) DEF Known
    <3> HIDE DEF m
    <3> QED
      BY <2>4, <3>1, <3>2, <3>3
  <2>6. CASE PushList
    <3> DEFINE m == [cmd |-> "Broadcast", resources |-> advertised]
    <3>1. /\ mailbox' = Append(mailbox, m) /\ UNCHANGED offered /\ h.do = "push"
      BY <2>6 DEF PushList, Send, Doing
    <3>2. Pending("Offer") = {}
      <4>1. 1 \in DOMAIN script /\ h = script[1] /\ DOMAIN script = 1 .. Len(script)
            /\ Len(script) \in Nat
        BY <2>1, SMTT(30)
      <4>2. \A j \in DOMAIN script : script[j].do # "Offer"
        BY <3>1, <4>1 DEF PlanInv, OrderInv
      <4> QED
        BY <4>2, NoneLeft, Zenon
    <3>3. advertised \subseteq Names
      BY <1>0, Zenon DEF ListInv
    <3>4. \A r \in Mentions(m) : Known(r)
      BY <3>2, <3>3, Zenon DEF Mentions, OfferInv
    <3> HIDE DEF m
    <3> QED
      BY <2>4, <3>1, <3>2, <3>4, Zenon
  <2> QED
    BY <1>6, <2>3, <2>5, <2>6 DEF Tells
<1> QED
  BY <1>1, <1>2, <1>3, <1>4, <1>5, <1>6, StepKinds

-----------------------------------------------------------------------------
(* What the engine is told.                                                *)

AboutIn(box, r) ==
    {i \in DOMAIN box : box[i].cmd \in {"Suspend", "Resume"} /\ box[i].resource = r}

LastAbout(box, r) == CHOOSE i \in AboutIn(box, r) : \A j \in AboutIn(box, r) : j <= i

\* Told, of any mailbox and any flag of the engine's.
ToldIn(box, flag, r) ==
    IF AboutIn(box, r) = {} THEN flag ELSE box[LastAbout(box, r)].cmd = "Suspend"

\* What the engine was told last of a name, as a function of the mailbox.
LEMMA ToldIsToldIn == \A r : Told(r) = ToldIn(mailbox, suspended[r], r)
BY Zenon DEF Told, ToldIn, LastAbout, AboutIn

\* The last command about r decides.
LEMMA LastDecides ==
    ASSUME NEW box \in Seq(Command), NEW r, NEW flag,
           NEW i \in AboutIn(box, r), \A j \in AboutIn(box, r) : j <= i
    PROVE  ToldIn(box, flag, r) = (box[i].cmd = "Suspend")
<1>1. AboutIn(box, r) \subseteq Int
  BY DEF AboutIn
<1> DEFINE k == LastAbout(box, r)
<1>2. k \in AboutIn(box, r) /\ \A j \in AboutIn(box, r) : j <= k
  BY DEF LastAbout
<1> HIDE DEF k
<1>3. k = i
  BY <1>1, <1>2
<1> QED
  BY <1>3 DEF ToldIn, k

\* There is a last command about r when there is one.
LEMMA LastIsThere ==
    ASSUME LeastExists, NEW box \in Seq(Command), NEW r, AboutIn(box, r) # {}
    PROVE  \E i \in AboutIn(box, r) : \A j \in AboutIn(box, r) : j <= i
<1> DEFINE S == {Len(box) - i : i \in AboutIn(box, r)}
<1>1. Len(box) \in Nat /\ AboutIn(box, r) \subseteq 1 .. Len(box)
  BY DEF AboutIn
<1>2. S \in SUBSET Nat /\ S # {}
  BY <1>1
<1>3. PICK x : x \in S /\ \A y \in S : x <= y
  <2> HIDE DEF S
  <2> QED
    BY <1>2, LowestIsOne, Zenon
<1>4. PICK i \in AboutIn(box, r) : x = Len(box) - i
  BY <1>3
<1>5. ASSUME NEW j \in AboutIn(box, r)
      PROVE  j <= i
  <2>1. Len(box) - j \in S
    BY Zenon
  <2>2. Len(box) - i <= Len(box) - j
    BY <1>3, <1>4, <2>1, ZenonT(40)
  <2> QED
    BY <1>1, <2>2
<1> QED
  BY <1>5, Zenon

\* A command that is sent decides if it is about r, and changes nothing if not.
LEMMA SentTells ==
    ASSUME LeastExists, NEW box \in Seq(Command), NEW m \in Command, NEW r, NEW flag,
           NEW longer, longer = Append(box, m)
    PROVE  /\ m.cmd \in {"Suspend", "Resume"} /\ m.resource = r =>
                 (ToldIn(longer, flag, r) <=> m.cmd = "Suspend")
           /\ ~(m.cmd \in {"Suspend", "Resume"} /\ m.resource = r) =>
                 ToldIn(longer, flag, r) = ToldIn(box, flag, r)
<1>0. PICK n : n = Len(box) + 1
  OBVIOUS
<1>1. /\ longer \in Seq(Command)
      /\ Len(box) \in Nat /\ DOMAIN box = 1 .. Len(box) /\ DOMAIN longer = 1 .. n
      /\ longer[n] = m /\ n \in Int
      /\ \A i \in DOMAIN box : longer[i] = box[i] /\ i <= n
  BY <1>0
<1>2. CASE m.cmd \in {"Suspend", "Resume"} /\ m.resource = r
  <2>1. n \in AboutIn(longer, r)
    BY <1>0, <1>1, <1>2 DEF AboutIn
  <2>2. \A j \in AboutIn(longer, r) : j <= n
    BY <1>1 DEF AboutIn
  <2>3. ToldIn(longer, flag, r) = (longer[n].cmd = "Suspend")
    BY <1>1, <2>1, <2>2, LastDecides, ZenonT(40)
  <2> QED
    BY <1>1, <1>2, <2>3, Zenon
<1>3. CASE ~(m.cmd \in {"Suspend", "Resume"} /\ m.resource = r)
  <2>1. AboutIn(longer, r) = AboutIn(box, r)
    <3>1. DOMAIN longer = DOMAIN box \cup {n}
      BY <1>0, <1>1
    <3> QED
      BY <1>1, <1>3, <3>1, Zenon DEF AboutIn
  <2>2. CASE AboutIn(box, r) = {}
    BY <1>3, <2>1, <2>2, Zenon DEF ToldIn
  <2>3. CASE AboutIn(box, r) # {}
    <3>1. PICK i \in AboutIn(box, r) : \A j \in AboutIn(box, r) : j <= i
      BY <2>3, LastIsThere, Zenon
    <3>2. ToldIn(box, flag, r) = (box[i].cmd = "Suspend")
      BY <3>1, LastDecides, Zenon
    <3>3. ToldIn(longer, flag, r) = (longer[i].cmd = "Suspend")
      <4>1. longer \in Seq(Command)
        BY <1>1, Zenon
      <4>2. i \in AboutIn(longer, r) /\ \A j \in AboutIn(longer, r) : j <= i
        BY <2>1, <3>1, Zenon
      <4> QED
        BY <4>1, <4>2, LastDecides, Zenon
    <3>4. longer[i] = box[i]
      BY <1>1, Zenon DEF AboutIn
    <3> QED
      BY <1>3, <3>2, <3>3, <3>4, Zenon
  <2> QED
    BY <2>2, <2>3
<1> QED
  BY <1>2, <1>3

\* Handling the oldest command moves what it says into the flag.
LEMMA HandledTells ==
    ASSUME LeastExists, NEW box \in Seq(Command), box # <<>>, NEW r, NEW flag,
           NEW rest, rest = Tail(box),
           NEW new, new = IF Head(box).cmd \in {"Suspend", "Resume"} /\ Head(box).resource = r
                          THEN Head(box).cmd = "Suspend" ELSE flag
    PROVE  ToldIn(rest, new, r) = ToldIn(box, flag, r)
<1>1. /\ rest \in Seq(Command)
      /\ Len(box) \in Nat /\ DOMAIN box = 1 .. Len(box) /\ DOMAIN rest = 1 .. Len(box) - 1
      /\ \A i \in DOMAIN rest : rest[i] = box[i + 1]
      /\ Head(box) = box[1] /\ 1 \in DOMAIN box
  OBVIOUS
<1>2. \A i \in DOMAIN rest : i \in AboutIn(rest, r) <=> i + 1 \in AboutIn(box, r)
  <2>1. \A i \in DOMAIN rest : i + 1 \in DOMAIN box
    BY <1>1
  <2> QED
    BY <1>1, <2>1 DEF AboutIn
<1>3. \A i \in AboutIn(box, r) : i # 1 => i - 1 \in AboutIn(rest, r)
  <2>1. SUFFICES ASSUME NEW i \in AboutIn(box, r), i # 1
                 PROVE  i - 1 \in AboutIn(rest, r)
    BY Zenon
  <2>2. i \in 1 .. Len(box)
    BY <1>1, Zenon DEF AboutIn
  <2>3. i - 1 \in DOMAIN rest /\ (i - 1) + 1 = i
    BY <1>1, <2>1, <2>2
  <2> QED
    BY <1>2, <2>3, Zenon
<1>4. CASE AboutIn(rest, r) = {}
  <2>1. AboutIn(box, r) \subseteq {1}
    BY <1>3, <1>4, Zenon
  <2>2. CASE 1 \in AboutIn(box, r)
    <3>1. ToldIn(box, flag, r) = (box[1].cmd = "Suspend")
      <4>1. \A j \in AboutIn(box, r) : j <= 1
        BY <2>1
      <4> QED
        BY <2>2, <4>1, LastDecides
    <3>2. new = (box[1].cmd = "Suspend")
      BY <1>1, <2>2, Zenon DEF AboutIn
    <3> QED
      BY <1>4, <3>1, <3>2 DEF ToldIn
  <2>3. CASE 1 \notin AboutIn(box, r)
    <3>1. new = flag
      BY <1>1, <2>3 DEF AboutIn
    <3>2. AboutIn(box, r) = {}
      BY <2>1, <2>3, ZenonT(40)
    <3> QED
      BY <1>4, <3>1, <3>2 DEF ToldIn
  <2> QED
    BY <2>2, <2>3, Zenon
<1>5. CASE AboutIn(rest, r) # {}
  <2>1. PICK i \in AboutIn(rest, r) : \A j \in AboutIn(rest, r) : j <= i
    BY <1>1, <1>5, LastIsThere, ZenonT(40)
  <2>2. i \in DOMAIN rest /\ i \in Nat \ {0}
    BY <1>1 DEF AboutIn
  <2>3. i + 1 \in AboutIn(box, r)
    BY <1>2, <2>1, <2>2
  <2>4. ASSUME NEW j \in AboutIn(box, r)
        PROVE  j <= i + 1
    <3>1. j \in Int
      BY DEF AboutIn
    <3> QED
      BY <1>3, <2>1, <2>2, <3>1
  <2>5. ToldIn(rest, new, r) = (rest[i].cmd = "Suspend")
    <3>1. rest \in Seq(Command)
      BY <1>1
    <3>2. PICK f : f = new
      OBVIOUS
    <3>3. ToldIn(rest, f, r) = (rest[i].cmd = "Suspend")
      BY <2>1, <3>1, LastDecides, Zenon
    <3> QED
      BY <3>2, <3>3, ZenonT(40)
  <2>6. ToldIn(box, flag, r) = (box[i + 1].cmd = "Suspend")
    BY <2>3, <2>4, LastDecides, Zenon
  <2> QED
    BY <1>1, <2>2, <2>5, <2>6
<1> QED
  BY <1>4, <1>5

\* No flag changes behind the reconciler's back: what it has said of a name is
\* neither lost nor changed by the engine's handling of it.
LEMMA HandlingKeepsTold ==
    ASSUME LeastExists, TypeInv, OfferInv, HandleCommand, NEW r \in InputResource
    PROVE  Told(r)' = Told(r)
<1> DEFINE m == Head(mailbox)
           about == m.cmd \in {"Suspend", "Resume"} /\ m.resource = r
<1>1. /\ mailbox \in Seq(Command) /\ mailbox # <<>> /\ mailbox' = Tail(mailbox)
      /\ suspended \in [InputResource -> BOOLEAN]
      /\ m = mailbox[1] /\ 1 \in DOMAIN mailbox
  <2>1. mailbox \in Seq(Command) /\ suspended \in [InputResource -> BOOLEAN]
    BY Zenon DEF TypeInv, TypeOK
  <2>2. mailbox # <<>> /\ mailbox' = Tail(mailbox)
    BY ZenonT(40) DEF HandleCommand
  <2> QED
    BY <2>1, <2>2
<1>2. ASSUME about
      PROVE  r \in offered
  <2>1. r \in Mentions(mailbox[1])
    BY <1>1, <1>2 DEF Mentions
  <2>2. KnownAt(1, r)
    BY <1>1, <2>1 DEF OfferInv
  <2>3. r \in offered \/ \E j \in 1 .. 1 - 1 : mailbox[j] = [cmd |-> "Offer", resource |-> r]
    BY <2>2, Zenon DEF KnownAt
  <2> QED
    BY <2>3, SMTT(30)
<1>3. suspended'[r] = IF about THEN m.cmd = "Suspend" ELSE suspended[r]
  <2>1. CASE m.cmd \in {"Suspend", "Resume"}
    <3>1. suspended' = IF m.resource \in offered
                       THEN [suspended EXCEPT ![m.resource] = m.cmd = "Suspend"]
                       ELSE suspended
      BY <2>1, Zenon DEF HandleCommand
    <3> QED
      BY <1>1, <1>2, <2>1, <3>1, Zenon
  <2>2. CASE m.cmd \notin {"Suspend", "Resume"}
    <3>1. suspended' = suspended
      BY <2>2 DEF HandleCommand
    <3> QED
      BY <2>2, <3>1, ZenonT(40)
  <2> QED
    BY <2>1, <2>2, Zenon
<1>4. Told(r) = ToldIn(mailbox, suspended[r], r)
  BY ToldIsToldIn
<1>5. Told(r)' = ToldIn(mailbox', suspended'[r], r)
  BY DEF Told, ToldIn, LastAbout, AboutIn
<1>6. PICK rest, new : rest = mailbox' /\ new = suspended'[r]
  OBVIOUS
<1>7. ToldIn(rest, new, r) = ToldIn(mailbox, suspended[r], r)
  BY <1>1, <1>3, <1>6, HandledTells, ZenonT(40)
<1> QED
  BY <1>4, <1>5, <1>6, <1>7

\* A command that is sent decides what was told.
LEMMA SendingTells ==
    ASSUME LeastExists, TypeInv, NEW m \in Command, mailbox' = Append(mailbox, m),
           UNCHANGED suspended, NEW r
    PROVE  /\ m.cmd \in {"Suspend", "Resume"} /\ m.resource = r =>
                 (Told(r)' <=> m.cmd = "Suspend")
           /\ ~(m.cmd \in {"Suspend", "Resume"} /\ m.resource = r) => Told(r)' = Told(r)
<1>1. mailbox \in Seq(Command)
  BY DEF TypeInv, TypeOK
<1>2. PICK longer : longer = mailbox'
  OBVIOUS
<1>3. Told(r) = ToldIn(mailbox, suspended[r], r)
  BY ToldIsToldIn
<1>4. Told(r)' = ToldIn(longer, suspended[r], r)
  <2>1. Told(r)' = ToldIn(mailbox', suspended'[r], r)
    BY Zenon DEF Told, ToldIn, LastAbout, AboutIn
  <2> QED
    BY <1>2, <2>1
<1>5. longer = Append(mailbox, m)
  BY <1>2
<1>6. /\ m.cmd \in {"Suspend", "Resume"} /\ m.resource = r =>
            (ToldIn(longer, suspended[r], r) <=> m.cmd = "Suspend")
      /\ ~(m.cmd \in {"Suspend", "Resume"} /\ m.resource = r) =>
            ToldIn(longer, suspended[r], r) = ToldIn(mailbox, suspended[r], r)
  <2>1. PICK box, flag : box = mailbox /\ flag = suspended[r]
    OBVIOUS
  <2>2. box \in Seq(Command) /\ longer = Append(box, m)
    BY <1>1, <1>5, <2>1
  <2>3. /\ m.cmd \in {"Suspend", "Resume"} /\ m.resource = r =>
              (ToldIn(longer, flag, r) <=> m.cmd = "Suspend")
        /\ ~(m.cmd \in {"Suspend", "Resume"} /\ m.resource = r) =>
              ToldIn(longer, flag, r) = ToldIn(box, flag, r)
    BY <2>2, SentTells, ZenonT(40)
  <2> QED
    BY <2>1, <2>3, Zenon
<1> QED
  BY <1>3, <1>4, <1>6, Zenon

\* The last command about a name agrees with the index up to the pending commands.
LEMMA ToldPreserved ==
    ASSUME LeastExists, TypeInv, TypeInv', PlanInv, ListInv, OfferInv, ToldInv, [Next]_vars
    PROVE  ToldInv'
<1>0. Live \subseteq InputResource /\ Gone \subseteq InputResource /\ Live \cap Gone = {}
      /\ Gone \subseteq Names
  BY NamesType, LiveOrGone, Zenon DEF PlanInv
<1>1. CASE Unnoticed
  <2>1. \A r : Told(r)' = Told(r)
    BY <1>1, SMTT(20) DEF Unnoticed, Told
  <2> QED
    BY <1>1, <2>1, ZenonT(40) DEF Unnoticed, ToldInv, Telling
<1>2. ASSUME NEW r \in InputResource, Loses(r)
      PROVE  ToldInv'
  <2>1. \A s : Told(s)' = Told(s)
    BY <1>2, ZenonT(40) DEF Loses, Told
  <2>2. /\ Pending("Suspend") = {} /\ Pending("Resume") = {}
        /\ Pending("Suspend")' = {r} /\ Pending("Resume")' = {}
    BY <1>2 DEF Loses, Telling
  <2>3. r \in DOMAIN registry /\ DOMAIN registry' = DOMAIN registry /\ Gone' = Gone \cup {r}
    BY <1>2, Zenon DEF Loses, ListInv
  <2> QED
    BY <2>1, <2>2, <2>3, Zenon DEF ToldInv
<1>3. ASSUME NEW c \in {"Offer", "Resume"}, NEW r \in InputResource, Gains(c, r)
      PROVE  ToldInv'
  <2>1. \A s : Told(s)' = Told(s)
    BY <1>3 DEF Gains, Told
  <2>2. /\ Pending("Suspend") = {} /\ Pending("Resume") = {}
        /\ Pending("Suspend")' = {}
        /\ Pending("Resume")' \subseteq {r}
        /\ r \in Names => Pending("Resume")' = {r}
    BY <1>3, ZenonT(40) DEF Gains, Telling
  <2>3. Gone' = Gone \ {r} /\ Live' = Live \cup {r}
    BY <1>3 DEF Gains
  <2> QED
    BY <1>0, <2>1, <2>2, <2>3, Zenon DEF ToldInv
<1>4. CASE HandleCommand
  <2>1. UNCHANGED <<inputs, parked, registry, script>>
    BY <1>4, ZenonT(40) DEF HandleCommand, inventoryVars, passVars
  <2>2. Gone' = Gone /\ Live' = Live /\ \A w : Pending(w)' = Pending(w)
    BY <2>1 DEF Gone, Live, Pending
  <2>3. \A r \in InputResource : Told(r)' = Told(r)
    BY <1>4, HandlingKeepsTold
  <2> QED
    BY <1>0, <2>1, <2>2, <2>3, Zenon DEF ToldInv
<1>5. CASE Tells
  <2>1. /\ script # <<>> /\ script' = Tail(script) /\ script \in Seq(Step)
        /\ Live' = Live /\ Gone' = Gone
    BY <1>5, TellsKeepPlan
  <2> DEFINE h == Head(script)
  <2>2. \A w : /\ h.do # w => Pending(w)' = Pending(w)
               /\ h.do = w => Pending(w) = Pending(w)' \cup {h.resource}
    BY <2>1, StepTaken, ZenonT(40) DEF Pending
  <2>3. ASSUME \A r : Told(r)' = Told(r), h.do \notin {"Suspend", "Resume"},
               Pending("Suspend") \cap DOMAIN registry \subseteq DOMAIN registry'
        PROVE  ToldInv'
    <3>1. Pending("Suspend")' = Pending("Suspend") /\ Pending("Resume")' = Pending("Resume")
      BY <2>2, <2>3, Zenon
    <3> QED
      BY <2>1, <2>3, <3>1 DEF ToldInv
  <2>4. CASE ListStep
    <3>1. \A r : Told(r)' = Told(r)
      BY <2>4 DEF ListStep, engineVars, Told
    <3> QED
      BY <2>3, <2>4, <3>1, ZenonT(40) DEF ListStep, Doing
  <2>5. CASE DropFd
    <3>1. \A r : Told(r)' = Told(r)
      BY <2>5 DEF DropFd, engineVars, Told
    <3>2. Pending("Suspend") = {}
      <4>1. 1 \in DOMAIN script /\ h = script[1] /\ DOMAIN script = 1 .. Len(script)
            /\ Len(script) \in Nat
        BY <2>1
      <4>2. \A j \in DOMAIN script : script[j].do # "Suspend"
        BY <2>5, <4>1 DEF PlanInv, OrderInv, DropFd, Doing
      <4> QED
        BY <4>2, NoneLeft, Zenon
    <3> QED
      BY <2>3, <2>5, <3>1, <3>2, ZenonT(40) DEF DropFd, Doing
  <2>6. CASE PushList
    <3> DEFINE m == [cmd |-> "Broadcast", resources |-> advertised]
    <3>1. /\ mailbox' = Append(mailbox, m) /\ UNCHANGED <<suspended, registry>>
          /\ h.do = "push"
      BY <2>6 DEF PushList, Send, Doing, inventoryVars
    <3>2. m \in Command /\ m.cmd = "Broadcast"
      BY Zenon DEF Command, TypeInv, TypeOK
    <3> HIDE DEF m
    <3>3. \A r : Told(r)' = Told(r)
      BY <3>1, <3>2, SendingTells
    <3> QED
      BY <2>3, <3>1, <3>3, Zenon
  <2>7. CASE Tell
    <3> DEFINE m == [cmd |-> h.do, resource |-> h.resource]
    <3>1. /\ mailbox' = Append(mailbox, m) /\ UNCHANGED <<suspended, registry>>
          /\ h.do \in {"Offer", "Suspend", "Resume"}
      BY <2>7 DEF Tell, Send, Doing, inventoryVars
    <3>2. h.resource \in InputResource
      <4>1. h \in Step
        BY <2>1
      <4> QED
        BY <3>1, <4>1, Zenon DEF Step
    <3>3. m \in Command /\ m.cmd = h.do /\ m.resource = h.resource
      BY <3>1, <3>2, Zenon DEF Command
    <3> HIDE DEF m
    <3>4. \A r : /\ h.do \in {"Suspend", "Resume"} /\ h.resource = r =>
                       (Told(r)' <=> h.do = "Suspend")
                 /\ ~(h.do \in {"Suspend", "Resume"} /\ h.resource = r) =>
                       Told(r)' = Told(r)
      BY <3>1, <3>3, SendingTells, ZenonT(40)
    <3>5. CASE h.do = "Offer"
      BY <2>3, <3>1, <3>4, <3>5
    <3>6. PICK t : t = h.resource
      BY ZenonT(40)
    <3>7. CASE h.do = "Suspend"
      <4>1. /\ Pending("Resume")' = Pending("Resume")
            /\ Pending("Suspend") = Pending("Suspend")' \cup {t}
        BY <2>2, <3>7, <3>6, Zenon
      <4>2. \A r : r # t => Told(r)' = Told(r)
        BY <3>4, <3>7, <3>6, Zenon
      <4>3. Told(t)'
        BY <3>4, <3>7, <3>6, Zenon
      <4> QED
        BY <2>1, <3>1, <4>1, <4>2, <4>3 DEF ToldInv
    <3>8. CASE h.do = "Resume"
      <4>1. /\ Pending("Suspend")' = Pending("Suspend")
            /\ Pending("Resume") = Pending("Resume")' \cup {t}
        BY <2>2, <3>8, <3>6, Zenon
      <4>2. \A r : r # t => Told(r)' = Told(r)
        BY <3>4, <3>8, <3>6, Zenon
      <4>3. ~Told(t)'
        BY <3>4, <3>8, <3>6, Zenon
      <4> QED
        BY <1>0, <2>1, <3>1, <4>1, <4>2, <4>3 DEF ToldInv
    <3> QED
      BY <3>1, <3>5, <3>7, <3>8, ZenonT(40)
  <2> QED
    BY <1>5, <2>4, <2>5, <2>6, <2>7 DEF Tells
<1> QED
  BY <1>1, <1>2, <1>3, <1>4, <1>5, StepKinds

-----------------------------------------------------------------------------
LEMMA StepHolds ==
    ASSUME LeastExists, IInv, [Next]_vars
    PROVE  IInv'
<1>1. TypeInv'
  BY TypePreserved DEF IInv
<1>2. PlanInv /\ PlanInv'
  BY <1>1, StepKinds DEF IInv, PlanInv
<1>3. ListInv'
  BY <1>1, <1>2, ListPreserved DEF IInv
<1>4. OfferInv'
  BY <1>1, <1>2, OfferPreserved DEF IInv
<1>5. ToldInv'
  BY <1>1, <1>2, ToldPreserved DEF IInv
<1>6. WatchInv'
  BY WatchPreserved DEF IInv
<1> QED
  BY <1>1, <1>2, <1>3, <1>4, <1>5, <1>6 DEF IInv, PlanInv

-----------------------------------------------------------------------------
(* What starts the invariant off.                                          *)

INSTANCE FiniteSetTheorems

\* The naturals are well-founded.
LEMMA LeastIsThere == LeastExists
<1>1. SUFFICES ASSUME NEW S \in SUBSET Nat, S # {}
               PROVE  \E i \in S : \A j \in S : i <= j
  BY DEF LeastExists
<1> DEFINE R == OpToRel(<, Nat)
<1>2. PICK x \in S : \A y \in S : ~(<<y, x>> \in R)
  <2>1. IsWellFoundedOn(R, Nat)
    BY NatLessThanWellFounded, Zenon
  <2> HIDE DEF R
  <2> QED
    BY <1>1, <2>1, WFMin, Zenon
<1>3. \A y \in S : y \in Nat
  OBVIOUS
<1>4. \A y \in S : ~(y < x)
  BY <1>2, <1>3, ZenonT(40) DEF OpToRel
<1>5. \A y \in S : x <= y
  BY <1>3, <1>4
<1> QED
  BY <1>5

-----------------------------------------------------------------------------
(* The devices found at startup.                                           *)

\* discover gives every node of a class a number of its own.
LEMMA DiscoveredOnce ==
    ASSUME NEW p \in Path, NEW q \in Path, Discovered(p) = Discovered(q)
    PROVE  p = q
<1> DEFINE Before(x) == {y \in Path : y < x /\ ProbeAll[y] = ProbeAll[x]}
<1>1. IsFiniteSet(Path) /\ Path \subseteq Int
  BY HotplugAssumption, FS_Interval DEF Path
<1>2. \A x \in Path : IsFiniteSet(Before(x)) /\ DiscoveredIndex(x) = Cardinality(Before(x))
  BY <1>1, FS_Subset, Zenon DEF DiscoveredIndex
<1>3. ASSUME NEW x \in Path, NEW y \in Path, Discovered(x) = Discovered(y)
      PROVE  ~(x < y)
  <2>1. ProbeAll[x] = ProbeAll[y] /\ DiscoveredIndex(x) = DiscoveredIndex(y)
    BY <1>3 DEF Discovered
  <2>2. SUFFICES ASSUME x < y
                 PROVE  FALSE
    OBVIOUS
  <2>3. Before(x) \in SUBSET Before(y) /\ x \in Before(y) /\ x \notin Before(x)
    <3>1. x \in Int /\ y \in Int /\ ~(x < x)
      BY <1>1
    <3>2. \A z \in Path : z < x => z < y
      BY <1>1, <2>2, <3>1
    <3> QED
      BY <2>1, <2>2, <3>1, <3>2, ZenonT(40)
  <2>4. Cardinality(Before(x)) = Cardinality(Before(y)) /\ IsFiniteSet(Before(y))
    BY <1>2, <2>1, ZenonT(40)
  <2> HIDE DEF Before
  <2>5. Before(y) = Before(x)
    BY <2>3, <2>4, FS_Subset
  <2> QED
    BY <2>3, <2>5, Zenon
<1> QED
  BY <1>1, <1>3

\* What Startup leaves: the names are well-formed, one for each node it holds.
LEMMA StartupHolds ==
    ASSUME Init
    PROVE  \E opened \in SUBSET Path :
              /\ DOMAIN inputs = opened
              /\ \A p \in opened :
                    /\ inputs[p] = [resource |-> Discovered(p), ino |-> node[p],
                                    device |-> Identity(p), gone |-> FALSE]
                    /\ Discovered(p) \in InputResource
                    /\ node[p] \in Inode /\ home[p] \in Device
              /\ advertised = {Discovered(p) : p \in opened}
              /\ DOMAIN registry = advertised
              /\ \A r \in advertised : registry[r] \in Device
<1>1. PICK opened \in SUBSET {p \in Path : ProbeAll[p] # NoClass} :
        /\ \A p \in opened : DiscoveredIndex(p) < INDEXES
        /\ inputs = [p \in opened |->
                        [resource |-> Discovered(p), ino |-> node[p],
                         device |-> Identity(p), gone |-> FALSE]]
        /\ advertised = {Discovered(p) : p \in opened}
        /\ registry = [r \in advertised |->
                          home[CHOOSE p \in opened : Discovered(p) = r]]
  BY Zenon DEF Init, TaskInit, Startup
<1>2. ASSUME NEW p \in opened
      PROVE  /\ p \in Path /\ ProbeAll[p] \in InputClass
             /\ node[p] \in Inode /\ home[p] \in Device
  <2>1. p \in Path /\ ProbeAll[p] # NoClass
    OBVIOUS
  <2>2. CanOpen(p) /\ ProbeAll[p] \in InputClass
    BY <2>1, ZenonT(40) DEF ProbeAll, Classify, InputClass, NoClass
  <2>3. node[p] = 0 /\ home[p] # NoDevice /\ home[p] \in Device \cup {NoDevice}
    BY <2>1, <2>2 DEF CanOpen, Init, TaskInit, NoNode
  <2> QED
    BY <2>1, <2>2, <2>3, ZenonT(40) DEF Inode
<1>3. ASSUME NEW p \in opened
      PROVE  Discovered(p) \in InputResource
  <2> DEFINE S == {q \in Path : q < p /\ ProbeAll[q] = ProbeAll[p]}
  <2>1. IsFiniteSet(Path)
    BY HotplugAssumption, FS_Interval DEF Path
  <2>2. IsFiniteSet(S)
    BY <2>1, FS_Subset, Zenon
  <2>3. DiscoveredIndex(p) = Cardinality(S)
    BY DEF DiscoveredIndex
  <2> HIDE DEF S
  <2>4. DiscoveredIndex(p) \in Nat
    BY <2>2, <2>3, FS_CardinalityType, ZenonT(40)
  <2>5. DiscoveredIndex(p) < INDEXES
    BY <1>1, ZenonT(40)
  <2>6. DiscoveredIndex(p) \in 0 .. INDEXES - 1
    BY <2>4, <2>5, HotplugAssumption, SMTT(30)
  <2> QED
    BY <1>2, <2>6, ZenonT(40) DEF Discovered, InputResource
<1>4. ASSUME NEW r \in advertised
      PROVE  registry[r] \in Device
  <2>1. \E p \in opened : Discovered(p) = r
    BY <1>1
  <2>2. PICK c : c = CHOOSE p \in opened : Discovered(p) = r
    OBVIOUS
  <2>3. c \in opened
    BY <2>1, <2>2
  <2>4. registry[r] = home[c]
    BY <1>1, <2>2, ZenonT(40)
  <2> QED
    BY <1>2, <2>3, <2>4, ZenonT(40)
<1>5. opened \in SUBSET Path /\ DOMAIN inputs = opened /\ DOMAIN registry = advertised
  BY <1>1, ZenonT(40)
<1>6. \A p \in opened : inputs[p] = [resource |-> Discovered(p), ino |-> node[p],
                                    device |-> Identity(p), gone |-> FALSE]
  BY <1>1, ZenonT(40)
<1> QED
  BY <1>1, <1>2, <1>3, <1>4, <1>5, <1>6, ZenonT(40)

\* The invariant holds initially.
LEMMA InitHolds ==
    ASSUME Init
    PROVE  IInv
<1>1. PICK opened \in SUBSET Path :
         /\ DOMAIN inputs = opened
         /\ \A p \in opened :
               /\ inputs[p] = [resource |-> Discovered(p), ino |-> node[p],
                               device |-> Identity(p), gone |-> FALSE]
               /\ Discovered(p) \in InputResource
               /\ node[p] \in Inode /\ home[p] \in Device
         /\ advertised = {Discovered(p) : p \in opened}
         /\ DOMAIN registry = advertised
         /\ \A r \in advertised : registry[r] \in Device
  BY StartupHolds, ZenonT(40)
<1>2. /\ script = <<>> /\ mailbox = <<>> /\ parked = {} /\ stage = "start" /\ unswept = {}
      /\ suspended = [r \in InputResource |-> FALSE] /\ offered = advertised
      /\ watching = FALSE /\ unseen = FALSE
  BY Zenon DEF Init, TaskInit
<1>3. /\ \A p \in opened : inputs[p].resource = Discovered(p) /\ inputs[p].gone = FALSE
      /\ Live = advertised /\ Gone = {} /\ Names = advertised
  <2>1. ASSUME NEW p \in opened
        PROVE  inputs[p].resource = Discovered(p) /\ inputs[p].gone = FALSE
    <3>1. inputs[p] = [resource |-> Discovered(p), ino |-> node[p],
                       device |-> Identity(p), gone |-> FALSE]
      BY <1>1, ZenonT(40)
    <3> QED
      BY <3>1, SMTT(30)
  <2>2. advertised = {inputs[p].resource : p \in opened}
    <3>1. advertised = {Discovered(p) : p \in opened}
      BY <1>1, ZenonT(40)
    <3>2. \A p \in opened : inputs[p].resource = Discovered(p)
      BY <2>1, ZenonT(40)
    <3>3. {Discovered(p) : p \in opened} = {inputs[p].resource : p \in opened}
      BY <3>2, ZenonT(30)
    <3> QED
      BY <3>1, <3>3, ZenonT(40)
  <2>3. /\ {q \in DOMAIN inputs : ~inputs[q].gone} = opened
        /\ {q \in DOMAIN inputs : inputs[q].gone} = {}
    BY <1>1, <2>1, Zenon
  <2>4. Live = advertised
    BY <2>2, <2>3, ZenonT(40) DEF Live
  <2>5. Gone = {}
    BY <1>2, <2>3, ZenonT(40) DEF Gone
  <2>6. Names = advertised
    BY <1>1, <1>2, <2>2, ZenonT(40) DEF Names
  <2> QED
    BY <2>1, <2>4, <2>5, <2>6, ZenonT(40)
<1>4. \A w : Pending(w) = {}
  BY <1>2, NothingPending, Zenon
<1>5. TypeInv
  <2>1. ASSUME NEW p \in DOMAIN inputs
        PROVE  inputs[p] \in HeldInput
    <3>1. /\ inputs[p] = [resource |-> Discovered(p), ino |-> node[p],
                          device |-> Identity(p), gone |-> FALSE]
          /\ Discovered(p) \in InputResource /\ node[p] \in Inode
      BY <1>1, Zenon
    <3>2. Identity(p) \in Device \cup {NoDevice}
      BY <1>1, ZenonT(40) DEF Identity
    <3>3. ASSUME NEW r \in InputResource, NEW i \in Inode, NEW d \in Device \cup {NoDevice}
          PROVE  [resource |-> r, ino |-> i, device |-> d, gone |-> FALSE] \in HeldInput
      BY DEF HeldInput
    <3> QED
      BY <3>1, <3>2, <3>3, ZenonT(40)
  <2>2. advertised \subseteq InputResource
    BY <1>1, Zenon
  <2>3. /\ home \in [Path -> Device \cup {NoDevice}]
        /\ node \in [Path -> Inode \cup {NoNode}]
        /\ busy \subseteq Path /\ exists \subseteq Device
        /\ \A p \in Path : node[p] # NoNode => home[p] # NoDevice
    BY ZenonT(40) DEF Init, TaskInit, Inode
  <2>4. /\ attempt \in 0 .. MAX_RETRIES
        /\ probed \in [Path -> InputClass \cup {NoClass}]
        /\ present \subseteq Path /\ unswept \subseteq Path
    BY HotplugAssumption DEF Init, TaskInit
  <2>5. script \in Seq(Step) /\ mailbox \in Seq(Command) /\ Len(mailbox) <= MAILBOX
    BY <1>2, HotplugAssumption, SMTT(30)
  <2>6. /\ DOMAIN inputs \subseteq Path /\ parked \subseteq InputResource
        /\ DOMAIN registry \subseteq InputResource
        /\ \A r \in DOMAIN registry : registry[r] \in Device
    BY <1>1, <1>2, <2>2, Zenon
  <2>7. TypeOK
    BY <1>2, <2>1, <2>2, <2>3, <2>4, <2>5, <2>6, ZenonT(40) DEF TypeOK
  <2> QED
    BY <1>2, <2>3, <2>7, ZenonT(40) DEF TypeInv
<1>6. IndexInv
  <2>1. DOMAIN inputs = opened /\ parked = {}
    BY <1>1, <1>2, ZenonT(40)
  <2>2. ASSUME NEW p \in opened, NEW q \in opened, inputs[p].resource = inputs[q].resource
        PROVE  p = q
    <3>1. Discovered(p) = Discovered(q) /\ p \in Path /\ q \in Path
      BY <1>3, <2>2, ZenonT(40)
    <3> QED
      BY <3>1, DiscoveredOnce, ZenonT(40)
  <2> QED
    BY <2>1, <2>2, Zenon DEF IndexInv
<1>7. ScriptInv /\ OrderInv
  BY <1>2 DEF ScriptInv, OrderInv
<1>8. ListInv
  BY <1>1, <1>3, <1>4, ZenonT(40) DEF ListInv
<1>9. OfferInv
  BY <1>2, <1>3, <1>4 DEF OfferInv, Known
<1>10. ToldInv
  <2>1. \A r \in InputResource : ~Told(r)
    <3>1. DOMAIN mailbox = {}
      BY <1>2
    <3> QED
      BY <1>2, <3>1, ZenonT(40) DEF Told
  <2> QED
    BY <1>3, <1>4, <2>1, ZenonT(40) DEF ToldInv
<1>11. WatchInv
  BY <1>2 DEF WatchInv
<1> QED
  BY <1>5, <1>6, <1>7, <1>8, <1>9, <1>10, <1>11, SMTT(20) DEF IInv

-----------------------------------------------------------------------------
(* The theorems.                                                           *)

\* The index, the list, the fds and the mailbox are in step with each other, but
\* for what the transition under way is still to do, after every step of the
\* reconciler, the engine and the world.
THEOREM HotplugInvariance == Spec => []IInv
<1>1. Init => IInv
  BY InitHolds
<1>2. IInv /\ [Next]_vars => IInv'
  BY LeastIsThere, StepHolds
<1> QED
  BY <1>1, <1>2, PTL DEF Spec

\* The index, the fds and the reconciler's locals keep their types, and a name
\* its index below the limit: free_index never hands out one past it.
THEOREM HotplugTypes == Spec => []TypeOK
<1>1. IInv => TypeOK
  BY DEF IInv, TypeInv
<1> QED
  BY <1>1, HotplugInvariance, PTL

\* check_consistency has nothing to report between two passes, whatever the world
\* did during the last one.
THEOREM Consistency == Spec => []ConsistentAfterPass
<1>1. IInv => ConsistentAfterPass
  <2>1. SUFFICES ASSUME IInv, ~InPass
                 PROVE  CheckConsistency
    BY DEF ConsistentAfterPass
  <2>2. script = <<>>
    BY <2>1, Zenon DEF IInv, ScriptInv
  <2>3. \A w : Pending(w) = {}
    BY <2>2, NothingPending, Zenon
  <2>4. Names = Live \cup Gone /\ Live \cap Gone = {}
    BY <2>1, LiveOrGone, ZenonT(40) DEF IInv
  <2>5. advertised = Live /\ DOMAIN registry = Live
    BY <2>1, <2>3 DEF IInv, ListInv
  <2>6. IndexInv
    BY <2>1, ZenonT(40) DEF IInv
  <2> QED
    BY <2>4, <2>5, <2>6 DEF CheckConsistency, IndexInv
<1> QED
  BY <1>1, HotplugInvariance, PTL

\* A name without an fd is one the engine has been told to suspend; between
\* transitions what it was told and the index agree.
THEOREM SuspendedIffGone == Spec => []SuspendedMeansGone
<1>1. IInv => SuspendedMeansGone
  <2>1. SUFFICES ASSUME IInv, NEW r \in Names
                 PROVE  /\ r \notin DOMAIN registry => Told(r)
                        /\ script = <<>> => (Told(r) <=> r \in Gone)
    BY Zenon DEF SuspendedMeansGone
  <2>2. r \in Live \cup Gone /\ r \in InputResource
    BY <2>1, LiveOrGone, NamesType, ZenonT(40) DEF IInv
  <2>3. r \notin DOMAIN registry => Told(r)
    BY <2>1, <2>2 DEF IInv, ListInv, ToldInv
  <2>4. ASSUME script = <<>>
        PROVE  Told(r) <=> r \in Gone
    <3>1. Pending("Suspend") = {} /\ Pending("Resume") = {}
      BY <2>4, NothingPending, Zenon
    <3> QED
      BY <2>1, <2>2, <3>1, ZenonT(40) DEF IInv, ToldInv
  <2> QED
    BY <2>3, <2>4, ZenonT(40)
<1> QED
  BY <1>1, HotplugInvariance, PTL

\* When the engine handles a push, it has a slot for every name on the list.
THEOREM OfferPrecedesPush == Spec => []OfferedBeforePushed
<1>1. IInv => OfferedBeforePushed
  <2>1. SUFFICES ASSUME IInv, NEW i \in DOMAIN mailbox, mailbox[i].cmd = "Broadcast",
                        NEW r \in mailbox[i].resources
                 PROVE  KnownAt(i, r)
    BY Zenon DEF OfferedBeforePushed, KnownAt
  <2>2. r \in Mentions(mailbox[i])
    BY <2>1, ZenonT(40) DEF Mentions
  <2> QED
    BY <2>1, <2>2, ZenonT(40) DEF IInv, OfferInv
<1> QED
  BY <1>1, HotplugInvariance, PTL

\* A task that waits on its watch has an event for every change it has not seen:
\* the events discarded after the coalescing sleep are of before the probe.
THEOREM NoWakeupLost == Spec => []NoChangeMissed
<1>1. IInv => NoChangeMissed
  BY DEF IInv, WatchInv, NoChangeMissed
<1> QED
  BY <1>1, HotplugInvariance, PTL

\* No step forgets a name, so a suspended one can always be resumed.
THEOREM NoNameForgotten == Spec => NamesAreKept
<1>1. IInv /\ [Next]_vars => [Names \subseteq Names']_vars
  <2>1. SUFFICES ASSUME IInv, [Next]_vars
                 PROVE  Names \subseteq Names'
    BY Zenon
  <2>2. TypeInv'
    BY <2>1, LeastIsThere, StepHolds, ZenonT(40) DEF IInv
  <2>3. PlanInv
    BY <2>1 DEF IInv, PlanInv
  <2>4. Names = Live \cup Gone /\ Names' = Live' \cup Gone'
    BY ZenonT(40) DEF Names, Live, Gone
  <2>5. CASE HandleCommand
    BY <2>5 DEF HandleCommand, inventoryVars, Names
  <2>6. CASE Tells
    BY <2>1, <2>3, <2>4, <2>6, TellsKeepPlan, ZenonT(40) DEF IInv
  <2>7. CASE Unnoticed
    BY <2>4, <2>7, ZenonT(40) DEF Unnoticed
  <2>8. ASSUME NEW r, Loses(r) \/ Gains("Offer", r) \/ Gains("Resume", r)
        PROVE  Names \subseteq Names'
    BY <2>4, <2>8 DEF Loses, Gains
  <2> QED
    BY <2>1, <2>2, <2>3, <2>5, <2>6, <2>7, <2>8, LeastIsThere, StepKinds, ZenonT(40) DEF IInv
<1> QED
  BY <1>1, HotplugInvariance, PTL DEF Spec, NamesAreKept
=============================================================================

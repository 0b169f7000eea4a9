----------------------------- MODULE WireProofs -----------------------------
(***************************************************************************)
(* How requests are read, for any number of frames of any length, any size *)
(* of a header and of a read, and every way the stream can be cut.         *)
(***************************************************************************)
EXTENDS Wire, WellFoundedInduction, TLAPS

\* A set of naturals has a least member.
LEMMA LeastMember ==
    ASSUME NEW S \in SUBSET Nat, S # {}
    PROVE  \E i \in S : \A j \in S : i <= j
<1> DEFINE R == OpToRel(<, Nat)
<1>1. IsWellFoundedOn(R, Nat)
  BY NatLessThanWellFounded, Zenon
<1>2. PICK x \in S : \A y \in S : ~(<<y, x>> \in R)
  <2> HIDE DEF R
  <2> QED
    BY <1>1, WFMin, Zenon
<1>3. \A y \in S : y \in Nat /\ ~(y < x)
  BY <1>2, Zenon DEF OpToRel
<1> QED
  BY <1>3

\* The running sums of a list of lengths: what makes Start a definition.
LEMMA SumsExist ==
    ASSUME NEW n \in Nat, NEW h \in [1 .. n -> Nat]
    PROVE  \E s \in [1 .. n + 1 -> Nat] :
               s[1] = 0 /\ \A i \in 1 .. n : s[i + 1] = s[i] + h[i]
<1> DEFINE Sums(k) == {s \in [1 .. k + 1 -> Nat] :
                          s[1] = 0 /\ \A i \in 1 .. k : s[i + 1] = s[i] + h[i]}
           Bad == {k \in 0 .. n : Sums(k) = {}}
<1>1. SUFFICES ASSUME Bad # {}
               PROVE  FALSE
  <2>1. n \notin Bad => Sums(n) # {}
    OBVIOUS
  <2> QED
    BY <2>1, Zenon
<1>2. PICK k \in Bad : \A j \in Bad : k <= j
  <2>1. Bad \in SUBSET Nat
    OBVIOUS
  <2> HIDE DEF Bad
  <2> QED
    BY <1>1, <2>1, LeastMember
<1>3. CASE k = 0
  <2>1. [i \in 1 .. 1 |-> 0] \in Sums(0)
    OBVIOUS
  <2> QED
    BY <1>2, <1>3, <2>1
<1>4. CASE k # 0
  <2>0. k \in 1 .. n /\ k - 1 \in 0 .. n /\ ~(k <= k - 1)
    BY <1>2, <1>4
  <2>1. k - 1 \in 0 .. n /\ k - 1 \notin Bad /\ k \in 1 .. n
    <3> HIDE DEF Bad
    <3> QED
      BY <1>2, <2>0
  <2>2. PICK s : s \in Sums(k - 1)
    BY <2>1, Zenon
  <2> DEFINE t == [i \in 1 .. k + 1 |-> IF i <= k THEN s[i] ELSE s[k] + h[k]]
  <2>3. s \in [1 .. k -> Nat] /\ s[1] = 0 /\ \A i \in 1 .. k - 1 : s[i + 1] = s[i] + h[i]
    BY <2>1, <2>2
  <2>4. t \in [1 .. k + 1 -> Nat]
    BY <2>1, <2>3
  <2>5. t[1] = 0
    BY <2>1, <2>3
  <2>6. \A i \in 1 .. k : t[i + 1] = t[i] + h[i]
    BY <2>1, <2>3
  <2>7. t \in Sums(k)
    BY <2>4, <2>5, <2>6, Zenon
  <2> QED
    BY <1>2, <2>7, Zenon
<1> QED
  BY <1>3, <1>4

\* The equation that defines Start, for the frames a client may send.
LEMMA StartDef ==
    ASSUME frames \in [1 .. FRAMES -> Frame]
    PROVE  /\ Start \in [1 .. FRAMES + 1 -> Nat]
           /\ Start[1] = 0
           /\ \A i \in 1 .. FRAMES : Start[i + 1] = Start[i] + HEADER + frames[i].len
<1> DEFINE h == [i \in 1 .. FRAMES |-> HEADER + frames[i].len]
<1>1. FRAMES \in Nat /\ h \in [1 .. FRAMES -> Nat]
  BY WireAssumption DEF Frame
<1>2. PICK s \in [1 .. FRAMES + 1 -> Nat] :
          s[1] = 0 /\ \A i \in 1 .. FRAMES : s[i + 1] = s[i] + h[i]
  <2> HIDE DEF h
  <2> QED
    BY <1>1, SumsExist, Zenon
<1> DEFINE Eq(f) == f = [i \in 1 .. FRAMES + 1 |->
                            IF i = 1 THEN 0 ELSE f[i - 1] + HEADER + frames[i - 1].len]
<1>3. \A i \in 1 .. FRAMES + 1 : i # 1 => s[i] = s[i - 1] + HEADER + frames[i - 1].len
  <2> TAKE i \in 1 .. FRAMES + 1
  <2> HAVE i # 1
  <2>1. i - 1 \in 1 .. FRAMES /\ (i - 1) + 1 = i
    BY <1>1
  <2>2. HEADER \in Nat /\ frames[i - 1].len \in Nat /\ s[i - 1] \in Nat
    BY <1>1, <1>2, <2>1, WireAssumption DEF Frame
  <2> QED
    BY <1>2, <2>1, <2>2
<1>4. Eq(s)
  BY <1>2, <1>3
<1>5. Start = CHOOSE f : Eq(f)
  BY DEF Start
<1>6. Eq(Start)
  BY <1>4, <1>5, Zenon
<1>7. \A i \in 1 .. FRAMES + 1 :
          Start[i] = IF i = 1 THEN 0 ELSE Start[i - 1] + HEADER + frames[i - 1].len
  BY <1>6, Zenon
<1> DEFINE Wrong == {i \in 1 .. FRAMES + 1 : Start[i] # s[i]}
<1> HIDE DEF Eq
<1>8. Wrong = {}
  <2> SUFFICES ASSUME Wrong # {}
               PROVE  FALSE
    OBVIOUS
  <2>1. PICK i \in Wrong : \A j \in Wrong : i <= j
    <3>1. Wrong \in SUBSET Nat
      BY <1>1
    <3> HIDE DEF Wrong
    <3> QED
      BY <3>1, LeastMember
  <2>2. i \in 1 .. FRAMES + 1 /\ Start[i] # s[i]
    OBVIOUS
  <2>3. i # 1
    BY <1>1, <1>2, <1>7, <2>2
  <2>4. i - 1 \in 1 .. FRAMES + 1 /\ ~(i <= i - 1)
    BY <1>1, <2>2, <2>3
  <2>5. Start[i - 1] = s[i - 1]
    BY <2>1, <2>4
  <2> QED
    BY <1>3, <1>7, <2>2, <2>3, <2>5
<1>9. Start = s
  <2>1. Start = [i \in 1 .. FRAMES + 1 |-> Start[i]]
    BY <1>6 DEF Eq
  <2> QED
    BY <1>2, <1>8, <2>1, Zenon
<1>10. \A i \in 1 .. FRAMES : h[i] = HEADER + frames[i].len
  OBVIOUS
<1>11. \A i \in 1 .. FRAMES : HEADER \in Nat /\ frames[i].len \in Nat /\ s[i] \in Nat
  BY <1>1, <1>2, WireAssumption DEF Frame
<1> HIDE DEF h
<1> QED
  BY <1>2, <1>9, <1>10, <1>11

\* Frames begin one after the other: two of them begin at different bytes.
LEMMA StartGrows ==
    ASSUME frames \in [1 .. FRAMES -> Frame],
           NEW i \in 1 .. FRAMES + 1, NEW j \in 1 .. FRAMES + 1, i < j
    PROVE  Start[i] < Start[j]
<1> DEFINE Wrong == {k \in 1 .. FRAMES + 1 : i < k /\ ~(Start[i] < Start[k])}
<1>1. FRAMES \in Nat /\ HEADER \in Nat \ {0}
  BY WireAssumption
<1>2. SUFFICES ASSUME Wrong # {}
               PROVE  FALSE
  OBVIOUS
<1>3. PICK k \in Wrong : \A m \in Wrong : k <= m
  <2>1. Wrong \in SUBSET Nat
    BY <1>1
  <2> HIDE DEF Wrong
  <2> QED
    BY <1>2, <2>1, LeastMember
<1>4. k \in 1 .. FRAMES + 1 /\ i < k /\ ~(Start[i] < Start[k])
  OBVIOUS
<1> HIDE DEF Wrong
<1>5. k - 1 \in 1 .. FRAMES /\ (k - 1) + 1 = k /\ ~(k <= k - 1) /\ (i = k - 1 \/ i < k - 1)
  BY <1>1, <1>4
<1>6. frames[k - 1].len \in Nat
  BY <1>5, WireAssumption DEF Frame
<1>7. Start[k] = Start[k - 1] + HEADER + frames[k - 1].len
  BY <1>5, StartDef
<1>8. Start[i] \in Nat /\ Start[k - 1] \in Nat /\ Start[k] \in Nat
  <2>1. Start \in [1 .. FRAMES + 1 -> Nat]
    BY StartDef
  <2>2. k - 1 \in 1 .. FRAMES + 1
    BY <1>1, <1>5
  <2> QED
    BY <1>4, <2>1, <2>2
<1>9. Start[k - 1] < Start[k]
  BY <1>1, <1>6, <1>7, <1>8
<1>10. i < k - 1 => Start[i] < Start[k - 1]
  <2>1. k - 1 \notin Wrong
    BY <1>3, <1>5
  <2> QED
    BY <1>1, <1>5, <2>1 DEF Wrong
<1> QED
  BY <1>4, <1>5, <1>8, <1>9, <1>10

-----------------------------------------------------------------------------
(* Pieces of the stream.                                                   *)

\* Bytes are a sequence.
LEMMA BytesType ==
    ASSUME NEW a \in Nat, NEW m \in Nat
    PROVE  Bytes(a, m) \in Seq(Nat) /\ Len(Bytes(a, m)) = m
BY DEF Bytes

\* Bytes read after others continue them.
LEMMA BytesJoin ==
    ASSUME NEW a \in Nat, NEW m \in Nat, NEW n \in Nat
    PROVE  Bytes(a, m) \o Bytes(a + m, n) = Bytes(a, m + n)
<1>1. Bytes(a, m) \in Seq(Nat) /\ Len(Bytes(a, m)) = m
  BY BytesType
<1>2. Bytes(a + m, n) \in Seq(Nat) /\ Len(Bytes(a + m, n)) = n
  BY DEF Bytes
<1> DEFINE both == Bytes(a, m) \o Bytes(a + m, n)
<1>3. both \in Seq(Nat) /\ Len(both) = m + n
  BY <1>1, <1>2
<1>4. \A i \in 1 .. m + n : both[i] = a + i
  BY <1>1, <1>2 DEF Bytes
<1>5. both = [i \in 1 .. m + n |-> a + i]
  <2> HIDE DEF both
  <2> QED
    BY <1>3, <1>4
<1> QED
  BY <1>5 DEF Bytes

\* A piece of a piece.
LEMMA BytesCut ==
    ASSUME NEW a \in Nat, NEW m \in Nat, NEW i \in Nat, NEW j \in Nat, i <= j, j <= m
    PROVE  SubSeq(Bytes(a, m), i + 1, j) = Bytes(a + i, j - i)
<1>1. Bytes(a, m) \in Seq(Nat) /\ Len(Bytes(a, m)) = m
  BY BytesType
<1> DEFINE cut == SubSeq(Bytes(a, m), i + 1, j)
<1>2. cut \in Seq(Nat) /\ Len(cut) = j - i
  BY <1>1
<1>3. \A k \in 1 .. j - i : cut[k] = (a + i) + k
  BY <1>1 DEF Bytes
<1>4. cut = [k \in 1 .. j - i |-> (a + i) + k]
  <2> HIDE DEF cut
  <2> QED
    BY <1>2, <1>3
<1> QED
  BY <1>4 DEF Bytes

\* The first h bytes of a piece, as process_wire_bytes reads the header.
LEMMA BytesHead ==
    ASSUME NEW a \in Nat, NEW m \in Nat, NEW h \in Nat, h <= m
    PROVE  SubSeq(Bytes(a, m), 1, h) = Bytes(a, h)
<1>1. Bytes(a, m) \in Seq(Nat) /\ Len(Bytes(a, m)) = m
  BY BytesType
<1> DEFINE cut == SubSeq(Bytes(a, m), 1, h)
<1>2. cut \in Seq(Nat) /\ Len(cut) = h
  BY <1>1
<1>3. \A k \in 1 .. h : cut[k] = a + k
  BY <1>1 DEF Bytes
<1>4. cut = [k \in 1 .. h |-> a + k]
  <2> HIDE DEF cut
  <2> QED
    BY <1>2, <1>3
<1> QED
  BY <1>4 DEF Bytes

\* The n bytes after the first h of a piece, as process_wire_bytes reads the
\* payload.
LEMMA BytesMiddle ==
    ASSUME NEW a \in Nat, NEW m \in Nat, NEW h \in Nat, NEW n \in Nat, h + n <= m
    PROVE  SubSeq(Bytes(a, m), h + 1, h + n) = Bytes(a + h, n)
<1>1. Bytes(a, m) \in Seq(Nat) /\ Len(Bytes(a, m)) = m
  BY BytesType
<1> DEFINE cut == SubSeq(Bytes(a, m), h + 1, h + n)
<1>2. cut \in Seq(Nat) /\ Len(cut) = n
  BY <1>1
<1>3. \A k \in 1 .. n : cut[k] = (a + h) + k
  BY <1>1 DEF Bytes
<1>4. cut = [k \in 1 .. n |-> (a + h) + k]
  <2> HIDE DEF cut
  <2> QED
    BY <1>2, <1>3
<1> QED
  BY <1>4 DEF Bytes

\* Where a piece begins can be read off it.
LEMMA BytesBegin ==
    ASSUME NEW a \in Nat, NEW b \in Nat, NEW n \in Nat \ {0}, Bytes(a, n) = Bytes(b, n)
    PROVE  a = b
<1>1. Bytes(a, n)[1] = a + 1 /\ Bytes(b, n)[1] = b + 1
  BY DEF Bytes
<1> QED
  BY <1>1

-----------------------------------------------------------------------------
(* The invariant.                                                          *)

\* The frames behind the reader.
Consumed == Len(dispatched)

TypeInv ==
    /\ frames \in [1 .. FRAMES -> Frame]
    /\ received \in Nat /\ written \in Nat
    /\ received <= written /\ written <= Start[FRAMES + 1]
    /\ dispatched \in Seq(Seq(Nat))
    /\ at \in {"select", "control", "drain", "dispatch", "handler", "ended"}

\* While the task runs, its buffer begins where a frame does, the one after
\* those it has dispatched, and ends where it has read to.
BufferInv ==
    at # "ended" =>
        /\ Consumed <= FRAMES
        /\ Start[Consumed + 1] <= received
        /\ frame_buf = Bytes(Start[Consumed + 1], received - Start[Consumed + 1])

\* The two invariants are not inductive without BufferInv, which says where the
\* reader is in the stream.
IInv == TypeInv /\ BufferInv /\ RequestsInOrder /\ ConformingIsKept

\* What a step leaves alone.
LEMMA SameStream ==
    ASSUME UNCHANGED frames
    PROVE  Start' = Start
BY DEF Start

\* A connection starts before the first frame, with nothing read.
LEMMA InitHolds ==
    ASSUME Init
    PROVE  IInv
<1>1. frames \in [1 .. FRAMES -> Frame] /\ FRAMES \in Nat
  BY WireAssumption DEF Init
<1>2. Start[1] = 0 /\ Start[FRAMES + 1] \in Nat
  BY <1>1, StartDef
<1>3. dispatched = <<>> /\ Len(dispatched) = 0 /\ DOMAIN dispatched = {}
  BY DEF Init
<1>4. TypeInv
  BY <1>1, <1>2, <1>3 DEF Init, TypeInv
<1>5. frame_buf = Bytes(0, 0)
  BY DEF Init, Bytes
<1>6. BufferInv
  BY <1>1, <1>2, <1>3, <1>5 DEF Init, BufferInv, Consumed
<1> QED
  BY <1>3, <1>4, <1>6 DEF IInv, RequestsInOrder, ConformingIsKept, Init

\* A client that writes or closes moves nothing the reader has.
LEMMA ClientHolds ==
    ASSUME IInv, ClientWrites \/ ClientCloses
    PROVE  IInv'
<1>1. UNCHANGED <<frames, received, frame_buf, dispatched, at, failed>>
  BY DEF ClientWrites, ClientCloses, taskVars
<1>2. Start' = Start
  BY <1>1, SameStream
<1>3. written' \in Nat /\ written <= written' /\ written' <= Start[FRAMES + 1]
  <2>1. Start[FRAMES + 1] \in Nat
    BY StartDef, WireAssumption DEF IInv, TypeInv
  <2> QED
    BY <2>1 DEF ClientWrites, ClientCloses, IInv, TypeInv
<1>4. TypeInv'
  BY <1>1, <1>2, <1>3 DEF IInv, TypeInv
<1>5. closed => closed'
  BY DEF ClientWrites, ClientCloses
<1> QED
  BY <1>1, <1>2, <1>4, <1>5
  DEF IInv, BufferInv, Consumed, RequestsInOrder, Payload, ConformingIsKept

\* The task goes to another place, with what it has: to the end only when a read
\* or a handler failed or the client closed.
LEMMA MoveHolds ==
    ASSUME IInv, NEW place \in {"select", "control", "drain", "dispatch", "handler", "ended"},
           at # "ended", Go(place), UNCHANGED <<received, frame_buf, dispatched>>,
           failed => failed', place = "ended" => closed' \/ failed'
    PROVE  IInv'
<1>1. UNCHANGED <<frames, written, closed>> /\ at' = place
  BY DEF Go
<1>2. Start' = Start
  BY <1>1, SameStream
<1> QED
  BY <1>1, <1>2 DEF IInv, TypeInv, BufferInv, Consumed, RequestsInOrder, Payload, ConformingIsKept

\* A read appends what follows in the stream.
LEMMA DrainHolds ==
    ASSUME IInv, Drain
    PROVE  IInv'
<1>1. CASE received = written /\ Go(IF closed THEN "ended" ELSE "dispatch")
           /\ UNCHANGED <<received, frame_buf>>
  BY <1>1, MoveHolds DEF Drain, Go
<1> DEFINE n == IF written - received < TMP THEN written - received ELSE TMP
<1>2. CASE /\ received < written
           /\ received' = received + n
           /\ frame_buf' = frame_buf \o Bytes(received, n)
           /\ Go("drain")
  <2>1. UNCHANGED <<frames, written, closed, dispatched, failed>> /\ at' = "drain" /\ at = "drain"
    BY <1>2 DEF Drain, Go
  <2>2. Start' = Start
    BY <2>1, SameStream
  <2>3. n \in Nat /\ received \in Nat /\ received + n <= written /\ received + n \in Nat
    BY <1>2, WireAssumption DEF IInv, TypeInv
  <2> DEFINE b == Start[Consumed + 1]
  <2>4. /\ Consumed <= FRAMES /\ Consumed \in Nat /\ b <= received
        /\ frame_buf = Bytes(b, received - b)
    BY <2>1 DEF IInv, BufferInv, TypeInv, Consumed
  <2>5. b \in Nat /\ received - b \in Nat
    <3>1. Consumed + 1 \in 1 .. FRAMES + 1
      BY <2>4, WireAssumption
    <3>2. Start \in [1 .. FRAMES + 1 -> Nat]
      BY StartDef DEF IInv, TypeInv
    <3> QED
      BY <2>3, <2>4, <3>1, <3>2
  <2> HIDE DEF n, b
  <2>6. frame_buf' = Bytes(b, received' - b)
    <3>1. received = b + (received - b) /\ received' - b = (received - b) + n
      BY <1>2, <2>3, <2>5
    <3>2. Bytes(b, received - b) \o Bytes(b + (received - b), n) = Bytes(b, (received - b) + n)
      BY <2>3, <2>5, BytesJoin, Zenon
    <3>3. frame_buf' = Bytes(b, received - b) \o Bytes(received, n)
      BY <1>2, <2>4, Zenon
    <3>4. Bytes(received, n) = Bytes(b + (received - b), n)
      BY <3>1, Zenon
    <3> QED
      BY <3>1, <3>2, <3>3, <3>4, Zenon
  <2>7. TypeInv'
    <3>1. received' \in Nat /\ received' <= written
      BY <1>2, <2>3
    <3> QED
      BY <2>1, <2>2, <3>1 DEF IInv, TypeInv
  <2>8. Consumed' = Consumed /\ b' = b
    BY <2>1, <2>2 DEF Consumed, b
  <2>9. BufferInv'
    <3>1. Consumed' <= FRAMES
      BY <2>4, <2>8
    <3>2. Start'[Consumed' + 1] = b
      BY <2>2, <2>8, Zenon DEF b
    <3>3. b <= received'
      BY <1>2, <2>3, <2>4, <2>5
    <3> QED
      BY <2>6, <3>1, <3>2, <3>3, Zenon DEF BufferInv
  <2> QED
    BY <2>1, <2>2, <2>7, <2>9 DEF IInv, RequestsInOrder, Payload, ConformingIsKept
<1> QED
  BY <1>1, <1>2 DEF Drain

\* A header in the buffer is that of the frame the reader has come to, and that
\* frame is the only one it can be taken for.
LEMMA HeaderIsNext ==
    ASSUME IInv, at # "ended", HasHeader
    PROVE  /\ Consumed + 1 \in 1 .. FRAMES /\ Start[Consumed + 1] < received
           /\ Parsed = {i \in {Consumed + 1} : frames[i].parses # "nothing"}
<1> DEFINE i == Consumed + 1
           b == Start[i]
           m == received - b
<1>1. FRAMES \in Nat /\ HEADER \in Nat \ {0} /\ frames \in [1 .. FRAMES -> Frame]
  BY WireAssumption DEF IInv, TypeInv
<1>2. Start \in [1 .. FRAMES + 1 -> Nat]
  BY <1>1, StartDef
<1>3. /\ Consumed \in Nat /\ Consumed <= FRAMES /\ b <= received
      /\ frame_buf = Bytes(b, m) /\ received \in Nat /\ received <= Start[FRAMES + 1]
  BY <1>1, <1>2 DEF IInv, TypeInv, BufferInv, Consumed
<1>4. i \in 1 .. FRAMES + 1 /\ b \in Nat /\ m \in Nat
  BY <1>1, <1>2, <1>3
<1> HIDE DEF i, b, m
<1>5. Len(frame_buf) = m /\ HEADER <= m
  BY <1>1, <1>3, <1>4, BytesType DEF HasHeader
<1>6. b < received
  BY <1>1, <1>3, <1>4, <1>5 DEF m
<1>7. i \in 1 .. FRAMES
  <2>1. i # FRAMES + 1
    BY <1>1, <1>2, <1>3, <1>4, <1>6 DEF b
  <2> QED
    BY <1>1, <1>4, <2>1
<1>8. SubSeq(frame_buf, 1, HEADER) = Bytes(b, HEADER)
  <2>1. b \in Nat /\ m \in Nat /\ HEADER \in Nat /\ HEADER <= m
    BY <1>1, <1>4, <1>5
  <2>2. SubSeq(Bytes(b, m), 1, HEADER) = Bytes(b, HEADER)
    BY <2>1, BytesHead, ZenonT(60)
  <2> QED
    BY <1>3, <2>2
<1>9. \A k \in 1 .. FRAMES : Bytes(b, HEADER) = Bytes(Start[k], HEADER) <=> k = i
  <2> TAKE k \in 1 .. FRAMES
  <2>1. k \in 1 .. FRAMES + 1 /\ Start[k] \in Nat /\ (k = i \/ k < i \/ i < k)
    BY <1>1, <1>2, <1>7
  <2>2. k # i => Start[k] # b
    BY <1>1, <1>2, <1>4, <2>1, StartGrows DEF b
  <2>3. Bytes(b, HEADER) = Bytes(Start[k], HEADER) => b = Start[k]
    BY <1>1, <1>4, <2>1, BytesBegin
  <2> QED
    BY <2>2, <2>3 DEF b
<1>10. Parsed = {k \in {i} : frames[k].parses # "nothing"}
  BY <1>7, <1>8, <1>9, Zenon DEF Parsed
<1> QED
  BY <1>6, <1>7, <1>10 DEF i, b

\* One turn of the loop takes the next request, whole, or ends at a frame that is
\* malformed.
LEMMA DispatchHolds ==
    ASSUME IInv, Dispatch
    PROVE  IInv'
<1>0. at = "dispatch" /\ UNCHANGED <<received, failed>>
  BY DEF Dispatch
<1>1. CASE Go("select") /\ UNCHANGED <<frame_buf, dispatched>>
  BY <1>0, <1>1, MoveHolds
<1> DEFINE i == Consumed + 1
           b == Start[i]
<1>2. CASE HasHeader /\ Parsed = {} /\ Go("ended") /\ UNCHANGED <<frame_buf, dispatched>>
  <2>1. i \in 1 .. FRAMES /\ b < received /\ frames[i].parses = "nothing"
    BY <1>0, <1>2, HeaderIsNext
  <2>2. UNCHANGED <<frames, written, closed>> /\ at' = "ended"
    BY <1>2 DEF Go
  <2>3. Start' = Start
    BY <2>2, SameStream
  <2>4. ConformingIsKept'
    <3> HIDE DEF i
    <3> QED
      BY <1>0, <2>1, <2>2, <2>3 DEF ConformingIsKept
  <2> QED
    BY <1>0, <1>2, <2>2, <2>3, <2>4 DEF IInv, TypeInv, BufferInv, RequestsInOrder, Payload
<1>3. ASSUME NEW k \in Parsed, Whole(k), Take(k),
             Go(IF frames[k].parses = "frame" THEN "handler" ELSE "ended")
      PROVE  IInv'
  <2>1. HasHeader
    BY DEF Parsed
  <2>2. k = i /\ i \in 1 .. FRAMES /\ b < received
    BY <1>0, <2>1, HeaderIsNext
  <2>3. UNCHANGED <<frames, written, closed>>
    BY <1>3 DEF Go
  <2>4. Start' = Start
    BY <2>3, SameStream
  <2> DEFINE len == frames[i].len
             m == received - b
  <2>5. FRAMES \in Nat /\ HEADER \in Nat \ {0} /\ frames \in [1 .. FRAMES -> Frame]
    BY WireAssumption DEF IInv, TypeInv
  <2>6. /\ Start \in [1 .. FRAMES + 1 -> Nat] /\ len \in Nat
        /\ Start[i + 1] = b + HEADER + len
    <3>1. len \in Nat
      BY <2>2, <2>5, WireAssumption DEF Frame
    <3> HIDE DEF i
    <3> QED
      BY <2>2, <2>5, <3>1, StartDef, Zenon
  <2>7. /\ frame_buf = Bytes(b, m) /\ received \in Nat
        /\ Consumed \in Nat /\ dispatched \in Seq(Seq(Nat)) /\ Consumed = Len(dispatched)
    <3>1. frame_buf = Bytes(b, m)
      BY <1>0, Zenon DEF IInv, BufferInv
    <3>2. received \in Nat /\ dispatched \in Seq(Seq(Nat))
      BY Zenon DEF IInv, TypeInv
    <3>3. Consumed \in Nat /\ Consumed = Len(dispatched)
      BY <3>2 DEF Consumed
    <3> QED
      BY <3>1, <3>2, <3>3
  <2>8. b \in Nat /\ m \in Nat /\ i + 1 \in 1 .. FRAMES + 1
    <3> HIDE DEF i
    <3>1. i \in 1 .. FRAMES + 1 /\ i + 1 \in 1 .. FRAMES + 1
      BY <2>2, <2>5
    <3>2. b \in Nat
      BY <2>6, <3>1, Zenon
    <3> HIDE DEF b
    <3>3. m \in Nat
      BY <2>2, <2>7, <3>2
    <3> QED
      BY <3>1, <3>2, <3>3
  <2> HIDE DEF b, m, len
  <2>9. Len(frame_buf) = m /\ HEADER + len <= m
    <3>1. Len(frame_buf) = m
      BY <2>7, <2>8, BytesType
    <3> QED
      BY <1>3, <2>2, <2>5, <2>6, <2>8, <3>1 DEF Whole, len
  <2>10. SubSeq(frame_buf, HEADER + 1, HEADER + len) = Payload(i)
    <3>1. b \in Nat /\ m \in Nat /\ HEADER \in Nat /\ len \in Nat /\ HEADER + len <= m
      BY <2>5, <2>6, <2>8, <2>9
    <3>2. SubSeq(Bytes(b, m), HEADER + 1, HEADER + len) = Bytes(b + HEADER, len)
      BY <3>1, BytesMiddle, ZenonT(60)
    <3> QED
      BY <2>7, <3>1, <3>2 DEF Payload, b, len
  <2>11. frame_buf' = Bytes(Start[i + 1], received - Start[i + 1]) /\ Start[i + 1] <= received
    <3>1. SubSeq(Bytes(b, m), (HEADER + len) + 1, m) = Bytes(b + (HEADER + len), m - (HEADER + len))
      <4>1. b \in Nat /\ m \in Nat /\ HEADER + len \in Nat /\ HEADER + len <= m /\ m <= m
        BY <2>5, <2>6, <2>8, <2>9
      <4> QED
        BY <4>1, BytesCut, ZenonT(60)
    <3>2. b + (HEADER + len) = Start[i + 1] /\ m - (HEADER + len) = received - Start[i + 1]
      BY <2>5, <2>6, <2>7, <2>8 DEF m
    <3>3. Start[i + 1] <= received
      BY <2>5, <2>6, <2>7, <2>8, <2>9 DEF m
    <3>4. frame_buf' = SubSeq(frame_buf, (HEADER + len) + 1, Len(frame_buf))
      BY <1>3, <2>2 DEF Take, len
    <3> QED
      BY <2>7, <2>9, <3>1, <3>2, <3>3, <3>4
  <2>12. CASE frames[i].parses = "frame"
    <3>1. dispatched' = Append(dispatched, Payload(i)) /\ at' = "handler"
      BY <1>3, <2>2, <2>10, <2>12, Zenon DEF Take, Go, len
    <3>2. Payload(i) \in Seq(Nat)
      <4>1. b + HEADER \in Nat
        BY <2>5, <2>8
      <4>2. Bytes(b + HEADER, len) \in Seq(Nat)
        BY <2>6, <4>1, BytesType, Zenon
      <4> QED
        BY <4>2 DEF Payload, b, len
    <3>3. /\ dispatched' \in Seq(Seq(Nat)) /\ Consumed' = i
          /\ DOMAIN dispatched' = DOMAIN dispatched \cup {i}
          /\ \A j \in DOMAIN dispatched : dispatched'[j] = dispatched[j]
          /\ dispatched'[i] = Payload(i)
      BY <2>7, <3>1, <3>2 DEF Consumed
    <3> HIDE DEF i
    <3>4. TypeInv'
      BY <1>0, <2>3, <2>4, <3>1, <3>3 DEF IInv, TypeInv
    <3>5. BufferInv'
      BY <1>0, <2>2, <2>4, <2>5, <2>11, <3>1, <3>3 DEF BufferInv
    <3>6. RequestsInOrder'
      BY <2>2, <2>3, <2>4, <2>5, <2>12, <3>3 DEF IInv, RequestsInOrder, Payload
    <3>7. ConformingIsKept'
      BY <3>1 DEF ConformingIsKept
    <3> QED
      BY <3>4, <3>5, <3>6, <3>7 DEF IInv
  <2>13. CASE frames[i].parses # "frame"
    <3>1. dispatched' = dispatched /\ at' = "ended"
      BY <1>3, <2>2, <2>13 DEF Take, Go
    <3> HIDE DEF i
    <3>2. ConformingIsKept'
      BY <1>0, <2>2, <2>3, <2>4, <2>13 DEF ConformingIsKept, b
    <3> QED
      BY <1>0, <2>3, <2>4, <3>1, <3>2 DEF IInv, TypeInv, BufferInv, RequestsInOrder, Payload
  <2> QED
    BY <2>12, <2>13
<1> QED
  BY <1>1, <1>2, <1>3 DEF Dispatch

\* Every step of the client and of the task keeps the invariant.
LEMMA NextHolds ==
    ASSUME IInv, [Next]_vars
    PROVE  IInv'
<1>1. CASE ClientWrites \/ ClientCloses
  BY <1>1, ClientHolds
<1>2. CASE Readable \/ Control \/ Handled
  BY <1>2, MoveHolds DEF Readable, Control, Handled
<1>3. CASE Drain
  BY <1>3, DrainHolds
<1>4. CASE Fail
  BY <1>4, MoveHolds DEF Fail
<1>5. CASE Dispatch
  BY <1>5, DispatchHolds
<1>6. CASE UNCHANGED vars
  <2>1. UNCHANGED <<frames, written, closed, received, frame_buf, dispatched, at, failed>>
    BY <1>6 DEF vars, taskVars
  <2>2. Start' = Start
    BY <2>1, SameStream
  <2> QED
    BY <2>1, <2>2 DEF IInv, TypeInv, BufferInv, Consumed, RequestsInOrder, Payload, ConformingIsKept
<1> QED
  BY <1>1, <1>2, <1>3, <1>4, <1>5, <1>6 DEF Next, Ended

-----------------------------------------------------------------------------
(* The theorems.                                                           *)

\* The reader is always between two frames of the stream.
THEOREM WireInvariance == Spec => []IInv
<1>1. Init => IInv
  BY InitHolds
<1>2. IInv /\ [Next]_vars => IInv'
  BY NextHolds
<1> QED
  BY <1>1, <1>2, PTL DEF Spec

\* process_wire_bytes dispatches the requests of the client in order, whole and
\* once each, however the reads cut them.
THEOREM RequestsAreRead == Spec => []RequestsInOrder
<1>1. IInv => RequestsInOrder
  BY DEF IInv
<1> QED
  BY <1>1, WireInvariance, PTL

\* A client whose frames are well formed is not cut off while it keeps its end
\* open.
THEOREM ConformingClientStays == Spec => []ConformingIsKept
<1>1. IInv => ConformingIsKept
  BY DEF IInv
<1> QED
  BY <1>1, WireInvariance, PTL
=============================================================================

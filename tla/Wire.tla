-------------------------------- MODULE Wire --------------------------------
(***************************************************************************)
(* How a connection's requests are read: process_wire_bytes, in the select *)
(* loop of handle_connection.  The client writes a stream of frames, cut   *)
(* wherever it likes; a byte is known by its place in the stream.  While   *)
(* the task reads, dispatches or serves its control channel the client     *)
(* goes on writing.                                                        *)
(***************************************************************************)
EXTENDS Integers, Sequences

CONSTANTS
    FRAMES,   \* bound: the frames a client sends
    LENGTH,   \* bound: the length of a payload
    HEADER,   \* FRAME_HEADER_LEN
    TMP       \* the bytes one read takes at most: 4096 in the code

ASSUME WireAssumption == FRAMES \in Nat /\ LENGTH \in Nat /\ {HEADER, TMP} \subseteq Nat \ {0}

VARIABLES
    frames,      \* what the client sends
    written,     \* how many bytes of it are in the socket or have been read
    closed,      \* the client has closed its end
    received,    \* how many bytes the task has read
    frame_buf,   \* those of them it has not consumed
    dispatched,  \* the payloads dispatched as requests
    at,          \* where the task is
    failed       \* history: a read or a handler returned an error

taskVars == <<received, frame_buf, dispatched, at, failed>>
vars == <<frames, written, closed, taskVars>>

\* A frame whose header or whose payload does not parse is malformed.
Frame == [len : 0 .. LENGTH, parses : {"frame", "header", "nothing"}]

Start[i \in 1 .. FRAMES + 1] ==
    IF i = 1 THEN 0 ELSE Start[i - 1] + HEADER + frames[i - 1].len

Bytes(from, n) == [k \in 1 .. n |-> from + k]

Init ==
    /\ frames \in [1 .. FRAMES -> Frame]
    /\ written = 0 /\ closed = FALSE
    /\ received = 0 /\ frame_buf = <<>> /\ dispatched = <<>>
    /\ at = "select" /\ failed = FALSE

-----------------------------------------------------------------------------
ClientWrites ==
    /\ ~closed
    /\ \E n \in written + 1 .. Start[FRAMES + 1] : written' = n
    /\ UNCHANGED <<frames, closed, taskVars>>

ClientCloses ==
    /\ ~closed
    /\ closed' = TRUE
    /\ UNCHANGED <<frames, written, taskVars>>

Go(place) ==
    /\ at' = place
    /\ UNCHANGED <<frames, written, closed>>

\* The arms of the select.
Readable ==
    /\ at = "select"
    /\ received < written \/ closed
    /\ Go("drain")
    /\ UNCHANGED <<received, frame_buf, dispatched, failed>>

\* Fault: the buffer does not outlive the turn of another arm.
ControlFresh ==
    /\ \/ at = "select" /\ Go("control")
       \/ at = "control" /\ Go("select")
    /\ frame_buf' = <<>>
    /\ UNCHANGED <<received, dispatched, failed>>

\* The control channel or the timer of the Ack has its turn.
Control ==
    /\ \/ at = "select" /\ Go("control")
       \/ at = "control" /\ Go("select")
    /\ UNCHANGED <<received, frame_buf, dispatched, failed>>

\* try_read, until there is nothing left.  An end of file returns at once, with
\* the frames that were read before it still in the buffer.
Drain ==
    /\ at = "drain"
    /\ \/ /\ received < written
          /\ LET n == IF written - received < TMP THEN written - received ELSE TMP
             IN  /\ received' = received + n
                 /\ frame_buf' = frame_buf \o Bytes(received, n)
          /\ Go("drain")
       \/ /\ received = written
          /\ Go(IF closed THEN "ended" ELSE "dispatch")
          /\ UNCHANGED <<received, frame_buf>>
    /\ UNCHANGED <<dispatched, failed>>

\* A read or a handler returns an error, which ends the loop.
Fail ==
    /\ at \in {"drain", "handler", "control"}
    /\ Go("ended")
    /\ failed' = TRUE
    /\ UNCHANGED <<received, frame_buf, dispatched>>

HasHeader == Len(frame_buf) >= HEADER

\* The frame whose header is at the head of the buffer.  Bytes that are not a
\* header the client sent do not parse as one.
Parsed ==
    {i \in 1 .. FRAMES : /\ HasHeader
                         /\ SubSeq(frame_buf, 1, HEADER) = Bytes(Start[i], HEADER)
                         /\ frames[i].parses # "nothing"}

\* Fault: the last frame waits for a byte of the next one.
WholeAndMore(i) == Len(frame_buf) > HEADER + frames[i].len

Whole(i) == Len(frame_buf) >= HEADER + frames[i].len

\* Fault: the frame stays in the buffer.
Peek(i) ==
    /\ dispatched' =
           IF frames[i].parses = "frame"
           THEN Append(dispatched, SubSeq(frame_buf, HEADER + 1, HEADER + frames[i].len))
           ELSE dispatched
    /\ UNCHANGED frame_buf

Take(i) ==
    /\ frame_buf' = SubSeq(frame_buf, HEADER + frames[i].len + 1, Len(frame_buf))
    /\ dispatched' =
           IF frames[i].parses = "frame"
           THEN Append(dispatched, SubSeq(frame_buf, HEADER + 1, HEADER + frames[i].len))
           ELSE dispatched

\* One turn of the while loop.
Dispatch ==
    /\ at = "dispatch"
    /\ \/ /\ ~HasHeader \/ \E i \in Parsed : ~Whole(i)
          /\ Go("select")
          /\ UNCHANGED <<frame_buf, dispatched>>
       \/ /\ HasHeader /\ Parsed = {}
          /\ Go("ended")
          /\ UNCHANGED <<frame_buf, dispatched>>
       \/ \E i \in Parsed : /\ Whole(i) /\ Take(i)
                            /\ Go(IF frames[i].parses = "frame" THEN "handler" ELSE "ended")
    /\ UNCHANGED <<received, failed>>

\* dispatch_request returns.
Handled ==
    /\ at = "handler"
    /\ Go("dispatch")
    /\ UNCHANGED <<received, frame_buf, dispatched, failed>>

Ended == at = "ended" /\ UNCHANGED vars

Next ==
    \/ ClientWrites \/ ClientCloses
    \/ Readable \/ Control \/ Drain \/ Fail \/ Dispatch \/ Handled \/ Ended

\* The task is scheduled.  The select picks at random among the arms that are
\* ready, so the wire has its turn; a handler or a control message may wait for
\* ever for a client that does not read.
Fairness == SF_vars(Readable) /\ WF_vars(Drain) /\ WF_vars(Dispatch)

Spec == Init /\ [][Next]_vars /\ Fairness

-----------------------------------------------------------------------------
(* Properties.                                                             *)

Payload(i) == Bytes(Start[i] + HEADER, frames[i].len)

\* The requests dispatched are those the client sent, whole, in order and once
\* each, however reads cut the frames, and none from a malformed frame on.
RequestsInOrder ==
    \A i \in DOMAIN dispatched :
        i <= FRAMES /\ dispatched[i] = Payload(i) /\ frames[i].parses = "frame"

\* A client that has not closed its end and has sent nothing malformed is not
\* cut off: the reader never takes the middle of a frame for a header.
ConformingIsKept ==
    at = "ended" =>
        \/ closed \/ failed
        \/ \E i \in 1 .. FRAMES : Start[i] < received /\ frames[i].parses # "frame"

\* A request that is written in full is dispatched, without another byte from
\* the client, unless the connection ends or the client does not read what it is
\* sent.
WrittenIsDispatched ==
    \A i \in 1 .. FRAMES :
        written >= Start[i + 1] ~>
            \/ Len(dispatched) >= i
            \/ at = "ended"
            \/ [](at \in {"handler", "control"})
=============================================================================

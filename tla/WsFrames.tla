------------------------------ MODULE WsFrames ------------------------------
(***************************************************************************)
(* The byte level of WebSocketClient: recv() reads frames from the socket  *)
(* with recv_exact(), after the bytes that arrived together with the HTTP  *)
(* upgrade response.                                                       *)
(*                                                                         *)
(* The server's stream is a sequence of frames; a byte is its position in  *)
(* the stream, so a payload is known by where it starts and how long it    *)
(* is.  A header read from the middle of a frame says anything.            *)
(***************************************************************************)
EXTENDS Integers, SequencesExt

CONSTANTS
  Streams,  \* the sequences of frames the server may send
  Early,    \* bytes of the stream that come with the upgrade response
  Faults,   \* what the connection may do, a subset of AllFaults
  MaxLen    \* longest payload a header may announce

Ops == {"text", "ping", "pong", "close", "other"}
AllFaults == {"idle", "cut", "eof"}  \* a timeout between frames, inside one; the end
Headers == [op : Ops, ext : {0, 2, 8}, mask : {0, 4}, len : 0 .. MaxLen]
Size(f) == 2 + f.ext + f.mask + f.len

ASSUME FramesAssumption ==
  /\ Streams \subseteq Seq(Headers)
  /\ Early \in Nat
  /\ Faults \subseteq AllFaults
  /\ MaxLen \in Nat

VARIABLES
  frames,   \* what the server sends, in order
  arrived,  \* bytes of the stream that have reached the client
  at,       \* bytes the client has taken
  status,   \* "open"; "none" and "broken" once recv() returned None or raised
  field,    \* the part of a frame being read, "idle" outside recv()
  start,    \* where the header being read began
  header,   \* the header of the frame being read
  got,      \* bytes recv_exact() has gathered of the part
  out       \* history: texts returned and pongs sent, as <<op, start, length>>

readVars == <<at, status, field, start, header, got, out>>
vars == <<frames, arrived, readVars>>

\* End[i]: the position after the first i frames.
End[i \in 0 .. Len(frames)] == IF i = 0 THEN 0 ELSE End[i - 1] + Size(frames[i])
Total == End[Len(frames)]

NoHeader == [op |-> "other", ext |-> 0, mask |-> 0, len |-> 0]
Parts == <<"header", "ext", "mask", "payload">>
SizeOf(part, h) == CASE part = "header" -> 2
                     [] part = "ext" -> h.ext
                     [] part = "mask" -> h.mask
                     [] part = "payload" -> h.len
Need == SizeOf(field, header)
Reading == field # "idle" /\ status = "open"
Lesser(a, b) == IF a < b THEN a ELSE b

TypeOK ==
  /\ frames \in Streams
  /\ arrived \in Early .. Total
  /\ at \in 0 .. arrived
  /\ status \in {"open", "none", "broken"}
  /\ field \in {"idle"} \cup ToSet(Parts)
  /\ start \in 0 .. Total
  /\ header \in Headers
  /\ got \in 0 .. Total
  /\ Reading => got <= Need
  /\ out \in Seq({"text", "ping"} \X (0 .. Total) \X (0 .. MaxLen))

Init ==
  /\ frames \in Streams /\ Early <= Total
  /\ arrived = Early /\ at = 0
  /\ status = "open" /\ field = "idle"
  /\ start = 0 /\ header = NoHeader /\ got = 0
  /\ out = << >>

\* The network delivers more of the stream, cut anywhere.
Arrive ==
  /\ status = "open"
  /\ arrived' \in arrived + 1 .. Total
  /\ UNCHANGED <<frames, readVars>>

\* The caller asks for the next message.
Recv ==
  /\ status = "open" /\ field = "idle"
  /\ field' = "header" /\ got' = 0 /\ start' = at
  /\ UNCHANGED <<frames, arrived, at, status, header, out>>

-----------------------------------------------------------------------------
(* recv_exact(n)                                                           *)

Take(n) ==
  /\ at' = at + n
  /\ got' = got + n
  /\ UNCHANGED <<frames, arrived, status, field, start, header, out>>

\* Changed: the rest of the buffer is dropped.
ForgetBuffer ==
  /\ Reading /\ got < Need
  /\ at < Early
  /\ at' = Early
  /\ UNCHANGED <<frames, arrived, status, field, start, header, got, out>>

\* The read-ahead buffer first,
DrainBuffer ==
  /\ Reading /\ got < Need
  /\ at < Early
  /\ Take(Lesser(Need - got, Early - at))

\* then whatever the socket has.
SockRecv ==
  /\ Reading /\ got < Need
  /\ at >= Early
  /\ \E n \in 1 .. Lesser(Need - got, arrived - at) : Take(n)

\* The socket timeout expires: what was gathered is dropped.
RecvTimeout ==
  /\ Reading /\ got < Need
  /\ IF field = "header" /\ got = 0 THEN "idle" \in Faults ELSE "cut" \in Faults
  /\ at >= Early /\ arrived = at
  /\ field' = "idle"
  /\ UNCHANGED <<frames, arrived, at, status, start, header, got, out>>

\* The server is gone: None at a header, ConnectionError inside a frame.
RecvEof ==
  /\ "eof" \in Faults
  /\ Reading /\ got < Need
  /\ at >= Early /\ arrived = at
  /\ status' = IF field = "header" THEN "none" ELSE "broken"
  /\ UNCHANGED <<frames, arrived, at, field, start, header, got, out>>

-----------------------------------------------------------------------------
(* recv(): the parts of a frame, one after the other.                      *)

\* What the two bytes at a position say: the header of the frame that starts
\* there, or anything.
StartsAt(p) == { i \in 1 .. Len(frames) : p = End[i - 1] }
HeaderAt(p) == IF StartsAt(p) = {} THEN Headers ELSE { frames[i] : i \in StartsAt(p) }

HeaderRead ==
  /\ Reading /\ field = "header" /\ got = Need
  /\ header' \in HeaderAt(start)
  /\ field' = "ext" /\ got' = 0
  /\ UNCHANGED <<frames, arrived, at, status, start, out>>

ExtRead ==
  /\ Reading /\ field = "ext" /\ got = Need
  /\ field' = "mask" /\ got' = 0
  /\ UNCHANGED <<frames, arrived, at, status, start, header, out>>

MaskRead ==
  /\ Reading /\ field = "mask" /\ got = Need
  /\ field' = "payload" /\ got' = 0
  /\ UNCHANGED <<frames, arrived, at, status, start, header, out>>

Payload(op) == <<op, at - header.len, header.len>>
Aligned == StartsAt(start) # {}

FrameRead == Reading /\ field = "payload" /\ got = Need

\* A text frame is returned; bytes that are no UTF-8 text raise an error.
ReturnText ==
  /\ FrameRead /\ header.op = "text"
  /\ \/ /\ out' = Append(out, Payload("text"))
        /\ field' = "idle"
        /\ UNCHANGED status
     \/ /\ ~Aligned
        /\ status' = "broken"
        /\ UNCHANGED <<out, field>>
  /\ UNCHANGED <<frames, arrived, at, start, header, got>>

\* A close frame makes recv() return None.
ReturnNone ==
  /\ FrameRead /\ header.op = "close"
  /\ status' = "none"
  /\ UNCHANGED <<frames, arrived, at, field, start, header, got, out>>

\* A ping is answered, a pong or an unknown frame skipped; recv() reads on.
ReadOn ==
  /\ FrameRead /\ header.op \in {"ping", "pong", "other"}
  /\ out' = IF header.op = "ping" THEN Append(out, Payload("ping")) ELSE out
  /\ field' = "header" /\ got' = 0 /\ start' = at
  /\ UNCHANGED <<frames, arrived, at, status, header>>

-----------------------------------------------------------------------------
Client == Recv \/ DrainBuffer \/ SockRecv \/ HeaderRead
          \/ ExtRead \/ MaskRead \/ ReturnText \/ ReturnNone \/ ReadOn

\* The stream is exhausted, or recv() has ended for good.
Quiet == (status # "open" \/ (arrived = Total /\ at = Total)) /\ UNCHANGED vars

Next == Arrive \/ Client \/ RecvTimeout \/ RecvEof \/ Quiet

Spec == Init /\ [][Next]_vars

-----------------------------------------------------------------------------
(* Properties.                                                             *)

\* What a correct reader returns and answers: the texts and pings before the
\* first close frame.
Readable == { i \in 1 .. Len(frames) :
                /\ frames[i].op \in {"text", "ping"}
                /\ \A j \in 1 .. i : frames[j].op # "close" }
PayloadOf(i) == End[i] - frames[i].len
Event(i) == <<frames[i].op, PayloadOf(i), frames[i].len>>

\* However the stream is cut into reads, the messages returned and the pongs
\* sent are the server's texts and pings: none garbled, none twice or out of
\* order, and none skipped before one that is there (recv, recv_exact and the
\* read-ahead buffer of connect).
FramesIntact ==
  /\ \A k \in 1 .. Len(out) : \E i \in Readable : out[k] = Event(i)
  /\ \A k, l \in 1 .. Len(out) : k < l => out[k][2] < out[l][2]
  /\ \A k \in 1 .. Len(out), i \in Readable :
       PayloadOf(i) < out[k][2] => \E l \in 1 .. Len(out) : out[l] = Event(i)

\* The connection ended before a close frame.
CutOff == status = "broken" \/ (status = "none" /\ field = "header")

\* The caller has every text and every pong is sent, unless the connection was
\* cut off, and the caller has control, so that it can look at its cancellation
\* flag (set_recv_timeout).
AllRead ==
  /\ (\A i \in Readable : Event(i) \in ToSet(out)) \/ CutOff
  /\ field = "idle" \/ status # "open"
=============================================================================

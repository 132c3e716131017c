------------------------------- MODULE DuoChat -------------------------------
(***************************************************************************)
(* One call of DuoProvider.chat() together with the turn that consumes it. *)
(*                                                                         *)
(* The provider opens an Action Cable web socket, subscribes, posts the    *)
(* question with an HTTP mutation and reassembles the reply from chunks    *)
(* that may be lost, duplicated or reordered.  A ConnectionError or        *)
(* OSError of the streaming path makes chat() post the question once more  *)
(* and poll for the reply.  The consumer takes the yielded text one delta  *)
(* at a time and stops as soon as the user has interrupted the turn.       *)
(*                                                                         *)
(* Text is a sequence of tokens: the code only compares prefixes and       *)
(* lengths and concatenates.  The byte framing of the socket is WsFrames.  *)
(***************************************************************************)
EXTENDS Integers, SequencesExt

CONSTANTS
  Token,     \* what text is made of
  Answer,    \* the authoritative reply, carried whole by the final chunk
  Scripts,   \* the chunk contents the server may send, one script per call
  Faults,    \* what the environment may do wrong, a subset of AllFaults
  Timeout,   \* DuoProvider.timeout: the polling budget, in seconds
  MaxDelay   \* longest pause between two polls

Text == Seq(Token)

AllFaults == {"connect", "handshake", "post", "api", "lose", "duplicate",
              "odd", "close", "send", "silent", "cancel"}

ASSUME ConstantsAssumption ==
  /\ Answer \in Text /\ Answer # << >>
  /\ Scripts \subseteq Seq(Text)
  /\ Faults \subseteq AllFaults
  /\ Timeout \in Nat
  /\ MaxDelay \in Nat \ {0}

VARIABLES
  phase,         \* where the call is
  script,        \* the chunk contents of this reply
  posts,         \* questions the server has accepted
  inflight,      \* chunk ids sent and not yet received; Final is the last one
  accumulated,   \* text of the reply reassembled so far
  nextExpected,  \* next chunkId to process
  pending,       \* out-of-order chunks waiting, by chunkId
  buffered,      \* buffered_chunks: the first chunk while the mode is unknown
  mode,          \* chunk_mode
  items,         \* chunks_to_process not yet emitted
  offered,       \* the delta yielded and not yet taken by the consumer
  taken,         \* full_response: what the consumer has kept
  cancelled,     \* interrupt_event
  sawFinal,      \* history: the final chunk was received
  elapsed,       \* seconds spent polling
  delay          \* next pause between polls

netVars    == <<script, posts, inflight>>
streamVars == <<accumulated, nextExpected, pending, buffered, mode, items>>
pollVars   == <<elapsed, delay>>
userVars   == <<taken, cancelled>>
vars == <<phase, netVars, streamVars, offered, userVars, sawFinal, pollVars>>

Final == 0                      \* chunkId None
ChunkIds == DOMAIN script
Modes == {"unknown", "cumulative", "fragments"}
Working == {"connect", "welcome", "confirm", "post", "loop", "recv", "flush",
            "unsubscribe", "pollPost", "poll"}
Over == {"done", "closed", "failed"}

BeyondNext(s, n) == SubSeq(s, n + 2, Len(s))
Beyond(s, n) == SubSeq(s, n + 1, Len(s))       \* s[n:]

\* What the final chunk adds to the text already emitted.
NoRemainder(text) == << >>
Remainder(text) == IF Len(Answer) > Len(text) THEN Beyond(Answer, Len(text)) ELSE << >>

\* The shape of a stream, judged by its first two chunks.
AlwaysFragments(first, second) == "fragments"
ModeOf(first, second) == IF IsPrefix(first, second) THEN "cumulative" ELSE "fragments"
May(f) == f \in Faults
\* The generator runs only while the consumer asks for the next delta.
Running(p) == phase = p /\ offered = << >>
Lesser(a, b) == IF a < b THEN a ELSE b

TypeOK ==
  /\ phase \in Working \cup Over
  /\ script \in Scripts
  /\ posts \in Nat
  /\ inflight \subseteq ChunkIds \cup {Final}
  /\ accumulated \in Text
  /\ nextExpected \in Nat \ {0}
  /\ DOMAIN pending \subseteq ChunkIds
  /\ \A i \in DOMAIN pending : pending[i] \in Text
  /\ buffered \in Seq(Text) /\ Len(buffered) <= 1
  /\ mode \in Modes
  /\ items \in Seq(Text)
  /\ offered \in Text
  /\ taken \in Text
  /\ cancelled \in BOOLEAN
  /\ sawFinal \in BOOLEAN
  /\ elapsed \in Nat
  /\ delay \in Nat \ {0}

Init ==
  /\ phase = "connect"
  /\ script \in Scripts
  /\ posts = 0 /\ inflight = {}
  /\ accumulated = << >> /\ nextExpected = 1 /\ pending = << >>
  /\ buffered = << >> /\ mode = "unknown" /\ items = << >>
  /\ offered = << >> /\ taken = << >>
  /\ cancelled = FALSE /\ sawFinal = FALSE
  /\ elapsed = 0 /\ delay = 1

-----------------------------------------------------------------------------
(* The streaming path: connect, welcome, subscribe, post.                  *)

\* A ConnectionError, OSError, TimeoutError or PermissionError of the
\* streaming path: chat() goes on to chat_polling().
FallBack ==
  /\ phase' = "pollPost"
  /\ UNCHANGED <<netVars, streamVars, offered, userVars, sawFinal, pollVars>>

\* A DuoAPIError leaves chat() and reaches the turn.
Fail ==
  /\ phase' = "failed"
  /\ UNCHANGED <<netVars, streamVars, offered, userVars, sawFinal, pollVars>>

Advance(from, to) ==
  /\ Running(from)
  /\ phase' = to
  /\ UNCHANGED <<netVars, streamVars, offered, userVars, sawFinal, pollVars>>

Connect        == Advance("connect", "welcome")
ConnectFails   == May("connect") /\ Running("connect") /\ FallBack
UserQueryFails == May("api") /\ Running("connect") /\ Fail
Welcome        == Advance("welcome", "confirm")
Confirm        == Advance("confirm", "post")
\* Closed, refused, rejected or timed out before the confirmation.
HandshakeFails ==
  May("handshake") /\ (Running("welcome") \/ Running("confirm")) /\ FallBack
\* A message of the handshake that is not JSON: the ValueError reaches the turn.
HandshakeMalformed ==
  May("handshake") /\ (Running("welcome") \/ Running("confirm")) /\ Fail

PostQuestion ==
  /\ Running("post")
  /\ phase' = "loop"
  /\ posts' = posts + 1
  /\ inflight' = ChunkIds \cup {Final}
  /\ UNCHANGED <<script, streamVars, offered, userVars, sawFinal, pollVars>>

\* The HTTP request breaks: before the server accepted it, or after.
PostBreaks ==
  /\ May("post")
  /\ Running("post")
  /\ phase' = "pollPost"
  /\ posts' \in {posts, posts + 1}
  /\ UNCHANGED <<script, inflight, streamVars, offered, userVars, sawFinal, pollVars>>

PostRefused == May("api") /\ (Running("post") \/ Running("pollPost")) /\ Fail

-----------------------------------------------------------------------------
(* The receive loop.                                                       *)

LoopTopIgnoresCancel == Advance("loop", "recv")
LoopTop ==
  /\ Running("loop")
  /\ phase' = IF cancelled THEN "unsubscribe" ELSE "recv"
  /\ UNCHANGED <<netVars, streamVars, offered, userVars, sawFinal, pollVars>>

\* The 0.3 s poll expired, or a ping, a malformed frame or an unrelated
\* message was read: back to the top of the loop.
RecvNothing == Advance("recv", "loop")

Consume(i) ==
  inflight' \in {inflight \ {i}} \cup (IF May("duplicate") THEN {inflight} ELSE {})

RecvChunk(i) ==
  /\ Running("recv")
  /\ i \in inflight \ {Final}
  /\ Consume(i)
  /\ pending' = [j \in DOMAIN pending \cup {i} |-> IF j = i THEN script[i] ELSE pending[j]]
  /\ phase' = "flush"
  /\ UNCHANGED <<script, posts, accumulated, nextExpected, buffered, mode, items,
                 offered, userVars, sawFinal, pollVars>>

\* A chunkId that is not a number: the text beyond what is accumulated.
RecvOddChunk(i) ==
  /\ May("odd")
  /\ Running("recv")
  /\ i \in inflight \ {Final}
  /\ Consume(i)
  /\ IF Len(script[i]) > Len(accumulated)
     THEN /\ offered' = Beyond(script[i], Len(accumulated))
          /\ accumulated' = script[i]
     ELSE UNCHANGED <<offered, accumulated>>
  /\ phase' = "loop"
  /\ UNCHANGED <<script, posts, nextExpected, pending, buffered, mode, items,
                 userVars, sawFinal, pollVars>>

RecvFinalContinues ==
  /\ Running("recv")
  /\ Final \in inflight
  /\ Consume(Final)
  /\ offered' = Remainder(accumulated)
  /\ sawFinal' = TRUE
  /\ phase' = "loop"
  /\ UNCHANGED <<script, posts, streamVars, userVars, pollVars>>

RecvFinal ==
  /\ Running("recv")
  /\ Final \in inflight
  /\ Consume(Final)
  /\ offered' = Remainder(accumulated)
  /\ sawFinal' = TRUE
  /\ phase' = "unsubscribe"
  /\ UNCHANGED <<script, posts, streamVars, userVars, pollVars>>

\* aiCompletionResponse.errors: DuoAPIError.
RecvError == May("api") /\ Running("recv") /\ Fail

\* recv() returned None or the server sent a disconnect message.
RecvClosed == May("close") /\ Advance("recv", "unsubscribe")

\* The connection breaks inside a frame: the error leaves recv().
RecvBreaks == May("close") /\ Running("recv") /\ FallBack

LoseChunk(i) ==
  /\ IF i = Final THEN May("silent") ELSE May("lose")
  /\ i \in inflight
  /\ inflight' = inflight \ {i}
  /\ UNCHANGED <<phase, script, posts, streamVars, offered, userVars, sawFinal, pollVars>>

-----------------------------------------------------------------------------
(* while next_expected in pending: emit_sequential_chunk(...)              *)

FlushChunk ==
  /\ Running("flush")
  /\ items = << >>
  /\ nextExpected \in DOMAIN pending
  /\ LET content == pending[nextExpected] IN
       \/ /\ content = << >>
          /\ UNCHANGED <<buffered, mode, items>>
       \/ /\ content # << >> /\ mode = "unknown" /\ buffered = << >>
          /\ buffered' = <<content>>
          /\ UNCHANGED <<mode, items>>
       \/ /\ content # << >> /\ mode = "unknown" /\ buffered # << >>
          /\ mode' = ModeOf(buffered[1], content)
          /\ items' = <<buffered[1], content>>
          /\ buffered' = << >>
       \/ /\ content # << >> /\ mode # "unknown"
          /\ items' = <<content>>
          /\ UNCHANGED <<buffered, mode>>
  /\ pending' = [j \in DOMAIN pending \ {nextExpected} |-> pending[j]]
  /\ nextExpected' = nextExpected + 1
  /\ UNCHANGED <<phase, netVars, accumulated, offered, userVars, sawFinal, pollVars>>

\* One turn of the loop over chunks_to_process; an interrupt drops the rest.
EmitItem ==
  /\ Running("flush")
  /\ items # << >>
  /\ LET item == Head(items) IN
       \/ /\ cancelled
          /\ items' = << >>
          /\ UNCHANGED <<accumulated, offered>>
       \/ /\ ~cancelled /\ mode = "cumulative"
          /\ items' = Tail(items)
          /\ IF Len(item) > Len(accumulated) /\ IsPrefix(accumulated, item)
             THEN /\ offered' = Beyond(item, Len(accumulated))
                  /\ accumulated' = item
             ELSE UNCHANGED <<accumulated, offered>>
       \/ /\ ~cancelled /\ mode = "fragments"
          /\ items' = Tail(items)
          /\ offered' = item
          /\ accumulated' = accumulated \o item
  /\ UNCHANGED <<phase, netVars, nextExpected, pending, buffered, mode,
                 userVars, sawFinal, pollVars>>

FlushDone ==
  /\ items = << >>
  /\ nextExpected \notin DOMAIN pending
  /\ Advance("flush", "loop")

\* The unsubscribe command, then ws.close(): the call is over.
Unsubscribe == Advance("unsubscribe", "done")
UnsubscribeFails == May("send") /\ Running("unsubscribe") /\ FallBack

-----------------------------------------------------------------------------
(* chat_polling(): post again and poll with exponential backoff.           *)

PollPost ==
  /\ Running("pollPost")
  /\ phase' = "poll"
  /\ posts' = posts + 1
  /\ elapsed' = 0 /\ delay' = 1
  /\ UNCHANGED <<script, inflight, streamVars, offered, userVars, sawFinal>>

\* A broken request inside chat_polling() is not caught by chat().
PollBreaks == May("post") /\ (Running("pollPost") \/ Running("poll")) /\ Fail

PollOn(answered) ==
  /\ Running("poll")
  /\ elapsed < Timeout
  /\ elapsed' = elapsed + delay
  /\ delay' = Lesser(2 * delay, MaxDelay)
  /\ offered' = IF answered THEN Answer ELSE offered
  /\ UNCHANGED <<phase, netVars, streamVars, userVars, sawFinal>>

Poll(answered) ==
  /\ Running("poll")
  /\ elapsed < Timeout
  /\ elapsed' = elapsed + delay
  /\ IF answered THEN phase' = "done" /\ offered' = Answer /\ UNCHANGED delay
                 ELSE delay' = Lesser(2 * delay, MaxDelay) /\ UNCHANGED <<phase, offered>>
  /\ UNCHANGED <<netVars, streamVars, userVars, sawFinal>>

PollTimesOut == elapsed >= Timeout /\ Running("poll") /\ Fail

-----------------------------------------------------------------------------
(* The consumer: the for loop of send_chat_turn over the delta stream.     *)

TakeDelta ==
  /\ offered # << >>
  /\ ~cancelled
  /\ taken' = taken \o offered
  /\ offered' = << >>
  /\ UNCHANGED <<phase, netVars, streamVars, cancelled, sawFinal, pollVars>>

\* An interrupted consumer leaves the loop, which closes the generator.
DropDelta ==
  /\ offered # << >>
  /\ cancelled
  /\ offered' = << >>
  /\ phase' = "closed"
  /\ UNCHANGED <<netVars, streamVars, userVars, sawFinal, pollVars>>

\* Ctrl+C: the SIGINT wrapper sets interrupt_event.
Cancel ==
  /\ May("cancel")
  /\ phase \notin Over \/ offered # << >>
  /\ ~cancelled
  /\ cancelled' = TRUE
  /\ UNCHANGED <<phase, netVars, streamVars, offered, taken, sawFinal, pollVars>>

Ended == phase \in Over /\ offered = << >>
Returned == Ended /\ UNCHANGED vars

-----------------------------------------------------------------------------
Receive == RecvNothing \/ RecvFinal \/ RecvError \/ RecvClosed \/ RecvBreaks
           \/ \E i \in ChunkIds : RecvChunk(i) \/ RecvOddChunk(i)
Handshake == Connect \/ ConnectFails \/ UserQueryFails \/ Welcome \/ Confirm
             \/ HandshakeFails \/ HandshakeMalformed \/ PostQuestion \/ PostBreaks \/ PostRefused
Polling == PollPost \/ PollBreaks \/ (\E a \in BOOLEAN : Poll(a)) \/ PollTimesOut
Client == Handshake \/ LoopTop \/ Receive \/ FlushChunk \/ EmitItem \/ FlushDone
          \/ Unsubscribe \/ UnsubscribeFails \/ Polling \/ TakeDelta \/ DropDelta
Environment == Cancel \/ \E i \in ChunkIds \cup {Final} : LoseChunk(i)

Next == Client \/ Environment \/ Returned

Spec == Init /\ [][Next]_vars

\* The client thread keeps running; a final chunk that stays available is
\* eventually the one recv() returns.
FairSpec == Spec /\ WF_vars(Client) /\ SF_vars(RecvFinal)

-----------------------------------------------------------------------------
(* Properties.                                                             *)

\* A cumulative reply: every chunk is a prefix of the answer and of the
\* chunks after it.
Cumulative(s) ==
  /\ \A i \in DOMAIN s : IsPrefix(s[i], Answer)
  /\ \A i, j \in DOMAIN s : i < j => IsPrefix(s[i], s[j])

\* A reply in fragments: the answer is cut into the chunks, and the second
\* chunk that is not empty does not begin with the first, by which it would be
\* taken for a cumulative one.
Cuts(s) == { cut \in [0 .. Len(s) -> 0 .. Len(Answer)] :
               /\ cut[0] = 0
               /\ \A i \in 1 .. Len(s) :
                    cut[i - 1] <= cut[i] /\ s[i] = SubSeq(Answer, cut[i - 1] + 1, cut[i]) }
OnlyTextBefore(s, i, n) == s[i] # << >> /\ \A k \in 1 .. n - 1 : k # i => s[k] = << >>
Fragmented(s) ==
  /\ Cuts(s) # {}
  /\ \A n \in 1 .. Len(s), i \in 1 .. Len(s) :
       (i < n /\ OnlyTextBefore(s, i, n) /\ s[n] # << >>) => ~IsPrefix(s[i], s[n])

\* As long as the server has accepted one question only, the text handed to
\* the turn is a prefix of the authoritative answer: nothing is garbled,
\* repeated or skipped, whatever chunks were lost, doubled or reordered
\* (chat_streaming's reassembly by chunkId).
OneQuestionIntact == posts <= 1 => IsPrefix(taken \o offered, Answer)

\* Why it holds.  Where the call is tells how often the question was posted,
PostCount ==
  /\ phase \in {"connect", "welcome", "confirm", "post"} => posts = 0
  /\ phase \in {"loop", "recv", "flush"} => posts = 1 /\ ~sawFinal
  /\ phase = "unsubscribe" => posts = 1
  /\ phase = "pollPost" => posts <= 1
  /\ phase = "poll" => posts \in {1, 2} /\ (sawFinal => posts = 2)
  /\ sawFinal => posts >= 1
  /\ posts <= 2
\* what the turn has been handed is what the loop has reassembled,
HandedOver ==
  /\ posts = 0 => taken = << >> /\ offered = << >> /\ accumulated = << >>
  /\ phase = "poll" /\ posts = 1 => taken = << >> /\ offered = << >>
  /\ phase \in {"loop", "recv", "flush"} => taken \o offered = accumulated
  /\ phase = "unsubscribe" => taken \o offered = IF sawFinal THEN Answer ELSE accumulated
  /\ phase = "done" /\ posts = 1 /\ sawFinal => taken \o offered = Answer
\* and everything waiting to be emitted is a prefix of the answer, the
\* buffered chunk one that came before the next.
ChunksInOrder ==
  /\ mode # "fragments"
  /\ IsPrefix(accumulated, Answer)
  /\ \A i \in DOMAIN pending : pending[i] = script[i]
  /\ \A k \in DOMAIN items : IsPrefix(items[k], Answer)
  /\ buffered # << >> =>
       \E i \in ChunkIds : i < nextExpected /\ buffered[1] = script[i]

\* The inductive invariant behind OneQuestionIntact and WholeReply: the
\* text the turn holds, the text the loop reassembled and the chunks still
\* waiting agree at every step of chat_streaming.
Reassembly == PostCount /\ HandedOver /\ ChunksInOrder /\ OneQuestionIntact

\* A call that returns after the final chunk, without an interrupt, has
\* handed over the whole answer: the final chunk fills every gap the
\* intermediate chunks left (duo.py, "Yield whatever we haven't emitted yet").
WholeReply ==
  (phase = "done" /\ Ended /\ sawFinal /\ posts = 1 /\ ~cancelled) => taken = Answer

\* A question asked again adds the whole answer behind the first part that is
\* already kept, or nothing: the reply may come twice (chat() goes on to
\* chat_polling() with the text of the streaming path delivered), but its two
\* deliveries are never mixed, and there is no third.
AskedAgain ==
  posts = 2 => \E kept \in Prefixes(Answer) : taken \o offered \in {kept, kept \o Answer}

\* Whether the question was asked once or again, what was handed over of each
\* answer is a part of it from its beginning.
AnswersIntact == OneQuestionIntact /\ AskedAgain

\* One call of chat() never submits the question more than twice: once when
\* streaming, once when polling.
AtMostTwoQuestions == posts <= 2

\* chat_polling() stops within one pause of its budget, although the pause
\* doubles every time (while elapsed < self.timeout).
PollBudget == elapsed < Timeout + MaxDelay

\* The turn records a reply as complete when the call returned and the user
\* did not interrupt it: such a reply is the whole answer.
CompleteIsWhole == (phase = "done" /\ Ended /\ ~cancelled) => taken = Answer

\* The refinement: the turn's reply is what the abstract call has delivered.
ReplyStatus ==
  IF ~Ended THEN "running"
  ELSE IF phase = "failed" THEN "failed"
  ELSE IF cancelled THEN "interrupted" ELSE "whole"

Reply == INSTANCE ChatReply WITH text <- taken, status <- ReplyStatus

\* The provider implements the abstract reply.
ImplementsReply == Reply!Spec

\* An interrupted call ends, even when the server has gone silent: the loop
\* looks at cancel() between two short reads.
CancelEnds == cancelled ~> Ended

\* The server has nothing more to send, the user does not interrupt, and no
\* timeout of the receive loop ends the wait.
Starved ==
  phase \in {"loop", "recv", "flush"} /\ Final \notin inflight /\ ~sawFinal /\ ~cancelled

\* Every call ends, unless the server goes silent before the final chunk.
CallEnds == <>(Ended \/ Starved)

\* Both: no caller waits for a call longer than the server or the user make it.
CallsEnd == CancelEnds /\ CallEnds
=============================================================================

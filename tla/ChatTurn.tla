------------------------------ MODULE ChatTurn ------------------------------
(***************************************************************************)
(* A session sending turns: the files queued for the next request, the     *)
(* replay owed to Duo after a conversation was resumed, the attempts at    *)
(* one question with their retries, and the thread Duo keeps on its side   *)
(* for this user, which knows nothing of tuochat's conversations: every    *)
(* question goes to it, until "/reset" empties it.                         *)
(*                                                                         *)
(* DuoChat models one attempt and MessageStore the saving of the turn.     *)
(***************************************************************************)
EXTENDS Integers, SequencesExt

CONSTANTS
  Conv,      \* conversation ids
  MaxAsks,   \* requests and skills in one conversation (bound)
  MaxAll,    \* the same in all conversations together (bound)
  MaxFiles,  \* attachments ever queued (bound)
  Faults     \* what else may happen, a subset of AllFaults

\* "dropped": a request that carries the replay is refused, aborted or given
\*            to another model;
\* "deaf":    "/reset" does not reach Duo (reset_conversation only logs it);
\* "ambient": a conversation is opened without "/reset" while the thread
\*            holds another one (/search, resume and chat send at start).
AllFaults == {"dropped", "deaf", "ambient"}

ASSUME TurnAssumption ==
  /\ MaxAsks \in Nat /\ MaxAll \in Nat /\ MaxFiles \in Nat
  /\ Faults \subseteq AllFaults

Ask == Conv \X (1 .. MaxAsks)    \* the n-th request of a conversation
File == 1 .. MaxFiles            \* attachments, in the order they were queued

\* A turn: the question as it was sent and its answer.  "content" is every
\* request whose text the question holds, its own and the replayed ones.
Turn == [ask : Ask, to : {"duo", "other", "skill"}, content : SUBSET Ask, files : Seq(File)]

VARIABLES
  current,   \* state.conv.id
  turns,     \* what every conversation holds, in memory and saved
  asked,     \* requests made so far in a conversation
  pending,   \* state.pending_attachment_messages
  queued,    \* attachments ever queued
  dropped,   \* attachments detached, or cleared with their conversation
  resumed,   \* state.resumed_context_pending
  outbound,  \* the request of send_chat_turn
  phase,     \* "idle", "sending" (an attempt runs), "failed" (the prompt)
  posted,    \* Duo has the question of this attempt
  thread     \* the requests in Duo's thread

session == <<current, resumed, pending>>
vars == <<session, turns, asked, queued, dropped, outbound, phase, posted, thread>>

TypeOK ==
  /\ current \in Conv
  /\ turns \in [Conv -> Seq(Turn)]
  /\ asked \in [Conv -> 0 .. MaxAsks]
  /\ pending \in Seq(File) /\ queued \in 0 .. MaxFiles /\ dropped \subseteq File
  /\ resumed \in BOOLEAN /\ posted \in BOOLEAN
  /\ phase \in {"idle", "sending", "failed"}
  /\ phase # "idle" => outbound \in Turn
  /\ thread \subseteq Ask

Idle == phase = "idle"
MayAsk ==                        \* within the bounds
  asked[current] < MaxAsks /\ FoldFunction(+, 0, asked) < MaxAll
NextAsk == <<current, asked[current] + 1>>
NoRequest == << >>
Said(c) == UNION { turns[c][i].content : i \in DOMAIN turns[c] }
Unused(c) == turns[c] = << >>    \* nothing of it was kept: its id stands for a new one
Ambient(c) == \A m \in thread : m[1] = c

Init ==
  /\ current \in Conv
  /\ turns = [c \in Conv |-> << >>]
  /\ asked = [c \in Conv |-> 0]
  /\ pending = << >> /\ queued = 0 /\ dropped = {}
  /\ resumed = FALSE
  /\ outbound = NoRequest /\ phase = "idle" /\ posted = FALSE
  /\ thread = {}

-----------------------------------------------------------------------------
(* Attachments.                                                            *)

\* queue_attachment: an included file, a page, a shell output.
Queue(f) == queued' = f /\ f <= MaxFiles /\ pending' = Append(pending, f)

Attach ==
  /\ Idle
  /\ Queue(queued + 1)
  /\ UNCHANGED <<current, resumed, turns, asked, dropped, outbound, phase, posted, thread>>

\* /detach of one attachment, or of all.
Detach ==
  /\ Idle /\ pending # << >>
  /\ \/ \E i \in DOMAIN pending :
          pending' = RemoveAt(pending, i) /\ dropped' = dropped \cup {pending[i]}
     \/ pending' = << >> /\ dropped' = dropped \cup ToSet(pending)
  /\ UNCHANGED <<current, resumed, turns, asked, queued, outbound, phase, posted, thread>>

\* handle_sandbox_response, after every attempt: the answer held code, the
\* user ran it and attached its output.
Ran == Queue(queued + 1)
NothingRan == UNCHANGED <<pending, queued>>

-----------------------------------------------------------------------------
(* The turn.                                                               *)

\* build_outbound_input and the checks before sending: the replay is spent
\* when the request is built.
Built(to) ==
  [ask |-> NextAsk, to |-> to, files |-> pending,
   content |-> {NextAsk} \cup (IF resumed THEN Said(current) ELSE {})]
Refused == UNCHANGED <<asked, phase, outbound>>
Sent(to) ==
  /\ phase' = "sending" /\ outbound' = Built(to)
  /\ asked' = [asked EXCEPT ![current] = @ + 1]
MayDrop == resumed => "dropped" \in Faults

Begin ==
  /\ Idle /\ MayAsk
  /\ resumed' = FALSE
  /\ \/ Sent("duo")
     \/ MayDrop /\ (Sent("other") \/ Refused)
  /\ UNCHANGED <<current, pending, turns, queued, dropped, posted, thread>>

\* The question reaches Duo, at most once or, by polling, twice.
Post ==
  /\ phase = "sending" /\ outbound.to = "duo" /\ ~posted
  /\ posted' = TRUE
  /\ thread' = thread \cup outbound.content
  /\ UNCHANGED <<session, turns, asked, queued, dropped, outbound, phase>>

EndAttempt(p) == phase' = p /\ posted' = FALSE

\* An error ends the attempt, before or after the question was posted.
Fail ==
  /\ phase = "sending" /\ outbound.to = "duo"
  /\ NothingRan \/ (posted /\ Ran)
  /\ EndAttempt("failed")
  /\ UNCHANGED <<current, resumed, turns, asked, dropped, outbound, thread>>

\* Retry, with the same timeout or a longer one.
RetryRecorded ==
  /\ phase = "failed" /\ phase' = "sending"
  /\ turns' = [turns EXCEPT ![current] = Append(@, outbound)]
  /\ UNCHANGED <<session, asked, queued, dropped, outbound, posted, thread>>
Retry ==
  /\ phase = "failed" /\ phase' = "sending"
  /\ UNCHANGED <<session, turns, asked, queued, dropped, outbound, posted, thread>>

\* Abort; OpenRouter fails without a retry; an exception nobody catches ends
\* the turn of a window.  The replay is lost unless Duo had it already.
ReplayArrived == outbound.content \subseteq thread \cup {outbound.ask}
Abort ==
  /\ ~Idle
  /\ ReplayArrived \/ "dropped" \in Faults
  /\ EndAttempt("idle") /\ outbound' = NoRequest
  /\ UNCHANGED <<session, turns, asked, queued, dropped, thread>>

\* consume_pending_attachments, after the output of a sandbox was queued.
ConsumeEverything(files, n) == << >>
Consume(files, n) == SubSeq(files, n + 1, Len(files))

\* The answer, whole or interrupted: the turn joins the conversation, which
\* is saved, and the files that were sent leave the queue.
Finish ==
  /\ phase = "sending" /\ (posted \/ outbound.to = "other")
  /\ turns' = [turns EXCEPT ![current] = Append(@, outbound)]
  /\ \/ queued' = queued /\ pending' = Consume(pending, Len(outbound.files))
     \/ /\ posted /\ queued < MaxFiles /\ queued' = queued + 1
        /\ pending' = Consume(Append(pending, queued'), Len(outbound.files))
  /\ EndAttempt("idle") /\ outbound' = NoRequest
  /\ UNCHANGED <<current, resumed, asked, dropped, thread>>

\* /skill: a message of the conversation that nobody sends.
LoadSkill ==
  /\ Idle /\ MayAsk
  /\ asked' = [asked EXCEPT ![current] = @ + 1]
  /\ turns' = [turns EXCEPT ![current] = Append(@,
       [ask |-> NextAsk, to |-> "skill", content |-> {NextAsk}, files |-> << >>])]
  /\ UNCHANGED <<session, queued, dropped, outbound, phase, posted, thread>>

-----------------------------------------------------------------------------
(* Changing the conversation.                                              *)

ThreadKept == UNCHANGED thread
Reset == thread' = {} \/ ("deaf" \in Faults /\ ThreadKept)
KeepThread(c) == (Ambient(c) \/ "ambient" \in Faults) /\ ThreadKept

OwesNothing(c) == FALSE
OwesReplay(c) == turns[c] # << >>
Open(c) ==
  /\ current' = c
  /\ pending' = << >> /\ dropped' = dropped \cup ToSet(pending)
  /\ EndAttempt("idle") /\ outbound' = NoRequest
  /\ UNCHANGED <<turns, asked, queued>>

\* switch_to_conversation.
Switch(c) == turns[c] # << >> /\ Open(c) /\ resumed' = OwesReplay(c)

\* reset_repl_state leaves resumed_context_pending as it is.
NewConversation(c) == Idle /\ Unused(c) /\ Open(c) /\ Reset /\ UNCHANGED resumed

\* /resume, and the tabs of the window.
Resume(c) == Idle /\ Switch(c) /\ Reset

\* /search switches to the conversation without a reset.
SearchResume(c) == Idle /\ Switch(c) /\ KeepThread(c)

\* The process ends, at any time, and another one starts with a new
\* conversation or a saved one; only the interactive new one resets.
Restart(c) ==
  \/ Unused(c) /\ Open(c) /\ resumed' = FALSE /\ (Reset \/ KeepThread(c))
  \/ Switch(c) /\ KeepThread(c)

-----------------------------------------------------------------------------
Next ==
  \/ Attach \/ Detach \/ Begin \/ Post \/ Fail \/ Retry \/ Abort \/ Finish \/ LoadSkill
  \/ \E c \in Conv :
       NewConversation(c) \/ Resume(c) \/ SearchResume(c) \/ Restart(c)

Spec == Init /\ [][Next]_vars

-----------------------------------------------------------------------------
(* Properties.                                                             *)

\* Whatever fails, is retried, aborted or queued by the sandbox in the middle
\* of a turn, an attachment is in one place: waiting, sent in one turn, or
\* dropped by the user (build_outbound_input, consume_pending_attachments).
Carried(f) == { p \in Conv \X (1 .. MaxAsks) :
  p[2] \in DOMAIN turns[p[1]] /\ f \in ToSet(turns[p[1]][p[2]].files) }
FilesOnce ==
  \A f \in 1 .. queued :
    Cardinality({ i \in DOMAIN pending : pending[i] = f })
      + Cardinality(Carried(f)) + (IF f \in dropped THEN 1 ELSE 0) = 1

\* A request is in its conversation at most once, after those asked before
\* it, however often its question was posted (send_chat_turn: "Retrying
\* request without adding a duplicate conversation turn").
TurnsInOrder ==
  \A c \in Conv : \A i, j \in DOMAIN turns[c] :
    i < j => turns[c][i].ask[2] < turns[c][j].ask[2]

\* When Duo has a question it also has everything it was asked before in the
\* conversation, from its thread or from the replay, also after resuming
\* (build_resumed_context_block).
InContext ==
  posted => \A i \in DOMAIN turns[current] :
              turns[current][i].to = "duo" => turns[current][i].ask \in thread

\* And it has nothing of another conversation (reset_repl_state: "so the new
\* local conversation isn't contaminated by the previous thread").
NoOtherContext == posted => Ambient(current)
=============================================================================

------------------------------ MODULE Headless ------------------------------
(***************************************************************************)
(* The commands that take one turn and end: chat new, chat send, headless  *)
(* ask and headless continue.  Each is a program of its own that loads a   *)
(* conversation, waits for the reply and then saves both messages, while   *)
(* others do the same, or archive and delete what it has loaded.           *)
(*                                                                         *)
(* A message is the command that made it and its role; the order of the    *)
(* messages and their text are left out.                                   *)
(***************************************************************************)
EXTENDS Integers, Sequences, FiniteSets, SequencesExt

CONSTANTS
  Turns,   \* the commands, each run once
  Convs,   \* the conversations there may be
  Ongoing  \* the one with the reserved id

ASSUME HeadlessAssumption == Ongoing \in Convs /\ IsFiniteSet(Convs)

Commands == {"ask", "new", "empty", "send", "continue"}
Question(t) == <<t, "user">>
ReplyTo(t) == <<t, "assistant">>
NoRow == [there |-> FALSE, archived |-> FALSE]
Unstarted == [pc |-> "start", command |-> "ask", conv |-> Ongoing, archived |-> FALSE, exit |-> -1]

VARIABLES
  row,     \* [Convs -> its row in the store]
  recent,  \* the conversations, the one saved last first
  stored,  \* [Convs -> the messages in the store]
  turn,    \* [Turns -> [pc, command, conv, archived, exit]]
  erased,  \* history: commands some of whose messages were deleted
  late     \* history: commands that failed after the reply

headlessVars == <<row, recent, stored, turn, erased, late>>

HeadlessTypeOK ==
  /\ row \in [Convs -> [there : BOOLEAN, archived : BOOLEAN]]
  /\ ToSet(recent) = Convs /\ Len(recent) = Cardinality(Convs)
  /\ stored \in [Convs -> SUBSET (Turns \X {"user", "assistant"})]
  /\ turn \in [Turns -> [pc : {"start", "opened", "ready", "asked", "row", "user", "assistant",
                                "archive", "output", "end"},
                         command : Commands, conv : Convs, archived : BOOLEAN,
                         exit : {-1, 0, 1}]]
  /\ erased \subseteq Turns /\ late \subseteq Turns

\* One conversation is there from before.
HeadlessInit ==
  /\ \E c \in Convs \ {Ongoing} : row = [d \in Convs |-> [NoRow EXCEPT !.there = d = c]]
  /\ recent = SetToSeq(Convs)
  /\ stored = [c \in Convs |-> {}]
  /\ turn = [t \in Turns |-> Unstarted] /\ erased = {} /\ late = {}

-----------------------------------------------------------------------------
At(t, pc) == turn[t].pc = pc
GoesTo(t, pc) == turn' = [turn EXCEPT ![t].pc = pc]
Exits(t, code) == turn' = [turn EXCEPT ![t].pc = "end", ![t].archived = FALSE, ![t].exit = code]
StoreStays == UNCHANGED <<row, recent, stored, erased>>

\* What list_conversations shows, which is where an id is looked up.
Active == { c \in Convs : row[c].there /\ ~row[c].archived }
IsLatest(c) == c \in Active /\ LET i == CHOOSE k \in DOMAIN recent : recent[k] = c
                               IN \A k \in 1 .. i - 1 : recent[k] \notin Active
Fresh(c) ==
  /\ c # Ongoing /\ ~row[c].there
  /\ \A t \in Turns : At(t, "start") \/ turn[t].conv # c

-----------------------------------------------------------------------------
(* Before the reply.                                                       *)

\* The arguments: a prompt from one source, a template whose variables are
\* given, a provider that is configured.
Prepare(t, command) ==
  /\ At(t, "start") /\ turn' = [turn EXCEPT ![t] = [@ EXCEPT !.pc = "opened", !.command = command]]
  /\ StoreStays /\ UNCHANGED late
BadArguments(t) ==
  /\ At(t, "start") /\ Exits(t, 1) /\ StoreStays /\ UNCHANGED late

Opens(t, c, archived) ==
  turn' = [turn EXCEPT ![t] = [@ EXCEPT !.pc = "ready", !.conv = c, !.archived = archived]]

RunHeadlessAsk(t, c) ==
  /\ At(t, "opened") /\ turn[t].command = "ask" /\ Fresh(c)
  /\ Opens(t, c, FALSE) /\ StoreStays /\ UNCHANGED late

\* Also for chat send when it found none.
RunChatNew(t, c) ==
  /\ At(t, "opened") /\ turn[t].command \in {"new", "empty"} /\ Fresh(c)
  /\ Opens(t, c, FALSE) /\ StoreStays /\ UNCHANGED late

\* load_or_create_ongoing_conversation.
OpenOngoing(t) ==
  /\ At(t, "opened") /\ turn[t].command = "continue"
  /\ Opens(t, Ongoing, row[Ongoing].there /\ row[Ongoing].archived)
  /\ StoreStays /\ UNCHANGED late

\* By the beginning of its id.
RunHeadlessContinue(t, c) ==
  /\ At(t, "opened") /\ turn[t].command = "continue" /\ c \in Active
  /\ Opens(t, c, row[c].archived) /\ StoreStays /\ UNCHANGED late

\* By the beginning of its id, or the latest.
RunChatSend(t, c, latest) ==
  /\ At(t, "opened") /\ turn[t].command = "send"
  /\ IF latest THEN IsLatest(c) ELSE c \in Active
  /\ Opens(t, c, row[c].archived) /\ StoreStays /\ UNCHANGED late

\* None is found: send starts a new one, unless it is told to fail.
NoneFound(t, failIfMissing) ==
  /\ At(t, "opened") /\ turn[t].command \in {"send", "continue"}
  /\ IF turn[t].command = "continue" \/ failIfMissing THEN Exits(t, 1)
     ELSE turn' = [turn EXCEPT ![t].command = "new"]
  /\ StoreStays /\ UNCHANGED late

\* chat new without a prompt saves the conversation and ends.
CreateEmpty(t) ==
  LET c == turn[t].conv IN
  /\ At(t, "ready") /\ turn[t].command = "empty"
  /\ row' = [row EXCEPT ![c] = [NoRow EXCEPT !.there = TRUE]]
  /\ recent' = <<c>> \o RemoveFirst(recent, c)
  /\ Exits(t, 0) /\ UNCHANGED <<stored, erased, late>>

\* Changed: the question is saved before the model is asked.
AskSaving(t) ==
  /\ At(t, "ready") /\ turn[t].command # "empty" /\ GoesTo(t, "asked")
  /\ stored' = [stored EXCEPT ![turn[t].conv] = @ \cup {Question(t)}]
  /\ UNCHANGED <<row, recent, erased, late>>

\* execute_turn, up to the reply.
Ask(t) ==
  /\ At(t, "ready") /\ turn[t].command # "empty" /\ GoesTo(t, "asked")
  /\ StoreStays /\ UNCHANGED late

\* An attachment that cannot be read, a request that would need a question to
\* the user, a provider that fails.
FailsBefore(t) ==
  /\ (At(t, "ready") /\ turn[t].command # "empty") \/ At(t, "asked")
  /\ Exits(t, 1) /\ StoreStays /\ UNCHANGED late

-----------------------------------------------------------------------------
(* persist_turn.                                                           *)

Answered(t) == At(t, "asked") /\ GoesTo(t, "row") /\ StoreStays /\ UNCHANGED late

\* The whole row is written as it was loaded.
SaveRow(t) ==
  LET c == turn[t].conv IN
  /\ At(t, "row") /\ GoesTo(t, "user")
  /\ row' = [row EXCEPT ![c] = [there |-> TRUE, archived |-> turn[t].archived]]
  /\ recent' = <<c>> \o RemoveFirst(recent, c)
  /\ UNCHANGED <<stored, erased, late>>

\* Each message is committed by itself, and needs the row.
SaveMessage(t, message, from, to) ==
  LET c == turn[t].conv IN
  /\ At(t, from) /\ row[c].there /\ GoesTo(t, to)
  /\ stored' = [stored EXCEPT ![c] = @ \cup {message}]
  /\ UNCHANGED <<row, recent, erased, late>>
SaveQuestion(t) == SaveMessage(t, Question(t), "user", "assistant")
SaveReply(t) == SaveMessage(t, ReplyTo(t), "assistant", "archive")

\* The store is locked, or the row is gone.
SaveFails(t) ==
  /\ turn[t].pc \in {"row", "user", "assistant", "archive"}
  /\ Exits(t, 1) /\ late' = late \cup {t} /\ StoreStays

\* The usage, and the files of the conversation, which may need approval.
ArchiveTurn(t, approval) ==
  /\ At(t, "archive")
  /\ IF approval THEN Exits(t, 1) /\ late' = late \cup {t}
     ELSE GoesTo(t, "output") /\ UNCHANGED late
  /\ StoreStays

\* save_output_file, when there is one to write.
WriteOutput(t, fails) ==
  /\ At(t, "output")
  /\ Exits(t, IF fails THEN 1 ELSE 0)
  /\ late' = IF fails THEN late \cup {t} ELSE late
  /\ StoreStays

-----------------------------------------------------------------------------
(* Other programs.                                                         *)

ArchiveOther(c) ==
  /\ c \in Active /\ row' = [row EXCEPT ![c].archived = TRUE]
  /\ UNCHANGED <<recent, stored, turn, erased, late>>
UnarchiveOther(c) ==
  /\ row[c].there /\ row[c].archived /\ row' = [row EXCEPT ![c].archived = FALSE]
  /\ UNCHANGED <<recent, stored, turn, erased, late>>
DeleteOther(c) ==
  /\ c \in Active /\ row' = [row EXCEPT ![c] = NoRow]
  /\ stored' = [stored EXCEPT ![c] = {}]
  /\ erased' = erased \cup { t \in Turns : Question(t) \in stored[c] \/ ReplyTo(t) \in stored[c] }
  /\ UNCHANGED <<recent, turn, late>>

-----------------------------------------------------------------------------
HeadlessNext ==
  \/ \E t \in Turns :
       \/ (\E command \in Commands : Prepare(t, command)) \/ BadArguments(t)
       \/ \E c \in Convs :
            \/ RunHeadlessAsk(t, c) \/ RunChatNew(t, c) \/ RunHeadlessContinue(t, c)
            \/ \E latest \in BOOLEAN : RunChatSend(t, c, latest)
       \/ OpenOngoing(t) \/ \E failIfMissing \in BOOLEAN : NoneFound(t, failIfMissing)
       \/ CreateEmpty(t) \/ Ask(t) \/ FailsBefore(t) \/ Answered(t)
       \/ SaveRow(t) \/ SaveQuestion(t) \/ SaveReply(t) \/ SaveFails(t)
       \/ \E approval \in BOOLEAN : ArchiveTurn(t, approval)
       \/ \E fails \in BOOLEAN : WriteOutput(t, fails)
  \/ \E c \in Convs : ArchiveOther(c) \/ UnarchiveOther(c) \/ DeleteOther(c)

-----------------------------------------------------------------------------
(* Properties.                                                             *)

\* The exit code tells a script whether the turn is in the store.  A command
\* that ended with 0 has both messages there; one that ended with 1 before the
\* reply came has none, and can be run again; only one that could not save,
\* or could not write its files afterwards, ended with 1 and left a part.
\* Messages that were deleted since do not count.
\* run_headless_ask, run_headless_continue, persist_turn
\* (src/tuochat/cli/commands/headless_cmd.py).
ExitTells ==
  \A t \in Turns \ erased :
    LET left == { m \in stored[turn[t].conv] : m[1] = t } IN
    /\ turn[t].exit = 0 /\ turn[t].command # "empty" => left = {Question(t), ReplyTo(t)}
    /\ turn[t].exit = 1 /\ t \notin late => left = {}
    /\ ReplyTo(t) \in left => Question(t) \in left
=============================================================================

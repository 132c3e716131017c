------------------------------ MODULE Terminal ------------------------------
(***************************************************************************)
(* The terminal session over the saved conversations: the conversation     *)
(* that is open in memory, the numbered lists the user picks from, the     *)
(* switch that turns local writes off and on, and how a session starts     *)
(* and ends.  Other processes (tuochat conversation ...) work on the same  *)
(* database.  What a turn is, is in ChatTurn; here it is one message of    *)
(* the open conversation.                                                  *)
(***************************************************************************)
EXTENDS Integers, FiniteSets

CONSTANTS
  Ids,       \* conversation ids
  MaxSaid    \* messages in one conversation (bound)

ASSUME TerminalAssumption == MaxSaid \in Nat

Row == [archived : BOOLEAN, said : SUBSET (1 .. MaxSaid)]

VARIABLES
  saved,     \* the database: what it holds of every conversation
  open,      \* state.conv: id, archived flag and messages
  listed,    \* state.resume_candidates, the numbered conversations
  writes,    \* state.local_writes_enabled
  own,       \* state.store is not the store the session was started with
  opened,    \* the stores whose database connection is open
  status,    \* "running", "closing", "ended" or "failed" (an exception)
  nuke,      \* state.pending_nuke
  erased,    \* conversations /delete has deleted (history)
  others     \* what another process did to the open conversation (history)

session == <<open, listed>>
stores == <<writes, own, opened>>
terminalVars == <<saved, session, stores, status, nuke, erased, others>>

Stores == {"first", "own"}

TerminalTypeOK ==
  /\ DOMAIN saved \subseteq Ids /\ \A c \in DOMAIN saved : saved[c] \in Row
  /\ open \in [id : Ids, archived : BOOLEAN, said : SUBSET (1 .. MaxSaid)]
  /\ listed \subseteq Ids /\ erased \subseteq Ids
  /\ {writes, own, nuke} \subseteq BOOLEAN
  /\ opened \subseteq Stores /\ others \in {"nothing", "flag", "gone"}
  /\ status \in {"running", "closing", "ended", "failed"}

-----------------------------------------------------------------------------
(* The store, as far as the session uses it (MessageStore has the rest).   *)

IsSaved(c) == c \in DOMAIN saved
Active == { c \in Ids : IsSaved(c) /\ ~saved[c].archived }     \* list_conversations
Archived == { c \in Ids : IsSaved(c) /\ saved[c].archived }    \* list_archived_conversations
Spoken == { c \in Active : saved[c].said # {} }                \* search_conversations may find them

\* The connection of a store is opened when it is used for the first time.
Using == opened' = IF writes THEN opened \cup {IF own THEN "own" ELSE "first"} ELSE opened

\* save_conversation, and save_message of the messages in "new"; the store
\* of a session without local writes does nothing.
Record(conv, new) ==
  [c \in DOMAIN saved \cup {conv.id} |->
     IF c # conv.id THEN saved[c]
     ELSE [archived |-> conv.archived,
           said |-> new \cup (IF IsSaved(c) THEN saved[c].said ELSE {})]]
Written(conv, new) == IF writes THEN Record(conv, new) ELSE saved
Flagged(C, flag) ==
  [c \in DOMAIN saved |-> IF c \in C THEN [saved[c] EXCEPT !.archived = flag] ELSE saved[c]]
Without(C) == [c \in DOMAIN saved \ C |-> saved[c]]

\* What the session's store shows: nothing without local writes.
Seen(C) == IF writes THEN C ELSE {}

Running == status = "running"
Fresh(c) == ~IsSaved(c) /\ c \notin listed \cup erased \cup {open.id}
Blank(c) == [id |-> c, archived |-> FALSE, said |-> {}]

\* reset_repl_state keeps the numbered list.
ResetTo(c) == Fresh(c) /\ open' = Blank(c) /\ others' = "nothing" /\ UNCHANGED listed

\* switch_to_conversation: the conversation is read again; it raises when
\* the store does not have it, and nothing catches that.
SwitchTo(c) ==
  IF c \in Seen(Active \cup Archived)
  THEN /\ open' = [id |-> c, archived |-> saved[c].archived, said |-> saved[c].said]
       /\ listed' = {} /\ others' = "nothing" /\ UNCHANGED status
  ELSE status' = "failed" /\ UNCHANGED <<open, others>>

-----------------------------------------------------------------------------
(* Turns and the commands on the open conversation.                        *)

\* A message, or anything else that is no command: it is sent, answered and
\* saved.
Say ==
  /\ Running /\ (1 .. MaxSaid) \ open.said # {}
  /\ LET m == CHOOSE m \in (1 .. MaxSaid) \ open.said : TRUE
     IN open' = [open EXCEPT !.said = @ \cup {m}] /\ saved' = Written(open, {m})
  /\ Using
  /\ UNCHANGED <<listed, writes, own, status, nuke, erased, others>>

\* /title, also of a conversation nothing was said in.
Title ==
  /\ Running
  /\ saved' = Written(open, {})
  /\ Using
  /\ UNCHANGED <<session, writes, own, status, nuke, erased, others>>

\* /new and /clear.
New(c) ==
  /\ Running /\ ResetTo(c)
  /\ UNCHANGED <<saved, stores, status, nuke, erased>>

\* /archive, confirmed.
Archive(c) ==
  /\ Running /\ open.said # {}
  /\ saved' = Written([open EXCEPT !.archived = TRUE], {})
  /\ ResetTo(c) /\ Using
  /\ UNCHANGED <<writes, own, status, nuke, erased>>

-----------------------------------------------------------------------------
(* Numbers.                                                                *)

\* What a number may name: the list kept from an earlier command, or one
\* that is read now when there is none.
Candidates(C) == IF listed # {} THEN listed ELSE Seen(C)

\* The user picks from a new list, gives the beginning of an id, or a number.
Chosen(c, C, list) ==
  \/ c \in Seen(C) /\ list \in {Seen(C), listed}
  \/ c \in Candidates(C) /\ list = Candidates(C)
Lists == {listed, Seen(Active), Seen(Archived)}

\* /resume, /delete and /unarchive without an argument show a list and may
\* be cancelled there.
ShowList ==
  /\ Running
  /\ \E C \in {Active, Archived} : listed' = Seen(C)
  /\ Using
  /\ UNCHANGED <<saved, open, writes, own, status, nuke, erased, others>>

\* /resume.
Resume(c) ==
  /\ Running
  /\ \E list \in Lists :
       /\ Chosen(c, Active, list)
       /\ SwitchTo(c)
       /\ status' = "failed" => listed' = list
  /\ Using
  /\ UNCHANGED <<saved, writes, own, nuke, erased>>

\* /search, and one of the results.
Search(c) ==
  /\ Running /\ c \in Seen(Spoken)
  /\ SwitchTo(c) /\ Using
  /\ UNCHANGED <<saved, writes, own, nuke, erased>>

\* Changed: /delete leaves the open conversation open.
DeleteOnly(c) ==
  /\ Running /\ writes /\ IsSaved(c)
  /\ \E list \in Lists : Chosen(c, Active, list) /\ listed' = list
  /\ saved' = Without({c}) /\ erased' = erased \cup {c}
  /\ Using
  /\ UNCHANGED <<open, others, writes, own, status, nuke>>

\* /delete, confirmed; the open conversation is replaced.
Delete(c) ==
  /\ Running
  /\ \E list \in Lists : Chosen(c, Active, list) /\ listed' = list
  /\ LET there == writes /\ IsSaved(c)
     IN /\ saved' = IF there THEN Without({c}) ELSE saved
        /\ erased' = IF there THEN erased \cup {c} ELSE erased
        /\ IF there /\ c = open.id
           THEN \E d \in Ids : Fresh(d) /\ d \notin listed' /\ open' = Blank(d) /\ others' = "nothing"
           ELSE UNCHANGED <<open, others>>
  /\ Using
  /\ UNCHANGED <<writes, own, status, nuke>>

\* /unarchive: the flag of the open conversation follows.
Unarchive(c) ==
  /\ Running
  /\ \E list \in Lists : Chosen(c, Archived, list) /\ listed' = list
  /\ LET there == writes /\ IsSaved(c)
     IN /\ saved' = IF there THEN Flagged({c}, FALSE) ELSE saved
        /\ open' = IF there /\ c = open.id THEN [open EXCEPT !.archived = FALSE] ELSE open
  /\ Using
  /\ UNCHANGED <<writes, own, status, nuke, erased, others>>

\* /unarchive all: the database only.
UnarchiveAll ==
  /\ Running
  /\ saved' = IF writes THEN Flagged(Ids, FALSE) ELSE saved
  /\ Using
  /\ UNCHANGED <<session, writes, own, status, nuke, erased, others>>

-----------------------------------------------------------------------------
(* /no-write.                                                              *)

\* Changed: turning writes on saves what comes next only.
ToggleWithoutSave ==
  /\ Running /\ writes' = ~writes /\ own' = TRUE
  /\ opened' = opened \ {IF own THEN "own" ELSE "first"}
  /\ UNCHANGED <<saved, session, status, nuke, erased, others>>

\* A new store replaces the old one, which is closed; turning writes on
\* saves the open conversation with all its messages.
ToggleWrites ==
  /\ Running
  /\ writes' = ~writes /\ own' = TRUE
  /\ LET rest == opened \ {IF own THEN "own" ELSE "first"}
     IN IF ~writes /\ open.said # {}
        THEN /\ opened' = rest \cup {"own"}
             /\ saved' = Record(open, open.said)
             /\ others' = "nothing"
        ELSE opened' = rest /\ UNCHANGED <<saved, others>>
  /\ UNCHANGED <<session, status, nuke, erased>>

-----------------------------------------------------------------------------
(* Starting and ending.                                                    *)

\* tuochat chat and tuochat resume.  Both first offer to delete the
\* conversations that expired, archived or not.
Pruned(expired) == IF writes' THEN Without(expired) ELSE saved

Starting == status \in {"ended", "failed"}
StartWith(conv) ==
  /\ open' = conv /\ listed' = {} /\ others' = "nothing"
  /\ own' = FALSE /\ nuke' = FALSE /\ status' = "running"
  /\ opened' = IF writes' THEN {"first"} ELSE {}

Chat(c, expired) ==
  /\ Starting
  /\ writes' \in BOOLEAN
  /\ saved' = Pruned(expired)
  /\ c \notin DOMAIN saved' /\ c \notin erased
  /\ StartWith(Blank(c))
  /\ UNCHANGED erased

ResumeAtStart(c, expired) ==
  /\ Starting
  /\ writes' = TRUE
  /\ saved' = Pruned(expired)
  /\ c \in DOMAIN saved' /\ ~saved[c].archived
  /\ StartWith([id |-> c, archived |-> FALSE, said |-> saved[c].said])
  /\ UNCHANGED erased

\* /exit, the end of the input, or /nuke confirmed twice.
Leave ==
  /\ Running /\ status' = "closing"
  /\ nuke' \in BOOLEAN
  /\ UNCHANGED <<saved, session, stores, erased, others>>

\* execute_pending_nuke deletes what is in the data directory, the database
\* with it.
Nuked == IF nuke THEN Without(Ids) ELSE saved

\* finalize_repl_session closes the store the session was started with.
Finalize ==
  /\ status = "closing" /\ status' = "ended"
  /\ opened' = opened \ {"first"}
  /\ saved' = Nuked
  /\ UNCHANGED <<session, writes, own, nuke, erased, others>>

-----------------------------------------------------------------------------
(* tuochat conversation archive, unarchive and delete, in another process. *)

Elsewhere(c) ==
  /\ Running /\ IsSaved(c)
  /\ \/ /\ \/ saved' = Flagged({c}, ~saved[c].archived)
           \/ saved[c].archived /\ saved' = Flagged(Ids, FALSE)
        /\ others' = IF others = "nothing" /\ IsSaved(open.id) /\ saved'[open.id] # saved[open.id]
                     THEN "flag" ELSE others
     \/ /\ ~saved[c].archived /\ saved' = Without({c})
        /\ others' = IF c = open.id THEN "gone" ELSE others
  /\ UNCHANGED <<session, stores, status, nuke, erased>>

-----------------------------------------------------------------------------
TerminalInit ==
  /\ saved = << >>
  /\ \E c \in Ids : open = Blank(c)
  /\ listed = {} /\ writes = TRUE /\ own = FALSE /\ opened = {}
  /\ status = "ended" /\ nuke = FALSE /\ erased = {} /\ others = "nothing"

TerminalNext ==
  \/ Say \/ Title \/ ShowList \/ UnarchiveAll \/ ToggleWrites \/ Leave \/ Finalize
  \/ \E c \in Ids :
       \/ New(c) \/ Archive(c) \/ Resume(c) \/ Search(c) \/ Delete(c) \/ Unarchive(c)
       \/ Elsewhere(c)
       \/ \E expired \in SUBSET Ids : Chat(c, expired) \/ ResumeAtStart(c, expired)

-----------------------------------------------------------------------------
(* Properties.                                                             *)

\* While local writes are on, the database has every message of the open
\* conversation, also of what was said while they were off
\* (toggle_no_write), unless another process deleted it.
Kept ==
  Running /\ writes /\ open.said # {} /\ others # "gone"
    => IsSaved(open.id) /\ open.said \subseteq saved[open.id].said

\* What /delete deleted stays deleted: neither the conversation in memory nor
\* a number of an old list brings it back (handle_slash_command, "/delete").
DeletionIsFinal == \A c \in erased : ~IsSaved(c)

\* The database is what the session shows, in both directions.
SavedAndDeleted == Kept /\ DeletionIsFinal

=============================================================================

---------------------------- MODULE MessageStore ----------------------------
(***************************************************************************)
(* ConversationStore and the sessions that use it: the SQLite tables and   *)
(* the full-text index keyed by rowid, a connection per session with its   *)
(* last_insert_rowid, and a copy of one conversation in every session's    *)
(* memory.  A turn is saved by four calls, each a transaction of its own;  *)
(* other sessions, and a crash, come between them.                         *)
(***************************************************************************)
EXTENDS Integers, SequencesExt

CONSTANTS
  Conv,      \* conversation ids
  Session,   \* front ends (terminal, window, headless) on one database
  None,      \* the conversation of a session that has not sent anything
  MaxMsgs,   \* messages ever written in one conversation (bound)
  MaxLogs,   \* rows of the observability and error tables (bound)
  MaxGone,   \* conversations ever deleted (bound)
  Faults     \* what else may happen, a subset of AllFaults

AllFaults == {"crash", "resave"}

ASSUME StoreAssumption ==
  /\ None \notin Conv
  /\ MaxMsgs \in Nat /\ MaxLogs \in Nat /\ MaxGone \in Nat
  /\ Faults \subseteq AllFaults

Msg == Conv \X (1 .. MaxMsgs)      \* the n-th message of a conversation

VARIABLES
  convRows,  \* table conversations: rowid -> conversation
  msgRows,   \* table messages: rowid -> message
  ftsRows,   \* messages_fts: rowid -> the message it indexes
  usage,     \* table usage: the messages it accounts for
  usageId,   \* last id of that table (AUTOINCREMENT: never reused)
  logId,     \* last id of the observability and error tables
  lastRow,   \* last_insert_rowid of a session's connection
  current,   \* state.conv.id
  msgs,      \* state.conv.messages
  writing,   \* local writes enabled
  saving,    \* the store calls a session has still to make
  made,      \* messages made so far in a conversation
  gone       \* history: conversations deleted at some time

tables == <<convRows, msgRows, ftsRows, usage, usageId, logId>>
memory == <<current, msgs, writing>>
vars == <<tables, lastRow, memory, saving, made, gone>>

Call == [op : {"conversation"}, msg : {<<None, 0>>}] \cup [op : {"message", "usage"}, msg : Msg]
ConvCall == [op |-> "conversation", msg |-> <<None, 0>>]
MessageCall(m) == [op |-> "message", msg |-> m]
UsageCall(m) == [op |-> "usage", msg |-> m]

Stored == Range(msgRows)
Known == Range(convRows) \cup gone            \* saved at some time
NextRow(table) == IF DOMAIN table = {} THEN 1 ELSE Max(DOMAIN table) + 1
Set(table, row, value) ==
  [r \in DOMAIN table \cup {row} |-> IF r = row THEN value ELSE table[r]]
RowOf(table, value) == CHOOSE r \in DOMAIN table : table[r] = value
Without(table, c) ==                          \* DELETE ... WHERE conversation_id = c
  [r \in { x \in DOMAIN table : table[x][1] # c } |-> table[r]]

TypeOK ==
  /\ Range(convRows) \subseteq Conv
  /\ Range(msgRows) \subseteq Msg /\ Range(ftsRows) \subseteq Msg
  /\ usage \subseteq Msg /\ usageId \in Nat /\ logId \in 0 .. MaxLogs
  /\ lastRow \in [Session -> Nat]
  /\ current \in [Session -> Conv \cup {None}]
  /\ \A s \in Session : msgs[s] \in Seq(Msg) /\ saving[s] \in Seq(Call)
  /\ writing \in [Session -> BOOLEAN]
  /\ made \in [Conv -> 0 .. MaxMsgs] /\ gone \subseteq Conv

Init ==
  /\ convRows = << >> /\ msgRows = << >> /\ ftsRows = << >>
  /\ usage = {} /\ usageId = 0 /\ logId = 0
  /\ lastRow = [s \in Session |-> 0]
  /\ current = [s \in Session |-> None]
  /\ msgs = [s \in Session |-> << >>]
  /\ writing \in [Session -> BOOLEAN]
  /\ saving = [s \in Session |-> << >>]
  /\ made = [c \in Conv |-> 0] /\ gone = {}

Idle(s) == saving[s] = << >>
Forget(s) ==
  /\ current' = [current EXCEPT ![s] = None]
  /\ msgs' = [msgs EXCEPT ![s] = << >>]

-----------------------------------------------------------------------------
(* What a session does in its memory.                                      *)

\* The id of a Conversation is drawn when it is made, so nobody else has it.
Fresh(c) == c \notin Known /\ made[c] = 0 /\ \A s \in Session : current[s] # c
Shown(s, c) == IF current[s] = None THEN Fresh(c) ELSE c = current[s]

\* n messages join the conversation; the store calls follow.
AddMessages(s, c, n, calls) ==
  /\ Idle(s) /\ Shown(s, c)
  /\ made[c] + n <= MaxMsgs
  /\ made' = [made EXCEPT ![c] = @ + n]
  /\ current' = [current EXCEPT ![s] = c]
  /\ msgs' = [msgs EXCEPT ![s] = @ \o [i \in 1 .. n |-> <<c, made[c] + i>>]]
  /\ saving' = [saving EXCEPT ![s] = IF writing[s] THEN calls ELSE << >>]
  /\ UNCHANGED <<tables, lastRow, writing, gone>>

\* send_chat_turn: question and answer, then four calls.
Turn(s, c) ==
  LET question == <<c, made[c] + 1>>
      answer == <<c, made[c] + 2>>
  IN AddMessages(s, c, 2, <<ConvCall, MessageCall(question), MessageCall(answer),
                            UsageCall(answer)>>)

\* /skill: the text of the skill joins the conversation as a message.
LoadSkill(s, c) ==
  AddMessages(s, c, 1, <<ConvCall, MessageCall(<<c, made[c] + 1>>)>>)

\* /title, and chat new without a prompt: the conversation alone is saved,
\* with messages or without.
SaveTitle(s, c) ==
  /\ Idle(s) /\ Shown(s, c)
  /\ current' = [current EXCEPT ![s] = c]
  /\ saving' = [saving EXCEPT ![s] = IF writing[s] THEN <<ConvCall>> ELSE << >>]
  /\ UNCHANGED <<tables, lastRow, msgs, writing, made, gone>>

\* reset_repl_state: a new conversation, in memory only.
NewConversation(s) ==
  /\ Idle(s) /\ current[s] # None
  /\ Forget(s)
  /\ UNCHANGED <<tables, lastRow, writing, saving, made, gone>>

\* switch_to_conversation: the messages are read back from the table,
\* ORDER BY created_at.
ByTime(S) ==
  { q \in [1 .. Cardinality(S) -> S] : \A i, j \in DOMAIN q : i < j => q[i][2] < q[j][2] }
Resume(s, c) ==
  /\ Idle(s) /\ writing[s]
  /\ c \in Range(convRows)
  /\ current' = [current EXCEPT ![s] = c]
  /\ \E read \in ByTime({ m \in Stored : m[1] = c }) : msgs' = [msgs EXCEPT ![s] = read]
  /\ UNCHANGED <<tables, lastRow, writing, saving, made, gone>>

\* toggle_no_write(True): the null store takes over.
DisableWrites(s) ==
  /\ Idle(s) /\ writing[s]
  /\ writing' = [writing EXCEPT ![s] = FALSE]
  /\ UNCHANGED <<tables, lastRow, current, msgs, saving, made, gone>>

\* toggle_no_write(False): a new store, and the conversation is saved again
\* if it has messages.  Without the fault "resave" the user does so only
\* with a conversation that was never saved.
SavesNothing(s) == << >>
SaveAgain(s) ==
  IF msgs[s] = << >> THEN << >>
  ELSE <<ConvCall>> \o [i \in DOMAIN msgs[s] |-> MessageCall(msgs[s][i])]
EnableWrites(s) ==
  /\ Idle(s) /\ ~writing[s]
  /\ "resave" \in Faults \/ current[s] \notin Known
  /\ writing' = [writing EXCEPT ![s] = TRUE]
  /\ lastRow' = [lastRow EXCEPT ![s] = 0]
  /\ saving' = [saving EXCEPT ![s] = SaveAgain(s)]
  /\ UNCHANGED <<tables, current, msgs, made, gone>>

-----------------------------------------------------------------------------
(* The store calls of a session, each one transaction.                     *)

Calls(s, op) == saving[s] # << >> /\ Head(saving[s]).op = op
Done(s) == saving' = [saving EXCEPT ![s] = Tail(@)]

Upsert(s, c) ==
  IF c \in Range(convRows) THEN UNCHANGED <<convRows, lastRow>>
  ELSE /\ convRows' = Set(convRows, NextRow(convRows), c)
       /\ lastRow' = [lastRow EXCEPT ![s] = NextRow(convRows)]

SaveConversation(s) ==
  /\ Calls(s, "conversation")
  /\ Upsert(s, current[s])
  /\ Done(s)
  /\ UNCHANGED <<msgRows, ftsRows, usage, usageId, logId, memory, made, gone>>

\* The rows a new row refers to (PRAGMA foreign_keys=ON).
Unchecked(call) == TRUE
ParentsExist(call) ==
  IF call.op = "message" THEN call.msg[1] \in Range(convRows) ELSE call.msg \in Stored

\* The row of the index: cursor.lastrowid, which an update leaves at the row
\* the connection inserted last, or a lookup when it is 0.
LastRowAlways(s, m) == lastRow[s]
IndexRow(s, m) ==
  IF m \notin Stored THEN NextRow(msgRows)
  ELSE IF lastRow[s] # 0 THEN lastRow[s] ELSE RowOf(msgRows, m)

SaveMessage(s) ==
  /\ Calls(s, "message") /\ ParentsExist(Head(saving[s]))
  /\ LET m == Head(saving[s]).msg
         row == IndexRow(s, m)
     IN /\ msgRows' = IF m \in Stored THEN msgRows ELSE Set(msgRows, NextRow(msgRows), m)
        /\ ftsRows' = Set(ftsRows, row, m)
        /\ lastRow' = [lastRow EXCEPT ![s] = row]
  /\ Done(s)
  /\ UNCHANGED <<convRows, usage, usageId, logId, memory, made, gone>>

SaveUsage(s) ==
  /\ Calls(s, "usage") /\ ParentsExist(Head(saving[s]))
  /\ usage' = usage \cup {Head(saving[s]).msg}
  /\ usageId' = usageId + 1
  /\ lastRow' = [lastRow EXCEPT ![s] = usageId + 1]
  /\ Done(s)
  /\ UNCHANGED <<convRows, msgRows, ftsRows, logId, memory, made, gone>>

\* IntegrityError: the turn, or the toggle, is left where it stands.
SaveRefused(s) ==
  /\ Calls(s, "message") \/ Calls(s, "usage")
  /\ ~ParentsExist(Head(saving[s]))
  /\ saving' = [saving EXCEPT ![s] = << >>]
  /\ UNCHANGED <<tables, lastRow, memory, made, gone>>

-----------------------------------------------------------------------------
(* Other uses of the database.                                             *)

\* save_observability_row, save_error_log_entry: on the session's own
\* connection, but never between two calls of a turn.
SaveLog(s) ==
  /\ Idle(s) /\ writing[s] /\ logId < MaxLogs
  /\ logId' = logId + 1
  /\ lastRow' = [lastRow EXCEPT ![s] = logId + 1]
  /\ UNCHANGED <<convRows, msgRows, ftsRows, usage, usageId, memory, saving, made, gone>>

\* /archive of the current conversation, which is then left.
ArchiveCurrent(s) ==
  /\ Idle(s) /\ msgs[s] # << >>
  /\ IF writing[s] THEN Upsert(s, current[s]) ELSE UNCHANGED <<convRows, lastRow>>
  /\ Forget(s)
  /\ UNCHANGED <<msgRows, ftsRows, usage, usageId, logId, writing, saving, made, gone>>

\* delete_conversation; /delete of the current conversation leaves it, the
\* tabs delete any other one while a worker is saving.
Delete(s, c) ==
  /\ Idle(s) \/ current[s] # c
  /\ writing[s]
  /\ c \in Range(convRows)
  /\ usage' = { m \in usage : m[1] # c }
  /\ ftsRows' = Without(ftsRows, c)
  /\ msgRows' = Without(msgRows, c)
  /\ convRows' = [r \in { x \in DOMAIN convRows : convRows[x] # c } |-> convRows[r]]
  /\ gone' = gone \cup {c} /\ Cardinality(gone') <= MaxGone
  /\ IF current[s] = c THEN Forget(s) ELSE UNCHANGED <<current, msgs>>
  /\ UNCHANGED <<usageId, logId, lastRow, writing, saving, made>>

\* The process dies and another one opens the database: ensure_message_index
\* rebuilds an index that is empty.
Restart(s) ==
  /\ "crash" \in Faults
  /\ Forget(s)
  /\ writing' = [writing EXCEPT ![s] = TRUE]
  /\ saving' = [saving EXCEPT ![s] = << >>]
  /\ ftsRows' = IF ftsRows = << >> THEN msgRows ELSE ftsRows
  /\ lastRow' = [lastRow EXCEPT ![s] =
       IF ftsRows = << >> /\ msgRows # << >> THEN NextRow(msgRows) - 1 ELSE 0]
  /\ UNCHANGED <<convRows, msgRows, usage, usageId, logId, made, gone>>

-----------------------------------------------------------------------------
Save(s) == SaveConversation(s) \/ SaveMessage(s) \/ SaveUsage(s) \/ SaveRefused(s)
Act(s) ==
  \/ Save(s) \/ NewConversation(s) \/ DisableWrites(s) \/ EnableWrites(s)
  \/ SaveLog(s) \/ ArchiveCurrent(s) \/ Restart(s)
  \/ \E c \in Conv : \/ Turn(s, c) \/ LoadSkill(s, c) \/ SaveTitle(s, c)
                     \/ Resume(s, c) \/ Delete(s, c)

Next == \E s \in Session : Act(s)

Spec == Init /\ [][Next]_vars

-----------------------------------------------------------------------------
(* Properties.                                                             *)

\* The full-text index is the messages table: every stored message is found
\* under its own row, and nothing else is found, although rowids are reused
\* after a deletion and the index row is taken from the connection
\* (save_message, delete_conversation, rebuild_message_index).
IndexExact == ftsRows = msgRows

\* No message without its conversation, no usage without its message,
\* whatever is deleted between two store calls of another session.
NoOrphans ==
  /\ \A m \in Stored : m[1] \in Range(convRows)
  /\ usage \subseteq Stored

\* What a session shows as its conversation is in the database once its
\* calls are made, unless somebody deleted the conversation: writes switched
\* off and on again included (toggle_no_write, send_chat_turn).
MemoryIsStored ==
  \A s \in Session :
    (Idle(s) /\ writing[s] /\ current[s] \notin gone) => ToSet(msgs[s]) \subseteq Stored
=============================================================================

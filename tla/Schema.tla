------------------------------- MODULE Schema -------------------------------
(***************************************************************************)
(* Opening the database: a process creates the schema, or brings that of   *)
(* an older version up to date, step by step; then it makes sure that the  *)
(* search index is filled.  Two processes may open it at once, and each    *)
(* may die at any step.                                                    *)
(*                                                                         *)
(* Statements that define tables are committed one by one, unless rows     *)
(* were changed before: then with the next commit.                         *)
(***************************************************************************)
EXTENDS Integers, FiniteSets

CONSTANTS
  Openers,  \* processes that open the database
  Rows,     \* messages
  MaxKills  \* bound: processes that die

ASSUME SchemaAssumption == MaxKills \in Nat /\ "nobody" \notin Openers

Latest == 6
NoVersion == 0
\* What each version brought; the tables of the first are one.
Brought == [v \in 1 .. Latest |->
  CASE v = 1 -> "tables" [] v = 2 -> "index" [] v = 3 -> "archived"
    [] v = 4 -> "responses" [] v = 5 -> "errors" [] OTHER -> "cwd"]
Objects == {"versions"} \cup { Brought[v] : v \in 1 .. Latest }
Columns == {"archived", "cwd"}   \* added by ALTER TABLE, which fails where it was run

VARIABLES
  base,    \* the database: [objects, version, rows, index], version 0 without a row of it
  write,   \* the open transaction: [of, base], or of none
  opener,  \* [Openers -> [pc, from]], from the version it has read
  kills,   \* processes that died
  crowd    \* history: two opened it at once, and one waited too long

schemaVars == <<base, write, opener, kills, crowd>>

Nobody == "nobody"
NoWrite == [of |-> Nobody, base |-> [objects |-> {}, version |-> 0, rows |-> {}, index |-> {}]]
Crowds == {"no", "two", "late"}
Pcs == {"closed", "look", "create", "stamp", "read", "migrate", "fill", "check", "ready", "failed"}

SchemaTypeOK ==
  /\ base \in [objects : SUBSET Objects, version : 0 .. Latest, rows : SUBSET Rows, index : SUBSET Rows]
  /\ write.of \in Openers \cup {Nobody}
  /\ opener \in [Openers -> [pc : Pcs, from : 0 .. Latest]]
  /\ kills \in 0 .. MaxKills /\ crowd \in Crowds

-----------------------------------------------------------------------------
Pc(p, pc) == opener[p].pc = pc
To(p, pc) == opener' = [opener EXCEPT ![p].pc = pc]
Free(p) == write.of \in {p, Nobody}           \* else SQLite waits

\* A connection sees its own transaction.
Seen(p) == IF write.of = p THEN write.base ELSE base
Define(p, o) ==                               \* of a table or a column
  IF write.of = p THEN write' = [write EXCEPT !.base.objects = @ \cup {o}] /\ UNCHANGED base
  ELSE base' = [base EXCEPT !.objects = @ \cup {o}] /\ UNCHANGED write
Commit(b) == base' = b /\ write' = NoWrite

Open(p) ==
  /\ opener[p].pc \in {"closed", "failed"} /\ To(p, "look")
  /\ crowd' = IF crowd = "no" /\ \E q \in Openers \ {p} : opener[q].pc \notin {"closed", "failed", "ready"}
               THEN "two" ELSE crowd
  /\ UNCHANGED <<base, write, kills>>

\* migrate: is there a table of versions?
Look(p) ==
  /\ Pc(p, "look") /\ To(p, IF "versions" \in base.objects THEN "read" ELSE "create")
  /\ UNCHANGED <<base, write, kills, crowd>>

\* The script of the whole schema, the table of versions first; what is there
\* is left as it is.
Create(p) ==
  /\ Pc(p, "create") /\ Free(p)
  /\ IF "versions" \notin base.objects
     THEN base' = [base EXCEPT !.objects = @ \cup {"versions"}] /\ UNCHANGED opener
     ELSE base' = [base EXCEPT !.objects = Objects] /\ To(p, "stamp")
  /\ UNCHANGED <<write, kills, crowd>>
\* The version is a key: a second row of it is refused.
Stamp(p) ==
  /\ Pc(p, "stamp") /\ Free(p)
  /\ IF base.version = Latest THEN To(p, "failed") /\ UNCHANGED base
     ELSE base' = [base EXCEPT !.version = Latest] /\ To(p, "ready")
  /\ UNCHANGED <<write, kills, crowd>>

\* The highest version; there is none while another creates the schema, or
\* when it died: comparing it fails.
Read(p) ==
  /\ Pc(p, "read")
  /\ opener' = [opener EXCEPT ![p] =
       IF base.version = 0 THEN [@ EXCEPT !.pc = "failed"]
       ELSE [pc |-> IF base.version < Latest THEN "migrate" ELSE "fill", from |-> base.version]]
  /\ UNCHANGED <<base, write, kills, crowd>>

\* Changed: only the first step that is due is done.
MigrateOnce(p) ==
  /\ Pc(p, "migrate") /\ opener[p].from < Latest /\ Free(p)
  /\ Define(p, Brought[opener[p].from + 1])
  /\ opener' = [opener EXCEPT ![p].from = Latest]
  /\ UNCHANGED <<kills, crowd>>

\* The next step: version 2 fills the index and so begins a transaction, a
\* column is added, and the scripts of 4 and 5 commit what was begun.
Migrate(p) ==
  LET v == opener[p].from + 1
      o == Brought[v]
  IN
  /\ Pc(p, "migrate") /\ v <= Latest /\ Free(p)
  /\ IF o \in Columns /\ o \in Seen(p).objects
     THEN /\ opener' = [opener EXCEPT ![p].pc = "failed"]
          /\ write' = (IF write.of = p THEN NoWrite ELSE write) /\ UNCHANGED base
     ELSE /\ opener' = [opener EXCEPT ![p].from = v]
          /\ CASE o = "index" ->
                    /\ write' = [of |-> p, base |-> [base EXCEPT !.objects = @ \cup {o}, !.index = base.rows]]
                    /\ base' = [base EXCEPT !.objects = @ \cup {o}]
               [] o \in {"responses", "errors"} -> Commit([Seen(p) EXCEPT !.objects = @ \cup {o}])
               [] OTHER -> Define(p, o)
  /\ UNCHANGED <<kills, crowd>>
\* A second row of the version is refused here too.
Migrated(p) ==
  /\ Pc(p, "migrate") /\ opener[p].from = Latest /\ Free(p)
  /\ IF Seen(p).version = Latest THEN To(p, "failed") /\ UNCHANGED <<base, write>>
     ELSE Commit([Seen(p) EXCEPT !.version = Latest]) /\ To(p, "fill")
  /\ UNCHANGED <<kills, crowd>>

\* ensure_message_index: an index that is empty is filled again.
Fill(p) ==
  /\ Pc(p, "fill") /\ Free(p) /\ To(p, IF base.index = {} THEN "check" ELSE "ready")
  /\ UNCHANGED <<base, write, kills, crowd>>
Refill(p) ==
  /\ Pc(p, "check") /\ Free(p) /\ To(p, "ready")
  /\ base' = [base EXCEPT !.index = base.rows]
  /\ UNCHANGED <<write, kills, crowd>>

\* SQLite waits five seconds for the transaction of another.
Locked(p) ==
  /\ ~Free(p) /\ opener[p].pc \in {"create", "stamp", "migrate", "fill", "check"}
  /\ To(p, "failed") /\ crowd' = "late"
  /\ UNCHANGED <<base, write, kills>>

\* A message is stored with its entry of the index; the process closes or dies.
Store(p, m) ==
  /\ Pc(p, "ready") /\ Free(p) /\ m \notin base.rows
  /\ base' = [base EXCEPT !.rows = @ \cup {m}, !.index = @ \cup {m}]
  /\ UNCHANGED <<write, opener, kills, crowd>>
Close(p) == Pc(p, "ready") /\ To(p, "closed") /\ UNCHANGED <<base, write, kills, crowd>>
Kill(p) ==
  /\ opener[p].pc \notin {"closed", "failed"} /\ kills < MaxKills /\ kills' = kills + 1
  /\ To(p, "closed") /\ write' = (IF write.of = p THEN NoWrite ELSE write)
  /\ UNCHANGED <<base, crowd>>

-----------------------------------------------------------------------------
\* A new database, or one of any version.
SchemaInit ==
  /\ \E v \in 0 .. Latest, r \in SUBSET Rows :
       /\ v = NoVersion => r = {}
       /\ base = [objects |-> IF v = NoVersion THEN {} ELSE {"versions"} \cup { Brought[u] : u \in 1 .. v },
                  version |-> v, rows |-> r, index |-> IF v < 2 THEN {} ELSE r]
  /\ write = NoWrite /\ kills = 0 /\ crowd = "no"
  /\ opener = [p \in Openers |-> [pc |-> "closed", from |-> 0]]

SchemaNext ==
  \E p \in Openers :
    \/ Open(p) \/ Look(p) \/ Create(p) \/ Stamp(p) \/ Read(p) \/ Migrate(p) \/ Migrated(p)
    \/ Fill(p) \/ Refill(p) \/ Locked(p) \/ Close(p) \/ Kill(p) \/ \E m \in Rows : Store(p, m)

-----------------------------------------------------------------------------
\* Whatever version a database had and whoever died or opened it meanwhile, a
\* process that has opened it finds all tables and columns and every message
\* in the search index.  Opening fails only when another opened it at once or
\* a process died; and where none died and none waited too long for another's
\* transaction, the database is whole afterwards or still as it was, so that
\* it can be opened again.
\* ConversationStore.migrate, ensure_message_index
\* (src/tuochat/persistence/store.py).
OpensWhole ==
  /\ \A p \in Openers : Pc(p, "ready") => base.objects = Objects /\ base.index = base.rows
  /\ \A p \in Openers : Pc(p, "failed") => crowd # "no" \/ kills > 0
  /\ kills = 0 /\ crowd # "late" /\ (\A p \in Openers : opener[p].pc \in {"closed", "failed", "ready"}) =>
       base.version = Latest \/ base.objects = {"versions"} \cup { Brought[u] : u \in 1 .. base.version }
                             \/ base.objects = {}
=============================================================================

------------------------------ MODULE ErrorLog ------------------------------
(***************************************************************************)
(* Logging and the Errors tab: warnings and errors of the window go to a   *)
(* table of the database once the store is attached, the tab shows those   *)
(* at or above a level, and the user opens or deletes the selected one or  *)
(* clears them all, while the window's worker and another window log and   *)
(* delete in the same table.                                               *)
(***************************************************************************)
EXTENDS Integers, FiniteSets, FiniteSetsExt

CONSTANTS
  MaxRecords,  \* bound: records logged, the windows together
  MaxClears    \* bound: deletions of the other window

ASSUME ErrorLogAssumption == {MaxRecords, MaxClears} \subseteq Nat

\* Levels: 1 is debug, 2 warning, 3 error.
Warning == 2
Error == 3
Levels == 1 .. Error
RecordType == [id : 1 .. MaxRecords, what : 1 .. MaxRecords, level : Levels, old : BOOLEAN]

VARIABLES
  logger,    \* the window's: [attached, level]
  table,     \* the table of entries; id is its AUTOINCREMENT key
  sequence,  \* last id given out
  tab,       \* [shown, level]; the rows of the tab
  opened,    \* the entry on the user's screen, {} or one
  logged,    \* records made
  clears,    \* deletions of the other window
  assured,   \* history: failures of a turn the user was told of as logged
  dropped    \* history: records the user or the retention removed, or no store took

errorVars == <<logger, table, sequence, tab, opened, logged, clears, assured, dropped>>

ErrorLogTypeOK ==
  /\ logger \in [attached : BOOLEAN, level : Levels]
  /\ table \subseteq RecordType /\ tab.shown \subseteq RecordType /\ tab.level \in {Warning, Error}
  /\ opened \subseteq RecordType /\ Cardinality(opened) <= 1
  /\ {sequence, logged} \subseteq 0 .. MaxRecords /\ clears \in 0 .. MaxClears
  /\ assured \cup dropped \subseteq 1 .. MaxRecords

-----------------------------------------------------------------------------
Entry(id, level) == [id |-> id, what |-> logged + 1, level |-> level, old |-> FALSE]

\* Changed: a key as of a plain table, the highest one there plus one.
InsertAfterHighest(level) ==
  LET id == 1 + Max({0} \cup { e.id : e \in table }) IN
  table' = table \cup {Entry(id, level)} /\ sequence' = id

\* save_error_log_entry.
Insert(level) == table' = table \cup {Entry(sequence + 1, level)} /\ sequence' = sequence + 1

Logs == logged < MaxRecords /\ logged' = logged + 1

\* A record of a logger: one below the logger's level or the handler's is not
\* passed on, one without a store is dropped.
Emit(level) ==
  /\ Logs
  /\ IF level >= logger.level /\ level >= Warning /\ logger.attached
     THEN Insert(level) /\ UNCHANGED dropped
     ELSE dropped' = dropped \cup {logged + 1} /\ UNCHANGED <<table, sequence>>
  /\ UNCHANGED <<logger, tab, opened, clears, assured>>

\* A turn that fails in process_submission; what the store answers is not asked.
FailedTurn(saved) ==
  /\ Logs /\ logger.attached /\ assured' = assured \cup {logged + 1}
  /\ IF saved THEN Insert(Error) /\ UNCHANGED dropped
     ELSE dropped' = dropped \cup {logged + 1} /\ UNCHANGED <<table, sequence>>
  /\ UNCHANGED <<logger, tab, opened, clears>>

\* The store is attached after the window's settings are read.
AttachStore ==
  /\ ~logger.attached /\ logger' = [logger EXCEPT !.attached = TRUE]
  /\ UNCHANGED <<table, sequence, tab, opened, logged, clears, assured, dropped>>
\* setup_logging, and the button for verbose output.
SetLevel(level) ==
  /\ logger' = [logger EXCEPT !.level = level]
  /\ UNCHANGED <<table, sequence, tab, opened, logged, clears, assured, dropped>>

-----------------------------------------------------------------------------
(* The tab.                                                                *)

Lose(gone) == dropped' = dropped \cup { e.what : e \in gone }
\* What is left is shown, without what is older than thirty days.
ShowWithout(gone, level) ==
  LET kept == { e \in table \ gone : ~e.old } IN
  /\ table' = kept /\ Lose(table \ kept)
  /\ tab' = [level |-> level, shown |-> { e \in kept : e.level >= level }]
  /\ UNCHANGED <<logger, sequence, opened, logged, clears, assured>>

\* refresh: the button, another level, and the end of a turn that failed.
Refresh(level) == logger.attached /\ ShowWithout({}, level)
\* The selected row is found by its id.
OpenDetail(e) ==
  /\ e \in tab.shown /\ opened' = {e}
  /\ UNCHANGED <<logger, table, sequence, tab, logged, clears, assured, dropped>>
DeleteSelected(e) ==
  /\ e \in tab.shown /\ ShowWithout({ f \in table : f.id = e.id }, tab.level)
ClearAll == logger.attached /\ ShowWithout(table, tab.level)

\* The other window logs, or deletes entries; entries grow old.
OtherRecord ==
  /\ Logs /\ Insert(Warning)
  /\ UNCHANGED <<logger, tab, opened, clears, assured, dropped>>
OtherDeletes(gone) ==
  /\ gone # {} /\ clears < MaxClears /\ clears' = clears + 1
  /\ table' = table \ gone /\ Lose(gone)
  /\ UNCHANGED <<logger, sequence, tab, opened, logged, assured>>
GrowOld(e) ==
  /\ ~e.old /\ \A f \in table : f.what < e.what => f.old
  /\ table' = (table \ {e}) \cup {[e EXCEPT !.old = TRUE]}
  /\ UNCHANGED <<logger, sequence, tab, opened, logged, clears, assured, dropped>>

ErrorLogInit ==
  /\ logger = [attached |-> FALSE, level |-> Warning]
  /\ table = {} /\ sequence = 0 /\ tab = [shown |-> {}, level |-> Warning]
  /\ opened = {} /\ logged = 0 /\ clears = 0 /\ assured = {} /\ dropped = {}

ErrorLogNext ==
  \/ \E level \in Levels : Emit(level) \/ SetLevel(level)
  \/ (\E saved \in BOOLEAN : FailedTurn(saved)) \/ AttachStore
  \/ (\E level \in {Warning, Error} : Refresh(level)) \/ ClearAll
  \/ \E e \in tab.shown : OpenDetail(e) \/ DeleteSelected(e)
  \/ OtherRecord
  \/ (\E e \in table : GrowOld(e)) \/ \E gone \in SUBSET table : OtherDeletes(gone)

-----------------------------------------------------------------------------
\* A row of the tab never stands for another entry than the one it shows,
\* however many were deleted and logged since it was read: what is deleted is
\* what the user selected.  A failed turn the user was told of stays in the
\* log until a user or the retention of thirty days removes it, unless the
\* store had failed too.  ErrorLogTabView in src/tuochat/gui/error_log_tab.py,
\* save_error_log_entry in src/tuochat/persistence/store.py.
RowsStandForOne ==
  /\ \A line \in tab.shown \cup opened, e \in table : line.id = e.id => line.what = e.what
  /\ assured \subseteq { e.what : e \in table } \cup dropped
=============================================================================

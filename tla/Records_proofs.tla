---------------------------- MODULE Records_proofs ----------------------------
(***************************************************************************)
(* What is kept on disk besides the conversations: the log of errors, the  *)
(* files written in the working directory, the BagIt metadata of archives, *)
(* and the schema of the database as openings cross and die; and then all  *)
(* the services side by side.                                              *)
(***************************************************************************)
EXTENDS MCServices, Services_proofs

-----------------------------------------------------------------------------
(* The error log: a row stands for one entry.                              *)

ErrorLogSpec == ErrorLogInit /\ [][ErrorLogNext]_errorVars

TabType == [shown : SUBSET RecordType, level : {Warning, Error}]
Kept30 == table \cup tab.shown \cup opened
\* An id is given out once, to one record, whatever has become of the row.
OneId ==
  /\ sequence <= logged
  /\ \A e \in Kept30 : e.id <= sequence
  /\ \A e, f \in Kept30 : e.id = f.id => e.what = f.what
AssuredKept == assured \subseteq { e.what : e \in table } \cup dropped

ErrorLogInv == ErrorLogTypeOK /\ tab \in TabType /\ OneId /\ AssuredKept

LEMMA InitErrorLog == ErrorLogInit => ErrorLogInv
<1> SUFFICES ASSUME ErrorLogInit PROVE ErrorLogInv
  OBVIOUS
<1>1. Cardinality({}) = 0
  BY FS_EmptySet
<1>2. tab \in TabType /\ 0 \in 0 .. MaxRecords /\ 0 \in 0 .. MaxClears
  BY ErrorLogAssumption DEF ErrorLogInit, TabType, Warning, Error
<1> QED
  BY <1>1, <1>2 DEF ErrorLogInit, ErrorLogInv, ErrorLogTypeOK, Levels, Warning, Error, OneId, Kept30,
     AssuredKept

\* A record that is logged gets an id of its own.
LEMMA InsertKeeps ==
  ASSUME ErrorLogInv, NEW level \in Levels, Logs, Insert(level), dropped' = dropped,
         assured' \in {assured, assured \cup {logged + 1}},
         UNCHANGED <<logger, tab, opened, clears>>
  PROVE  ErrorLogInv'
<1> DEFINE new == Entry(sequence + 1, level)
<1>1. logged \in 0 .. MaxRecords /\ sequence \in 0 .. MaxRecords /\ sequence <= logged
      /\ logged < MaxRecords /\ logged' = logged + 1
  BY DEF ErrorLogInv, ErrorLogTypeOK, OneId, Logs
<1>2. new \in RecordType /\ new.id = sequence + 1 /\ new.what = logged + 1
  BY <1>1, ErrorLogAssumption DEF Entry, RecordType
<1>3. table' = table \cup {new} /\ sequence' = sequence + 1
  BY DEF Insert
<1> HIDE DEF new
<1>4. sequence' \in 0 .. MaxRecords /\ logged' \in 0 .. MaxRecords /\ logged + 1 \in 1 .. MaxRecords
  BY <1>1, <1>3, ErrorLogAssumption
<1>5. ErrorLogTypeOK' /\ tab' \in TabType
  BY <1>2, <1>3, <1>4 DEF ErrorLogInv, ErrorLogTypeOK
<1>6. Kept30' = Kept30 \cup {new}
  BY <1>3 DEF Kept30
<1>7. OneId'
  <2>1. \A e \in Kept30 : e.id \in Nat /\ e.id <= sequence /\ e.id # new.id
    BY <1>1, <1>2, ErrorLogAssumption DEF ErrorLogInv, OneId, Kept30, ErrorLogTypeOK, RecordType
  <2> QED
    BY <1>1, <1>2, <1>3, <1>6, <2>1 DEF ErrorLogInv, OneId
<1>8. AssuredKept'
  BY <1>2, <1>3 DEF ErrorLogInv, AssuredKept
<1> QED
  BY <1>5, <1>7, <1>8 DEF ErrorLogInv

\* One no store took is dropped.
LEMMA DropKeeps ==
  ASSUME ErrorLogInv, Logs, dropped' = dropped \cup {logged + 1},
         assured' \in {assured, assured \cup {logged + 1}},
         UNCHANGED <<logger, table, sequence, tab, opened, clears>>
  PROVE  ErrorLogInv'
<1>1. logged \in 0 .. MaxRecords /\ logged' = logged + 1 /\ logged + 1 \in 1 .. MaxRecords
      /\ logged' \in 0 .. MaxRecords
  BY ErrorLogAssumption DEF ErrorLogInv, ErrorLogTypeOK, Logs
<1>2. sequence \in 0 .. MaxRecords
  BY DEF ErrorLogInv, ErrorLogTypeOK
<1> QED
  BY <1>1, <1>2, ErrorLogAssumption DEF ErrorLogInv, ErrorLogTypeOK, OneId, Kept30, AssuredKept

\* Whatever is lost is known to be.
LEMMA LoseKeeps ==
  ASSUME ErrorLogInv, NEW gone \in SUBSET table, table' = table \ gone, Lose(gone),
         UNCHANGED <<sequence, logged, assured>>
  PROVE  /\ table' \subseteq RecordType /\ dropped' \subseteq 1 .. MaxRecords
         /\ AssuredKept'
<1>1. \A e \in table : e.what \in 1 .. MaxRecords
  BY DEF ErrorLogInv, ErrorLogTypeOK, RecordType
<1> QED
  BY <1>1 DEF ErrorLogInv, ErrorLogTypeOK, AssuredKept, Lose

LEMMA ShowKeeps ==
  ASSUME ErrorLogInv, NEW gone \in SUBSET table, NEW level \in {Warning, Error}, ShowWithout(gone, level)
  PROVE  ErrorLogInv'
<1> DEFINE young == { e \in table \ gone : ~e.old }
           shown == { e \in young : e.level >= level }
<1>1. table' = table \ (table \ young) /\ Lose(table \ young) /\ tab' = [level |-> level, shown |-> shown]
      /\ UNCHANGED <<logger, sequence, opened, logged, clears, assured>>
  BY DEF ShowWithout
<1>2. young \subseteq table /\ shown \subseteq table /\ table \subseteq RecordType
  BY DEF ErrorLogInv, ErrorLogTypeOK
<1> HIDE DEF young, shown
<1>3. table' \subseteq RecordType /\ dropped' \subseteq 1 .. MaxRecords /\ AssuredKept'
  BY <1>1, <1>2, LoseKeeps
<1>4. tab' \in TabType /\ tab'.shown = shown /\ tab'.level = level
  BY <1>1, <1>2 DEF TabType
<1>5. Kept30' \subseteq Kept30
  BY <1>1, <1>2, <1>4 DEF Kept30
<1>6. OneId'
  BY <1>1, <1>5 DEF ErrorLogInv, OneId
<1> QED
  BY <1>1, <1>2, <1>3, <1>4, <1>6 DEF ErrorLogInv, ErrorLogTypeOK

LEMMA NextErrorLog == ErrorLogInv /\ [ErrorLogNext]_errorVars => ErrorLogInv'
<1> SUFFICES ASSUME ErrorLogInv, [ErrorLogNext]_errorVars PROVE ErrorLogInv'
  OBVIOUS
<1>0. ErrorLogTypeOK /\ tab \in TabType /\ OneId /\ AssuredKept
  BY DEF ErrorLogInv
<1>1. ASSUME NEW level \in Levels, Emit(level) PROVE ErrorLogInv'
  <2>1. Logs /\ UNCHANGED <<logger, tab, opened, clears, assured>>
    BY <1>1 DEF Emit
  <2>2. CASE level >= logger.level /\ level >= Warning /\ logger.attached
    <3>1. Insert(level) /\ dropped' = dropped
      BY <1>1, <2>2 DEF Emit
    <3> QED
      BY <2>1, <3>1, InsertKeeps
  <2>3. CASE ~(level >= logger.level /\ level >= Warning /\ logger.attached)
    <3>1. dropped' = dropped \cup {logged + 1} /\ UNCHANGED <<table, sequence>>
      BY <1>1, <2>3 DEF Emit
    <3> QED
      BY <2>1, <3>1, DropKeeps
  <2> QED
    BY <2>2, <2>3
<1>2. ASSUME NEW held \in BOOLEAN, FailedTurn(held) PROVE ErrorLogInv'
  <2>1. Logs /\ assured' = assured \cup {logged + 1} /\ UNCHANGED <<logger, tab, opened, clears>>
    BY <1>2 DEF FailedTurn
  <2>2. Error \in Levels
    BY DEF Error, Levels
  <2>3. CASE held
    BY <1>2, <2>1, <2>2, <2>3, InsertKeeps DEF FailedTurn
  <2>4. CASE ~held
    BY <1>2, <2>1, <2>4, DropKeeps DEF FailedTurn
  <2> QED
    BY <2>3, <2>4
<1>3. CASE AttachStore \/ \E level \in Levels : SetLevel(level)
  <2>1. logger' \in [attached : BOOLEAN, level : Levels]
        /\ UNCHANGED <<table, sequence, tab, opened, logged, clears, assured, dropped>>
    BY <1>0, <1>3 DEF AttachStore, SetLevel, ErrorLogTypeOK
  <2> QED
    BY <1>0, <2>1 DEF ErrorLogInv, ErrorLogTypeOK, OneId, Kept30, AssuredKept
<1>4. ASSUME NEW level \in {Warning, Error}, Refresh(level) PROVE ErrorLogInv'
  BY <1>4, ShowKeeps DEF Refresh
<1>5. CASE ClearAll
  BY <1>0, <1>5, ShowKeeps DEF ClearAll, ErrorLogTypeOK
<1>6. ASSUME NEW e \in tab.shown, OpenDetail(e) PROVE ErrorLogInv'
  <2>1. opened' = {e} /\ UNCHANGED <<logger, table, sequence, tab, logged, clears, assured, dropped>>
    BY <1>6 DEF OpenDetail
  <2>2. Cardinality(opened') <= 1
    BY <2>1, FS_Singleton
  <2>3. opened' \subseteq RecordType /\ Kept30' \subseteq Kept30
    BY <1>0, <1>6, <2>1 DEF TabType, Kept30
  <2> QED
    BY <1>0, <2>1, <2>2, <2>3 DEF ErrorLogInv, ErrorLogTypeOK, OneId, AssuredKept
<1>7. ASSUME NEW e \in tab.shown, DeleteSelected(e) PROVE ErrorLogInv'
  BY <1>0, <1>7, ShowKeeps DEF DeleteSelected, ErrorLogTypeOK
<1>8. CASE OtherRecord
  <2>1. Warning \in Levels
    BY DEF Warning, Error, Levels
  <2> QED
    BY <1>8, <2>1, InsertKeeps DEF OtherRecord
<1>9. ASSUME NEW gone \in SUBSET table, OtherDeletes(gone) PROVE ErrorLogInv'
  <2>1. table' = table \ gone /\ Lose(gone) /\ UNCHANGED <<logger, sequence, tab, opened, logged, assured>>
        /\ clears' \in 0 .. MaxClears
    BY <1>0, <1>9, ErrorLogAssumption DEF OtherDeletes, ErrorLogTypeOK
  <2>2. table' \subseteq RecordType /\ dropped' \subseteq 1 .. MaxRecords /\ AssuredKept'
    BY <2>1, LoseKeeps
  <2>3. Kept30' \subseteq Kept30
    BY <2>1 DEF Kept30
  <2> QED
    BY <1>0, <2>1, <2>2, <2>3 DEF ErrorLogInv, ErrorLogTypeOK, OneId
<1>10. ASSUME NEW e \in table, GrowOld(e) PROVE ErrorLogInv'
  <2> DEFINE older == [e EXCEPT !.old = TRUE]
  <2>1. table' = (table \ {e}) \cup {older}
        /\ UNCHANGED <<logger, sequence, tab, opened, logged, clears, assured, dropped>>
    BY <1>10 DEF GrowOld
  <2>2. older \in RecordType /\ older.id = e.id /\ older.what = e.what
    BY <1>0 DEF ErrorLogTypeOK, RecordType
  <2> HIDE DEF older
  <2>3. \A f \in Kept30' : f \in Kept30 \/ f = older
    BY <2>1 DEF Kept30
  <2>4. OneId'
    <3>1. \A f \in Kept30' : \E g \in Kept30 : f.id = g.id /\ f.what = g.what
      BY <2>2, <2>3 DEF Kept30
    <3> QED
      BY <1>0, <2>1, <3>1 DEF OneId
  <2>5. \A f \in table : \E g \in table' : g.what = f.what
    BY <2>1, <2>2
  <2>6. AssuredKept'
    BY <1>0, <2>1, <2>5 DEF AssuredKept
  <2> QED
    BY <1>0, <2>1, <2>2, <2>4, <2>6 DEF ErrorLogInv, ErrorLogTypeOK
<1>11. CASE UNCHANGED errorVars
  BY <1>0, <1>11 DEF errorVars, ErrorLogInv, ErrorLogTypeOK, OneId, Kept30, AssuredKept
<1> QED
  BY <1>1, <1>2, <1>3, <1>4, <1>5, <1>6, <1>7, <1>8, <1>9, <1>10, <1>11 DEF ErrorLogNext

LEMMA ErrorLogHolds == ErrorLogInv => RowsStandForOne
BY DEF ErrorLogInv, OneId, Kept30, AssuredKept, RowsStandForOne

-----------------------------------------------------------------------------
(* Write-here mode: nothing at a root, and the folder shown is complete.   *)

WriteHereSpec == WriteHereInit /\ [][WriteHereNext]_hereVars

\* With local writes off no folder is remembered.
NoFolderWhenOff == here.off => folder = {}

WriteHereInv == WriteHereTypeOK /\ HereIsSafe /\ NoFolderWhenOff

LEMMA InitWriteHere == WriteHereInit => WriteHereInv
<1> SUFFICES ASSUME WriteHereInit PROVE WriteHereInv
  OBVIOUS
<1>1. here \in [mode : BOOLEAN, approve : BOOLEAN, off : BOOLEAN]
  <2>1. PICK off, configured, approve \in BOOLEAN :
          here = [off |-> off, approve |-> approve, mode |-> configured \/ (~off /\ place \in Repos \ Tops)]
    BY DEF WriteHereInit
  <2> DEFINE mode == configured \/ (~off /\ place \in Repos \ Tops)
  <2>2. mode \in BOOLEAN /\ here = [off |-> off, approve |-> approve, mode |-> mode]
    BY <2>1
  <2> HIDE DEF mode
  <2> QED
    BY <2>2
<1>2. (CHOOSE id \in Talks : TRUE) \in Talks
  BY WriteHereAssumption
<1>3. Cardinality({}) = 0
  BY FS_EmptySet
<1> QED
  BY <1>1, <1>2, <1>3, WriteHereAssumption DEF WriteHereInit, WriteHereInv, WriteHereTypeOK, TalkType,
     HereIsSafe, NoFolderWhenOff

\* A sync of the conversation that is open afterwards writes all its blocks.
LEMMA SyncKeeps ==
  ASSUME WriteHereInv, NEW t \in TalkType, NEW dir \in Places, NEW yes, SyncArtifacts(t, dir, yes),
         talk' = t, here' = here, place' \in Places, saved' \subseteq TalkType, blocks' \in 0 .. MaxBlocks
  PROVE  WriteHereInv'
<1>0. WriteHereTypeOK /\ HereIsSafe /\ NoFolderWhenOff
  BY DEF WriteHereInv
<1>1. CASE here.off
  <2>1. UNCHANGED <<written, archived, roots, folder>> /\ folder = {}
    BY <1>0, <1>1 DEF SyncArtifacts, NoFolderWhenOff
  <2> QED
    BY <1>0, <2>1 DEF WriteHereInv, WriteHereTypeOK, HereIsSafe, NoFolderWhenOff
<1>2. CASE ~here.off
  <2> DEFINE root == ArchiveRoot(dir)
             wanted == Wanted(t, dir, yes)
             new == [at |-> root, talk |-> t.id]
             file1(b) == [at |-> dir, block |-> b]
             files == { file1(b) : b \in wanted }
  <2>1. /\ written' = written \cup files /\ archived' = archived \cup (t.blocks \ wanted)
        /\ roots' = roots \cup {root} /\ folder' = {new}
    BY <1>2 DEF SyncArtifacts
  <2>2. wanted \subseteq t.blocks /\ t.blocks \subseteq BlockType /\ t.id \in Talks
    BY DEF Wanted, TalkType
  <2>3. wanted # {} => dir \notin Tops
    BY DEF Wanted, Here
  <2>4. root \in (Places \ Tops) \cup {"data"}
    BY DEF ArchiveRoot, Here
  <2>5. new \in [at : Places \cup {"data"}, talk : Talks] /\ new.at = root /\ new.talk = t.id
    BY <2>2, <2>4
  <2>6. /\ files \subseteq [at : Places, block : BlockType]
        /\ \A file \in files : file.at \in Places \ Tops
        /\ \A b \in wanted : \E file \in files : file.block = b
    <3>1. \A b \in BlockType : file1(b) \in [at : Places, block : BlockType] /\ file1(b).at = dir
                               /\ file1(b).block = b
      OBVIOUS
    <3> HIDE DEF file1, wanted
    <3> QED
      BY <2>2, <2>3, <3>1
  <2> HIDE DEF root, wanted, new, files
  <2>7. Cardinality(folder') <= 1
    <3>1. Cardinality({new}) = 1
      BY FS_Singleton
    <3> QED
      BY <2>1, <3>1
  <2>8. WriteHereTypeOK'
    BY <1>0, <2>1, <2>2, <2>4, <2>5, <2>6, <2>7 DEF WriteHereTypeOK
  <2>9. { file.at : file \in written' } \cup roots' \subseteq (Places \ Tops) \cup {"data"}
    BY <1>0, <2>1, <2>4, <2>6 DEF HereIsSafe
  <2>10. talk'.blocks \subseteq { file.block : file \in written' } \cup archived'
    <3>1. ASSUME NEW b \in t.blocks PROVE b \in { file.block : file \in written' } \cup archived'
      <4>1. CASE b \in wanted
        BY <2>1, <2>6, <4>1
      <4>2. CASE b \notin wanted
        BY <2>1, <4>2
      <4> QED
        BY <4>1, <4>2
    <3> QED
      BY <3>1
  <2>11. HereIsSafe'
    BY <2>1, <2>5, <2>9, <2>10 DEF HereIsSafe
  <2> QED
    BY <1>2, <2>8, <2>11 DEF WriteHereInv, NoFolderWhenOff
<1> QED
  BY <1>1, <1>2

\* Nothing is written and the conversation is the same, or a new one.
LEMMA RenewKeeps ==
  ASSUME WriteHereInv, Renew, here' \in [mode : BOOLEAN, approve : BOOLEAN, off : BOOLEAN],
         place' \in Places
  PROVE  WriteHereInv'
<1>1. talk' \in TalkType /\ folder' = {} /\ UNCHANGED <<saved, blocks, written, archived, roots>>
  BY DEF Renew, TalkType
<1>2. Cardinality({}) = 0
  BY FS_EmptySet
<1> QED
  BY <1>1, <1>2 DEF WriteHereInv, WriteHereTypeOK, HereIsSafe, NoFolderWhenOff

LEMMA SavedTyped ==
  ASSUME WriteHereTypeOK, NEW t \in TalkType, Save(t)
  PROVE  saved' \subseteq TalkType
BY DEF WriteHereTypeOK, Save

LEMMA NextWriteHere == WriteHereInv /\ [WriteHereNext]_hereVars => WriteHereInv'
<1> SUFFICES ASSUME WriteHereInv, [WriteHereNext]_hereVars PROVE WriteHereInv'
  OBVIOUS
<1>0. WriteHereTypeOK /\ HereIsSafe /\ NoFolderWhenOff
  BY DEF WriteHereInv
<1>t. /\ place \in Places /\ talk \in TalkType /\ saved \subseteq TalkType /\ blocks \in 0 .. MaxBlocks
      /\ here \in [mode : BOOLEAN, approve : BOOLEAN, off : BOOLEAN]
  BY <1>0 DEF WriteHereTypeOK
<1>1. ASSUME NEW named \in BOOLEAN, NEW yes, Turn(named, yes) PROVE WriteHereInv'
  <2>1. talk' = [talk EXCEPT !.cwd = place, !.blocks = @ \cup {[n |-> blocks + 1, named |-> named]}]
        /\ blocks' = blocks + 1 /\ blocks < MaxBlocks
    BY <1>1 DEF Turn
  <2>2. blocks' \in 0 .. MaxBlocks /\ [n |-> blocks + 1, named |-> named] \in BlockType
    BY <1>t, <2>1, WriteHereAssumption DEF BlockType
  <2>3. talk' \in TalkType
    BY <1>t, <2>1, <2>2 DEF TalkType
  <2>4. saved' \subseteq TalkType
    BY <1>0, <1>t, <1>1, <2>3, SavedTyped DEF Turn
  <2>5. SyncArtifacts(talk', place, yes) /\ place' = place /\ here' = here
    BY <1>1 DEF Turn
  <2>6. PICK t \in TalkType : t = talk'
    BY <2>3
  <2> QED
    BY <1>t, <2>2, <2>4, <2>5, <2>6, SyncKeeps
<1>2. ASSUME NEW yes, OpenArchive(yes) PROVE WriteHereInv'
  BY <1>t, <1>2, SyncKeeps DEF OpenArchive
<1>3. ASSUME NEW yes, Title(yes) PROVE WriteHereInv'
  <2>1. saved' \subseteq TalkType
    BY <1>0, <1>t, <1>3, SavedTyped DEF Title
  <2> QED
    BY <1>t, <1>3, <2>1, SyncKeeps DEF Title
<1>4. ASSUME NEW t \in saved, NEW yes, Resume(t, yes) PROVE WriteHereInv'
  BY <1>t, <1>4, SyncKeeps DEF Resume, Switch
<1>5. ASSUME NEW t \in saved, NEW yes, ResumeWindow(t, yes) PROVE WriteHereInv'
  <2>1. PICK dir \in Places : Switch(t, dir, yes) /\ place' = dir
    BY <1>t, <1>5 DEF ResumeWindow
  <2> QED
    BY <1>t, <2>1, SyncKeeps DEF Switch
<1>6. ASSUME NEW dir \in Places, NewTalk(dir) PROVE WriteHereInv'
  BY <1>t, <1>6, RenewKeeps DEF NewTalk
<1>7. CASE ToggleApprove \/ \E mode \in BOOLEAN : ToggleHere(mode)
  <2>1. /\ here' \in [mode : BOOLEAN, approve : BOOLEAN, off : BOOLEAN] /\ here'.off = here.off
        /\ UNCHANGED <<place, talk, saved, blocks, written, archived, roots, folder>>
    BY <1>t, <1>7 DEF ToggleApprove, ToggleHere
  <2> QED
    BY <1>0, <2>1 DEF WriteHereInv, WriteHereTypeOK, HereIsSafe, NoFolderWhenOff
<1>8. CASE ToggleWrites
  <2>1. /\ here' \in [mode : BOOLEAN, approve : BOOLEAN, off : BOOLEAN] /\ here'.off = ~here.off
        /\ UNCHANGED <<place, talk, blocks, written, archived, roots>>
    BY <1>t, <1>8 DEF ToggleWrites
  <2>2. saved' \subseteq TalkType
    BY <1>0, <1>t, <1>8, SavedTyped DEF ToggleWrites
  <2>3. folder' = {}
    BY <1>0, <1>8 DEF ToggleWrites, NoFolderWhenOff
  <2>4. Cardinality({}) = 0
    BY FS_EmptySet
  <2> QED
    BY <1>0, <2>1, <2>2, <2>3, <2>4 DEF WriteHereInv, WriteHereTypeOK, HereIsSafe, NoFolderWhenOff
<1>9. ASSUME NEW dir \in Places, NEW former \in Places, NEW renew \in BOOLEAN, SelectDirectory(dir, former, renew)
      PROVE  WriteHereInv'
  <2>1. here' \in [mode : BOOLEAN, approve : BOOLEAN, off : BOOLEAN] /\ here'.off = here.off /\ place' = former
    BY <1>t, <1>9 DEF SelectDirectory
  <2>2. CASE renew
    BY <1>9, <2>1, <2>2, RenewKeeps DEF SelectDirectory
  <2>3. CASE ~renew
    BY <1>0, <1>9, <2>1, <2>3 DEF SelectDirectory, WriteHereInv, WriteHereTypeOK, HereIsSafe,
       NoFolderWhenOff
  <2> QED
    BY <2>2, <2>3
<1>10. CASE UNCHANGED hereVars
  BY <1>0, <1>10 DEF hereVars, WriteHereInv, WriteHereTypeOK, HereIsSafe, NoFolderWhenOff
<1> QED
  BY <1>1, <1>2, <1>3, <1>4, <1>5, <1>6, <1>7, <1>8, <1>9, <1>10 DEF WriteHereNext

-----------------------------------------------------------------------------
(* BagIt metadata: what they tell of an archive.                           *)

BagItSpec == BagItInit /\ [][BagItNext]_bagVars

WorkType == [pc : Steps, counted : Counted, mixed : BOOLEAN]
BagType == [txt : BOOLEAN, listed : Counted, oxum : Counted, seal : Counted \X Counted]
BagTyped ==
  /\ payload \in Contents /\ last \in Counted /\ bag \in BagType /\ work \in [Workers -> WorkType]
  /\ turns \in 0 .. MaxTurns /\ (~IsAt("session", "idle") => turns > 0)

\* One that came to the archive where nobody was, and where nobody came since.
ByItself(w) == ~IsAt(w, "idle") /\ ~work[w].mixed
OnItsOwn == \A w \in Workers : ByItself(w) => IsAt(Other(w), "idle")

\* The bag has been named before its manifests are written again.
Named == \A w \in Workers : work[w].pc \in {"describe", "relist", "recount", "seal"} => bag.txt
\* What one by itself has written so far is of the files it has listed.
Written(w) ==
  ByItself(w) =>
    /\ work[w].pc = "recount" => bag.listed = last /\ work[w].counted = last
    /\ work[w].pc = "seal" => bag.listed = last /\ bag.oxum = last
\* The metadata written last are being written, or are there to the end.
Finishing == \E w \in Workers : work[w].pc \in {"recount", "seal"}
Sealed == bag.txt /\ bag.listed = last /\ bag.oxum = last /\ bag.seal = <<last, last>>
SealedAtLast ==
  last # NoBag => Finishing \/ ((\A w \in Workers : IsAt(w, "idle")) /\ Sealed)

BagInv == BagTyped /\ OnItsOwn /\ Named /\ (\A w \in Workers : Written(w)) /\ SealedAtLast

LEMMA OtherWorker ==
  ASSUME NEW w \in Workers
  PROVE  Other(w) \in Workers /\ Other(w) # w /\ Workers = {w, Other(w)} /\ Other(Other(w)) = w
<1>1. \E v \in Workers : v # w
  BY DEF Workers
<1>2. Other(w) \in Workers /\ Other(w) # w
  BY <1>1 DEF Other
<1>3. \E v \in Workers : v # Other(w)
  BY <1>2
<1>4. Other(Other(w)) \in Workers /\ Other(Other(w)) # Other(w)
  BY <1>3 DEF Other
<1> QED
  BY <1>2, <1>4 DEF Workers

LEMMA BagBasics == /\ NoBag \in Counted /\ Contents \subseteq Counted /\ NoSeal \in Counted \X Counted
                   /\ Idle \in WorkType /\ Idle.pc = "idle"
BY DEF Counted, NoSeal, Idle, WorkType, Steps

\* One worker goes on: the other is where it was.
LEMMA GoesOn ==
  ASSUME BagTyped, NEW w \in Workers, NEW pc \in Steps, NEW c \in Counted, Goes(w, pc, c)
  PROVE  /\ work' \in [Workers -> WorkType] /\ work'[w].pc = pc /\ work'[w].counted = c
         /\ work'[w].mixed = work[w].mixed /\ work'[Other(w)] = work[Other(w)]
<1> DEFINE new == [work[w] EXCEPT !.pc = pc, !.counted = c]
<1>1. work[w] \in WorkType
  BY DEF BagTyped
<1>2. new \in WorkType /\ new.pc = pc /\ new.counted = c /\ new.mixed = work[w].mixed
  BY <1>1 DEF WorkType
<1>3. work' = [work EXCEPT ![w] = new]
  BY DEF Goes
<1> HIDE DEF new, WorkType
<1> QED
  BY <1>2, <1>3, OtherWorker DEF BagTyped

\* One worker is done or dead.
LEMMA Leaves ==
  ASSUME BagTyped, NEW w \in Workers, work' = [work EXCEPT ![w] = Idle]
  PROVE  work' \in [Workers -> WorkType] /\ work'[w].pc = "idle" /\ work'[Other(w)] = work[Other(w)]
<1> HIDE DEF WorkType
<1> QED
  BY BagBasics, OtherWorker DEF BagTyped


\* A step before the manifests are written again.
LEMMA PlainStep ==
  ASSUME BagInv, NEW w \in Workers, BagTyped', work'[Other(w)] = work[Other(w)],
         work[w].pc \notin {"idle", "recount", "seal"}, work'[w].pc \notin {"recount", "seal"},
         work'[w].mixed = work[w].mixed \/ work'[w].pc = "idle", last' = last,
         bag.txt => bag'.txt, work'[w].pc \in {"describe", "relist"} => bag'.txt
  PROVE  BagInv'
<1> DEFINE v == Other(w)
<1>1. v \in Workers /\ v # w /\ Workers = {w, v} /\ Other(v) = w
  BY OtherWorker
<1>0. v = Other(w)
  OBVIOUS
<1>2. work'[v] = work[v]
  OBVIOUS
<1> HIDE DEF v
<1>3. OnItsOwn'
  BY <1>0, <1>1, <1>2 DEF BagInv, OnItsOwn, ByItself, IsAt
<1>4. Named'
  BY <1>1, <1>2 DEF BagInv, Named
<1>5. \A u \in Workers : Written(u)'
  <2>1. ~ByItself(v)
    BY <1>1 DEF BagInv, OnItsOwn, IsAt
  <2>2. ~ByItself(v)'
    BY <1>2, <2>1 DEF ByItself, IsAt
  <2> QED
    BY <1>1, <2>2 DEF Written
<1>6. SealedAtLast'
  BY <1>1, <1>2 DEF BagInv, SealedAtLast, Finishing, IsAt
<1> QED
  BY <1>3, <1>4, <1>5, <1>6 DEF BagInv

\* A worker comes to the archive.
LEMMA EnterKeeps ==
  ASSUME BagInv, NEW w \in Workers, NEW pc \in {"extract", "open"}, Enter(w, pc),
         turns' \in 0 .. MaxTurns, turns' > 0, payload' = payload, bag' = bag
  PROVE  BagInv'
<1> DEFINE v == Other(w)
           both == ~IsAt(v, "idle")
           comes == [Idle EXCEPT !.pc = pc, !.mixed = both]
           meets == [work[v] EXCEPT !.mixed = both]
<1>1. v \in Workers /\ v # w /\ Workers = {w, v} /\ Other(v) = w
  BY OtherWorker
<1>2. both \in BOOLEAN /\ work[v] \in WorkType
  BY <1>1 DEF IsAt, BagInv, BagTyped
<1>3. comes \in WorkType /\ comes.pc = pc /\ comes.mixed = both
  BY <1>2, BagBasics DEF WorkType, Idle, Steps
<1>4. meets \in WorkType /\ meets.pc = work[v].pc /\ meets.mixed = both
  BY <1>2 DEF WorkType
<1>5. work' = [work EXCEPT ![w] = comes, ![v].mixed = both] /\ last' = NoBag
  BY DEF Enter
<1>0. v = Other(w) /\ (both <=> work[v].pc # "idle")
  BY DEF IsAt
<1>6. work' \in [Workers -> WorkType] /\ work'[w] = comes /\ work'[v] = meets
  <2>1. work' = [work EXCEPT ![w] = comes, ![v] = meets]
    BY <1>1, <1>5 DEF BagInv, BagTyped
  <2> HIDE DEF v, both, comes, meets, WorkType
  <2> QED
    BY <1>1, <1>3, <1>4, <2>1 DEF BagInv, BagTyped
<1> HIDE DEF v, both, comes, meets
<1>7. BagTyped'
  BY <1>5, <1>6, BagBasics DEF BagInv, BagTyped
<1>8. OnItsOwn'
  BY <1>0, <1>1, <1>3, <1>4, <1>6 DEF OnItsOwn, ByItself, IsAt
<1>9. Named' /\ \A u \in Workers : Written(u)'
  <2>1. ~ByItself(v)'
    BY <1>0, <1>4, <1>6 DEF ByItself, IsAt
  <2> QED
    BY <1>1, <1>3, <1>4, <1>6, <2>1 DEF BagInv, Named, Written
<1> QED
  BY <1>5, <1>7, <1>8, <1>9 DEF BagInv, SealedAtLast

LEMMA InitBag == BagItInit => BagInv
<1> SUFFICES ASSUME BagItInit PROVE BagInv
  OBVIOUS
<1>1. payload \in Contents
  BY DEF BagItInit, Contents, Absent
<1>2. bag \in BagType
  BY BagBasics DEF BagItInit, BagType
<1>3. work \in [Workers -> WorkType] /\ \A w \in Workers : work[w].pc = "idle"
  BY BagBasics DEF BagItInit
<1>4. "session" \in Workers
  BY DEF Workers
<1> QED
  BY <1>1, <1>2, <1>3, <1>4, BagBasics, BagItAssumption DEF BagItInit, BagInv, BagTyped, OnItsOwn, ByItself, IsAt,
     Named, Written, SealedAtLast

LEMMA NextBag == BagInv /\ [BagItNext]_bagVars => BagInv'
<1> SUFFICES ASSUME BagInv, [BagItNext]_bagVars PROVE BagInv'
  OBVIOUS
<1>0. BagTyped /\ OnItsOwn /\ Named /\ (\A w \in Workers : Written(w)) /\ SealedAtLast
  BY DEF BagInv
<1>t. /\ payload \in Contents /\ last \in Counted /\ bag \in BagType /\ work \in [Workers -> WorkType]
      /\ turns \in 0 .. MaxTurns /\ payload \in Counted
      /\ bag.txt \in BOOLEAN /\ bag.listed \in Counted /\ bag.oxum \in Counted
  BY <1>0, BagBasics DEF BagTyped, BagType
<1>w. "session" \in Workers /\ "command" \in Workers /\ Other("command") = "session"
  <2>1. "session" \in Workers /\ "command" \in Workers
    BY DEF Workers
  <2> QED
    BY <2>1, OtherWorker DEF Workers
<1>s. ASSUME NEW w \in Workers PROVE work[w].counted \in Counted
  BY <1>t DEF WorkType
<1>p. {"transcript", "open", "list", "name", "describe", "relist", "recount", "seal"} \subseteq Steps
  BY DEF Steps
<1>1. CASE Sync
  BY <1>t, <1>w, <1>1, BagItAssumption, EnterKeeps DEF Sync
<1>2. CASE Update
  BY <1>t, <1>w, <1>2, EnterKeeps DEF Update, counts
<1>3. CASE Extract
  <2>1. /\ IsAt("session", "extract") /\ Goes("session", "transcript", NoBag)
        /\ UNCHANGED <<bag, last, turns>>
    BY <1>3 DEF Extract, MoveTo, counts
  <2>2. payload' \in Contents
    <3>1. turns > 0
      BY <1>0, <2>1 DEF BagTyped, IsAt
    <3>2. 1 \in {Absent, User} \cup 1 .. MaxTurns
      BY <1>t, <3>1, BagItAssumption
    <3> QED
      BY <1>t, <1>3, <3>2 DEF Extract, Contents
  <2>3. /\ work' \in [Workers -> WorkType] /\ work'["session"].pc = "transcript"
        /\ work'["session"].mixed = work["session"].mixed /\ work'[Other("session")] = work[Other("session")]
    BY <1>0, <1>w, <1>p, <2>1, BagBasics, GoesOn
  <2>4. BagTyped'
    BY <1>0, <2>1, <2>2, <2>3 DEF BagTyped, IsAt
  <2> QED
    BY <1>w, <2>1, <2>3, <2>4, PlainStep DEF IsAt
<1>4. ASSUME NEW installed \in BOOLEAN, Transcript(installed) PROVE BagInv'
  <2>1. /\ IsAt("session", "transcript") /\ payload' = [payload EXCEPT !["transcript"] = turns]
        /\ IF installed THEN Goes("session", "open", NoBag) ELSE work' = [work EXCEPT !["session"] = Idle]
        /\ UNCHANGED <<bag, last, turns>>
    BY <1>4 DEF Transcript, MoveTo, counts
  <2>2. payload' \in Contents
    <3>1. turns \in {Absent, User} \cup 1 .. MaxTurns
      BY <1>t, BagItAssumption DEF Absent
    <3> QED
      BY <1>t, <2>1, <3>1 DEF Contents
  <2>3. /\ work' \in [Workers -> WorkType] /\ work'["session"].pc \in {"open", "idle"}
        /\ work'["session"].mixed = work["session"].mixed \/ work'["session"].pc = "idle"
        /\ work'[Other("session")] = work[Other("session")]
    <3>1. CASE installed
      BY <1>0, <1>w, <1>p, <2>1, <3>1, BagBasics, GoesOn
    <3>2. CASE ~installed
      BY <1>0, <1>w, <2>1, <3>2, Leaves
    <3> QED
      BY <3>1, <3>2
  <2>4. BagTyped'
    BY <1>0, <2>1, <2>2, <2>3 DEF BagTyped, IsAt
  <2> QED
    BY <1>w, <2>1, <2>3, <2>4, PlainStep DEF IsAt
<1>5. ASSUME NEW w \in Workers, OpenBag(w) \/ List(w) \/ NameBag(w) \/ Describe(w) PROVE BagInv'
  <2>1. PICK pc \in {"list", "name", "describe", "relist"}, c \in Counted : Goes(w, pc, c)
    BY <1>t, <1>s, <1>5, BagBasics DEF OpenBag, List, NameBag, Describe, MoveTo
  <2>2. /\ work' \in [Workers -> WorkType] /\ work'[w].pc = pc
        /\ work'[w].mixed = work[w].mixed /\ work'[Other(w)] = work[Other(w)]
    BY <1>0, <1>p, <2>1, GoesOn
  <2>3. bag' \in BagType /\ (bag.txt => bag'.txt) /\ (work'[w].pc \in {"describe", "relist"} => bag'.txt)
    <3>1. CASE OpenBag(w)
      <4>1. bag' = bag /\ Goes(w, IF bag.txt THEN "relist" ELSE "list", NoBag)
        BY <3>1 DEF OpenBag, MoveTo
      <4>2. (IF bag.txt THEN "relist" ELSE "list") \in Steps
        BY <1>p
      <4>3. work'[w].pc = IF bag.txt THEN "relist" ELSE "list"
        BY <1>0, <4>1, <4>2, BagBasics, GoesOn
      <4> QED
        BY <1>t, <4>1, <4>3
    <3>2. CASE List(w)
      <4>1. bag' = [bag EXCEPT !.listed = payload] /\ Goes(w, "name", payload)
        BY <3>2 DEF List
      <4>2. work'[w].pc = "name"
        BY <1>0, <1>t, <1>p, <4>1, GoesOn
      <4> QED
        BY <1>t, <4>1, <4>2 DEF BagType
    <3>3. CASE NameBag(w)
      BY <1>t, <3>3 DEF NameBag, BagType
    <3>4. CASE Describe(w)
      <4>1. bag.txt /\ bag' = [bag EXCEPT !.oxum = work[w].counted]
        BY <1>0, <3>4 DEF Describe, IsAt, Named
      <4> QED
        BY <1>t, <1>s, <4>1 DEF BagType
    <3> QED
      BY <1>5, <3>1, <3>2, <3>3, <3>4
  <2>4. UNCHANGED <<payload, last, turns>> /\ work[w].pc \in {"open", "list", "name", "describe"}
    BY <1>5 DEF OpenBag, List, NameBag, Describe, counts, IsAt
  <2>5. ~IsAt("session", "idle")' => ~IsAt("session", "idle")
    BY <1>w, <2>2, <2>4, OtherWorker DEF IsAt
  <2>6. BagTyped'
    BY <1>0, <2>2, <2>3, <2>4, <2>5 DEF BagTyped
  <2> QED
    BY <2>2, <2>3, <2>4, <2>6, PlainStep
<1>6. ASSUME NEW w \in Workers, Relist(w) PROVE BagInv'
  <2>1. /\ IsAt(w, "relist") /\ Goes(w, "recount", payload) /\ last' = payload
        /\ bag' = [bag EXCEPT !.listed = payload] /\ UNCHANGED <<payload, turns>>
    BY <1>6 DEF Relist, counts
  <2>2. /\ work' \in [Workers -> WorkType] /\ work'[w].pc = "recount" /\ work'[w].counted = payload
        /\ work'[w].mixed = work[w].mixed /\ work'[Other(w)] = work[Other(w)]
    BY <1>0, <1>t, <1>p, <2>1, GoesOn
  <2>3. bag' \in BagType /\ bag'.txt = bag.txt /\ bag'.listed = payload
    BY <1>t, <2>1 DEF BagType
  <2>4. bag.txt
    BY <1>0, <2>1 DEF Named, IsAt
  <2>5. ~IsAt("session", "idle")' => ~IsAt("session", "idle")
    BY <1>w, <2>1, <2>2, OtherWorker DEF IsAt
  <2>6. BagTyped'
    BY <1>0, <1>t, <2>1, <2>2, <2>3, <2>5 DEF BagTyped
  <2>7. \A u \in Workers : u = w \/ (u = Other(w) /\ Other(u) = w)
    BY OtherWorker
  <2>8. OnItsOwn'
    BY <1>0, <2>1, <2>2, <2>7 DEF OnItsOwn, ByItself, IsAt
  <2>9. \A u \in Workers : Written(u)'
    <3>1. ~ByItself(Other(w))'
      BY <1>0, <2>1, <2>2, OtherWorker DEF OnItsOwn, ByItself, IsAt
    <3> QED
      BY <2>1, <2>2, <2>3, <2>7, <3>1 DEF Written
  <2> QED
    BY <2>2, <2>3, <2>4, <2>6, <2>8, <2>9 DEF BagInv, Named, SealedAtLast, Finishing
<1>7. ASSUME NEW w \in Workers, Recount(w) PROVE BagInv'
  <2>1. /\ IsAt(w, "recount") /\ Goes(w, "seal", NoBag)
        /\ bag' = [bag EXCEPT !.oxum = work[w].counted] /\ UNCHANGED <<payload, last, turns>>
    BY <1>7 DEF Recount, MoveTo, counts
  <2>2. /\ work' \in [Workers -> WorkType] /\ work'[w].pc = "seal"
        /\ work'[w].mixed = work[w].mixed /\ work'[Other(w)] = work[Other(w)]
    BY <1>0, <1>p, <2>1, BagBasics, GoesOn
  <2>3. bag' \in BagType /\ bag'.txt = bag.txt /\ bag'.listed = bag.listed /\ bag'.oxum = work[w].counted
    BY <1>t, <1>s, <2>1 DEF BagType
  <2>4. bag.txt
    BY <1>0, <2>1 DEF Named, IsAt
  <2>5. ~IsAt("session", "idle")' => ~IsAt("session", "idle")
    BY <1>w, <2>1, <2>2, OtherWorker DEF IsAt
  <2>6. BagTyped'
    BY <1>0, <1>t, <2>1, <2>2, <2>3, <2>5 DEF BagTyped
  <2>7. \A u \in Workers : u = w \/ (u = Other(w) /\ Other(u) = w)
    BY OtherWorker
  <2>8. OnItsOwn'
    BY <1>0, <2>1, <2>2, <2>7 DEF OnItsOwn, ByItself, IsAt
  <2>9. \A u \in Workers : Written(u)'
    <3>1. ~ByItself(Other(w))'
      BY <1>0, <2>1, <2>2, OtherWorker DEF OnItsOwn, ByItself, IsAt
    <3>2. ByItself(w)' => ByItself(w)
      BY <2>1, <2>2 DEF ByItself, IsAt
    <3> QED
      BY <1>0, <2>1, <2>2, <2>3, <2>7, <3>1, <3>2 DEF Written, IsAt
  <2> QED
    BY <2>2, <2>3, <2>4, <2>6, <2>8, <2>9 DEF BagInv, Named, SealedAtLast, Finishing
<1>8. ASSUME NEW w \in Workers, Seal(w) PROVE BagInv'
  <2>1. /\ IsAt(w, "seal") /\ work' = [work EXCEPT ![w] = Idle]
        /\ last' = (IF work[w].mixed THEN NoBag ELSE last)
        /\ bag' = [bag EXCEPT !.seal = <<bag.listed, bag.oxum>>] /\ UNCHANGED <<payload, turns>>
    BY <1>8 DEF Seal, counts
  <2>2. work' \in [Workers -> WorkType] /\ work'[w].pc = "idle" /\ work'[Other(w)] = work[Other(w)]
    BY <1>0, <2>1, Leaves
  <2>3. /\ bag' \in BagType /\ bag'.txt = bag.txt /\ bag'.listed = bag.listed /\ bag'.oxum = bag.oxum
        /\ bag'.seal = <<bag.listed, bag.oxum>>
    BY <1>t, <2>1 DEF BagType
  <2>4. bag.txt
    BY <1>0, <2>1 DEF Named, IsAt
  <2>5. ~IsAt("session", "idle")' => ~IsAt("session", "idle")
    BY <1>w, <2>1, <2>2, OtherWorker DEF IsAt
  <2>6. BagTyped'
    BY <1>0, <1>t, <2>1, <2>2, <2>3, <2>5, BagBasics DEF BagTyped
  <2>7. \A u \in Workers : u = w \/ (u = Other(w) /\ Other(u) = w)
    BY OtherWorker
  <2>8. OnItsOwn'
    BY <1>0, <2>1, <2>2, <2>7 DEF OnItsOwn, ByItself, IsAt
  <2>9. ~ByItself(w)' /\ ~ByItself(Other(w))'
    BY <1>0, <2>1, <2>2, OtherWorker DEF OnItsOwn, ByItself, IsAt
  <2>10. Named' /\ \A u \in Workers : Written(u)'
    BY <1>0, <2>2, <2>3, <2>7, <2>9 DEF Named, Written
  <2>11. SealedAtLast'
    <3>1. CASE work[w].mixed
      BY <2>1, <3>1 DEF SealedAtLast
    <3>2. CASE ~work[w].mixed
      <4>1. bag.listed = last /\ bag.oxum = last /\ IsAt(Other(w), "idle")
        BY <1>0, <2>1, <3>2 DEF Written, OnItsOwn, ByItself, IsAt
      <4>2. \A u \in Workers : IsAt(u, "idle")'
        BY <2>2, <2>7, <4>1 DEF IsAt
      <4> QED
        BY <2>1, <2>3, <2>4, <3>2, <4>1, <4>2 DEF SealedAtLast, Sealed
    <3> QED
      BY <3>1, <3>2
  <2> QED
    BY <2>6, <2>8, <2>10, <2>11 DEF BagInv
<1>9. ASSUME NEW f \in Artifacts, NEW x \in {Absent, User}, EditFile(f, x) PROVE BagInv'
  <2>1. payload' \in Contents
    BY <1>t, <1>9 DEF EditFile, Contents
  <2>2. UNCHANGED <<bag, work, last, turns>>
    BY <1>9 DEF EditFile
  <2> QED
    BY <1>0, <2>1, <2>2 DEF BagInv, BagTyped, OnItsOwn, ByItself, IsAt, Named, Written, SealedAtLast,
       Finishing, Sealed
<1>10. ASSUME NEW w \in Workers, Die(w) PROVE BagInv'
  <2>1. /\ ~IsAt(w, "idle") /\ work' = [work EXCEPT ![w] = Idle] /\ last' = NoBag
        /\ UNCHANGED <<payload, bag, turns>>
    BY <1>10 DEF Die
  <2>2. work' \in [Workers -> WorkType] /\ work'[w].pc = "idle" /\ work'[Other(w)] = work[Other(w)]
    BY <1>0, <2>1, Leaves
  <2>5. ~IsAt("session", "idle")' => ~IsAt("session", "idle")
    BY <1>w, <2>1, <2>2, OtherWorker DEF IsAt
  <2>6. BagTyped'
    BY <1>0, <1>t, <2>1, <2>2, <2>5, BagBasics DEF BagTyped
  <2>7. \A u \in Workers : u = w \/ (u = Other(w) /\ Other(u) = w)
    BY OtherWorker
  <2>8. ~ByItself(w)' /\ ~ByItself(Other(w))'
    BY <1>0, <2>1, <2>2, OtherWorker DEF OnItsOwn, ByItself, IsAt
  <2>9. OnItsOwn' /\ Named' /\ \A u \in Workers : Written(u)'
    BY <1>0, <2>1, <2>2, <2>7, <2>8 DEF OnItsOwn, Named, Written
  <2> QED
    BY <2>1, <2>6, <2>9 DEF BagInv, SealedAtLast
<1>11. CASE UNCHANGED bagVars
  BY <1>0, <1>11 DEF bagVars, counts, BagInv, BagTyped, OnItsOwn, ByItself, IsAt, Named, Written,
     SealedAtLast, Finishing, Sealed
<1> QED
  BY <1>1, <1>2, <1>3, <1>4, <1>5, <1>6, <1>7, <1>8, <1>9, <1>10, <1>11 DEF BagItNext

LEMMA BagHolds == BagInv => BagTells
<1> SUFFICES ASSUME BagInv, last # NoBag, \A w \in Workers : IsAt(w, "idle")
             PROVE  Status = IF payload = last THEN "valid" ELSE "changed"
  BY DEF BagTells
<1>1. Sealed
  BY DEF BagInv, SealedAtLast, Finishing, IsAt
<1> QED
  BY <1>1 DEF Sealed, Status

-----------------------------------------------------------------------------
(* Opening the database: it is whole, or as it was, or being made whole.   *)

SchemaSpec == SchemaInit /\ [][SchemaNext]_schemaVars

BaseType == [objects : SUBSET Objects, version : 0 .. Latest, rows : SUBSET Rows, index : SUBSET Rows]
OpenerType == [pc : Pcs, from : 0 .. Latest]
SchemaTyped ==
  /\ base \in BaseType /\ opener \in [Openers -> OpenerType]
  /\ write \in [of : Openers \cup {Nobody}, base : BaseType]
  /\ kills \in 0 .. MaxKills /\ crowd \in Crowds

\* What a database has at least when it is of version n.
Covers(b, n) == "versions" \in b.objects /\ \A u \in 1 .. n : Brought[u] \in b.objects
Exact(b) == b.objects = {"versions"} \cup { Brought[u] : u \in 1 .. b.version }
\* The columns are added in their order.
Closed(b) == "cwd" \in b.objects => "archived" \in b.objects

BaseHolds ==
  /\ base.version > 0 => Covers(base, base.version)
  /\ base.version = 0 => base.rows = {} /\ base.index = {}
  /\ base.index \in {{}, base.rows} /\ Closed(base)
\* The open transaction is of one that migrates, and only adds to the base.
WriteHolds ==
  write.of # Nobody =>
    /\ Pc(write.of, "migrate") /\ opener[write.of].from \in {2, 3}
    /\ write.base.version = base.version /\ write.base.rows = base.rows
    /\ write.base.index = base.rows /\ base.objects \subseteq write.base.objects /\ Closed(write.base)
    /\ "cwd" \in write.base.objects => "cwd" \in base.objects
OpenerHolds(p) ==
  /\ opener[p].pc \in {"create", "stamp"} => base.version \in {0, Latest}
  /\ Pc(p, "stamp") => base.objects = Objects
  /\ Pc(p, "migrate") => /\ base.version > 0 /\ opener[p].from >= 1 /\ Covers(Seen(p), opener[p].from)
                         /\ base.version <= opener[p].from \/ base.version = Latest
  /\ opener[p].pc \in {"fill", "check", "ready"} => base.version = Latest
  /\ Pc(p, "ready") => base.index = base.rows

\* No column that p has yet to add is there.
Leads(p) == /\ opener[p].from < 3 => "archived" \notin Seen(p).objects
            /\ opener[p].from < 6 => "cwd" \notin Seen(p).objects
Whole == base.version = Latest \/ (base.version > 0 /\ Exact(base)) \/ (base.version = 0 /\ base.objects = {})
Underway1(p) == (opener[p].pc \in {"create", "stamp"} /\ base.version = 0) \/ (Pc(p, "migrate") /\ Leads(p))
WholeOrUnderway == kills = 0 /\ crowd # "late" => Whole \/ \E p \in Openers : Underway1(p)

\* Opened by one at a time, it is found as it was left.
Opening(p) == opener[p].pc \notin {"closed", "failed", "ready"}
Smooth == kills = 0 /\ crowd = "no"
OneByOne == crowd = "no" => \A p, q \in Openers : Opening(p) /\ Opening(q) => p = q
FoundWell(p) ==
  Smooth =>
    /\ opener[p].pc \in {"create", "stamp"} => base.version = 0
    /\ Pc(p, "read") => base.version > 0
    /\ Pc(p, "migrate") => base.version < Latest /\ Leads(p)
    /\ ~Pc(p, "failed")

SchemaInv ==
  /\ SchemaTyped /\ BaseHolds /\ WriteHolds /\ (\A p \in Openers : OpenerHolds(p))
  /\ WholeOrUnderway /\ OneByOne /\ (\A p \in Openers : FoundWell(p))

LEMMA BroughtIs ==
  /\ Brought[1] = "tables" /\ Brought[2] = "index" /\ Brought[3] = "archived"
  /\ Brought[4] = "responses" /\ Brought[5] = "errors" /\ Brought[6] = "cwd"
  /\ Objects = {"versions", "tables", "index", "archived", "responses", "errors", "cwd"}
  /\ \A n \in 0 .. Latest : { Brought[u] : u \in 1 .. n } \subseteq Objects
<1>1. /\ Brought[1] = "tables" /\ Brought[2] = "index" /\ Brought[3] = "archived"
      /\ Brought[4] = "responses" /\ Brought[5] = "errors" /\ Brought[6] = "cwd"
  BY DEF Brought, Latest
<1>2. 1 .. Latest = {1, 2, 3, 4, 5, 6}
  BY DEF Latest
<1>3. { Brought[v] : v \in 1 .. Latest } = {"tables", "index", "archived", "responses", "errors", "cwd"}
  <2> HIDE DEF Brought
  <2>1. { Brought[v] : v \in {1, 2, 3, 4, 5, 6} }
          = {Brought[1], Brought[2], Brought[3], Brought[4], Brought[5], Brought[6]}
    OBVIOUS
  <2> QED
    BY <1>1, <1>2, <2>1
<1>4. \A n \in 0 .. Latest : 1 .. n \subseteq 1 .. Latest
  BY DEF Latest
<1>5. \A n \in 0 .. Latest : { Brought[u] : u \in 1 .. n } \subseteq { Brought[v] : v \in 1 .. Latest }
  BY <1>4
<1> QED
  BY <1>1, <1>3, <1>5 DEF Objects

\* What a version covers, object by object.
LEMMA CoversIs ==
  ASSUME NEW b \in BaseType
  PROVE  /\ \A n \in 1 .. Latest : Covers(b, n) <=>
              /\ "versions" \in b.objects /\ "tables" \in b.objects
              /\ n >= 2 => "index" \in b.objects
              /\ n >= 3 => "archived" \in b.objects
              /\ n >= 4 => "responses" \in b.objects
              /\ n >= 5 => "errors" \in b.objects
              /\ n >= 6 => "cwd" \in b.objects
         /\ Covers(b, Latest) <=> b.objects = Objects
<1>1. ASSUME NEW n \in 1 .. Latest
      PROVE  Covers(b, n) <=>
              /\ "versions" \in b.objects /\ "tables" \in b.objects
              /\ n >= 2 => "index" \in b.objects
              /\ n >= 3 => "archived" \in b.objects
              /\ n >= 4 => "responses" \in b.objects
              /\ n >= 5 => "errors" \in b.objects
              /\ n >= 6 => "cwd" \in b.objects
  <2>1. n \in {1, 2, 3, 4, 5, 6} /\ 1 .. n \subseteq {1, 2, 3, 4, 5, 6}
    BY DEF Latest
  <2> HIDE DEF Brought
  <2> QED
    BY <2>1, BroughtIs DEF Covers
<1>2. b.objects \subseteq Objects /\ Latest \in 1 .. Latest /\ Latest = 6
  BY DEF BaseType, Latest
<1> QED
  BY <1>1, <1>2, BroughtIs

\* A base as its version left it has no columns of later versions.
LEMMA ExactIs ==
  ASSUME NEW b \in BaseType, Exact(b), b.version > 0
  PROVE  /\ Covers(b, b.version)
         /\ "archived" \in b.objects => b.version >= 3
         /\ "cwd" \in b.objects => b.version >= 6
<1>1. b.version \in {1, 2, 3, 4, 5, 6} /\ 1 .. b.version \subseteq {1, 2, 3, 4, 5, 6}
  BY DEF BaseType, Latest
<1> HIDE DEF Brought
<1>2. Covers(b, b.version)
  BY DEF Exact, Covers
<1>3. ASSUME "archived" \in b.objects PROVE b.version >= 3
  <2>1. PICK u \in 1 .. b.version : Brought[u] = "archived"
    BY <1>3 DEF Exact
  <2> QED
    BY <1>1, <2>1, BroughtIs
<1>4. ASSUME "cwd" \in b.objects PROVE b.version >= 6
  <2>1. PICK u \in 1 .. b.version : Brought[u] = "cwd"
    BY <1>4 DEF Exact
  <2> QED
    BY <1>1, <2>1, BroughtIs
<1> QED
  BY <1>2, <1>3, <1>4

LEMMA SchemaBasics ==
  /\ NoWrite \in [of : Openers \cup {Nobody}, base : BaseType] /\ NoWrite.of = Nobody
  /\ Nobody \notin Openers
BY SchemaAssumption DEF NoWrite, Nobody, BaseType, Latest

LEMMA GoesTo1 ==
  ASSUME SchemaTyped, NEW p \in Openers, NEW x \in Pcs, To(p, x)
  PROVE  /\ opener' \in [Openers -> OpenerType] /\ opener'[p].pc = x /\ opener'[p].from = opener[p].from
         /\ \A q \in Openers : q # p => opener'[q] = opener[q]
<1>1. opener[p] \in OpenerType
  BY DEF SchemaTyped
<1> DEFINE new == [opener[p] EXCEPT !.pc = x]
<1>2. new \in OpenerType /\ new.pc = x /\ new.from = opener[p].from
  BY <1>1 DEF OpenerType
<1>3. opener' = [opener EXCEPT ![p] = new]
  BY DEF To
<1> HIDE DEF new, OpenerType
<1> QED
  BY <1>2, <1>3 DEF SchemaTyped

LEMMA InitSchema == SchemaInit => SchemaInv
<1> SUFFICES ASSUME SchemaInit PROVE SchemaInv
  OBVIOUS
<1>1. PICK v \in 0 .. Latest, r \in SUBSET Rows :
        /\ v = NoVersion => r = {}
        /\ base = [objects |-> IF v = NoVersion THEN {} ELSE {"versions"} \cup { Brought[u] : u \in 1 .. v },
                   version |-> v, rows |-> r, index |-> IF v < 2 THEN {} ELSE r]
  BY DEF SchemaInit
<1> DEFINE obj == IF v = NoVersion THEN {} ELSE {"versions"} \cup { Brought[u] : u \in 1 .. v }
           ind == IF v < 2 THEN {} ELSE r
<1>2. obj \subseteq Objects /\ ind \in {{}, r}
  BY BroughtIs
<1>3. base = [objects |-> obj, version |-> v, rows |-> r, index |-> ind]
  BY <1>1
<1>4. obj = (IF v = NoVersion THEN {} ELSE {"versions"} \cup { Brought[u] : u \in 1 .. v }) /\ (v < 2 => ind = {})
  OBVIOUS
<1> HIDE DEF obj, ind
<1>5. base \in BaseType /\ base.objects = obj /\ base.version = v /\ base.rows = r /\ base.index = ind
  BY <1>2, <1>3 DEF BaseType
<1>6. Whole
  BY <1>4, <1>5 DEF Whole, Exact, NoVersion, Latest
<1>7. BaseHolds
  <2>1. CASE v = 0
    BY <1>1, <1>2, <1>4, <1>5, <2>1 DEF BaseHolds, NoVersion, Closed
  <2>2. CASE v # 0
    <3>1. Exact(base) /\ base.version > 0
      BY <1>4, <1>5, <2>2 DEF Exact, NoVersion, Latest
    <3>2. Covers(base, v) /\ ("cwd" \in obj => v >= 6)
      BY <1>5, <3>1, ExactIs
    <3>3. v \in 1 .. Latest
      BY <2>2 DEF Latest
    <3>4. Closed(base)
      BY <1>5, <3>2, <3>3, CoversIs DEF Closed
    <3> QED
      BY <1>2, <1>5, <2>2, <3>2, <3>4 DEF BaseHolds
  <2> QED
    BY <2>1, <2>2
<1>8. \A p \in Openers : opener[p].pc = "closed" /\ opener[p] \in OpenerType
  BY DEF SchemaInit, OpenerType, Pcs, Latest
<1>9. SchemaTyped
  BY <1>5, <1>8, SchemaBasics, SchemaAssumption DEF SchemaInit, SchemaTyped, Crowds
<1> QED
  BY <1>6, <1>7, <1>8, <1>9, SchemaBasics DEF SchemaInit, SchemaInv, WriteHolds, OpenerHolds, Pc,
     WholeOrUnderway, OneByOne, Opening, FoundWell, Smooth

-----------------------------------------------------------------------------
(* What a step of one process leaves of the others.                        *)

LEMMA OthersHold ==
  ASSUME SchemaInv, NEW q \in Openers, SchemaTyped', opener'[q] = opener[q],
         base.objects \subseteq base'.objects, base'.version \in {base.version, Latest},
         base'.index = base'.rows \/ (base'.index = base.index /\ base'.rows = base.rows),
         Seen(q).objects \subseteq Seen(q)'.objects
  PROVE  OpenerHolds(q)'
<1>1. OpenerHolds(q)
  BY DEF SchemaInv
<1>2. base'.version > 0 \/ base.version = 0
  BY DEF Latest, SchemaInv, SchemaTyped, BaseType
<1>3. base.objects = Objects => base'.objects = Objects
  BY DEF SchemaTyped, BaseType
<1>4. Covers(Seen(q), opener[q].from) => Covers(Seen(q)', opener[q].from)
  BY DEF Covers
<1> QED
  BY <1>1, <1>2, <1>3, <1>4 DEF OpenerHolds, Pc, Latest

LEMMA OthersWell ==
  ASSUME SchemaInv, NEW p \in Openers, Opening(p), \A q \in Openers : q # p => opener'[q] = opener[q],
         kills' = kills, crowd' \in {crowd, "late"}
  PROVE  OneByOne' /\ \A q \in Openers : q # p => FoundWell(q)'
<1>1. crowd' = "no" => crowd = "no"
  OBVIOUS
<1>2. ASSUME NEW q \in Openers, q # p, crowd = "no" PROVE ~Opening(q)
  BY <1>2 DEF SchemaInv, OneByOne
<1>3. OneByOne'
  BY <1>1, <1>2 DEF OneByOne, Opening
<1>4. ASSUME NEW q \in Openers, q # p PROVE FoundWell(q)'
  <2>1. CASE Smooth'
    <3>1. Smooth /\ ~Opening(q) /\ opener'[q].pc = opener[q].pc
      BY <1>1, <1>2, <1>4, <2>1 DEF Smooth
    <3>2. opener[q].pc # "failed"
      BY <3>1 DEF SchemaInv, FoundWell, Pc
    <3> QED
      BY <3>1, <3>2 DEF FoundWell, Opening, Pc
  <2>2. CASE ~Smooth'
    BY <2>2 DEF FoundWell
  <2> QED
    BY <2>1, <2>2
<1> QED
  BY <1>3, <1>4

\* A step that leaves the database and the open transaction alone.
LEMMA QuietKeeps ==
  ASSUME SchemaInv, NEW p \in Openers, Opening(p), UNCHANGED <<base, write, kills>>, write.of # p,
         opener' \in [Openers -> OpenerType], \A q \in Openers : q # p => opener'[q] = opener[q],
         crowd' \in {crowd, "late"}, OpenerHolds(p)', FoundWell(p)',
         Underway1(p) /\ crowd' # "late" => Whole \/ Underway1(p)'
  PROVE  SchemaInv'
<1>1. SchemaTyped'
  BY DEF SchemaInv, SchemaTyped, Crowds
<1>2. OneByOne' /\ \A q \in Openers : FoundWell(q)'
  BY OthersWell
<1>3. \A q \in Openers : Seen(q)' = Seen(q)
  BY DEF Seen
<1>4. \A q \in Openers : OpenerHolds(q)'
  BY <1>1, <1>3, OthersHold
<1>5. BaseHolds'
  BY DEF SchemaInv, BaseHolds, Closed, Covers
<1>6. WriteHolds'
  BY SchemaBasics DEF SchemaInv, SchemaTyped, WriteHolds, Pc, Closed
<1>7. WholeOrUnderway'
  <2>1. SUFFICES ASSUME kills' = 0, crowd' # "late" PROVE Whole' \/ \E q \in Openers : Underway1(q)'
    BY DEF WholeOrUnderway
  <2>2. Whole \/ \E q \in Openers : Underway1(q)
    BY <2>1 DEF SchemaInv, WholeOrUnderway
  <2>3. Whole => Whole'
    BY DEF Whole, Exact
  <2>4. \A q \in Openers : q # p /\ Underway1(q) => Underway1(q)'
    BY <1>3 DEF Underway1, Leads, Pc
  <2> QED
    BY <2>1, <2>2, <2>3, <2>4
<1> QED
  BY <1>1, <1>2, <1>4, <1>5, <1>6, <1>7 DEF SchemaInv

-----------------------------------------------------------------------------
(* Opening without a change.                                               *)

LEMMA OpenKeeps == ASSUME SchemaInv, NEW p \in Openers, Open(p) PROVE SchemaInv'
<1>1. "look" \in Pcs
  BY DEF Pcs
<1>2. /\ opener' \in [Openers -> OpenerType] /\ opener'[p].pc = "look" /\ opener'[p].from = opener[p].from
      /\ \A q \in Openers : q # p => opener'[q] = opener[q]
  BY <1>1, GoesTo1 DEF Open, SchemaInv
<1>3. ~Opening(p) /\ UNCHANGED <<base, write, kills>>
  BY DEF Open, Opening
<1>4. /\ crowd' \in {crowd, "two"} /\ (crowd' = "no" => crowd = "no") /\ (crowd' = "late" <=> crowd = "late")
      /\ crowd' = "no" => \A q \in Openers : q # p => ~Opening(q)
  BY DEF Open, Opening
<1>5. SchemaTyped'
  BY <1>2, <1>3, <1>4 DEF SchemaInv, SchemaTyped, Crowds
<1>6. \A q \in Openers : Seen(q)' = Seen(q)
  BY <1>3 DEF Seen
<1>7. \A q \in Openers : q # p => OpenerHolds(q)'
  BY <1>2, <1>3, <1>5, <1>6, OthersHold
<1>8. OpenerHolds(p)'
  BY <1>2 DEF OpenerHolds, Pc
<1>9. write.of # p
  BY <1>3, SchemaBasics DEF SchemaInv, WriteHolds, Opening, Pc
<1>10. BaseHolds' /\ WriteHolds'
  <2>1. BaseHolds'
    BY <1>3 DEF SchemaInv, BaseHolds, Closed, Covers
  <2>2. WriteHolds'
    BY <1>2, <1>3, <1>9 DEF SchemaInv, SchemaTyped, WriteHolds, Pc, Closed
  <2> QED
    BY <2>1, <2>2
<1>11. WholeOrUnderway'
  <2>1. \A q \in Openers : Underway1(q) => q # p
    BY <1>3 DEF Underway1, Opening, Pc
  <2>2. \A q \in Openers : Underway1(q) => Underway1(q)'
    BY <1>2, <1>3, <1>6, <2>1 DEF Underway1, Leads, Pc
  <2>3. Whole => Whole'
    BY <1>3 DEF Whole, Exact
  <2> QED
    BY <1>3, <1>4, <2>2, <2>3 DEF SchemaInv, WholeOrUnderway
<1>12. OneByOne'
  BY <1>2, <1>4 DEF OneByOne, Opening
<1>13. ASSUME NEW q \in Openers PROVE FoundWell(q)'
  <2>1. CASE q = p
    BY <1>2, <2>1 DEF FoundWell, Pc
  <2>2. CASE q # p
    <3>1. Smooth' => Smooth /\ ~Opening(q)
      BY <1>3, <1>4, <2>2 DEF Smooth
    <3>2. FoundWell(q) /\ opener'[q] = opener[q]
      BY <1>2, <2>2 DEF SchemaInv
    <3> QED
      BY <3>1, <3>2 DEF FoundWell, Opening, Pc
  <2> QED
    BY <2>1, <2>2
<1> QED
  BY <1>5, <1>7, <1>8, <1>10, <1>11, <1>12, <1>13 DEF SchemaInv

LEMMA LookKeeps == ASSUME SchemaInv, NEW p \in Openers, Look(p) PROVE SchemaInv'
<1> DEFINE x == IF "versions" \in base.objects THEN "read" ELSE "create"
<1>1. x \in {"read", "create"} /\ Pc(p, "look") /\ To(p, x) /\ UNCHANGED <<base, write, kills, crowd>>
  BY DEF Look
<1>2. x \in Pcs
  BY DEF Pcs
<1>3. /\ opener' \in [Openers -> OpenerType] /\ opener'[p].pc = x
      /\ \A q \in Openers : q # p => opener'[q] = opener[q]
  BY <1>1, <1>2, GoesTo1 DEF SchemaInv
<1>4. Opening(p) /\ write.of # p /\ ~Underway1(p)
  BY <1>1, SchemaBasics DEF SchemaInv, WriteHolds, Opening, Pc, Underway1
<1>5. base.version \in Nat /\ ("versions" \notin base.objects => base.version = 0)
  BY DEF SchemaInv, SchemaTyped, BaseType, Latest, BaseHolds, Covers
<1>6. Smooth /\ "versions" \in base.objects => base.version > 0
  <2>1. SUFFICES ASSUME Smooth, "versions" \in base.objects PROVE base.version > 0
    OBVIOUS
  <2>2. \A q \in Openers : Underway1(q) => Opening(q)
    BY DEF Underway1, Opening, Pc
  <2>3. ~\E q \in Openers : Underway1(q)
    BY <1>4, <2>1, <2>2 DEF SchemaInv, OneByOne, Smooth
  <2>4. Whole
    BY <2>1, <2>3 DEF SchemaInv, WholeOrUnderway, Smooth
  <2> QED
    BY <1>5, <2>1, <2>4 DEF Whole, Latest
<1>7. OpenerHolds(p)'
  BY <1>1, <1>3, <1>5 DEF OpenerHolds, Pc
<1>8. FoundWell(p)'
  BY <1>1, <1>3, <1>5, <1>6 DEF FoundWell, Smooth, Pc
<1> QED
  BY <1>1, <1>3, <1>4, <1>7, <1>8, QuietKeeps

\* A version that is read and of a base it has left alone.
LEMMA ReadKeeps == ASSUME SchemaInv, NEW p \in Openers, Read(p) PROVE SchemaInv'
<1>0. opener[p] \in OpenerType /\ base \in BaseType /\ base.version \in 0 .. 6 /\ Latest = 6
  BY DEF SchemaInv, SchemaTyped, BaseType, Latest
<1>1. Pc(p, "read") /\ UNCHANGED <<base, write, kills, crowd>>
  BY DEF Read
<1>4. Opening(p) /\ write.of # p /\ ~Underway1(p)
  BY <1>1, SchemaBasics DEF SchemaInv, WriteHolds, Opening, Pc, Underway1
<1>5. CASE base.version = 0
  <2>1. opener' = [opener EXCEPT ![p].pc = "failed"]
    BY <1>5 DEF Read
  <2>2. "failed" \in Pcs
    BY DEF Pcs
  <2>3. /\ opener' \in [Openers -> OpenerType] /\ opener'[p].pc = "failed"
        /\ \A q \in Openers : q # p => opener'[q] = opener[q]
    BY <2>1, <2>2, GoesTo1 DEF SchemaInv, To
  <2>4. ~Smooth
    BY <1>1, <1>5 DEF SchemaInv, FoundWell
  <2> QED
    BY <1>1, <1>4, <2>3, <2>4, QuietKeeps DEF OpenerHolds, FoundWell, Smooth, Pc
<1>6. CASE base.version # 0
  <2> DEFINE x == IF base.version < Latest THEN "migrate" ELSE "fill"
             new == [pc |-> x, from |-> base.version]
  <2>1. opener' = [opener EXCEPT ![p] = new]
    BY <1>6 DEF Read
  <2>2. new \in OpenerType /\ new.pc = x /\ new.from = base.version
    BY <1>0 DEF OpenerType, Pcs
  <2>3. (base.version < Latest => x = "migrate") /\ (base.version = Latest => x = "fill")
        /\ x \in {"migrate", "fill"}
    BY <1>0
  <2> HIDE DEF new, x
  <2>4. /\ opener' \in [Openers -> OpenerType] /\ opener'[p].pc = x /\ opener'[p].from = base.version
        /\ \A q \in Openers : q # p => opener'[q] = opener[q]
    BY <2>1, <2>2 DEF SchemaInv, SchemaTyped
  <2>5. Seen(p)' = base /\ Seen(p) = base
    BY <1>1, <1>4 DEF Seen
  <2>6. Covers(base, base.version)
    BY <1>0, <1>6 DEF SchemaInv, BaseHolds
  <2>7. OpenerHolds(p)'
    BY <1>0, <1>1, <1>6, <2>3, <2>4, <2>5, <2>6 DEF OpenerHolds, Pc
  <2>8. Smooth /\ base.version < Latest => Leads(p)'
    <3>1. SUFFICES ASSUME Smooth, base.version < Latest PROVE Leads(p)'
      OBVIOUS
    <3>2. \A q \in Openers : Underway1(q) => Opening(q)
      BY DEF Underway1, Opening, Pc
    <3>3. ~\E q \in Openers : Underway1(q)
      BY <1>4, <3>1, <3>2 DEF SchemaInv, OneByOne, Smooth
    <3>4. Exact(base) /\ base.version > 0
      BY <1>0, <1>6, <3>1, <3>3 DEF SchemaInv, WholeOrUnderway, Smooth, Whole
    <3> QED
      BY <1>0, <2>4, <2>5, <3>4, ExactIs DEF Leads
  <2>9. FoundWell(p)'
    BY <1>0, <1>1, <2>3, <2>4, <2>8 DEF FoundWell, Smooth, Pc
  <2> QED
    BY <1>1, <1>4, <2>4, <2>7, <2>9, QuietKeeps
<1> QED
  BY <1>5, <1>6

LEMMA FillKeeps == ASSUME SchemaInv, NEW p \in Openers, Fill(p) PROVE SchemaInv'
<1> DEFINE x == IF base.index = {} THEN "check" ELSE "ready"
<1>1. Pc(p, "fill") /\ To(p, x) /\ UNCHANGED <<base, write, kills, crowd>>
  BY DEF Fill
<1>2. x \in Pcs /\ x \in {"check", "ready"} /\ (x = "ready" => base.index # {})
  BY DEF Pcs
<1> HIDE DEF x
<1>3. /\ opener' \in [Openers -> OpenerType] /\ opener'[p].pc = x
      /\ \A q \in Openers : q # p => opener'[q] = opener[q]
  BY <1>1, <1>2, GoesTo1 DEF SchemaInv
<1>4. Opening(p) /\ write.of # p /\ ~Underway1(p)
  BY <1>1, SchemaBasics DEF SchemaInv, WriteHolds, Opening, Pc, Underway1
<1>5. base.version = Latest /\ base.index \in {{}, base.rows}
  BY <1>1 DEF SchemaInv, OpenerHolds, BaseHolds, Pc
<1>6. OpenerHolds(p)' /\ FoundWell(p)'
  BY <1>1, <1>2, <1>3, <1>5 DEF OpenerHolds, FoundWell, Pc
<1> QED
  BY <1>1, <1>3, <1>4, <1>6, QuietKeeps

LEMMA LockedKeeps == ASSUME SchemaInv, NEW p \in Openers, Locked(p) PROVE SchemaInv'
<1>1. /\ ~Free(p) /\ opener[p].pc \in {"create", "stamp", "migrate", "fill", "check"}
      /\ To(p, "failed") /\ crowd' = "late" /\ UNCHANGED <<base, write, kills>>
  BY DEF Locked
<1>2. "failed" \in Pcs
  BY DEF Pcs
<1>3. /\ opener' \in [Openers -> OpenerType] /\ opener'[p].pc = "failed"
      /\ \A q \in Openers : q # p => opener'[q] = opener[q]
  BY <1>1, <1>2, GoesTo1 DEF SchemaInv
<1>4. Opening(p) /\ write.of # p
  BY <1>1 DEF Opening, Free
<1>5. OpenerHolds(p)' /\ FoundWell(p)'
  BY <1>1, <1>3 DEF OpenerHolds, FoundWell, Smooth, Pc
<1> QED
  BY <1>1, <1>3, <1>4, <1>5, QuietKeeps

-----------------------------------------------------------------------------
(* Steps that change the database.                                         *)

LEMMA ChangeKeeps ==
  ASSUME SchemaInv, NEW p \in Openers, Opening(p), Free(p), Free(p)', SchemaTyped',
         \A q \in Openers : q # p => opener'[q] = opener[q], kills' = kills, crowd' = crowd,
         base.objects \subseteq base'.objects, base'.version \in {base.version, Latest},
         base'.index = base'.rows \/ (base'.index = base.index /\ base'.rows = base.rows),
         BaseHolds', WriteHolds', OpenerHolds(p)', FoundWell(p)',
         Whole \/ (\E q \in Openers : Underway1(q)) => Whole' \/ \E q \in Openers : Underway1(q)'
  PROVE  SchemaInv'
<1>1. OneByOne' /\ \A q \in Openers : FoundWell(q)'
  BY OthersWell
<1>2. \A q \in Openers : q # p => Seen(q) = base /\ Seen(q)' = base'
  BY SchemaBasics DEF Free, Seen
<1>3. \A q \in Openers : OpenerHolds(q)'
  BY <1>2, OthersHold
<1> QED
  BY <1>1, <1>3 DEF SchemaInv, WholeOrUnderway

\* The others are as far as they were while no column is added.
LEMMA OthersUnderway ==
  ASSUME SchemaInv, NEW p \in Openers, Free(p), Free(p)', NEW q \in Openers, q # p,
         opener'[q] = opener[q], base'.version = base.version,
         "archived" \in base'.objects => "archived" \in base.objects,
         "cwd" \in base'.objects => "cwd" \in base.objects, Underway1(q)
  PROVE  Underway1(q)'
<1>1. Seen(q) = base /\ Seen(q)' = base'
  BY SchemaBasics DEF Free, Seen
<1> QED
  BY <1>1 DEF Underway1, Leads, Pc

LEMMA Added ==
  ASSUME NEW b \in BaseType, NEW o \in Objects
  PROVE  LET c == [b EXCEPT !.objects = @ \cup {o}]
         IN  /\ c \in BaseType /\ c.objects = b.objects \cup {o} /\ c.version = b.version
             /\ c.rows = b.rows /\ c.index = b.index
BY DEF BaseType

LEMMA VersionOf ==
  ASSUME NEW b \in BaseType, NEW v \in 0 .. Latest
  PROVE  LET c == [b EXCEPT !.version = v]
         IN  c \in BaseType /\ c.objects = b.objects /\ c.version = v /\ c.rows = b.rows /\ c.index = b.index
BY DEF BaseType

LEMMA ObjectsOf ==
  ASSUME NEW b \in BaseType
  PROVE  LET c == [b EXCEPT !.objects = Objects]
         IN  /\ c \in BaseType /\ c.objects = Objects /\ c.version = b.version
             /\ c.rows = b.rows /\ c.index = b.index
BY DEF BaseType

LEMMA CreateKeeps == ASSUME SchemaInv, NEW p \in Openers, Create(p) PROVE SchemaInv'
<1>0. base \in BaseType /\ base.version \in 0 .. 6 /\ Latest = 6 /\ base.objects \subseteq Objects
  BY DEF SchemaInv, SchemaTyped, BaseType, Latest
<1>1. Pc(p, "create") /\ Free(p) /\ UNCHANGED <<write, kills, crowd>>
  BY DEF Create
<1>2. Opening(p) /\ write.of # p /\ write.of = Nobody /\ Free(p)'
  BY <1>1, SchemaBasics DEF SchemaInv, WriteHolds, Opening, Pc, Free
<1>3. WriteHolds'
  BY <1>1, <1>2 DEF WriteHolds
<1>4. base.version \in {0, Latest}
  BY <1>1 DEF SchemaInv, OpenerHolds, Pc
<1>5. base.version = Latest => base.objects = Objects
  BY <1>0, CoversIs DEF SchemaInv, BaseHolds
<1>6. /\ base' \in BaseType /\ base'.version = base.version /\ base'.rows = base.rows /\ base'.index = base.index
      /\ base.objects \subseteq base'.objects
      /\ base'.objects = Objects \/ (base.version = 0 /\ base'.objects = base.objects \cup {"versions"})
      /\ opener' \in [Openers -> OpenerType] /\ opener'[p].pc \in {"create", "stamp"}
      /\ opener'[p].pc = "stamp" => base'.objects = Objects
      /\ \A q \in Openers : q # p => opener'[q] = opener[q]
  <2>1. "versions" \in Objects /\ "stamp" \in Pcs
    BY BroughtIs DEF Pcs
  <2>2. CASE "versions" \notin base.objects
    <3>1. base' = [base EXCEPT !.objects = @ \cup {"versions"}] /\ opener' = opener
      BY <2>2 DEF Create
    <3>2. base.version = 0
      BY <1>4, <1>5, <2>1, <2>2
    <3> QED
      BY <1>0, <1>1, <2>1, <3>1, <3>2, Added DEF SchemaInv, SchemaTyped, Pc
  <2>3. CASE "versions" \in base.objects
    <3>1. base' = [base EXCEPT !.objects = Objects] /\ To(p, "stamp")
      BY <2>3 DEF Create
    <3> QED
      BY <1>0, <2>1, <3>1, ObjectsOf, GoesTo1 DEF SchemaInv
  <2> QED
    BY <2>2, <2>3
<1>7. BaseHolds'
  <2>1. Closed(base')
    BY <1>0, <1>6, BroughtIs DEF SchemaInv, BaseHolds, Closed
  <2>2. base'.version > 0 => Covers(base', base'.version)
    BY <1>0, <1>4, <1>5, <1>6, CoversIs
  <2> QED
    BY <1>6, <2>1, <2>2 DEF SchemaInv, BaseHolds
<1>8. SchemaTyped'
  BY <1>1, <1>6 DEF SchemaInv, SchemaTyped
<1>9. OpenerHolds(p)' /\ FoundWell(p)'
  BY <1>1, <1>4, <1>6 DEF SchemaInv, OpenerHolds, FoundWell, Smooth, Pc
<1>10. Whole' \/ Underway1(p)'
  BY <1>4, <1>6 DEF Whole, Underway1
<1> QED
  BY <1>1, <1>2, <1>3, <1>6, <1>7, <1>8, <1>9, <1>10, ChangeKeeps

LEMMA StampKeeps == ASSUME SchemaInv, NEW p \in Openers, Stamp(p) PROVE SchemaInv'
<1>0. base \in BaseType /\ base.version \in 0 .. 6 /\ Latest = 6 /\ Latest \in 0 .. Latest
  BY DEF SchemaInv, SchemaTyped, BaseType, Latest
<1>1. Pc(p, "stamp") /\ Free(p) /\ UNCHANGED <<write, kills, crowd>>
  BY DEF Stamp
<1>2. Opening(p) /\ write.of # p /\ write.of = Nobody /\ Free(p)'
  BY <1>1, SchemaBasics DEF SchemaInv, WriteHolds, Opening, Pc, Free
<1>3. WriteHolds'
  BY <1>1, <1>2 DEF WriteHolds
<1>4. base.version \in {0, Latest} /\ base.objects = Objects /\ (Smooth => base.version = 0)
  BY <1>1 DEF SchemaInv, OpenerHolds, FoundWell, Pc
<1>p. "failed" \in Pcs /\ "ready" \in Pcs
  BY DEF Pcs
<1>5. CASE base.version = Latest
  <2>1. To(p, "failed") /\ UNCHANGED base
    BY <1>5 DEF Stamp
  <2>2. /\ opener' \in [Openers -> OpenerType] /\ opener'[p].pc = "failed"
        /\ \A q \in Openers : q # p => opener'[q] = opener[q]
    BY <1>p, <2>1, GoesTo1 DEF SchemaInv
  <2>3. OpenerHolds(p)' /\ FoundWell(p)'
    BY <1>0, <1>1, <1>4, <1>5, <2>2 DEF OpenerHolds, FoundWell, Smooth, Pc
  <2> QED
    BY <1>1, <1>2, <1>5, <2>1, <2>2, <2>3, QuietKeeps DEF Whole
<1>6. CASE base.version # Latest
  <2>1. base' = [base EXCEPT !.version = Latest] /\ To(p, "ready")
    BY <1>6 DEF Stamp
  <2>2. /\ opener' \in [Openers -> OpenerType] /\ opener'[p].pc = "ready"
        /\ \A q \in Openers : q # p => opener'[q] = opener[q]
    BY <1>p, <2>1, GoesTo1 DEF SchemaInv
  <2>3. /\ base' \in BaseType /\ base'.objects = Objects /\ base'.version = Latest
        /\ base'.rows = {} /\ base'.index = {}
    <3>1. base.rows = {} /\ base.index = {}
      BY <1>4, <1>6 DEF SchemaInv, BaseHolds
    <3> QED
      BY <1>0, <1>4, <2>1, <3>1, VersionOf
  <2>4. BaseHolds'
    <3>1. Covers(base', Latest)
      BY <2>3, CoversIs
    <3> QED
      BY <1>0, <2>3, <3>1, BroughtIs DEF BaseHolds, Closed
  <2>5. SchemaTyped'
    BY <1>1, <2>2, <2>3 DEF SchemaInv, SchemaTyped
  <2>6. OpenerHolds(p)' /\ FoundWell(p)' /\ Whole'
    BY <2>2, <2>3 DEF OpenerHolds, FoundWell, Pc, Whole
  <2> QED
    BY <1>1, <1>2, <1>3, <1>4, <2>2, <2>3, <2>4, <2>5, <2>6, ChangeKeeps
<1> QED
  BY <1>5, <1>6

LEMMA RefillKeeps == ASSUME SchemaInv, NEW p \in Openers, Refill(p) PROVE SchemaInv'
<1>0. base \in BaseType /\ Latest \in Nat
  BY DEF SchemaInv, SchemaTyped, Latest
<1>1. Pc(p, "check") /\ Free(p) /\ To(p, "ready") /\ UNCHANGED <<write, kills, crowd>>
      /\ base' = [base EXCEPT !.index = base.rows]
  BY DEF Refill
<1>2. Opening(p) /\ write.of # p /\ write.of = Nobody /\ Free(p)'
  BY <1>1, SchemaBasics DEF SchemaInv, WriteHolds, Opening, Pc, Free
<1>3. WriteHolds'
  BY <1>1, <1>2 DEF WriteHolds
<1>4. "ready" \in Pcs /\ base.version = Latest
  BY <1>1 DEF Pcs, SchemaInv, OpenerHolds, Pc
<1>5. /\ opener' \in [Openers -> OpenerType] /\ opener'[p].pc = "ready"
      /\ \A q \in Openers : q # p => opener'[q] = opener[q]
  BY <1>1, <1>4, GoesTo1 DEF SchemaInv
<1>6. base' \in BaseType /\ base'.objects = base.objects /\ base'.version = base.version
      /\ base'.rows = base.rows /\ base'.index = base.rows
  BY <1>0, <1>1 DEF BaseType
<1>7. BaseHolds'
  BY <1>6 DEF SchemaInv, BaseHolds, Closed, Covers
<1>8. SchemaTyped'
  BY <1>1, <1>5, <1>6 DEF SchemaInv, SchemaTyped
<1>9. OpenerHolds(p)' /\ FoundWell(p)' /\ Whole'
  BY <1>4, <1>5, <1>6 DEF OpenerHolds, FoundWell, Pc, Whole
<1> QED
  BY <1>1, <1>2, <1>3, <1>5, <1>6, <1>7, <1>8, <1>9, ChangeKeeps

-----------------------------------------------------------------------------
(* The steps from version to version.                                      *)

\* What a process that migrates sees and has done.
LEMMA SeenIs ==
  ASSUME SchemaInv, NEW p \in Openers, Pc(p, "migrate"), Free(p)
  PROVE  /\ Opening(p) /\ opener[p].from \in 1 .. 6 /\ opener[p] \in OpenerType
         /\ base \in BaseType /\ Seen(p) \in BaseType
         /\ base.version \in 1 .. 6 /\ (base.version <= opener[p].from \/ base.version = 6) /\ Latest = 6
         /\ Covers(Seen(p), opener[p].from) /\ Closed(Seen(p)) /\ Closed(base)
         /\ Seen(p).version = base.version /\ Seen(p).rows = base.rows
         /\ base.objects \subseteq Seen(p).objects /\ ("cwd" \in Seen(p).objects => "cwd" \in base.objects)
         /\ base.index \in {{}, base.rows}
         /\ write.of = p => opener[p].from \in {2, 3} /\ Seen(p) = write.base /\ write.base.index = base.rows
         /\ write.of # p => write.of = Nobody /\ Seen(p) = base
<1>1. /\ OpenerHolds(p) /\ opener[p] \in OpenerType /\ write.of \in {p, Nobody} /\ Latest = 6
      /\ base \in BaseType /\ write.base \in BaseType
  BY DEF SchemaInv, SchemaTyped, Free, Latest
<1>2. opener[p].from \in 1 .. 6 /\ base.version \in 1 .. 6
  BY <1>1 DEF OpenerHolds, OpenerType, BaseType
<1>3. CASE write.of = p
  <2>1. Seen(p) = write.base /\ p # Nobody
    BY <1>3, SchemaBasics DEF Seen
  <2>2. /\ opener[p].from \in {2, 3} /\ write.base.version = base.version /\ write.base.rows = base.rows
        /\ write.base.index = base.rows /\ base.objects \subseteq write.base.objects /\ Closed(write.base)
        /\ "cwd" \in write.base.objects => "cwd" \in base.objects
    BY <1>3, <2>1 DEF SchemaInv, WriteHolds
  <2> QED
    BY <1>1, <1>2, <1>3, <2>1, <2>2 DEF SchemaInv, BaseHolds, OpenerHolds, Opening, Pc
<1>4. CASE write.of # p
  <2>1. Seen(p) = base /\ write.of = Nobody
    BY <1>1, <1>4 DEF Seen
  <2> QED
    BY <1>1, <1>2, <1>4, <2>1 DEF SchemaInv, BaseHolds, OpenerHolds, Opening, Pc
<1> QED
  BY <1>3, <1>4

\* A process that is ahead of a database that is whole or being made so.
LEMMA WholeLeads ==
  ASSUME SchemaInv, NEW p \in Openers, Pc(p, "migrate"), Free(p), Whole, base.version # Latest
  PROVE  ("archived" \in base.objects => opener[p].from >= 3) /\ ("cwd" \in base.objects => opener[p].from >= 6)
<1>1. base \in BaseType /\ base.version \in 1 .. 6 /\ base.version <= opener[p].from /\ opener[p].from \in 1 .. 6
  BY SeenIs
<1>2. Exact(base)
  BY <1>1 DEF Whole
<1> QED
  BY <1>1, <1>2, ExactIs

LEMMA StepFrom ==
  ASSUME SchemaTyped, NEW p \in Openers, NEW v \in 0 .. Latest, opener' = [opener EXCEPT ![p].from = v]
  PROVE  /\ opener' \in [Openers -> OpenerType] /\ opener'[p].pc = opener[p].pc /\ opener'[p].from = v
         /\ \A q \in Openers : q # p => opener'[q] = opener[q]
<1>1. opener[p] \in OpenerType
  BY DEF SchemaTyped
<1> DEFINE new == [opener[p] EXCEPT !.from = v]
<1>2. new \in OpenerType /\ new.pc = opener[p].pc /\ new.from = v
  BY <1>1 DEF OpenerType
<1>3. opener' = [opener EXCEPT ![p] = new]
  OBVIOUS
<1> HIDE DEF new, OpenerType
<1> QED
  BY <1>2, <1>3 DEF SchemaTyped

LEMMA CoversMore ==
  \A b, c : \A n \in 1 .. 5 :
    Covers(b, n) /\ (\A o \in b.objects : o \in c.objects) /\ Brought[n + 1] \in c.objects => Covers(c, n + 1)
<1> SUFFICES ASSUME NEW b, NEW c, NEW n \in 1 .. 5, Covers(b, n), \A o \in b.objects : o \in c.objects,
                    Brought[n + 1] \in c.objects
             PROVE  Covers(c, n + 1)
  OBVIOUS
<1>1. \A u \in 1 .. n + 1 : u \in 1 .. n \/ u = n + 1
  OBVIOUS
<1> HIDE DEF Brought
<1> QED
  BY <1>1 DEF Covers

\* What a step may be.
LEMMA MigrateIs ==
  ASSUME SchemaInv, NEW p \in Openers, Migrate(p)
  PROVE  LET n == opener[p].from
             o == Brought[n + 1]
             moved == opener' = [opener EXCEPT ![p].from = n + 1]
         IN  /\ Pc(p, "migrate") /\ Free(p) /\ UNCHANGED <<kills, crowd>> /\ n \in 1 .. 5
             /\ \/ /\ n \in {2, 5} /\ o \in Seen(p).objects /\ To(p, "failed") /\ UNCHANGED base
                   /\ write' = (IF write.of = p THEN NoWrite ELSE write)
                \/ /\ n = 1 /\ moved
                   /\ write' = [of |-> p, base |-> [base EXCEPT !.objects = @ \cup {"index"}, !.index = base.rows]]
                   /\ base' = [base EXCEPT !.objects = @ \cup {"index"}]
                \/ n \in {3, 4} /\ moved /\ base' = [Seen(p) EXCEPT !.objects = @ \cup {o}] /\ write' = NoWrite
                \/ n \in {2, 5} /\ moved /\ o \notin Seen(p).objects /\ Define(p, o)
<1> DEFINE n == opener[p].from
           o == Brought[n + 1]
<1>1. Pc(p, "migrate") /\ Free(p) /\ UNCHANGED <<kills, crowd>> /\ n + 1 <= 6
  BY DEF Migrate, Latest
<1>2. n \in 1 .. 5
  BY <1>1, SeenIs
<1>3. (n = 1 => o = "index") /\ (n = 2 => o = "archived") /\ (n = 3 => o = "responses")
      /\ (n = 4 => o = "errors") /\ (n = 5 => o = "cwd")
  BY BroughtIs
<1>4. CASE o \in Columns /\ o \in Seen(p).objects
  <2>1. n \in {2, 5}
    BY <1>2, <1>3, <1>4 DEF Columns
  <2>2. To(p, "failed") /\ UNCHANGED base /\ write' = (IF write.of = p THEN NoWrite ELSE write)
    BY <1>4 DEF Migrate, To
  <2> QED
    BY <1>1, <1>2, <1>4, <2>1, <2>2
<1>5. CASE ~(o \in Columns /\ o \in Seen(p).objects)
  <2>1. opener' = [opener EXCEPT ![p].from = n + 1]
    BY <1>5 DEF Migrate
  <2> DEFINE base1 == [base EXCEPT !.objects = @ \cup {o}]
             write1 == [of |-> p, base |-> [base EXCEPT !.objects = @ \cup {o}, !.index = base.rows]]
             base2 == [Seen(p) EXCEPT !.objects = @ \cup {o}]
  <2>2. (CASE o = "index" -> write' = write1 /\ base' = base1
           [] o \in {"responses", "errors"} -> Commit(base2)
           [] OTHER -> Define(p, o))
    BY <1>5 DEF Migrate
  <2>7. \A a \in {"responses", "errors"} : a # "index"
    OBVIOUS
  <2> HIDE DEF base1, write1, base2
  <2> HIDE DEF o
  <2>3. CASE n = 1
    <3>1. o = "index"
      BY <1>3, <2>3
    <3>2. /\ write' = [of |-> p, base |-> [base EXCEPT !.objects = @ \cup {"index"}, !.index = base.rows]]
          /\ base' = [base EXCEPT !.objects = @ \cup {"index"}]
      BY <2>2, <3>1, Zenon DEF base1, write1
    <3> QED
      BY <1>1, <1>2, <2>1, <2>3, <3>2 DEF o
  <2>4. CASE n \in {3, 4}
    <3>1. o \in {"responses", "errors"} /\ o # "index"
      BY <1>3, <2>4
    <3>2. Commit([Seen(p) EXCEPT !.objects = @ \cup {o}])
      BY <2>2, <2>7, <3>1, Zenon DEF base2
    <3> QED
      BY <1>1, <1>2, <2>1, <2>4, <3>2 DEF o, Commit
  <2>5. CASE n \in {2, 5}
    <3>1. o \in Columns /\ o # "index" /\ o \notin {"responses", "errors"}
      BY <1>3, <2>5 DEF Columns
    <3>2. Define(p, o)
      BY <2>2, <3>1, Zenon
    <3> QED
      BY <1>1, <1>2, <1>5, <2>1, <2>5, <3>1, <3>2 DEF o
  <2> QED
    BY <1>2, <2>3, <2>4, <2>5
<1> QED
  BY <1>4, <1>5

LEMMA MigrateFails ==
  ASSUME SchemaInv, NEW p \in Openers, Pc(p, "migrate"), Free(p), UNCHANGED <<kills, crowd, base>>,
         opener[p].from \in {2, 5}, Brought[opener[p].from + 1] \in Seen(p).objects, To(p, "failed"),
         write' = (IF write.of = p THEN NoWrite ELSE write)
  PROVE  SchemaInv'
<1>1. "failed" \in Pcs
  BY DEF Pcs
<1>2. /\ opener' \in [Openers -> OpenerType] /\ opener'[p].pc = "failed"
      /\ \A q \in Openers : q # p => opener'[q] = opener[q]
  BY <1>1, GoesTo1 DEF SchemaInv
<1>3. Opening(p) /\ ~Leads(p)
  BY SeenIs, BroughtIs DEF Leads
<1>4. write'.of = Nobody /\ Free(p)'
  BY SeenIs, SchemaBasics DEF Free
<1>5. SchemaTyped'
  BY <1>2, SchemaBasics DEF SchemaInv, SchemaTyped
<1>6. BaseHolds' /\ WriteHolds'
  BY <1>4 DEF SchemaInv, BaseHolds, WriteHolds, Closed, Covers
<1>7. ~Smooth /\ ~Underway1(p)
  BY <1>3 DEF SchemaInv, FoundWell, Underway1, Pc
<1>8. OpenerHolds(p)' /\ FoundWell(p)'
  BY <1>2, <1>7 DEF OpenerHolds, FoundWell, Smooth, Pc
<1>9. Whole => Whole'
  BY DEF Whole, Exact
<1>10. \A q \in Openers : Underway1(q) => Underway1(q)'
  BY <1>2, <1>4, <1>7, OthersUnderway
<1> QED
  BY <1>2, <1>3, <1>4, <1>5, <1>6, <1>8, <1>9, <1>10, ChangeKeeps DEF SchemaInv, BaseType

LEMMA IndexKeeps ==
  ASSUME SchemaInv, NEW p \in Openers, Pc(p, "migrate"), Free(p), UNCHANGED <<kills, crowd>>,
         opener[p].from = 1, opener' = [opener EXCEPT ![p].from = 2],
         write' = [of |-> p, base |-> [base EXCEPT !.objects = @ \cup {"index"}, !.index = base.rows]],
         base' = [base EXCEPT !.objects = @ \cup {"index"}]
  PROVE  SchemaInv'
<1>1. /\ Opening(p) /\ base \in BaseType /\ base.version \in 1 .. 6 /\ Latest = 6
      /\ base.version <= 1 \/ base.version = 6
      /\ write.of = Nobody /\ Seen(p) = base /\ Covers(base, 1) /\ Closed(base) /\ base.index \in {{}, base.rows}
  BY SeenIs
<1>2. /\ base' \in BaseType /\ base'.objects = base.objects \cup {"index"} /\ base'.version = base.version
      /\ base'.rows = base.rows /\ base'.index = base.index
  BY <1>1, BroughtIs, Added
<1>3. /\ write'.of = p /\ write' \in [of : Openers \cup {Nobody}, base : BaseType]
      /\ write'.base.objects = base.objects \cup {"index"}
      /\ write'.base.version = base.version /\ write'.base.rows = base.rows /\ write'.base.index = base.rows
  <2> DEFINE new == [base EXCEPT !.objects = @ \cup {"index"}, !.index = base.rows]
  <2>1. new \in BaseType /\ new.objects = base.objects \cup {"index"} /\ new.version = base.version
        /\ new.rows = base.rows /\ new.index = base.rows
    BY <1>1, BroughtIs DEF BaseType
  <2>2. write' = [of |-> p, base |-> new]
    OBVIOUS
  <2> HIDE DEF new
  <2>3. [of |-> p, base |-> new] \in [of : Openers \cup {Nobody}, base : BaseType]
    BY <2>1
  <2>4. write'.of = p /\ write'.base = new
    BY <2>2
  <2> QED
    BY <2>1, <2>2, <2>3, <2>4
<1>4. /\ opener' \in [Openers -> OpenerType] /\ opener'[p].pc = "migrate" /\ opener'[p].from = 2
      /\ \A q \in Openers : q # p => opener'[q] = opener[q]
  <2>1. 2 \in 0 .. Latest /\ SchemaTyped /\ opener[p].pc = "migrate"
    BY <1>1 DEF SchemaInv, Pc
  <2> QED
    BY <2>1, StepFrom
<1>5. SchemaTyped' /\ Free(p)' /\ Seen(p)' = write'.base
  BY <1>2, <1>3, <1>4 DEF SchemaInv, SchemaTyped, Free, Seen
<1>6. BaseHolds'
  <2>1. base.version > 0 => Covers(base, base.version)
    BY DEF SchemaInv, BaseHolds
  <2> QED
    BY <1>1, <1>2, <2>1 DEF BaseHolds, Covers, Closed
<1>7. WriteHolds'
  BY <1>1, <1>2, <1>3, <1>4 DEF WriteHolds, Closed, Pc
<1>8. Covers(Seen(p)', 2) /\ (Leads(p) => Leads(p)')
  <2>1. "index" # "archived" /\ "index" # "cwd"
    OBVIOUS
  <2>2. Covers(write'.base, 1 + 1)
    <3>1. Covers(base, 1) /\ 1 \in 1 .. 5 /\ (\A o \in base.objects : o \in write'.base.objects)
      BY <1>1, <1>3
    <3>2. Brought[1 + 1] \in write'.base.objects
      BY <1>3, BroughtIs
    <3> QED
      BY <3>1, <3>2, CoversMore, Zenon
  <2>3. 1 + 1 = 2
    OBVIOUS
  <2>4. Covers(write'.base, 2)
    BY <2>2, <2>3
  <2> QED
    BY <1>1, <1>3, <1>4, <1>5, <2>1, <2>4 DEF Leads
<1>9. OpenerHolds(p)' /\ FoundWell(p)'
  BY <1>1, <1>2, <1>4, <1>8 DEF SchemaInv, OpenerHolds, FoundWell, Smooth, Pc
<1>10. Whole => Whole' \/ Underway1(p)'
  <2>1. CASE base.version = Latest
    BY <1>2, <2>1 DEF Whole
  <2>2. ASSUME Whole, base.version # Latest PROVE Leads(p)
    BY <1>1, <2>2, WholeLeads DEF Leads
  <2> QED
    BY <1>4, <1>8, <2>1, <2>2 DEF Underway1, Pc
<1>11. \A q \in Openers : Underway1(q) => Underway1(q)'
  <2>1. Underway1(p) => Underway1(p)'
    BY <1>4, <1>8 DEF Underway1, Pc
  <2>2. \A q \in Openers : q # p /\ Underway1(q) => Underway1(q)'
    BY <1>2, <1>4, <1>5, OthersUnderway
  <2> QED
    BY <2>1, <2>2
<1> QED
  BY <1>1, <1>2, <1>4, <1>5, <1>6, <1>7, <1>9, <1>10, <1>11, ChangeKeeps

LEMMA ScriptKeeps ==
  ASSUME SchemaInv, NEW p \in Openers, Pc(p, "migrate"), Free(p), UNCHANGED <<kills, crowd>>,
         opener[p].from \in {3, 4}, opener' = [opener EXCEPT ![p].from = opener[p].from + 1],
         base' = [Seen(p) EXCEPT !.objects = @ \cup {Brought[opener[p].from + 1]}], write' = NoWrite
  PROVE  SchemaInv'
<1> DEFINE n == opener[p].from
           o == Brought[n + 1]
<1>1. o \in Objects /\ o # "archived" /\ o # "cwd" /\ (n = 3 => o = "responses") /\ (n = 4 => o = "errors")
  BY BroughtIs
<1>2. /\ base' \in BaseType /\ base'.objects = Seen(p).objects \cup {o} /\ base'.version = base.version
      /\ base'.rows = base.rows /\ base'.index = Seen(p).index
  BY <1>1, SeenIs, Added
<1> HIDE DEF o
<1>3. /\ opener' \in [Openers -> OpenerType] /\ opener'[p].pc = "migrate" /\ opener'[p].from = n + 1
      /\ \A q \in Openers : q # p => opener'[q] = opener[q]
  <2>1. n + 1 \in 0 .. Latest /\ SchemaTyped /\ opener[p].pc = "migrate"
    BY DEF SchemaInv, Pc, Latest
  <2> QED
    BY <2>1, StepFrom
<1>4. write'.of = Nobody /\ Free(p)' /\ Seen(p)' = base' /\ WriteHolds' /\ SchemaTyped'
  BY <1>2, <1>3, SchemaBasics DEF SchemaInv, SchemaTyped, Free, Seen, WriteHolds
<1>5. base'.index = base'.rows \/ (base'.index = base.index /\ base'.rows = base.rows)
  BY <1>2, SeenIs
<1>6. Covers(base', n + 1)
  <2>1. Covers(Seen(p), n) /\ n \in 1 .. 5 /\ (\A x \in Seen(p).objects : x \in base'.objects)
    BY <1>2, SeenIs
  <2>2. Brought[n + 1] \in base'.objects
    BY <1>2 DEF o
  <2> QED
    BY <2>1, <2>2, CoversMore, Zenon
<1>7. base.objects \subseteq base'.objects /\ ("cwd" \in base'.objects => "cwd" \in base.objects) /\ Closed(base')
  BY <1>1, <1>2, SeenIs DEF Closed
<1>8. BaseHolds'
  <2>1. Covers(base, base.version)
    BY SeenIs DEF SchemaInv, BaseHolds
  <2> QED
    BY <1>2, <1>5, <1>7, <2>1, SeenIs DEF BaseHolds, Covers
<1>9. Leads(p) => Leads(p)'
  BY <1>1, <1>2, <1>3, <1>4, SeenIs DEF Leads
<1>10. OpenerHolds(p)' /\ FoundWell(p)'
  BY <1>2, <1>3, <1>4, <1>6, <1>9, SeenIs DEF SchemaInv, OpenerHolds, FoundWell, Smooth, Pc
<1>11. ASSUME "cwd" \notin base.objects PROVE Underway1(p)'
  BY <1>3, <1>4, <1>7, <1>11, SeenIs DEF Underway1, Leads, Pc
<1>12. Whole => Whole' \/ Underway1(p)'
  <2>1. CASE base.version = Latest
    BY <1>2, <2>1 DEF Whole
  <2>2. CASE Whole /\ base.version # Latest
    BY <1>11, <2>2, WholeLeads
  <2> QED
    BY <2>1, <2>2
<1>13. ASSUME NEW q \in Openers, Underway1(q) PROVE Underway1(q)' \/ Underway1(p)'
  <2>1. CASE q = p
    BY <1>3, <1>9, <1>13, <2>1 DEF Underway1, Pc
  <2>2. CASE q # p
    <3>1. /\ opener'[q] = opener[q] /\ Seen(q) = base /\ Seen(q)' = base' /\ base.version # 0
          /\ opener[q].from \in 0 .. 6
      BY <1>3, <1>4, <2>2, SchemaBasics, SeenIs DEF Free, Seen, SchemaInv, SchemaTyped, OpenerType, Latest
    <3>2. Pc(q, "migrate") /\ Leads(q)
      BY <1>13, <3>1 DEF Underway1
    <3>3. CASE opener[q].from < 6
      BY <1>11, <3>1, <3>2, <3>3 DEF Leads
    <3>4. CASE ~(opener[q].from < 6)
      BY <3>1, <3>2, <3>4 DEF Underway1, Leads, Pc
    <3> QED
      BY <3>3, <3>4
  <2> QED
    BY <2>1, <2>2
<1> QED
  BY <1>2, <1>3, <1>4, <1>5, <1>7, <1>8, <1>10, <1>12, <1>13, SeenIs, ChangeKeeps

\* A column that is added is the next: who added it has added all before.
LEMMA ColumnKeeps ==
  ASSUME SchemaInv, NEW p \in Openers, Pc(p, "migrate"), Free(p), UNCHANGED <<kills, crowd>>,
         opener[p].from \in {2, 5}, opener' = [opener EXCEPT ![p].from = opener[p].from + 1],
         Brought[opener[p].from + 1] \notin Seen(p).objects, Define(p, Brought[opener[p].from + 1])
  PROVE  SchemaInv'
<1> DEFINE n == opener[p].from
           o == Brought[n + 1]
           new == [Seen(p) EXCEPT !.objects = @ \cup {o}]
<1>1. o \in Objects /\ (n = 2 => o = "archived") /\ (n = 5 => o = "cwd")
  BY BroughtIs
<1>2. /\ new \in BaseType /\ new.objects = Seen(p).objects \cup {o} /\ new.version = base.version
      /\ new.rows = base.rows /\ new.index = Seen(p).index
  BY <1>1, SeenIs, Added
<1>3. /\ opener' \in [Openers -> OpenerType] /\ opener'[p].pc = "migrate" /\ opener'[p].from = n + 1
      /\ \A q \in Openers : q # p => opener'[q] = opener[q]
  <2>1. n + 1 \in 0 .. Latest /\ SchemaTyped /\ opener[p].pc = "migrate"
    BY DEF SchemaInv, Pc, Latest
  <2> QED
    BY <2>1, StepFrom
<1>4. /\ Seen(p)' = new /\ base' \in BaseType /\ write' \in [of : Openers \cup {Nobody}, base : BaseType]
      /\ write'.of = write.of /\ (write.of = p => base' = base /\ write'.base = new)
      /\ write.of # p => base' = new /\ write' = write
  <2>1. write \in [of : Openers \cup {Nobody}, base : BaseType] /\ base \in BaseType
    BY DEF SchemaInv, SchemaTyped
  <2>2. CASE write.of = p
    <3>1. Seen(p) = write.base
      BY <2>2 DEF Seen
    <3>2. write' = [write EXCEPT !.base.objects = write.base.objects \cup {o}] /\ base' = base
      BY <2>2 DEF Define
    <3>5. new = [write.base EXCEPT !.objects = write.base.objects \cup {o}]
      BY <3>1
    <3>3. write' = [write EXCEPT !.base = new]
      BY <2>1, <3>2, <3>5
    <3> HIDE DEF new
    <3>4. /\ write'.of = p /\ write'.base = new
          /\ write' \in [of : Openers \cup {Nobody}, base : BaseType]
      BY <1>2, <2>1, <2>2, <3>3
    <3> QED
      BY <2>1, <2>2, <3>2, <3>4 DEF Seen
  <2>3. CASE write.of # p
    <3>1. Seen(p) = base
      BY <2>3 DEF Seen
    <3>2. base' = new /\ write' = write
      BY <2>3, <3>1 DEF Define
    <3> HIDE DEF new
    <3> QED
      BY <1>2, <2>1, <2>3, <3>2 DEF Seen
  <2> QED
    BY <2>2, <2>3
<1> HIDE DEF new, o
<1>5. SchemaTyped' /\ Free(p)'
  BY <1>3, <1>4 DEF SchemaInv, SchemaTyped, Free
<1>6. Closed(new) /\ Covers(new, n + 1)
  <2>1. Covers(Seen(p), n) /\ n \in 1 .. 5 /\ (\A x \in Seen(p).objects : x \in new.objects)
    BY <1>2, SeenIs
  <2>2. Brought[n + 1] \in new.objects
    BY <1>2 DEF o
  <2>3. Covers(new, n + 1)
    BY <2>1, <2>2, CoversMore, Zenon
  <2>4. n + 1 \in 1 .. Latest /\ n + 1 >= 3
    BY DEF Latest
  <2>5. "archived" \in new.objects
    BY <1>2, <2>3, <2>4, CoversIs
  <2> QED
    BY <2>3, <2>5 DEF Closed
<1>7. base'.version = base.version /\ base'.index = base.index /\ base'.rows = base.rows
      /\ base.objects \subseteq base'.objects /\ Closed(base')
  BY <1>2, <1>4, <1>6, SeenIs
<1>8. BaseHolds'
  <2>1. Covers(base, base.version)
    BY SeenIs DEF SchemaInv, BaseHolds
  <2> QED
    BY <1>7, <2>1, SeenIs DEF BaseHolds, Covers
<1>9. WriteHolds'
  <2>1. CASE write.of = p
    <3>1. n = 2 /\ o = "archived" /\ base' = base /\ write'.base = new /\ write'.of = p /\ new.index = base.rows
      BY <1>1, <1>2, <1>4, <2>1, SeenIs
    <3> QED
      BY <1>2, <1>3, <1>6, <3>1, SeenIs DEF WriteHolds, Pc
  <2>2. CASE write.of # p
    BY <1>4, <2>2, SeenIs DEF WriteHolds
  <2> QED
    BY <2>1, <2>2
<1>10. Leads(p)'
  <2>1. CASE n = 2
    <3>1. "cwd" \notin new.objects
      BY <1>1, <1>2, <2>1, SeenIs DEF Closed, o
    <3> QED
      BY <1>3, <1>4, <2>1, <3>1 DEF Leads
  <2>2. CASE n = 5
    BY <1>3, <2>2 DEF Leads
  <2> QED
    BY <2>1, <2>2
<1>11. OpenerHolds(p)' /\ FoundWell(p)' /\ Underway1(p)'
  BY <1>3, <1>4, <1>6, <1>7, <1>10, SeenIs DEF SchemaInv, OpenerHolds, FoundWell, Underway1, Smooth, Pc
<1> QED
  BY <1>3, <1>5, <1>7, <1>8, <1>9, <1>11, SeenIs, ChangeKeeps

LEMMA MigrateKeeps == ASSUME SchemaInv, NEW p \in Openers, Migrate(p) PROVE SchemaInv'
<1> DEFINE n == opener[p].from
           o == Brought[n + 1]
<1>1. Pc(p, "migrate") /\ Free(p) /\ UNCHANGED <<kills, crowd>>
  BY MigrateIs
<1>2. CASE /\ n \in {2, 5} /\ o \in Seen(p).objects /\ To(p, "failed") /\ UNCHANGED base
           /\ write' = (IF write.of = p THEN NoWrite ELSE write)
  BY <1>1, <1>2, MigrateFails
<1>3. CASE /\ n = 1 /\ opener' = [opener EXCEPT ![p].from = n + 1]
           /\ write' = [of |-> p, base |-> [base EXCEPT !.objects = @ \cup {"index"}, !.index = base.rows]]
           /\ base' = [base EXCEPT !.objects = @ \cup {"index"}]
  <2>1. n + 1 = 2
    BY <1>3
  <2>2. opener' = [opener EXCEPT ![p].from = 2]
    BY <1>3, <2>1
  <2> QED
    BY <1>1, <1>3, <2>2, IndexKeeps
<1>4. CASE /\ n \in {3, 4} /\ opener' = [opener EXCEPT ![p].from = n + 1]
           /\ base' = [Seen(p) EXCEPT !.objects = @ \cup {o}] /\ write' = NoWrite
  BY <1>1, <1>4, ScriptKeeps
<1>5. CASE n \in {2, 5} /\ opener' = [opener EXCEPT ![p].from = n + 1] /\ o \notin Seen(p).objects /\ Define(p, o)
  BY <1>1, <1>5, ColumnKeeps
<1> HIDE DEF o
<1> QED
  BY <1>2, <1>3, <1>4, <1>5, MigrateIs DEF o

LEMMA MigratedKeeps == ASSUME SchemaInv, NEW p \in Openers, Migrated(p) PROVE SchemaInv'
<1>1. Pc(p, "migrate") /\ Free(p) /\ UNCHANGED <<kills, crowd>> /\ opener[p].from = Latest
  BY DEF Migrated
<1>2. Opening(p) /\ write.of = Nobody /\ write.of # p /\ Seen(p) = base /\ Covers(base, Latest)
      /\ base \in BaseType /\ Latest = 6
  BY <1>1, SeenIs, SchemaBasics
<1>p. "failed" \in Pcs /\ "fill" \in Pcs
  BY DEF Pcs
<1>3. CASE base.version = Latest
  <2>1. To(p, "failed") /\ UNCHANGED <<base, write>>
    BY <1>2, <1>3 DEF Migrated
  <2>2. /\ opener' \in [Openers -> OpenerType] /\ opener'[p].pc = "failed"
        /\ \A q \in Openers : q # p => opener'[q] = opener[q]
    BY <1>p, <2>1, GoesTo1 DEF SchemaInv
  <2>3. ~Smooth
    BY <1>1, <1>2, <1>3 DEF SchemaInv, FoundWell
  <2>4. OpenerHolds(p)' /\ FoundWell(p)' /\ Whole
    BY <1>1, <1>3, <2>1, <2>2, <2>3 DEF OpenerHolds, FoundWell, Smooth, Pc, Whole
  <2> QED
    BY <1>1, <1>2, <2>1, <2>2, <2>4, QuietKeeps
<1>4. CASE base.version # Latest
  <2>1. base' = [base EXCEPT !.version = Latest] /\ write' = NoWrite /\ To(p, "fill")
    BY <1>2, <1>4 DEF Migrated, Commit
  <2>2. /\ opener' \in [Openers -> OpenerType] /\ opener'[p].pc = "fill"
        /\ \A q \in Openers : q # p => opener'[q] = opener[q]
    BY <1>p, <2>1, GoesTo1 DEF SchemaInv
  <2>3. Latest \in 0 .. Latest
    BY <1>2
  <2>4. /\ base' \in BaseType /\ base'.objects = base.objects /\ base'.version = Latest
        /\ base'.rows = base.rows /\ base'.index = base.index
    BY <1>2, <2>1, <2>3, VersionOf, ZenonT(60)
  <2>5. BaseHolds'
    <3>1. Covers(base', Latest)
      BY <1>2, <2>4 DEF Covers
    <3> QED
      BY <1>2, <2>4, <3>1 DEF SchemaInv, BaseHolds, Closed
  <2>6. SchemaTyped'
    BY <1>1, <2>1, <2>2, <2>4, SchemaBasics DEF SchemaInv, SchemaTyped
  <2>8. Free(p)' /\ WriteHolds'
    BY <2>1, SchemaBasics DEF Free, WriteHolds
  <2>7. OpenerHolds(p)' /\ FoundWell(p)' /\ Whole'
    BY <2>2, <2>4 DEF OpenerHolds, FoundWell, Pc, Whole
  <2> QED
    BY <1>1, <1>2, <2>2, <2>4, <2>5, <2>6, <2>7, <2>8, ChangeKeeps
<1> QED
  BY <1>3, <1>4

-----------------------------------------------------------------------------
(* A database in use, and the end of a process.                            *)

LEMMA StoreKeeps == ASSUME SchemaInv, NEW p \in Openers, NEW m \in Rows, Store(p, m) PROVE SchemaInv'
<1>1. Pc(p, "ready") /\ Free(p) /\ UNCHANGED <<write, opener, kills, crowd>>
      /\ base' = [base EXCEPT !.rows = @ \cup {m}, !.index = @ \cup {m}]
  BY DEF Store
<1>2. base \in BaseType /\ write.of = Nobody /\ base.version = Latest /\ base.index = base.rows /\ Latest = 6
  BY <1>1, SchemaBasics DEF SchemaInv, SchemaTyped, WriteHolds, OpenerHolds, Free, Pc, Latest
<1>3. /\ base' \in BaseType /\ base'.objects = base.objects /\ base'.version = Latest
      /\ base'.rows = base.rows \cup {m} /\ base'.index = base.rows \cup {m}
  BY <1>1, <1>2 DEF BaseType
<1>4. SchemaTyped'
  BY <1>1, <1>3 DEF SchemaInv, SchemaTyped
<1>5. BaseHolds' /\ WriteHolds'
  <2>1. Covers(base', Latest)
    BY <1>2, <1>3 DEF SchemaInv, BaseHolds, Covers
  <2>2. WriteHolds'
    BY <1>1, <1>2 DEF WriteHolds
  <2> QED
    BY <1>2, <1>3, <2>1, <2>2 DEF SchemaInv, BaseHolds, Closed
<1>6. \A q \in Openers : Seen(q) = base /\ Seen(q)' = base'
  BY <1>1, <1>2, SchemaBasics DEF Seen
<1>7. \A q \in Openers : OpenerHolds(q)'
  BY <1>1, <1>2, <1>3, <1>4, <1>6, OthersHold
<1>8. WholeOrUnderway' /\ OneByOne'
  BY <1>1, <1>3 DEF SchemaInv, WholeOrUnderway, Whole, OneByOne, Opening
<1>9. \A q \in Openers : FoundWell(q)'
  BY <1>1, <1>2, <1>3, <1>6 DEF SchemaInv, FoundWell, Smooth, Leads, Pc
<1> QED
  BY <1>4, <1>5, <1>7, <1>8, <1>9 DEF SchemaInv

\* A process that ends: its transaction is rolled back.
LEMMA EndKeeps ==
  ASSUME SchemaInv, NEW p \in Openers, To(p, "closed"), UNCHANGED <<base, crowd>>,
         write' = (IF write.of = p THEN NoWrite ELSE write), kills' \in 0 .. MaxKills,
         kills' > 0 \/ (kills' = kills /\ Pc(p, "ready"))
  PROVE  SchemaInv'
<1>1. "closed" \in Pcs
  BY DEF Pcs
<1>2. /\ opener' \in [Openers -> OpenerType] /\ opener'[p].pc = "closed"
      /\ \A q \in Openers : q # p => opener'[q] = opener[q]
  BY <1>1, GoesTo1 DEF SchemaInv
<1>3. SchemaTyped'
  BY <1>2, SchemaBasics DEF SchemaInv, SchemaTyped
<1>4. BaseHolds'
  BY DEF SchemaInv, BaseHolds, Closed, Covers
<1>5. WriteHolds'
  <2>1. CASE write.of = p
    BY <2>1, SchemaBasics DEF WriteHolds
  <2>2. CASE write.of # p
    BY <1>2, <2>2 DEF SchemaInv, SchemaTyped, WriteHolds, Closed, Pc
  <2> QED
    BY <2>1, <2>2
<1>6. \A q \in Openers : q # p => Seen(q)' = Seen(q)
  BY SchemaBasics DEF Seen
<1>7. \A q \in Openers : q # p => OpenerHolds(q)'
  BY <1>2, <1>3, <1>6, OthersHold DEF SchemaInv, SchemaTyped
<1>8. OpenerHolds(p)' /\ FoundWell(p)'
  BY <1>2 DEF OpenerHolds, FoundWell, Pc
<1>9. OneByOne'
  BY <1>2 DEF SchemaInv, OneByOne, Opening
<1>10. CASE kills' > 0
  BY <1>3, <1>4, <1>5, <1>7, <1>8, <1>9, <1>10 DEF SchemaInv, WholeOrUnderway, FoundWell, Smooth
<1>11. CASE kills' = kills /\ Pc(p, "ready")
  <2>1. \A q \in Openers : FoundWell(q)'
    BY <1>2, <1>6, <1>8, <1>11 DEF SchemaInv, FoundWell, Smooth, Leads, Pc
  <2>2. \A q \in Openers : Underway1(q) => Underway1(q)'
    BY <1>2, <1>6, <1>11 DEF Underway1, Leads, Pc
  <2>3. WholeOrUnderway'
    BY <1>11, <2>2 DEF SchemaInv, WholeOrUnderway, Whole, Exact
  <2> QED
    BY <1>3, <1>4, <1>5, <1>7, <1>8, <1>9, <2>1, <2>3 DEF SchemaInv
<1> QED
  BY <1>10, <1>11

LEMMA CloseKeeps == ASSUME SchemaInv, NEW p \in Openers, Close(p) \/ Kill(p) PROVE SchemaInv'
<1>1. kills \in 0 .. MaxKills /\ MaxKills \in Nat
  BY SchemaAssumption DEF SchemaInv, SchemaTyped
<1>2. CASE Close(p)
  <2>1. write.of # p
    BY <1>2, SchemaBasics DEF Close, SchemaInv, WriteHolds, Pc
  <2> QED
    BY <1>1, <1>2, <2>1, EndKeeps DEF Close
<1>3. CASE Kill(p)
  BY <1>1, <1>3, EndKeeps DEF Kill
<1> QED
  BY <1>2, <1>3

LEMMA NextSchema == SchemaInv /\ [SchemaNext]_schemaVars => SchemaInv'
<1> SUFFICES ASSUME SchemaInv, [SchemaNext]_schemaVars PROVE SchemaInv'
  OBVIOUS
<1>1. ASSUME SchemaNext PROVE SchemaInv'
  <2>1. PICK p \in Openers :
          \/ Open(p) \/ Look(p) \/ Create(p) \/ Stamp(p) \/ Read(p) \/ Migrate(p) \/ Migrated(p)
          \/ Fill(p) \/ Refill(p) \/ Locked(p) \/ Close(p) \/ Kill(p) \/ \E m \in Rows : Store(p, m)
    BY <1>1 DEF SchemaNext
  <2> QED
    BY <2>1, OpenKeeps, LookKeeps, CreateKeeps, StampKeeps, ReadKeeps, MigrateKeeps, MigratedKeeps, FillKeeps,
       RefillKeeps, LockedKeeps, CloseKeeps, StoreKeeps
<1>2. ASSUME UNCHANGED schemaVars PROVE SchemaInv'
  <2>1. base' = base /\ write' = write /\ opener' = opener /\ kills' = kills /\ crowd' = crowd
    BY <1>2 DEF schemaVars
  <2>2. \A q \in Openers : Seen(q)' = Seen(q)
    BY <2>1 DEF Seen
  <2>3. SchemaTyped' /\ BaseHolds' /\ WriteHolds' /\ OneByOne'
    BY <2>1 DEF SchemaInv, SchemaTyped, BaseHolds, WriteHolds, OneByOne, Opening, Closed, Covers, Pc
  <2>4. \A q \in Openers : OpenerHolds(q)' /\ FoundWell(q)' /\ (Underway1(q) => Underway1(q)')
    BY <2>1, <2>2 DEF SchemaInv, OpenerHolds, FoundWell, Underway1, Leads, Smooth, Covers, Pc
  <2>5. WholeOrUnderway'
    BY <2>1, <2>4 DEF SchemaInv, WholeOrUnderway, Whole, Exact
  <2> QED
    BY <2>3, <2>4, <2>5 DEF SchemaInv
<1> QED
  BY <1>1, <1>2

LEMMA SchemaHolds == SchemaInv => OpensWhole
<1> SUFFICES ASSUME SchemaInv PROVE OpensWhole
  OBVIOUS
<1>1. ASSUME NEW p \in Openers, Pc(p, "ready") PROVE base.objects = Objects /\ base.index = base.rows
  <2>1. base.version = Latest /\ base.index = base.rows /\ base \in BaseType /\ Latest > 0
    BY <1>1 DEF SchemaInv, SchemaTyped, OpenerHolds, Pc, Latest
  <2>2. Covers(base, Latest)
    BY <2>1 DEF SchemaInv, BaseHolds
  <2> QED
    BY <2>1, <2>2, CoversIs
<1>2. ASSUME NEW p \in Openers, Pc(p, "failed") PROVE crowd # "no" \/ kills > 0
  BY <1>2, SchemaAssumption DEF SchemaInv, SchemaTyped, FoundWell, Smooth
<1>3. ASSUME kills = 0, crowd # "late", \A p \in Openers : opener[p].pc \in {"closed", "failed", "ready"}
      PROVE  base.version = Latest \/ base.objects = {"versions"} \cup { Brought[u] : u \in 1 .. base.version }
                                   \/ base.objects = {}
  <2>1. \A p \in Openers : ~Underway1(p)
    BY <1>3 DEF Underway1, Pc
  <2> QED
    BY <1>3, <2>1 DEF SchemaInv, WholeOrUnderway, Whole, Exact
<1> QED
  BY <1>1, <1>2, <1>3 DEF OpensWhole

-----------------------------------------------------------------------------
(* What is kept on disk.                                                   *)

\* Metadata that archiving and exporting finish by themselves are of the
\* archive's files, whoever came and died before; a database that was opened
\* is whole, whatever version it had and however openings crossed and ended;
\* a row that was selected is of the entry it showed; and files are written
\* beside a repository's and never at a root (write_bag, migrate,
\* SQLiteHandler.emit, sync_write_here).
THEOREM RecordsStay == BagItSpec /\ SchemaSpec /\ ErrorLogSpec /\ WriteHereSpec => []RecordsHold
<1>1. BagItSpec => []BagTells
  BY InitBag, NextBag, BagHolds, PTL DEF BagItSpec
<1>2. SchemaSpec => []OpensWhole
  BY InitSchema, NextSchema, SchemaHolds, PTL DEF SchemaSpec
<1>3. ErrorLogSpec => []RowsStandForOne
  BY InitErrorLog, NextErrorLog, ErrorLogHolds, PTL DEF ErrorLogSpec
<1>4. WriteHereInv => HereIsSafe
  BY DEF WriteHereInv
<1>5. WriteHereSpec => []HereIsSafe
  BY <1>4, InitWriteHere, NextWriteHere, PTL DEF WriteHereSpec
<1> QED
  BY <1>1, <1>2, <1>3, <1>5, PTL DEF RecordsHold

-----------------------------------------------------------------------------
(* All the services side by side.                                          *)

\* A behaviour of the services is one of each of their parts.
LEMMA ServiceParts ==
  ServicesSpec =>
    /\ Spec /\ SandboxSpec /\ SignInSpec /\ TabsSpec /\ PkgCacheSpec /\ HeadlessSpec /\ WebPageSpec
    /\ ModelsSpec /\ BagItSpec /\ SchemaSpec /\ ErrorLogSpec /\ WriteHereSpec /\ BrowserSpec
<1>1. ServicesInit => /\ Init /\ SandboxInit /\ SignInInit /\ TabsInit /\ PkgCacheInit /\ HeadlessInit
                      /\ WebPageInit /\ ModelsInit /\ BagItInit /\ SchemaInit /\ ErrorLogInit
                      /\ WriteHereInit /\ BrowserInit
  BY DEF ServicesInit
<1>2. [ServicesNext]_servicesVars => [Next]_vars
  BY Zenon DEF ServicesNext, servicesVars
<1>3. [ServicesNext]_servicesVars => [SandboxNext]_sandboxVars
  BY Zenon DEF ServicesNext, servicesVars
<1>4. [ServicesNext]_servicesVars => [SignInNext]_signInVars
  BY Zenon DEF ServicesNext, servicesVars
<1>5. [ServicesNext]_servicesVars => [TabsNext]_tabsVars
  BY Zenon DEF ServicesNext, servicesVars, TabsNext
<1>6. [ServicesNext]_servicesVars => [PkgCacheNext]_pkgVars
  BY Zenon DEF ServicesNext, servicesVars
<1>7. [ServicesNext]_servicesVars => [HeadlessNext]_headlessVars
  BY Zenon DEF ServicesNext, servicesVars
<1>8. [ServicesNext]_servicesVars => [WebPageNext]_pageVars
  BY Zenon DEF ServicesNext, servicesVars
<1>9. [ServicesNext]_servicesVars => [ModelsNext]_modelsVars
  BY Zenon DEF ServicesNext, servicesVars
<1>10. [ServicesNext]_servicesVars => [BagItNext]_bagVars
  BY Zenon DEF ServicesNext, servicesVars
<1>11. [ServicesNext]_servicesVars => [SchemaNext]_schemaVars
  BY Zenon DEF ServicesNext, servicesVars
<1>12. [ServicesNext]_servicesVars => [ErrorLogNext]_errorVars
  BY Zenon DEF ServicesNext, servicesVars
<1>13. [ServicesNext]_servicesVars => [WriteHereNext]_hereVars
  BY Zenon DEF ServicesNext, servicesVars
<1>14. [ServicesNext]_servicesVars => [BrowserNext]_browserVars
  BY Zenon DEF ServicesNext, servicesVars
<1> QED
  BY <1>1, <1>2, <1>3, <1>4, <1>5, <1>6, <1>7, <1>8, <1>9, <1>10, <1>11, <1>12, <1>13, <1>14, PTL
     DEF ServicesSpec, Spec, SandboxSpec, SignInSpec, TabsSpec, PkgCacheSpec, HeadlessSpec, WebPageSpec,
         ModelsSpec, BagItSpec, SchemaSpec, ErrorLogSpec, WriteHereSpec, BrowserSpec

\* What each part's invariant says of its types.
LEMMA PartsTyped ==
  /\ FramesTypes => TypeOK
  /\ SandboxInv => SandboxTypeOK
  /\ SignInInv => SignInTypeOK
  /\ LabInv /\ JiraInv => TabsTypeOK
  /\ PkgInv => PkgCacheTypeOK
  /\ HeadlessTypes => HeadlessTypeOK
  /\ ModelsTypes => ModelsTypeOK
  /\ BagInv => BagItTypeOK
  /\ SchemaInv => SchemaTypeOK
  /\ ErrorLogInv => ErrorLogTypeOK
  /\ WriteHereInv => WriteHereTypeOK
  /\ BrowserInv => BrowserTypeOK
<1>1. FramesTypes => TypeOK
  BY DEF FramesTypes
<1>2. (SandboxInv => SandboxTypeOK) /\ (SignInInv => SignInTypeOK) /\ (BrowserInv => BrowserTypeOK)
  BY DEF SandboxInv, SignInInv, BrowserInv
<1>3. LabInv /\ JiraInv => TabsTypeOK
  BY DEF LabInv, LabTyped, LabType, FetchType, SentType, JiraInv, JiraType, JobType, TabsTypeOK
<1>4. PkgInv => PkgCacheTypeOK
  BY DEF PkgInv, PkgTyped, Machines, PkgCacheTypeOK
<1>5. ModelsTypes => ModelsTypeOK
  BY DEF ModelsTypes
<1>6. BagInv => BagItTypeOK
  <2> SUFFICES ASSUME BagInv PROVE BagItTypeOK
    OBVIOUS
  <2>1. payload \in Contents /\ last \in Counted /\ bag \in BagType /\ work \in [Workers -> WorkType]
    BY DEF BagInv, BagTyped
  <2>2. bag.txt \in BOOLEAN /\ bag.listed \in Counted /\ bag.oxum \in Counted
    BY <2>1 DEF BagType
  <2>3. \A w \in Workers : work[w].pc \in Steps /\ work[w].counted \in Counted
    BY <2>1 DEF WorkType
  <2> QED
    BY <2>1, <2>2, <2>3 DEF BagItTypeOK
<1>7. SchemaInv => SchemaTypeOK
  BY DEF SchemaInv, SchemaTyped, BaseType, OpenerType, SchemaTypeOK
<1>8. (ErrorLogInv => ErrorLogTypeOK) /\ (WriteHereInv => WriteHereTypeOK)
  BY DEF ErrorLogInv, WriteHereInv
<1> QED
  BY <1>1, <1>2, <1>3, <1>4, <1>5, <1>6, <1>7, <1>8, HeadlessTypesHold

\* Every variable of the services keeps its type, for any number of frames,
\* attempts, jobs, packages, commands, tags, questions, workers, openings,
\* records and items, as long as a page may have the two texts that a foreign
\* converter makes of it (MCServices!ServicesTypeOK).
THEOREM ServicesTypes == MaxTags > 1 => (ServicesSpec => []ServicesTypeOK)
<1> SUFFICES ASSUME MaxTags > 1 PROVE ServicesSpec => []ServicesTypeOK
  OBVIOUS
<1>1. PageTypes => WebPageTypeOK
  BY PageTypesHold
<1>2. /\ TypeOK /\ SandboxTypeOK /\ SignInTypeOK /\ TabsTypeOK /\ PkgCacheTypeOK /\ HeadlessTypeOK
      /\ WebPageTypeOK /\ ModelsTypeOK /\ BagItTypeOK /\ SchemaTypeOK /\ ErrorLogTypeOK
      /\ WriteHereTypeOK /\ BrowserTypeOK
      => ServicesTypeOK
  BY DEF ServicesTypeOK
<1>3. Spec /\ SandboxSpec /\ SignInSpec /\ TabsSpec => [](TypeOK /\ SandboxTypeOK /\ SignInTypeOK /\ TabsTypeOK)
  BY FramesBegin, FramesKeepTypes, InitSandbox, NextSandbox, InitSignIn, NextSignIn, InitLab, NextLab,
     InitJira, NextJira, PartsTyped, PTL DEF Spec, SandboxSpec, SignInSpec, TabsSpec
<1>4. PkgCacheSpec /\ HeadlessSpec /\ WebPageSpec /\ ModelsSpec
        => [](PkgCacheTypeOK /\ HeadlessTypeOK /\ WebPageTypeOK /\ ModelsTypeOK)
  BY <1>1, InitPkgs, NextPkgs, HeadlessBegins, HeadlessKeepTypes, PageBegins, PageKeepsTypes, ModelsBegin,
     ModelsKeepTypes, PartsTyped, PTL DEF PkgCacheSpec, HeadlessSpec, WebPageSpec, ModelsSpec
<1>5. BagItSpec /\ SchemaSpec /\ ErrorLogSpec /\ WriteHereSpec /\ BrowserSpec
        => [](BagItTypeOK /\ SchemaTypeOK /\ ErrorLogTypeOK /\ WriteHereTypeOK /\ BrowserTypeOK)
  BY InitBag, NextBag, InitSchema, NextSchema, InitErrorLog, NextErrorLog, InitWriteHere, NextWriteHere,
     InitBrowser, NextBrowser, PartsTyped, PTL
     DEF BagItSpec, SchemaSpec, ErrorLogSpec, WriteHereSpec, BrowserSpec
<1> QED
  BY <1>2, <1>3, <1>4, <1>5, ServiceParts, PTL

\* What is proved of each part holds of the services side by side: the token
\* used is the latest, the sandbox tells what happened, the tabs and the browser
\* act on what they show, exit codes, pages and models tell the truth, records
\* stay and, with no timeout inside a frame, frames are whole; and no change of
\* the package cache is lost.
THEOREM ServicesHold ==
  ServicesSpec =>
    /\ [](/\ SignedInIsUsed /\ ToldWhatHappened /\ TabsTell /\ ExitTells /\ TextKept
          /\ QuestionsOnce /\ RecordsHold)
    /\ ("cut" \notin Faults => []FramesIntact)
    /\ ChangesStand
BY ServiceParts, LatestIsUsed, TellsWhatHappened, WhatIsShown, ExitCodesTell, PageKeepsTexts, ToldOnce,
   RecordsStay, FramesAreWhole, ChangesKept, PTL
=============================================================================

--------------------------- MODULE Session_proofs ---------------------------
(***************************************************************************)
(* The parts of a session, each on its own: what it shows is saved and     *)
(* what it deleted stays deleted; the settings are as they were chosen, a  *)
(* number picks what was read out, the queue of attachments is what the    *)
(* session says it is, and prompts and files come from where they should.  *)
(* At the end, that a session is made up of them, and keeps its types.     *)
(***************************************************************************)
EXTENDS MCSession,
        FiniteSetTheorems, WellFoundedInduction, TLAPS

-----------------------------------------------------------------------------
(* The saved conversations.                                                *)

TerminalSpec == TerminalInit /\ [][TerminalNext]_terminalVars

Talks == [id : Ids, archived : BOOLEAN, said : SUBSET (1 .. MaxSaid)]
Rows(table) == DOMAIN table \subseteq Ids /\ \A c \in DOMAIN table : table[c] \in Row
\* Every conversation of one table is in the other, with all its messages.
Within(less, more) ==
  \A c \in DOMAIN less : c \in DOMAIN more /\ less[c].said \subseteq more[c].said

\* The open conversation is none of those deleted: only so may a save of it
\* not bring one back.
TerminalInv ==
  /\ Rows(saved) /\ open \in Talks /\ writes \in BOOLEAN
  /\ Kept /\ DeletionIsFinal
  /\ open.id \notin erased

-----------------------------------------------------------------------------
(* The store.                                                              *)

LEMMA Recorded ==
  ASSUME Rows(saved), NEW conv \in Talks, NEW new \in SUBSET (1 .. MaxSaid)
  PROVE  /\ Rows(Record(conv, new))
         /\ DOMAIN Record(conv, new) = DOMAIN saved \cup {conv.id}
         /\ Within(saved, Record(conv, new))
         /\ new \subseteq Record(conv, new)[conv.id].said
<1> DEFINE old(c) == IF IsSaved(c) THEN saved[c].said ELSE {}
<1> DEFINE rec == Record(conv, new)
<1>1. DOMAIN rec = DOMAIN saved \cup {conv.id}
  BY DEF Record
<1>2. /\ rec[conv.id].archived = conv.archived /\ rec[conv.id].said = new \cup old(conv.id)
      /\ rec[conv.id] = [archived |-> conv.archived, said |-> new \cup old(conv.id)]
  BY DEF Record
<1>3. \A c \in DOMAIN saved \ {conv.id} : rec[c] = saved[c]
  BY DEF Record
<1>4. old(conv.id) \subseteq 1 .. MaxSaid
  BY DEF Rows, Row, IsSaved
<1>5. rec[conv.id] \in Row
  BY <1>2, <1>4 DEF Row, Talks
<1> HIDE DEF rec
<1>6. Rows(rec)
  BY <1>1, <1>3, <1>5 DEF Rows, Talks
<1>7. Within(saved, rec)
  BY <1>1, <1>2, <1>3 DEF Within, IsSaved
<1>8. new \subseteq rec[conv.id].said
  BY <1>2
<1> QED
  BY <1>1, <1>6, <1>7, <1>8 DEF rec

LEMMA SavedWritten ==
  ASSUME Rows(saved), NEW conv \in Talks, NEW new \in SUBSET (1 .. MaxSaid)
  PROVE  /\ Rows(Written(conv, new)) /\ Within(saved, Written(conv, new))
         /\ DOMAIN Written(conv, new) \subseteq DOMAIN saved \cup {conv.id}
         /\ writes => /\ conv.id \in DOMAIN Written(conv, new)
                      /\ new \subseteq Written(conv, new)[conv.id].said
<1>1. CASE writes
  BY <1>1, Recorded DEF Written
<1>2. CASE ~writes
  BY <1>2 DEF Written, Within
<1> QED
  BY <1>1, <1>2

LEMMA SavedFlagged ==
  ASSUME Rows(saved), NEW C, NEW flag \in BOOLEAN
  PROVE  /\ Rows(Flagged(C, flag)) /\ Within(saved, Flagged(C, flag))
         /\ DOMAIN Flagged(C, flag) = DOMAIN saved
<1>1. DOMAIN Flagged(C, flag) = DOMAIN saved
  BY DEF Flagged
<1>2. ASSUME NEW c \in DOMAIN saved
      PROVE  Flagged(C, flag)[c] \in Row /\ Flagged(C, flag)[c].said = saved[c].said
  BY <1>2 DEF Flagged, Rows, Row
<1> QED
  BY <1>1, <1>2 DEF Rows, Within

LEMMA SavedWithout ==
  ASSUME Rows(saved), NEW C
  PROVE  /\ Rows(Without(C)) /\ DOMAIN Without(C) = DOMAIN saved \ C
         /\ \A c \in DOMAIN saved \ C : Without(C)[c] = saved[c]
BY DEF Rows, Without

-----------------------------------------------------------------------------
(* The invariant.                                                          *)

\* A step that leaves the session alone and loses no message.
LEMMA NothingLost ==
  ASSUME TerminalInv, Rows(saved'), Within(saved, saved'),
         DOMAIN saved' \subseteq DOMAIN saved \cup {open.id},
         open'.id = open.id, open'.said = open.said, open' \in Talks,
         writes' = writes, erased' = erased, others' = others,
         status' = status \/ status' # "running"
  PROVE  TerminalInv'
<1>1. Kept'
  BY DEF TerminalInv, Kept, Running, IsSaved, Within
<1>2. DeletionIsFinal' /\ open'.id \notin erased'
  BY DEF TerminalInv, DeletionIsFinal, IsSaved
<1> QED
  BY <1>1, <1>2 DEF TerminalInv

\* A step to a new conversation that nothing was said in.
LEMMA OpensBlank ==
  ASSUME TerminalInv, Rows(saved'), NEW d \in Ids, open' = Blank(d), d \notin erased',
         writes' \in BOOLEAN, \A c \in erased' : c \notin DOMAIN saved'
  PROVE  TerminalInv'
<1>1. open' \in Talks /\ open'.id = d /\ open'.said = {}
  BY DEF Blank, Talks
<1> QED
  BY <1>1 DEF TerminalInv, Kept, DeletionIsFinal, IsSaved

\* A step to a saved conversation, or out of the session.
LEMMA Switched ==
  ASSUME TerminalInv, NEW c, SwitchTo(c), UNCHANGED <<saved, writes, erased>>
  PROVE  TerminalInv'
<1>1. CASE c \in Seen(Active \cup Archived)
  <2>1. c \in Ids /\ IsSaved(c) /\ c \notin erased
    BY <1>1 DEF Seen, Active, Archived, TerminalInv, DeletionIsFinal
  <2>2. open' = [id |-> c, archived |-> saved[c].archived, said |-> saved[c].said]
    BY <1>1 DEF SwitchTo
  <2>3. open' \in Talks /\ open'.id = c /\ open'.said = saved[c].said
    BY <2>1, <2>2 DEF Talks, TerminalInv, Rows, Row, IsSaved
  <2> QED
    BY <2>1, <2>3 DEF TerminalInv, Kept, DeletionIsFinal, IsSaved
<1>2. CASE c \notin Seen(Active \cup Archived)
  BY <1>2 DEF SwitchTo, TerminalInv, Kept, DeletionIsFinal, IsSaved, Running
<1> QED
  BY <1>1, <1>2

LEMMA TerminalInitInv == TerminalInit => TerminalInv
<1> SUFFICES ASSUME TerminalInit PROVE TerminalInv
  OBVIOUS
<1>1. DOMAIN saved = {}
  BY DEF TerminalInit
<1>2. PICK c \in Ids : open = Blank(c)
  BY DEF TerminalInit
<1>3. open \in Talks /\ open.said = {}
  BY <1>2 DEF Blank, Talks
<1> QED
  BY <1>1, <1>3 DEF TerminalInit, TerminalInv, Rows, Kept, DeletionIsFinal

LEMMA TerminalSay == ASSUME TerminalInv, Say PROVE TerminalInv'
<1>1. PICK m \in (1 .. MaxSaid) \ open.said :
        open' = [open EXCEPT !.said = @ \cup {m}] /\ saved' = Written(open, {m})
  BY DEF Say
<1>2. /\ Rows(saved') /\ Within(saved, saved')
      /\ DOMAIN saved' \subseteq DOMAIN saved \cup {open.id}
      /\ writes => open.id \in DOMAIN saved' /\ m \in saved'[open.id].said
  BY <1>1, SavedWritten DEF TerminalInv
<1>3. open' \in Talks /\ open'.id = open.id /\ open'.said = open.said \cup {m}
  BY <1>1 DEF TerminalInv, Talks
<1>4. UNCHANGED <<writes, status, erased, others>>
  BY DEF Say
<1>5. Kept'
  <2> SUFFICES ASSUME writes, others # "gone"
               PROVE  open.id \in DOMAIN saved' /\ open.said \cup {m} \subseteq saved'[open.id].said
    BY <1>3, <1>4 DEF Kept, IsSaved
  <2>1. open.said # {} => open.id \in DOMAIN saved /\ open.said \subseteq saved[open.id].said
    BY DEF Say, TerminalInv, Kept, IsSaved
  <2> QED
    BY <1>2, <2>1 DEF Within
<1>6. DeletionIsFinal' /\ open'.id \notin erased'
  BY <1>2, <1>3, <1>4 DEF TerminalInv, DeletionIsFinal, IsSaved
<1> QED
  BY <1>2, <1>3, <1>4, <1>5, <1>6 DEF TerminalInv

LEMMA TerminalToggle == ASSUME TerminalInv, ToggleWrites PROVE TerminalInv'
<1>1. writes' = ~writes /\ UNCHANGED <<open, status, erased>>
  BY DEF ToggleWrites, session
<1>2. CASE ~writes /\ open.said # {}
  <2>1. saved' = Record(open, open.said)
    BY <1>2 DEF ToggleWrites
  <2>2. Rows(saved') /\ DOMAIN saved' = DOMAIN saved \cup {open.id}
        /\ open.said \subseteq saved'[open.id].said
    BY <2>1, Recorded DEF TerminalInv, Talks
  <2> QED
    BY <1>1, <2>2 DEF TerminalInv, Kept, DeletionIsFinal, IsSaved
<1>3. CASE writes \/ open.said = {}
  BY <1>1, <1>3 DEF ToggleWrites, TerminalInv, Kept, DeletionIsFinal, IsSaved
<1> QED
  BY <1>2, <1>3 DEF TerminalInv

LEMMA TerminalDelete == ASSUME TerminalInv, NEW c \in Ids, Delete(c) PROVE TerminalInv'
<1>1. UNCHANGED <<writes, status>>
  BY DEF Delete
<1>2. CASE writes /\ IsSaved(c)
  <2>1. saved' = Without({c}) /\ erased' = erased \cup {c}
    BY <1>2 DEF Delete
  <2>2. /\ Rows(saved') /\ DOMAIN saved' = DOMAIN saved \ {c}
        /\ \A d \in DOMAIN saved \ {c} : saved'[d] = saved[d]
    BY <2>1, SavedWithout DEF TerminalInv
  <2>3. \A d \in erased' : d \notin DOMAIN saved'
    BY <2>1, <2>2 DEF TerminalInv, DeletionIsFinal, IsSaved
  <2>4. CASE c = open.id
    <3>1. PICK d \in Ids : Fresh(d) /\ open' = Blank(d)
      BY <1>2, <2>4 DEF Delete
    <3>2. d \notin erased'
      BY <2>1, <2>4, <3>1 DEF Fresh
    <3> QED
      BY <1>1, <2>2, <2>3, <3>1, <3>2, OpensBlank DEF TerminalInv
  <2>5. CASE c # open.id
    <3>1. UNCHANGED <<open, others>>
      BY <1>2, <2>5 DEF Delete
    <3> QED
      BY <1>1, <2>1, <2>2, <2>3, <2>5, <3>1 DEF TerminalInv, Kept, DeletionIsFinal, IsSaved, Running
  <2> QED
    BY <2>4, <2>5
<1>3. CASE ~(writes /\ IsSaved(c))
  BY <1>1, <1>3, NothingLost DEF Delete, TerminalInv, Within
<1> QED
  BY <1>2, <1>3

LEMMA TerminalUnarchive == ASSUME TerminalInv, NEW c \in Ids, Unarchive(c) PROVE TerminalInv'
<1>1. UNCHANGED <<writes, status, erased, others>>
  BY DEF Unarchive
<1>2. saved' = saved \/ saved' = Flagged({c}, FALSE)
  BY DEF Unarchive
<1>3. Rows(saved') /\ Within(saved, saved') /\ DOMAIN saved' \subseteq DOMAIN saved \cup {open.id}
  BY <1>2, SavedFlagged DEF TerminalInv, Within
<1>4. open' = open \/ open' = [open EXCEPT !.archived = FALSE]
  BY DEF Unarchive
<1>5. open' \in Talks /\ open'.id = open.id /\ open'.said = open.said
  BY <1>4 DEF TerminalInv, Talks
<1> QED
  BY <1>1, <1>3, <1>5, NothingLost

LEMMA TerminalStart ==
  ASSUME TerminalInv, NEW c \in Ids, NEW expired \in SUBSET Ids,
         Chat(c, expired) \/ ResumeAtStart(c, expired)
  PROVE  TerminalInv'
<1>1. writes' \in BOOLEAN /\ saved' = Pruned(expired) /\ erased' = erased
  BY DEF Chat, ResumeAtStart
<1>2. /\ Rows(saved') /\ DOMAIN saved' \subseteq DOMAIN saved
      /\ \A d \in DOMAIN saved' : saved'[d] = saved[d]
  <2>1. saved' = saved \/ saved' = Without(expired)
    BY <1>1 DEF Pruned
  <2>2. CASE saved' = saved
    BY <2>2 DEF TerminalInv, Rows
  <2>3. CASE saved' = Without(expired)
    <3>1. Rows(saved)
      BY DEF TerminalInv
    <3>2. /\ Rows(Without(expired)) /\ DOMAIN Without(expired) = DOMAIN saved \ expired
          /\ \A d \in DOMAIN saved \ expired : Without(expired)[d] = saved[d]
      BY <3>1, SavedWithout
    <3>3. Rows(saved')
      BY <2>3, <3>2 DEF Rows
    <3> QED
      BY <2>3, <3>2, <3>3
  <2> QED
    BY <2>1, <2>2, <2>3
<1>3. \A d \in erased' : d \notin DOMAIN saved'
  BY <1>1, <1>2 DEF TerminalInv, DeletionIsFinal, IsSaved
<1>4. CASE Chat(c, expired)
  <2>1. c \notin erased' /\ open' = Blank(c)
    BY <1>4 DEF Chat, StartWith
  <2> QED
    BY <1>1, <1>2, <1>3, <2>1, OpensBlank
<1>5. CASE ResumeAtStart(c, expired)
  <2>1. c \in DOMAIN saved' /\ open' = [id |-> c, archived |-> FALSE, said |-> saved[c].said]
    BY <1>5 DEF ResumeAtStart, StartWith
  <2>2. open' \in Talks /\ open'.id = c /\ open'.said = saved'[c].said
    BY <1>2, <2>1 DEF Talks, Rows, Row
  <2> QED
    BY <1>1, <1>2, <1>3, <2>1, <2>2 DEF TerminalInv, Kept, DeletionIsFinal, IsSaved
<1> QED
  BY <1>4, <1>5

LEMMA TerminalElsewhere == ASSUME TerminalInv, NEW c \in Ids, Elsewhere(c) PROVE TerminalInv'
<1>1. UNCHANGED <<open, writes, status, erased>>
  BY DEF Elsewhere, session, stores
<1>2. CASE saved' = Flagged({c}, ~saved[c].archived) \/ saved' = Flagged(Ids, FALSE)
  <2>1. saved[c].archived \in BOOLEAN
    BY DEF Elsewhere, IsSaved, TerminalInv, Rows, Row
  <2>2. Rows(saved') /\ Within(saved, saved') /\ DOMAIN saved' = DOMAIN saved
    BY <1>2, <2>1, SavedFlagged DEF TerminalInv
  <2>3. Kept'
    <3>1. others = "gone" => others' = "gone"
      BY <1>2 DEF Elsewhere
    <3> QED
      BY <1>1, <2>2, <3>1 DEF TerminalInv, Kept, Running, IsSaved, Within
  <2> QED
    BY <1>1, <2>2, <2>3 DEF TerminalInv, DeletionIsFinal, IsSaved
<1>3. CASE saved' = Without({c}) /\ others' = IF c = open.id THEN "gone" ELSE others
  <2>1. /\ Rows(saved') /\ DOMAIN saved' = DOMAIN saved \ {c}
        /\ \A d \in DOMAIN saved \ {c} : saved'[d] = saved[d]
    BY <1>3, SavedWithout DEF TerminalInv
  <2> QED
    BY <1>1, <1>3, <2>1 DEF TerminalInv, Kept, Running, IsSaved, DeletionIsFinal
<1> QED
  BY <1>2, <1>3 DEF Elsewhere

LEMMA TerminalNextInv == TerminalInv /\ [TerminalNext]_terminalVars => TerminalInv'
<1> SUFFICES ASSUME TerminalInv, [TerminalNext]_terminalVars PROVE TerminalInv'
  OBVIOUS
<1>0. open \in Talks /\ Rows(saved) /\ writes \in BOOLEAN
  BY DEF TerminalInv
<1>1. CASE Say
  BY <1>1, TerminalSay
<1>2. CASE Title
  <2>1. saved' = Written(open, {}) /\ UNCHANGED <<open, writes, status, erased, others>>
    BY <1>2 DEF Title, session
  <2> QED
    BY <1>0, <2>1, SavedWritten, NothingLost
<1>3. CASE ShowList \/ Leave \/ UNCHANGED terminalVars
  <2>1. /\ UNCHANGED <<saved, open, writes, erased, others>>
        /\ status' = status \/ status' # "running"
    BY <1>3 DEF ShowList, Leave, terminalVars, session, stores
  <2> QED
    BY <1>0, <2>1, NothingLost DEF Within
<1>4. CASE UnarchiveAll
  <2>1. /\ saved' = saved \/ saved' = Flagged(Ids, FALSE)
        /\ UNCHANGED <<open, writes, status, erased, others>>
    BY <1>4 DEF UnarchiveAll, session
  <2>2. Rows(saved') /\ Within(saved, saved') /\ DOMAIN saved' \subseteq DOMAIN saved \cup {open.id}
    BY <1>0, <2>1, SavedFlagged DEF Within
  <2> QED
    BY <1>0, <2>1, <2>2, NothingLost
<1>5. CASE ToggleWrites
  BY <1>5, TerminalToggle
<1>6. CASE Finalize
  <2>1. /\ saved' = saved \/ saved' = Without(Ids)
        /\ UNCHANGED <<open, writes, erased>> /\ status' = "ended"
    BY <1>6 DEF Finalize, Nuked, session
  <2>2. Rows(saved') /\ DOMAIN saved' \subseteq DOMAIN saved
    BY <1>0, <2>1, SavedWithout
  <2> QED
    BY <2>1, <2>2 DEF TerminalInv, Kept, Running, DeletionIsFinal, IsSaved
<1>7. ASSUME NEW c \in Ids, New(c) \/ Archive(c) PROVE TerminalInv'
  <2>1. open' = Blank(c) /\ c \notin erased /\ c # open.id /\ c \notin DOMAIN saved
    BY <1>7 DEF New, Archive, ResetTo, Fresh, IsSaved
  <2>2. UNCHANGED <<writes, erased>>
    BY <1>7 DEF New, Archive, stores
  <2>3. Rows(saved') /\ DOMAIN saved' \subseteq DOMAIN saved \cup {open.id}
    <3>1. [open EXCEPT !.archived = TRUE] \in Talks /\ [open EXCEPT !.archived = TRUE].id = open.id
      BY <1>0 DEF Talks
    <3>2. CASE Archive(c)
      BY <1>0, <3>1, <3>2, SavedWritten DEF Archive
    <3>3. CASE New(c)
      BY <1>0, <3>3 DEF New
    <3> QED
      BY <1>7, <3>2, <3>3
  <2>4. \A d \in erased' : d \notin DOMAIN saved'
    BY <2>2, <2>3 DEF TerminalInv, DeletionIsFinal, IsSaved
  <2> QED
    BY <1>0, <2>1, <2>2, <2>3, <2>4, OpensBlank
<1>8. ASSUME NEW c \in Ids, Resume(c) \/ Search(c) PROVE TerminalInv'
  <2>1. SwitchTo(c) /\ UNCHANGED <<saved, writes, erased>>
    BY <1>8 DEF Resume, Search
  <2> QED
    BY <2>1, Switched
<1>9. ASSUME NEW c \in Ids, Delete(c) PROVE TerminalInv'
  BY <1>9, TerminalDelete
<1>10. ASSUME NEW c \in Ids, Unarchive(c) PROVE TerminalInv'
  BY <1>10, TerminalUnarchive
<1>11. ASSUME NEW c \in Ids, Elsewhere(c) PROVE TerminalInv'
  BY <1>11, TerminalElsewhere
<1>12. ASSUME NEW c \in Ids, NEW expired \in SUBSET Ids,
              Chat(c, expired) \/ ResumeAtStart(c, expired)
       PROVE  TerminalInv'
  BY <1>12, TerminalStart
<1> QED
  BY <1>1, <1>2, <1>3, <1>4, <1>5, <1>6, <1>7, <1>8, <1>9, <1>10, <1>11, <1>12 DEF TerminalNext

\* Whatever is said, opened, archived and deleted in a session and by other
\* processes, with local writes turned off and on between, the database has
\* what the session shows and nothing the session deleted (toggle_no_write,
\* handle_slash_command "/delete").
THEOREM SessionIsSaved == TerminalSpec => []SavedAndDeleted
<1>1. TerminalInv => SavedAndDeleted
  BY DEF TerminalInv, SavedAndDeleted
<1> QED
  BY <1>1, TerminalInitInv, TerminalNextInv, PTL DEF TerminalSpec
-----------------------------------------------------------------------------
(* The settings.                                                           *)

SettingsSpec == SettingsInit /\ [][SettingsNext]_settingsVars

\* Until a command without writes, the session's copies of the timer are what
\* was chosen, so whichever of them is saved keeps it; and no command of a
\* session changes whether streaming may be turned off.
SettingsInv ==
  /\ SettingsTypeOK
  /\ toml.there = "no" => toml = Built
  /\ run.on /\ asked.kept => run.dots = asked.dots /\ cfg.dots = asked.dots
  /\ run.on => cfg.hold = toml.hold
  /\ ChoicesHold

LEMMA RenderedKinds ==
  ASSUME NEW c \in Kinds
  PROVE  /\ Rendered(c) \in Kinds /\ Rendered(c).there = "new"
         /\ Rendered(c).dots = c.dots /\ Rendered(c).hold = c.hold /\ Rendered(c).nowrite = c.nowrite
BY DEF Rendered, Kinds

LEMMA LoadedKinds ==
  ASSUME SettingsInv
  PROVE  /\ Loaded(toml) \in Kinds
         /\ Loaded(toml).dots = toml.dots /\ Loaded(toml).hold = toml.hold
         /\ Loaded(toml).nowrite = toml.nowrite
<1>1. Applied(toml) = toml
  BY DEF SettingsInv, Applied
<1>2. toml \in Kinds /\ world \in [env : BOOLEAN, ring : BOOLEAN]
  BY DEF SettingsInv, SettingsTypeOK
<1> QED
  BY <1>1, <1>2 DEF Loaded, Kinds

\* Reading the file that the setup has written gives what it wrote.
LEMMA WizardKinds ==
  ASSUME SettingsInv, NEW a \in Answers(Loaded(toml).token)
  PROVE  /\ Wizard(a) \in Kinds /\ Wizard(a).there = "new"
         /\ Wizard(a).dots = a.dots /\ Wizard(a).hold = toml.hold /\ Wizard(a).nowrite = a.nowrite
         /\ Loaded(Wizard(a)) \in Kinds
         /\ Loaded(Wizard(a)).dots = a.dots /\ Loaded(Wizard(a)).hold = toml.hold
         /\ a.dots \in BOOLEAN /\ a.nowrite \in BOOLEAN
<1> DEFINE l == Loaded(toml)
<1> DEFINE c == [l EXCEPT !.blind = a.blind, !.nowrite = a.nowrite, !.top = a.top, !.token = @ \/ a.login]
<1> DEFINE d == [c EXCEPT !.dots = a.dots, !.streaming = a.streaming]
<1>1. l \in Kinds /\ l.hold = toml.hold
  BY LoadedKinds
<1>2. /\ a.blind \in BOOLEAN /\ a.nowrite \in BOOLEAN /\ a.dots \in BOOLEAN
      /\ a.streaming \in BOOLEAN /\ a.top \in Ranks /\ a.login \in BOOLEAN
  BY DEF Answers
<1> HIDE DEF l
<1>3. c \in Kinds /\ c.hold = l.hold /\ c.nowrite = a.nowrite
  BY <1>1, <1>2, ZenonT(60) DEF Kinds
<1> HIDE DEF c
<1>4. d \in Kinds /\ d.hold = l.hold /\ d.nowrite = a.nowrite /\ d.dots = a.dots
  BY <1>2, <1>3 DEF Kinds
<1>5. Wizard(a) = Rendered(d)
  BY DEF Wizard, Advanced, d, c, l
<1> HIDE DEF d
<1>6. /\ Wizard(a) \in Kinds /\ Wizard(a).there = "new"
      /\ Wizard(a).dots = a.dots /\ Wizard(a).hold = toml.hold /\ Wizard(a).nowrite = a.nowrite
  BY <1>1, <1>4, <1>5, RenderedKinds
<1>7. /\ Loaded(Wizard(a)) \in Kinds
      /\ Loaded(Wizard(a)).dots = a.dots /\ Loaded(Wizard(a)).hold = toml.hold
  <2>1. Loaded(Wizard(a)) = [Wizard(a) EXCEPT !.token = @ \/ world.env \/ world.ring]
    BY <1>6 DEF Loaded, Applied
  <2>2. world \in [env : BOOLEAN, ring : BOOLEAN]
    BY DEF SettingsInv, SettingsTypeOK
  <2> QED
    BY <1>6, <2>1, <2>2 DEF Kinds
<1> QED
  BY <1>2, <1>6, <1>7

\* A session starts with the configuration it was given, or does not start.
LEMMA BeginInv ==
  ASSUME SettingsTypeOK, NEW c \in Kinds, NEW noStream \in BOOLEAN, Begin(c, noStream), ~run.on
  PROVE  /\ cfg' \in Kinds /\ run' \in [on : BOOLEAN, streaming : BOOLEAN, dots : BOOLEAN, blind : BOOLEAN]
         /\ mark' \in [active : Marks, last : Marks]
         /\ run'.on => cfg' = c /\ run'.dots = c.dots
         /\ run'.on /\ front = "terminal" /\ ~run'.streaming => c.hold
<1>1. CASE ~c.token
  BY <1>1 DEF Begin, SettingsTypeOK
<1>2. CASE c.token
  <2>1. Streams(c, noStream) \in BOOLEAN
    BY DEF Streams, Kinds
  <2>2. cfg' = c /\ run' = [on |-> TRUE, streaming |-> Streams(c, noStream), dots |-> c.dots, blind |-> c.blind]
    BY <1>2 DEF Begin
  <2>3. mark' \in [active : Marks, last : Marks]
    BY <1>2 DEF Begin, Marks
  <2>4. front = "terminal" /\ ~Streams(c, noStream) => c.hold
    BY DEF Streams
  <2> QED
    BY <2>1, <2>2, <2>3, <2>4 DEF Kinds
<1> QED
  BY <1>1, <1>2

LEMMA SettingsInitInv == SettingsInit => SettingsInv
<1> SUFFICES ASSUME SettingsInit PROVE SettingsInv
  OBVIOUS
<1>1. 0 \in Ranks /\ MaxRank \in Ranks /\ -1 \in Marks
  BY SettingsAssumption DEF Ranks, Marks
<1>2. Built \in Kinds
  BY <1>1 DEF Built, Kinds
<1>3. toml \in Kinds /\ (toml.there = "no" => toml = Built)
  <2>1. CASE toml = Built
    BY <1>2, <2>1
  <2>2. CASE toml # Built
    BY <1>1, <2>2 DEF SettingsInit, Kinds
  <2> QED
    BY <2>1, <2>2
<1>4. run.on = FALSE
  BY DEF SettingsInit, Off
<1>5. toml.dots \in BOOLEAN /\ toml.nowrite \in BOOLEAN
  BY <1>3 DEF Kinds
<1>6. asked = [dots |-> toml.dots, kept |-> TRUE, nowrite |-> toml.nowrite]
  BY DEF SettingsInit
<1>7. SettingsTypeOK
  BY <1>1, <1>2, <1>3, <1>5, <1>6 DEF SettingsInit, SettingsTypeOK, Off, NoMark
<1>8. ChoicesHold
  BY <1>4, <1>6 DEF ChoicesHold, ChoiceIsKept, NoWriteIsNotSaved, TerminalStreams
<1> QED
  BY <1>3, <1>4, <1>7, <1>8 DEF SettingsInv
LEMMA StartSettings == ASSUME SettingsInv, NEW flags \in Flags, Start(flags) PROVE SettingsInv'
<1> DEFINE l == Loaded(toml)
<1> DEFINE c == [l EXCEPT !.blind = @ \/ flags.blind]
<1>1. l \in Kinds /\ l.dots = toml.dots /\ l.hold = toml.hold
  BY LoadedKinds
<1>2. flags.blind \in BOOLEAN /\ flags.noStream \in BOOLEAN
  BY DEF Flags
<1>3. ~run.on /\ UNCHANGED <<front, world, toml, asked>> /\ Begin(c, flags.noStream)
  BY DEF Start
<1> HIDE DEF l
<1>4. c \in Kinds /\ c.dots = l.dots /\ c.hold = l.hold
  BY <1>1, <1>2 DEF Kinds
<1> HIDE DEF c
<1>5. /\ cfg' \in Kinds /\ run' \in [on : BOOLEAN, streaming : BOOLEAN, dots : BOOLEAN, blind : BOOLEAN]
      /\ mark' \in [active : Marks, last : Marks]
      /\ run'.on => cfg' = c /\ run'.dots = c.dots
      /\ run'.on /\ front = "terminal" /\ ~run'.streaming => c.hold
  BY <1>2, <1>3, <1>4, BeginInv DEF SettingsInv
<1>6. SettingsTypeOK'
  BY <1>3, <1>5 DEF SettingsInv, SettingsTypeOK
<1> QED
  BY <1>1, <1>3, <1>4, <1>5, <1>6
     DEF SettingsInv, ChoicesHold, ChoiceIsKept, NoWriteIsNotSaved, TerminalStreams

LEMMA FirstSetupSettings ==
  ASSUME SettingsInv, NEW a \in Answers(Loaded(toml).token), NEW noStream \in BOOLEAN,
         FirstSetup(a, noStream)
  PROVE  SettingsInv'
<1> DEFINE w == Wizard(a)
<1> DEFINE c == Loaded(w)
<1>1. /\ w \in Kinds /\ w.there = "new" /\ w.dots = a.dots /\ w.hold = toml.hold /\ w.nowrite = a.nowrite
      /\ c \in Kinds /\ c.dots = a.dots /\ c.hold = toml.hold
      /\ a.dots \in BOOLEAN /\ a.nowrite \in BOOLEAN
  BY WizardKinds
<1>2. /\ ~run.on /\ UNCHANGED <<front, world>> /\ toml' = w /\ Begin(c, noStream)
      /\ asked' = [dots |-> a.dots, kept |-> TRUE, nowrite |-> a.nowrite]
  BY DEF FirstSetup, Answered
<1> HIDE DEF w, c
<1>3. /\ cfg' \in Kinds /\ run' \in [on : BOOLEAN, streaming : BOOLEAN, dots : BOOLEAN, blind : BOOLEAN]
      /\ mark' \in [active : Marks, last : Marks]
      /\ run'.on => cfg' = c /\ run'.dots = c.dots
      /\ run'.on /\ front = "terminal" /\ ~run'.streaming => c.hold
  BY <1>1, <1>2, BeginInv DEF SettingsInv
<1>4. SettingsTypeOK'
  BY <1>1, <1>2, <1>3 DEF SettingsInv, SettingsTypeOK
<1> QED
  BY <1>1, <1>2, <1>3, <1>4
     DEF SettingsInv, ChoicesHold, ChoiceIsKept, NoWriteIsNotSaved, TerminalStreams

LEMMA SetupSettings ==
  ASSUME SettingsInv, NEW a \in Answers(Loaded(toml).token), Setup(a)
  PROVE  SettingsInv'
<1> DEFINE w == Wizard(a)
<1> DEFINE c == Loaded(w)
<1>1. /\ w \in Kinds /\ w.there = "new" /\ w.dots = a.dots /\ w.hold = toml.hold /\ w.nowrite = a.nowrite
      /\ c \in Kinds /\ c.dots = a.dots /\ c.hold = toml.hold
      /\ a.dots \in BOOLEAN /\ a.nowrite \in BOOLEAN
  BY WizardKinds
<1>2. /\ run.on /\ UNCHANGED <<front, world, mark>> /\ toml' = w /\ cfg' = c
      /\ run' = [run EXCEPT !.dots = a.dots]
      /\ asked' = [dots |-> a.dots, kept |-> TRUE, nowrite |-> a.nowrite]
  BY DEF Setup, Answered
<1> HIDE DEF w, c
<1>3. /\ run' \in [on : BOOLEAN, streaming : BOOLEAN, dots : BOOLEAN, blind : BOOLEAN]
      /\ run'.dots = a.dots /\ run'.streaming = run.streaming /\ run'.on
  BY <1>1, <1>2 DEF SettingsInv, SettingsTypeOK
<1>4. SettingsTypeOK'
  BY <1>1, <1>2, <1>3 DEF SettingsInv, SettingsTypeOK
<1> QED
  BY <1>1, <1>2, <1>3, <1>4
     DEF SettingsInv, ChoicesHold, ChoiceIsKept, NoWriteIsNotSaved, TerminalStreams

\* A command that saves a configuration with the chosen timer and the same
\* ways to stream, or saves nothing.
LEMMA PersistSettings ==
  ASSUME SettingsInv, run.on, NEW c \in Kinds, c.hold = cfg.hold,
         ~c.nowrite \/ front = "window" => (asked'.kept => c.dots = asked'.dots),
         \/ toml' = toml /\ (asked'.kept => asked.kept /\ asked'.dots = asked.dots)
         \/ toml' = Rendered(c) /\ (front = "window" \/ ~c.nowrite),
         asked' \in [dots : BOOLEAN, kept : BOOLEAN, nowrite : BOOLEAN], asked'.nowrite = asked.nowrite,
         cfg' \in Kinds, cfg'.hold = cfg.hold,
         run' \in [on : BOOLEAN, streaming : BOOLEAN, dots : BOOLEAN, blind : BOOLEAN],
         run'.streaming = run.streaming, run'.on,
         asked'.kept => run'.dots = asked'.dots /\ cfg'.dots = asked'.dots,
         UNCHANGED <<front, world, mark>>
  PROVE  SettingsInv'
<1>1. /\ Rendered(c) \in Kinds /\ Rendered(c).there = "new"
      /\ Rendered(c).dots = c.dots /\ Rendered(c).hold = c.hold /\ Rendered(c).nowrite = c.nowrite
  BY RenderedKinds
<1>2. toml' \in Kinds /\ (toml'.there = "no" => toml' = Built) /\ toml'.hold = toml.hold
  BY <1>1 DEF SettingsInv, SettingsTypeOK
<1>3. SettingsTypeOK'
  BY <1>2 DEF SettingsInv, SettingsTypeOK
<1>4. ChoiceIsKept'
  BY <1>1 DEF SettingsInv, ChoicesHold, ChoiceIsKept
<1>5. NoWriteIsNotSaved' /\ TerminalStreams'
  BY <1>1 DEF SettingsInv, ChoicesHold, NoWriteIsNotSaved, TerminalStreams
<1> QED
  BY <1>2, <1>3, <1>4, <1>5 DEF SettingsInv, ChoicesHold

LEMMA DotTimerSettings == ASSUME SettingsInv, NEW on \in BOOLEAN, DotTimer(on) PROVE SettingsInv'
<1> DEFINE c == [cfg EXCEPT !.blind = run.blind, !.dots = IF cfg.nowrite THEN @ ELSE on]
<1>1. /\ run.on /\ UNCHANGED <<front, world, mark>> /\ run' = [run EXCEPT !.dots = on]
      /\ asked' = [asked EXCEPT !.dots = on, !.kept = ~cfg.nowrite]
      /\ cfg' = IF cfg.nowrite THEN cfg ELSE c
      /\ IF c.nowrite THEN toml' = toml ELSE toml' = Rendered(c)
  BY DEF DotTimer, Persist
<1>2. /\ cfg \in Kinds /\ run \in [on : BOOLEAN, streaming : BOOLEAN, dots : BOOLEAN, blind : BOOLEAN]
      /\ asked \in [dots : BOOLEAN, kept : BOOLEAN, nowrite : BOOLEAN]
  BY DEF SettingsInv, SettingsTypeOK
<1>3. /\ c \in Kinds /\ c.hold = cfg.hold /\ c.nowrite = cfg.nowrite
      /\ ~cfg.nowrite => c.dots = on
  BY <1>2 DEF Kinds
<1> HIDE DEF c
<1>4. /\ run' \in [on : BOOLEAN, streaming : BOOLEAN, dots : BOOLEAN, blind : BOOLEAN]
      /\ run'.streaming = run.streaming /\ run'.on /\ run'.dots = on
      /\ asked' \in [dots : BOOLEAN, kept : BOOLEAN, nowrite : BOOLEAN]
      /\ asked'.nowrite = asked.nowrite /\ asked'.dots = on /\ asked'.kept = ~cfg.nowrite
  BY <1>1, <1>2 DEF Kinds
<1>5. cfg.nowrite \in BOOLEAN
  BY <1>2 DEF Kinds
<1>6. cfg' \in Kinds /\ cfg'.hold = cfg.hold /\ (~cfg.nowrite => cfg'.dots = on)
  BY <1>1, <1>2, <1>3
<1> QED
  BY <1>1, <1>3, <1>4, <1>5, <1>6, PersistSettings

LEMMA BlindModeSettings == ASSUME SettingsInv, NEW on \in BOOLEAN, BlindMode(on) PROVE SettingsInv'
<1> DEFINE c == [cfg EXCEPT !.blind = on, !.dots = IF cfg.nowrite THEN @ ELSE run.dots]
<1>1. /\ run.on /\ UNCHANGED <<front, world, mark, asked>> /\ run' = [run EXCEPT !.blind = on]
      /\ cfg' = c
      /\ IF c.nowrite THEN toml' = toml ELSE toml' = Rendered(c)
  BY DEF BlindMode, Persist
<1>2. /\ cfg \in Kinds /\ run \in [on : BOOLEAN, streaming : BOOLEAN, dots : BOOLEAN, blind : BOOLEAN]
      /\ asked \in [dots : BOOLEAN, kept : BOOLEAN, nowrite : BOOLEAN]
      /\ asked.kept => run.dots = asked.dots /\ cfg.dots = asked.dots
  BY <1>1 DEF SettingsInv, SettingsTypeOK
<1>3. /\ c \in Kinds /\ c.hold = cfg.hold /\ c.nowrite = cfg.nowrite
      /\ c.dots = cfg.dots \/ c.dots = run.dots
  BY <1>2 DEF Kinds
<1> HIDE DEF c
<1>4. /\ run' \in [on : BOOLEAN, streaming : BOOLEAN, dots : BOOLEAN, blind : BOOLEAN]
      /\ run'.streaming = run.streaming /\ run'.on /\ run'.dots = run.dots
  BY <1>1, <1>2
<1>5. asked.kept => c.dots = asked.dots
  BY <1>2, <1>3
<1> QED
  BY <1>1, <1>2, <1>3, <1>4, <1>5, PersistSettings

LEMMA StreamSettings == ASSUME SettingsInv, NEW on \in BOOLEAN, Stream(on) PROVE SettingsInv'
<1>1. /\ run.on /\ UNCHANGED <<front, world, toml, cfg, mark, asked>>
      /\ run' = [run EXCEPT !.streaming = on \/ ~cfg.hold]
  BY DEF Stream
<1>2. cfg.hold \in BOOLEAN /\ run \in [on : BOOLEAN, streaming : BOOLEAN, dots : BOOLEAN, blind : BOOLEAN]
  BY DEF SettingsInv, SettingsTypeOK, Kinds
<1>3. /\ run' \in [on : BOOLEAN, streaming : BOOLEAN, dots : BOOLEAN, blind : BOOLEAN]
      /\ run'.on /\ run'.dots = run.dots /\ run'.streaming = (on \/ ~cfg.hold)
  BY <1>1, <1>2
<1> QED
  BY <1>1, <1>2, <1>3 DEF SettingsInv, SettingsTypeOK, ChoicesHold, ChoiceIsKept, NoWriteIsNotSaved, TerminalStreams

LEMMA SettingsNextInv == SettingsInv /\ [SettingsNext]_settingsVars => SettingsInv'
<1> SUFFICES ASSUME SettingsInv, [SettingsNext]_settingsVars PROVE SettingsInv'
  OBVIOUS
<1>0. /\ -1 \in Marks /\ Ranks \subseteq Marks
      /\ mark \in [active : Marks, last : Marks] /\ cfg \in Kinds
      /\ run \in [on : BOOLEAN, streaming : BOOLEAN, dots : BOOLEAN, blind : BOOLEAN]
      /\ asked \in [dots : BOOLEAN, kept : BOOLEAN, nowrite : BOOLEAN]
  BY DEF SettingsInv, SettingsTypeOK, Marks
<1>1. CASE Stop
  <2>1. cfg' \in Kinds
    BY <1>1, SettingsAssumption DEF Stop, Built, Kinds, Ranks
  <2>2. /\ UNCHANGED <<front, world, toml, asked>> /\ ~run'.on /\ mark' \in [active : Marks, last : Marks]
        /\ run' \in [on : BOOLEAN, streaming : BOOLEAN, dots : BOOLEAN, blind : BOOLEAN]
    BY <1>0, <1>1 DEF Stop, Off, NoMark
  <2> QED
    BY <2>1, <2>2
       DEF SettingsInv, SettingsTypeOK, ChoicesHold, ChoiceIsKept, NoWriteIsNotSaved, TerminalStreams
<1>2. CASE Tutorial \/ Theme
  <2>1. /\ run.on /\ UNCHANGED <<front, world, cfg, run, mark, asked>>
        /\ toml' = toml \/ (toml' = Rendered(cfg) /\ (front = "window" \/ ~cfg.nowrite))
    BY <1>2 DEF Tutorial, Theme, Persist
  <2>2. asked.kept => run.dots = asked.dots /\ cfg.dots = asked.dots
    BY <2>1 DEF SettingsInv
  <2> QED
    BY <1>0, <2>1, <2>2, PersistSettings
<1>3. ASSUME NEW r \in Ranks, NewUnmarked \/ Classify(r) \/ NewMarked(r) \/ UNCHANGED settingsVars
      PROVE  SettingsInv'
  <2>1. UNCHANGED <<front, world, toml, cfg, run, asked>>
    BY <1>3 DEF NewUnmarked, Classify, NewMarked, settingsVars
  <2>2. mark' \in [active : Marks, last : Marks]
    BY <1>0, <1>3 DEF NewUnmarked, Classify, NewMarked, settingsVars
  <2> QED
    BY <2>1, <2>2
       DEF SettingsInv, SettingsTypeOK, ChoicesHold, ChoiceIsKept, NoWriteIsNotSaved, TerminalStreams
<1>4. ASSUME NEW on \in BOOLEAN, NoWrite(on) PROVE SettingsInv'
  <2>1. /\ run.on /\ UNCHANGED <<front, world, toml, run, mark, asked>>
        /\ cfg' = [cfg EXCEPT !.nowrite = on]
    BY <1>4 DEF NoWrite
  <2>2. cfg' \in Kinds /\ cfg'.dots = cfg.dots /\ cfg'.hold = cfg.hold
    BY <1>0, <2>1 DEF Kinds
  <2> QED
    BY <2>1, <2>2
       DEF SettingsInv, SettingsTypeOK, ChoicesHold, ChoiceIsKept, NoWriteIsNotSaved, TerminalStreams
<1>5. 0 \in Ranks
  BY SettingsAssumption DEF Ranks
<1> QED
  BY <1>1, <1>2, <1>3, <1>4, <1>5, StartSettings, FirstSetupSettings, SetupSettings,
     DotTimerSettings, BlindModeSettings, StreamSettings
     DEF SettingsNext

\* Whatever the session, the guided setup and the window save, and in which
\* order, the choice last made with writes on is in the file, the no-write
\* mode of a session is not, and the terminal streams unless the file allows
\* otherwise (persist_chat_preferences, run_init_wizard, toggle_no_write).
THEOREM ChoicesAreKept == SettingsSpec => []ChoicesHold
<1>1. SettingsInv => ChoicesHold
  BY DEF SettingsInv
<1> QED
  BY <1>1, SettingsInitInv, SettingsNextInv, PTL DEF SettingsSpec
-----------------------------------------------------------------------------
(* Picking from a list.                                                    *)

PickerSpec == PickerInit /\ [][PickerNext]_pickerVars

\* What a number picks is what was read out under it.  The list may have
\* become empty since, so that what was read before is still there to be
\* compared with: then no number picks.
AsRead ==
  /\ way # "one" => \A n \in DOMAIN read \cap DOMAIN Numbered : read[n] = Numbered[n]
  /\ way = "one" => read = [n \in {0} |-> active[at]]

PickerInv ==
  /\ way \in {"all", "paged", "one", "blind", "many"}
  /\ active = << >> => at = 1
  /\ AsRead
  /\ PicksWhatWasRead

LEMMA NothingOnThePage == Chunk(<< >>, 1) = << >>
<1>1. Size \in Nat
  BY PickerAssumption DEF Size
<1>2. Least(1 * Size, Len(<< >>)) = 0
  BY <1>1 DEF Least
<1> QED
  BY <1>1, <1>2 DEF Chunk

\* A page that is read out has the numbers that pick from it.
LEMMA PageAsRead ==
  ASSUME NEW list, NEW p, NEW n \in DOMAIN Reading(list, p),
         n \in DOMAIN (IF Blind THEN Chunk(list, p) ELSE list)
  PROVE  Reading(list, p)[n] = (IF Blind THEN Chunk(list, p) ELSE list)[n]
BY DEF Reading

LEMMA ReadOutPicker ==
  ASSUME PickerInv, way # "one", NEW list, NEW p, list = << >> => p = 1, ReadOut(list, p)
  PROVE  PickerInv'
<1>1. /\ active' = list /\ at' = p /\ picked' = NoPick /\ way' = way
      /\ read' = IF list = << >> THEN read ELSE Reading(list, p)
  BY DEF ReadOut, Stay
<1>2. (Blind' <=> Blind) /\ Chunk(list, p)' = Chunk(list, p)
  BY <1>1 DEF ReadOut, Stay, Blind, Chunk, Size
<1>3. Numbered' = IF Blind THEN Chunk(list, p) ELSE list
  BY <1>1 DEF ReadOut, Stay, Numbered, Blind, Chunk, Size
<1>4. CASE list = << >>
  <2>1. Numbered' = << >>
    BY <1>3, <1>4, NothingOnThePage
  <2> QED
    BY <1>1, <1>4, <2>1 DEF PickerInv, AsRead, PicksWhatWasRead, NoPick
<1>5. CASE list # << >>
  <2>1. read' = Reading(list, p)
    BY <1>1, <1>5
  <2>2. \A n \in DOMAIN read' \cap DOMAIN Numbered' : read'[n] = Numbered'[n]
    BY <1>3, <2>1, PageAsRead
  <2> QED
    BY <1>1, <1>5, <2>2 DEF PickerInv, AsRead, PicksWhatWasRead, NoPick
<1> QED
  BY <1>4, <1>5

LEMMA ShowPicker ==
  ASSUME PickerInv, way = "one", NEW list, NEW i, list # << >>, Show(list, i)
  PROVE  PickerInv'
BY DEF PickerInv, Show, Stay, AsRead, PicksWhatWasRead, NoPick

\* A step that leaves the list where it is and picks nothing by a number.
LEMMA StaysPicker ==
  ASSUME PickerInv, UNCHANGED <<way, whole, place>>, picked' = NoPick \/ picked' = picked
  PROVE  PickerInv'
<1>1. UNCHANGED <<active, at, read>>
  BY DEF place
<1>2. Numbered' = Numbered
  BY <1>1 DEF Numbered, Blind, Chunk, Size
<1> QED
  BY <1>1, <1>2 DEF PickerInv, AsRead, PicksWhatWasRead, NoPick

LEMMA TakePicker ==
  ASSUME PickerInv, NEW n, NEW i, Take(n, i), n \in DOMAIN read => i = read[n]
  PROVE  PickerInv'
<1>1. UNCHANGED <<way, whole, active, at, read>> /\ picked' = [number |-> n, item |-> i]
  BY DEF Take, End, place
<1>2. Numbered' = Numbered
  BY <1>1 DEF Numbered, Blind, Chunk, Size
<1> QED
  BY <1>1, <1>2 DEF PickerInv, AsRead, PicksWhatWasRead

\* A list that has just been opened.
Opening ==
  /\ way \in {"all", "paged", "one", "blind", "many"}
  /\ active # << >> /\ at = 1 /\ picked = NoPick
  /\ way = "one" => active[1] = 1
  /\ read = CASE way = "one" -> [n \in {0} |-> 1]
              [] way \in {"all", "paged"} \/ (way = "blind" /\ whole) -> Reading(active, 1)
              [] OTHER -> << >>

LEMMA OpensPicker == Opening => PickerInv
<1> SUFFICES ASSUME Opening PROVE PickerInv
  BY DEF Opening
<1> USE DEF Opening
<1>1. PicksWhatWasRead
  BY DEF PicksWhatWasRead, NoPick
<1>2. CASE way = "one"
  BY <1>1, <1>2 DEF PickerInv, AsRead
<1>3. CASE way # "one" /\ read = Reading(active, 1)
  <2>1. \A n \in DOMAIN read \cap DOMAIN Numbered : read[n] = Numbered[n]
    BY <1>3, PageAsRead DEF Numbered
  <2> QED
    BY <1>1, <1>3, <2>1 DEF PickerInv, AsRead
<1>4. CASE way # "one" /\ read = << >>
  BY <1>1, <1>4 DEF PickerInv, AsRead
<1> QED
  BY <1>2, <1>3, <1>4

LEMMA WholeList == All # << >> /\ All[1] = 1
<1>1. 1 \in Items
  BY PickerAssumption DEF Items
<1> QED
  BY <1>1 DEF All

LEMMA PickerInitInv == PickerInit => PickerInv
<1> SUFFICES ASSUME PickerInit PROVE PickerInv
  OBVIOUS
<1>1. active # << >> /\ (way = "one" => active[1] = 1)
  <2>1. CASE way = "paged"
    BY <2>1, WholeList DEF PickerInit
  <2>2. CASE way # "paged"
    BY <2>2, WholeList DEF PickerInit
  <2> QED
    BY <2>1, <2>2
<1> QED
  BY <1>1, OpensPicker DEF PickerInit, Opening

LEMMA PickerNextInv == PickerInv /\ [PickerNext]_pickerVars => PickerInv'
<1> SUFFICES ASSUME PickerInv, [PickerNext]_pickerVars PROVE PickerInv'
  OBVIOUS
<1>1. CASE NextPage \/ PreviousPage \/ ListAgain
  <2>1. way # "one" /\ (active = << >> => at = 1)
    BY <1>1 DEF NextPage, PreviousPage, ListAgain, Asking, PickerInv
  <2>2. active = << >> => Least(at + 1, Pages(active)) = 1 /\ (IF at > 1 THEN at - 1 ELSE 1) = 1
    BY <2>1 DEF Least, Pages
  <2>3. PICK p : (active = << >> => p = 1) /\ ReadOut(active, p)
    BY <1>1, <2>1, <2>2 DEF NextPage, PreviousPage, ListAgain
  <2> QED
    BY <2>1, <2>3, ReadOutPicker
<1>2. ASSUME NEW p \in Items, GoToPage(p) PROVE PickerInv'
  <2>1. way # "one"
    BY <1>2 DEF GoToPage, Asking
  <2>2. active = << >> => Least(p, Pages(active)) = 1
    BY PickerAssumption DEF Least, Pages, Items
  <2> QED
    BY <1>2, <2>1, <2>2, ReadOutPicker DEF GoToPage
<1>3. ASSUME NEW q \in Queries, Find(q) PROVE PickerInv'
  <2>1. way # "one"
    BY <1>3 DEF Find, Asking
  <2> QED
    BY <1>3, <2>1, ReadOutPicker DEF Find
<1>4. ASSUME NEW list, Bracket(list) PROVE PickerInv'
  BY <1>4, ShowPicker DEF Bracket, Asking
<1>5. ASSUME NEW step \in {-1, 1}, Round(step) PROVE PickerInv'
  <2>1. way = "one" /\ \E i : Show(active, i)
    BY <1>5 DEF Round, Asking
  <2>2. PICK i : Show(active, i)
    BY <2>1
  <2>3. /\ active' = active /\ at' = i /\ read' = [n \in {0} |-> active[i]]
        /\ picked' = NoPick /\ way' = way
    BY <2>2 DEF Show, Stay
  <2> QED
    BY <2>1, <2>2, <2>3, ShowPicker
<1>6. ASSUME NEW n \in Items, Number(n) PROVE PickerInv'
  <2>1. n \in DOMAIN Numbered /\ Take(n, Numbered[n]) /\ way # "one"
    BY <1>6 DEF Number, Asking
  <2>2. n \in DOMAIN read => Numbered[n] = read[n]
    BY <2>1 DEF PickerInv, AsRead
  <2> QED
    BY <2>1, <2>2, TakePicker
<1>7. CASE Enter
  BY <1>7, TakePicker DEF Enter, Asking, PickerInv, AsRead
<1>8. CASE Reopen
  <2>1. active' = All /\ at' = 1 /\ picked' = NoPick /\ UNCHANGED <<way, whole>>
    BY <1>8 DEF Reopen
  <2>2. read' = CASE way = "one" -> [n \in {0} |-> 1]
                  [] way \in {"all", "paged"} \/ (way = "blind" /\ whole) -> Reading(All, 1)
                  [] OTHER -> << >>
    BY <1>8 DEF Reopen
  <2>3. Reading(All, 1)' = Reading(All, 1)
    BY <2>1 DEF Reading, Blind, Chunk, Size, All, Items
  <2>4. Opening'
    BY <2>1, <2>2, <2>3, WholeList DEF Opening, PickerInv
  <2> QED
    BY <2>4, OpensPicker, PTL
<1>9. CASE Clear \/ Done \/ Cancel \/ BackOrSkip \/ UNCHANGED pickerVars
  <2>1. UNCHANGED <<way, whole, place>> /\ (picked' = NoPick \/ picked' = picked)
    BY <1>9 DEF Clear, Done, Cancel, BackOrSkip, End, pickerVars
  <2> QED
    BY <2>1, StaysPicker
<1>10. ASSUME NEW n \in Items, Deselect(n) PROVE PickerInv'
  BY <1>10, StaysPicker DEF Deselect
<1>11. ASSUME NEW q \in Queries, Name(q) PROVE PickerInv'
  <2>1. UNCHANGED <<way, whole, place>> /\ picked' = NoPick
    BY <1>11 DEF Name, End
  <2> QED
    BY <2>1, StaysPicker
<1>12. ASSUME NEW q \in Queries, BlindName(q) PROVE PickerInv'
  <2>1. way # "one"
    BY <1>12 DEF BlindName, Asking
  <2>2. \/ UNCHANGED <<way, whole, place>> /\ picked' = NoPick
        \/ ReadOut(Matched[q], 1)
    BY <1>12 DEF BlindName, End, Stay
  <2> QED
    BY <2>1, <2>2, StaysPicker, ReadOutPicker
<1>13. ASSUME NEW q \in Queries, ManyName(q) PROVE PickerInv'
  <2>1. way # "one"
    BY <1>13 DEF ManyName, Asking
  <2>2. \/ UNCHANGED <<way, whole, place>> /\ (picked' = NoPick \/ picked' = picked)
        \/ \E list : ReadOut(list, 1)
    BY <1>13 DEF ManyName, pickerVars
  <2> QED
    BY <2>1, <2>2, StaysPicker, ReadOutPicker
<1> QED
  BY <1>1, <1>2, <1>3, <1>4, <1>5, <1>6, <1>7, <1>8, <1>9, <1>10, <1>11, <1>12, <1>13 DEF PickerNext

\* In all five ways of picking, for lists of any length and pages of any
\* size, what a number or Enter picks is what was last read out under it,
\* whatever was filtered and paged before (select_by_token, resolve_token).
THEOREM PicksAsRead == PickerSpec => []PicksWhatWasRead
<1>1. PickerInv => PicksWhatWasRead
  BY DEF PickerInv
<1> QED
  BY <1>1, PickerInitInv, PickerNextInv, PTL DEF PickerSpec
-----------------------------------------------------------------------------
(* Files in the order of their paths.                                      *)

\* A set of natural numbers has a least one.
LEMMA LeastNatural ==
  ASSUME NEW S \in SUBSET Nat, S # {}
  PROVE  \E n \in S : \A m \in S : n <= m
<1>1. PICK n \in S : \A m \in S : ~(<<m, n>> \in OpToRel(<, Nat))
  BY NatLessThanWellFounded, WFMin, Zenon
<1>2. OpToRel(<, Nat) = { ss \in Nat \X Nat : ss[1] < ss[2] }
  BY Zenon DEF OpToRel
<1>3. \A m \in S : ~(m < n)
  BY <1>1, <1>2
<1> QED
  BY <1>3

\* Enumerations of a set of numbers in their order.
Ascending(n, S) == { s \in [1 .. n -> S] : \A i, j \in DOMAIN s : i < j => s[i] < s[j] }

\* Every finite set of numbers has one: its least element, and then one of
\* the others.
LEMMA HasAscending ==
  ASSUME NEW S \in SUBSET Nat, IsFiniteSet(S)
  PROVE  Ascending(Cardinality(S), S) # {}
<1> DEFINE Short == { n \in Nat : \E T \in SUBSET Nat :
                        IsFiniteSet(T) /\ Cardinality(T) = n /\ Ascending(n, T) = {} }
<1>1. SUFFICES ASSUME Short # {} PROVE FALSE
  <2>1. Cardinality(S) \in Nat
    BY FS_CardinalityType
  <2> QED
    BY <2>1
<1>2. PICK n \in Short : \A m \in Short : n <= m
  <2>1. Short \in SUBSET Nat
    OBVIOUS
  <2> HIDE DEF Short
  <2> QED
    BY <1>1, <2>1, LeastNatural
<1>3. PICK T \in SUBSET Nat : IsFiniteSet(T) /\ Cardinality(T) = n /\ Ascending(n, T) = {}
  BY <1>2
<1>4. n \in Nat
  BY <1>2
<1>5. CASE T = {}
  <2>1. n = 0
    BY <1>3, <1>5, FS_EmptySet
  <2>2. [i \in 1 .. 0 |-> i] \in Ascending(0, {})
    BY DEF Ascending
  <2> QED
    BY <1>3, <1>5, <2>1, <2>2
<1>6. CASE T # {}
  <2>1. PICK m \in T : \A k \in T : m <= k
    BY <1>6, LeastNatural
  <2> DEFINE R == T \ {m}
  <2>2. IsFiniteSet(R) /\ Cardinality(R) = n - 1
    BY <1>3, FS_RemoveElement
  <2>3. n - 1 \in Nat
    BY <2>2, FS_CardinalityType
  <2>4. Ascending(n - 1, R) # {}
    <3>1. ASSUME Ascending(n - 1, R) = {} PROVE FALSE
      <4>1. n - 1 \in Short
        BY <2>2, <2>3, <3>1
      <4> QED
        BY <1>2, <1>4, <4>1
    <3> QED
      BY <3>1
  <2>5. PICK s : s \in Ascending(n - 1, R)
    BY <2>4
  <2> DEFINE t == [i \in 1 .. n |-> IF i = 1 THEN m ELSE s[i - 1]]
  <2>6. s \in [1 .. n - 1 -> R] /\ \A i, j \in 1 .. n - 1 : i < j => s[i] < s[j]
    BY <2>5 DEF Ascending
  <2>7. \A i \in 2 .. n : i - 1 \in 1 .. n - 1 /\ s[i - 1] \in T /\ m < s[i - 1]
    <3> SUFFICES ASSUME NEW i \in 2 .. n
                 PROVE  i - 1 \in 1 .. n - 1 /\ s[i - 1] \in T /\ m < s[i - 1]
      OBVIOUS
    <3>1. i - 1 \in 1 .. n - 1
      BY <1>4
    <3>2. s[i - 1] \in T /\ s[i - 1] # m
      BY <2>6, <3>1
    <3>3. m <= s[i - 1] /\ m \in Nat /\ s[i - 1] \in Nat
      BY <2>1, <3>2
    <3> QED
      BY <3>1, <3>2, <3>3
  <2>8. t \in [1 .. n -> T]
    BY <1>4, <2>7
  <2>9. ASSUME NEW i \in 1 .. n, NEW j \in 1 .. n, i < j PROVE t[i] < t[j]
    <3>1. j \in 2 .. n /\ t[j] = s[j - 1]
      BY <2>9
    <3>2. CASE i = 1
      BY <2>7, <3>1, <3>2
    <3>3. CASE i # 1
      <4>1. i \in 2 .. n /\ t[i] = s[i - 1] /\ i - 1 < j - 1
        BY <2>9, <3>3
      <4> QED
        BY <2>6, <2>7, <3>1, <4>1
    <3> QED
      BY <3>2, <3>3
  <2>10. t \in Ascending(n, T)
    BY <2>8, <2>9 DEF Ascending
  <2> QED
    BY <1>3, <2>10
<1> QED
  BY <1>5, <1>6

\* What is listed and queued of some files are these files.
LEMMA SortedFiles ==
  ASSUME NEW S \in SUBSET Files
  PROVE  /\ Sorted(S) \in Seq(S) /\ Len(Sorted(S)) \in Nat
         /\ \A i \in 1 .. Len(Sorted(S)) : Sorted(S)[i] \in S
<1>1. S \in SUBSET Nat /\ IsFiniteSet(S)
  BY ContextAssumption, FS_Subset
<1>2. Cardinality(S) \in Nat
  BY <1>1, FS_CardinalityType
<1>3. Sorted(S) \in [1 .. Cardinality(S) -> S]
  BY <1>1, HasAscending DEF Sorted, Ascending
<1> HIDE DEF Sorted
<1> QED
  BY <1>2, <1>3

\* Two sequences one after the other.
LEMMA Joined ==
  ASSUME NEW S, NEW s \in Seq(S), NEW t \in Seq(S)
  PROVE  /\ s \o t \in Seq(S) /\ Len(s \o t) = Len(s) + Len(t)
         /\ Len(s) \in Nat /\ Len(t) \in Nat
         /\ \A i \in 1 .. Len(s) + Len(t) :
              IF i <= Len(s) THEN (s \o t)[i] = s[i]
              ELSE i - Len(s) \in 1 .. Len(t) /\ (s \o t)[i] = t[i - Len(s)]
OBVIOUS

LEMMA FirstFiles ==
  ASSUME NEW S, NEW s \in Seq(S), NEW n \in Nat
  PROVE  /\ First(n, s) \in Seq(S) /\ Range(First(n, s)) \subseteq S
BY DEF First, Range
-----------------------------------------------------------------------------
(* The queue of attachments.                                               *)

ContextNext == FileNext \/ ItemNext
ContextSpec == ContextInit /\ [][ContextNext]_contextVars

Message == [files : SUBSET Files, text : Texts \cup {"several"}]
Label == Files \cup {0}

\* The part of the invariant that is about the queue and the file included
\* last, and the part about everything else.
QueueInv ==
  /\ names \in Seq(Label) /\ messages \in Seq(Message)
  /\ last \in Version \cup {Nothing} /\ had \subseteq Version
  /\ QueueIsTrue
ListsInv ==
  /\ there \in [Files -> Texts \cup {"binary", "none"}] /\ ignored \subseteq Files
  /\ candidates \in Seq(Files)
ItemsInv ==
  /\ items \subseteq [category : {"FILE", "SNIPPET"}, name : {"a"}, text : Texts]
  /\ resource \in [active : Projects \cup {"none"}, own : Projects \cup {"none"}, listed : Seq(Projects)]
ContextInv == QueueInv /\ ListsInv /\ ItemsInv

\* What a step adds to the queue is of no file that is ignored.
AddsNoIgnored ==
  \A i \in DOMAIN messages' \ DOMAIN messages : messages'[i].files \cap ignored = {}

LEMMA ContextTypes == ContextInv => ContextTypeOK
BY DEF ContextInv, QueueInv, ListsInv, ItemsInv, ContextTypeOK, Message, Label

LEMMA ListingFiles ==
  ASSUME ListsInv
  PROVE  /\ Listing \in Seq(Files)
         /\ Range(Listing) \subseteq Files \ ignored
         /\ Range(CodeListing) \subseteq Files \ ignored
<1> DEFINE S == { f \in Files : there[f] # "none" /\ ~IsIgnored(f) }
<1>1. S \in SUBSET Files /\ S \subseteq Files \ ignored
  BY DEF IsIgnored
<1>2. MaxListed \in Nat
  BY ContextAssumption
<1>3. Listing = First(MaxListed, Sorted(S))
  BY DEF Listing
<1> HIDE DEF S
<1>4. Listing \in Seq(S) /\ Range(Listing) \subseteq S
  BY <1>1, <1>2, <1>3, SortedFiles, FirstFiles
<1> DEFINE T == { f \in Range(Listing) : IsText(f) }
<1>5. T \in SUBSET Files /\ T \subseteq Files \ ignored
  BY <1>1, <1>4
<1>6. CodeListing = First(MaxListed, Sorted(T))
  BY DEF CodeListing
<1> HIDE DEF T
<1>7. Range(CodeListing) \subseteq T
  BY <1>2, <1>5, <1>6, SortedFiles, FirstFiles
<1> QED
  BY <1>1, <1>4, <1>5, <1>7

\* One more in the queue.
LEMMA QueuesOne ==
  ASSUME QueueInv, NEW n \in Label, NEW m \in Message, Queue(n, m),
         n # 0 => m.files = {n} /\ m.text \in Texts
  PROVE  /\ names' \in Seq(Label) /\ messages' \in Seq(Message) /\ Paired'
         /\ m.files \cap ignored = {} => AddsNoIgnored
<1>1. /\ names \in Seq(Label) /\ messages \in Seq(Message)
      /\ names' = Append(names, n) /\ messages' = Append(messages, m)
      /\ Len(names) = Len(messages)
      /\ \A i \in DOMAIN names : names[i] # 0 => messages[i].files = {names[i]} /\ messages[i].text \in Texts
  BY DEF QueueInv, QueueIsTrue, Paired, Queue
<1>2. /\ names' \in Seq(Label) /\ messages' \in Seq(Message)
      /\ Len(names') = Len(names) + 1 /\ Len(messages') = Len(messages) + 1
      /\ \A i \in 1 .. Len(names) : names'[i] = names[i] /\ messages'[i] = messages[i]
      /\ names'[Len(names) + 1] = n /\ messages'[Len(names) + 1] = m
  BY <1>1
<1>3. Len(names) \in Nat /\ DOMAIN names = 1 .. Len(names) /\ DOMAIN messages = 1 .. Len(names)
      /\ DOMAIN names' = 1 .. Len(names) + 1 /\ DOMAIN messages' = 1 .. Len(names) + 1
  BY <1>1, <1>2
<1>4. Paired'
  <2> SUFFICES ASSUME NEW i \in 1 .. Len(names) + 1, names'[i] # 0
               PROVE  messages'[i].files = {names'[i]} /\ messages'[i].text \in Texts
    BY <1>1, <1>2, <1>3 DEF Paired
  <2>1. CASE i = Len(names) + 1
    BY <1>2, <2>1
  <2>2. CASE i # Len(names) + 1
    <3>1. i \in 1 .. Len(names)
      BY <1>3, <2>2
    <3> QED
      BY <1>1, <1>2, <1>3, <3>1
  <2> QED
    BY <2>1, <2>2
<1>5. ASSUME m.files \cap ignored = {} PROVE AddsNoIgnored
  <2>1. \A i \in DOMAIN messages' \ DOMAIN messages : i = Len(names) + 1
    BY <1>3
  <2> QED
    BY <1>2, <1>5, <2>1 DEF AddsNoIgnored
<1> QED
  BY <1>2, <1>4, <1>5

LEMMA BundleInv ==
  ASSUME QueueInv, NEW S \in SUBSET (Files \ ignored), QueueBundle(S)
  PROVE  QueueInv' /\ AddsNoIgnored /\ UNCHANGED <<lists, items, resource>>
<1> DEFINE m == [files |-> S, text |-> "several"]
<1>1. m \in Message /\ m.files = S
  BY DEF Message
<1>2. Queue(0, m) /\ UNCHANGED <<last, had, lists, items, resource>> /\ 0 \in Label
  BY DEF QueueBundle, Queue, Label
<1> HIDE DEF m
<1>3. names' \in Seq(Label) /\ messages' \in Seq(Message) /\ Paired'
  BY <1>1, <1>2, QueuesOne
<1>4. AddsNoIgnored
  BY <1>1, <1>2, QueuesOne
<1>5. UnchangedIsThere'
  BY <1>2 DEF QueueInv, QueueIsTrue, UnchangedIsThere
<1> QED
  BY <1>2, <1>3, <1>4, <1>5 DEF QueueInv, QueueIsTrue

\* Files are queued one after the other with what they hold.
LEMMA FilesInv ==
  ASSUME QueueInv, ListsInv, NEW S \in SUBSET Files, QueueFiles(S)
  PROVE  QueueInv' /\ AddsNoIgnored /\ UNCHANGED <<items, resource>>
<1> DEFINE G == { f \in S : Includable(f) }
<1> DEFINE good == Sorted(G)
<1> DEFINE more == [i \in DOMAIN good |-> Told(good[i])]
<1>1. G \in SUBSET Files /\ \A f \in G : there[f] \in Texts /\ f \notin ignored
  BY DEF Includable, IsText, IsIgnored
<1>2. /\ names' = names \o good /\ messages' = messages \o more
      /\ last' = IF good = << >> THEN last ELSE Content(good[Len(good)])
      /\ had' = had \cup { Content(f) : f \in Range(good) }
      /\ UNCHANGED <<items, resource>>
  BY DEF QueueFiles
<1> HIDE DEF G
<1>3. good \in Seq(G) /\ Len(good) \in Nat /\ \A i \in 1 .. Len(good) : good[i] \in G
  BY <1>1, SortedFiles
<1> HIDE DEF good
<1>4. good \in Seq(Label) /\ DOMAIN good = 1 .. Len(good)
  BY <1>1, <1>3 DEF Label
<1>5. \A f \in G : Told(f) \in Message /\ Content(f) \in Version
  BY <1>1 DEF Told, Content, Message, Version
<1>6. /\ more \in Seq(Message) /\ Len(more) = Len(good)
      /\ \A i \in 1 .. Len(good) : more[i] = Told(good[i])
  BY <1>3, <1>4, <1>5
<1> HIDE DEF more
<1>7. /\ names \in Seq(Label) /\ messages \in Seq(Message) /\ Len(names) = Len(messages)
      /\ Len(names) \in Nat /\ DOMAIN names = 1 .. Len(names) /\ DOMAIN messages = 1 .. Len(names)
      /\ \A i \in 1 .. Len(names) : names[i] # 0 => messages[i].files = {names[i]} /\ messages[i].text \in Texts
  BY DEF QueueInv, QueueIsTrue, Paired
<1>8. /\ names' \in Seq(Label) /\ messages' \in Seq(Message)
      /\ Len(names') = Len(names) + Len(good) /\ Len(messages') = Len(names) + Len(good)
  <2>1. names \o good \in Seq(Label) /\ Len(names \o good) = Len(names) + Len(good)
    BY <1>4, <1>7, Joined
  <2>2. messages \in Seq(Message) /\ more \in Seq(Message)
    BY <1>6, <1>7
  <2>3. messages \o more \in Seq(Message) /\ Len(messages \o more) = Len(messages) + Len(more)
    BY <2>2, Joined
  <2>4. Len(messages) + Len(more) = Len(names) + Len(good)
    BY <1>6, <1>7
  <2> QED
    BY <1>2, <2>1, <2>3, <2>4
<1>9. DOMAIN names' = 1 .. Len(names) + Len(good) /\ DOMAIN messages' = 1 .. Len(names) + Len(good)
  BY <1>8
<1>10. ASSUME NEW i \in 1 .. Len(names) + Len(good)
       PROVE  IF i <= Len(names) THEN names'[i] = names[i] /\ messages'[i] = messages[i]
              ELSE /\ i - Len(names) \in 1 .. Len(good)
                   /\ names'[i] = good[i - Len(names)] /\ messages'[i] = Told(good[i - Len(names)])
  <2>1. CASE i <= Len(names)
    BY <1>2, <1>4, <1>6, <1>7, <2>1, Joined
  <2>2. CASE ~(i <= Len(names))
    <3>0. names \in Seq(Label) /\ good \in Seq(Label) /\ names' = names \o good
      BY <1>2, <1>4, <1>7
    <3>1. i - Len(names) \in 1 .. Len(good) /\ names'[i] = good[i - Len(names)]
      BY <2>2, <3>0, Joined
    <3>2. messages'[i] = more[i - Len(names)]
      BY <1>2, <1>6, <1>7, <2>2, Joined
    <3> QED
      BY <1>6, <2>2, <3>1, <3>2
  <2> QED
    BY <2>1, <2>2
<1>11. Paired'
  <2> SUFFICES ASSUME NEW i \in 1 .. Len(names) + Len(good), names'[i] # 0
               PROVE  messages'[i].files = {names'[i]} /\ messages'[i].text \in Texts
    BY <1>8, <1>9 DEF Paired
  <2>1. CASE i <= Len(names)
    BY <1>3, <1>7, <1>10, <2>1
  <2>2. CASE ~(i <= Len(names))
    <3>1. PICK f \in G : names'[i] = f /\ messages'[i] = Told(f)
      BY <1>3, <1>10, <2>2
    <3> QED
      BY <1>1, <3>1 DEF Told
  <2> QED
    BY <2>1, <2>2
<1>12. AddsNoIgnored
  <2> SUFFICES ASSUME NEW i \in DOMAIN messages' \ DOMAIN messages PROVE messages'[i].files \cap ignored = {}
    BY DEF AddsNoIgnored
  <2>1. i \in 1 .. Len(names) + Len(good) /\ ~(i <= Len(names))
    BY <1>3, <1>7, <1>9
  <2>2. PICK f \in G : messages'[i] = Told(f)
    BY <1>3, <1>10, <2>1
  <2> QED
    BY <1>1, <2>2 DEF Told
<1>13. had' \subseteq Version
  BY <1>2, <1>3, <1>4, <1>5 DEF QueueInv, Range
<1>14. last' \in Version \cup {Nothing} /\ UnchangedIsThere'
  <2>1. CASE good = << >>
    BY <1>2, <2>1 DEF QueueInv, QueueIsTrue, UnchangedIsThere
  <2>2. CASE good # << >>
    <3>1. Len(good) \in 1 .. Len(good)
      BY <1>3, <2>2
    <3>2. good[Len(good)] \in Range(good) /\ good[Len(good)] \in G
      BY <1>3, <1>4, <3>1 DEF Range
    <3> QED
      BY <1>2, <1>5, <2>2, <3>2 DEF UnchangedIsThere
  <2> QED
    BY <2>1, <2>2
<1> QED
  BY <1>2, <1>8, <1>11, <1>12, <1>13, <1>14 DEF QueueInv, QueueIsTrue
LEMMA AgainInv ==
  ASSUME QueueInv, ListsInv, NEW checked \in BOOLEAN, Again(checked)
  PROVE  /\ QueueInv' /\ UNCHANGED <<lists, items, resource>>
         /\ checked => AddsNoIgnored
<1>1. /\ last # Nothing /\ (checked => ~IsIgnored(last.file)) /\ IsText(last.file)
      /\ last' = Content(last.file) /\ had' = had \cup {last'}
      /\ Queue(last.file, Told(last.file)) /\ UNCHANGED <<lists, items, resource>>
  BY DEF Again, Queue
<1>2. last.file \in Files /\ last.file # 0
  BY <1>1, ContextAssumption DEF QueueInv, Version
<1>3. last.file \in Label
  BY <1>2 DEF Label
<1>4. /\ Told(last.file) \in Message /\ Told(last.file).files = {last.file}
      /\ Told(last.file).text \in Texts /\ Content(last.file) \in Version
  BY <1>1, <1>2 DEF Told, Content, Message, Version, IsText
<1>5. /\ names' \in Seq(Label) /\ messages' \in Seq(Message) /\ Paired'
      /\ Told(last.file).files \cap ignored = {} => AddsNoIgnored
  BY <1>1, <1>3, <1>4, QueuesOne
<1>6. last' \in Version \cup {Nothing} /\ had' \subseteq Version /\ UnchangedIsThere'
  BY <1>1, <1>4 DEF QueueInv, UnchangedIsThere
<1>7. checked => Told(last.file).files \cap ignored = {}
  BY <1>1, <1>4 DEF IsIgnored
<1> QED
  BY <1>1, <1>5, <1>6, <1>7 DEF QueueInv, QueueIsTrue

\* A sequence without the element at one place.
LEMMA Removed ==
  ASSUME NEW S, NEW s \in Seq(S), NEW i \in 1 .. Len(s)
  PROVE  /\ RemoveAt(s, i) \in Seq(S) /\ Len(RemoveAt(s, i)) = Len(s) - 1
         /\ \A j \in 1 .. Len(s) - 1 : RemoveAt(s, i)[j] = IF j < i THEN s[j] ELSE s[j + 1]
<1> DEFINE a == SubSeq(s, 1, i - 1)
<1> DEFINE b == SubSeq(s, i + 1, Len(s))
<1>1. Len(s) \in Nat /\ i - 1 \in Nat /\ i <= Len(s)
  OBVIOUS
<1>2. a \in Seq(S) /\ Len(a) = i - 1 /\ \A j \in 1 .. i - 1 : a[j] = s[j]
  OBVIOUS
<1>3. b \in Seq(S) /\ Len(b) = Len(s) - i /\ \A j \in 1 .. Len(s) - i : b[j] = s[i + j]
  OBVIOUS
<1>4. RemoveAt(s, i) = a \o b
  BY DEF RemoveAt
<1> HIDE DEF a, b
<1>5. /\ a \o b \in Seq(S) /\ Len(a \o b) = Len(s) - 1
      /\ \A j \in 1 .. Len(s) - 1 :
           IF j <= i - 1 THEN (a \o b)[j] = a[j]
           ELSE j - (i - 1) \in 1 .. Len(s) - i /\ (a \o b)[j] = b[j - (i - 1)]
  <2>1. a \in Seq(S) /\ b \in Seq(S)
    BY <1>2, <1>3
  <2>2. /\ a \o b \in Seq(S) /\ Len(a \o b) = Len(a) + Len(b)
        /\ \A j \in 1 .. Len(a) + Len(b) :
             IF j <= Len(a) THEN (a \o b)[j] = a[j]
             ELSE j - Len(a) \in 1 .. Len(b) /\ (a \o b)[j] = b[j - Len(a)]
    BY <2>1, Joined
  <2>3. Len(a) = i - 1 /\ Len(b) = Len(s) - i /\ Len(a) + Len(b) = Len(s) - 1
    BY <1>1, <1>2, <1>3
  <2> QED
    BY <2>2, <2>3
<1>6. ASSUME NEW j \in 1 .. Len(s) - 1 PROVE (a \o b)[j] = IF j < i THEN s[j] ELSE s[j + 1]
  <2>1. CASE j < i
    BY <1>1, <1>2, <1>5, <2>1
  <2>2. CASE ~(j < i)
    <3>1. j - (i - 1) \in 1 .. Len(s) - i /\ (a \o b)[j] = b[j - (i - 1)]
      BY <1>1, <1>5, <2>2
    <3>2. b[j - (i - 1)] = s[i + (j - (i - 1))]
      BY <1>3, <3>1
    <3>3. i + (j - (i - 1)) = j + 1
      BY <1>1
    <3> QED
      BY <2>2, <3>1, <3>2, <3>3
  <2> QED
    BY <2>1, <2>2
<1> QED
  BY <1>4, <1>5, <1>6

LEMMA DetachInv ==
  ASSUME QueueInv, NEW i \in DOMAIN names, Detach(i)
  PROVE  QueueInv' /\ AddsNoIgnored /\ UNCHANGED <<lists, items, resource>>
<1>1. /\ names \in Seq(Label) /\ messages \in Seq(Message) /\ Len(names) = Len(messages)
      /\ Len(names) \in Nat /\ DOMAIN names = 1 .. Len(names) /\ DOMAIN messages = 1 .. Len(names)
      /\ \A j \in 1 .. Len(names) : names[j] # 0 => messages[j].files = {names[j]} /\ messages[j].text \in Texts
  BY DEF QueueInv, QueueIsTrue, Paired
<1>2. /\ names' = RemoveAt(names, i) /\ messages' = RemoveAt(messages, i)
      /\ UNCHANGED <<last, had, lists, items, resource>>
  BY DEF Detach
<1>3. names \in Seq(Label) /\ i \in 1 .. Len(names)
  BY <1>1
<1>4. messages \in Seq(Message) /\ i \in 1 .. Len(messages)
  BY <1>1
<1>5. /\ names' \in Seq(Label) /\ Len(names') = Len(names) - 1
      /\ \A j \in 1 .. Len(names) - 1 : names'[j] = IF j < i THEN names[j] ELSE names[j + 1]
  BY <1>2, <1>3, Removed
<1>6. /\ messages' \in Seq(Message) /\ Len(messages') = Len(names) - 1
      /\ \A j \in 1 .. Len(names) - 1 : messages'[j] = IF j < i THEN messages[j] ELSE messages[j + 1]
  BY <1>1, <1>2, <1>4, Removed
<1>7. DOMAIN names' = 1 .. Len(names) - 1 /\ DOMAIN messages' = 1 .. Len(names) - 1
  BY <1>1, <1>5, <1>6
<1>8. Paired'
  <2> SUFFICES ASSUME NEW j \in 1 .. Len(names) - 1, names'[j] # 0
               PROVE  messages'[j].files = {names'[j]} /\ messages'[j].text \in Texts
    BY <1>5, <1>6, <1>7 DEF Paired
  <2>1. j \in 1 .. Len(names) /\ j + 1 \in 1 .. Len(names)
    BY <1>1
  <2> QED
    BY <1>1, <1>5, <1>6, <2>1
<1>9. AddsNoIgnored
  BY <1>1, <1>7 DEF AddsNoIgnored
<1> QED
  BY <1>2, <1>5, <1>6, <1>8, <1>9 DEF QueueInv, QueueIsTrue, UnchangedIsThere

\* The queue is emptied, whether the file included last is forgotten or not.
LEMMA EmptiedInv ==
  ASSUME QueueInv, names' = << >>, messages' = << >>,
         (last' = last /\ had' = had) \/ (last' = Nothing /\ had' = {})
  PROVE  QueueInv' /\ AddsNoIgnored
<1>1. names' \in Seq(Label) /\ messages' \in Seq(Message) /\ Paired'
  BY DEF Paired
<1>2. DOMAIN messages' = {}
  OBVIOUS
<1>3. AddsNoIgnored
  BY <1>2 DEF AddsNoIgnored
<1>4. last' \in Version \cup {Nothing} /\ had' \subseteq Version /\ UnchangedIsThere'
  BY DEF QueueInv, QueueIsTrue, UnchangedIsThere
<1> QED
  BY <1>1, <1>3, <1>4 DEF QueueInv, QueueIsTrue

LEMMA KeepsQueue ==
  ASSUME QueueInv, UNCHANGED <<names, messages, last, had>>
  PROVE  QueueInv' /\ AddsNoIgnored
BY DEF QueueInv, QueueIsTrue, Paired, UnchangedIsThere, AddsNoIgnored

LEMMA ContextInitInv == ContextInit => ContextInv
<1> SUFFICES ASSUME ContextInit PROVE ContextInv
  OBVIOUS
<1>1. ListsInv
  BY DEF ContextInit, ListsInv, Texts
<1>2. QueueInv
  BY DEF ContextInit, QueueInv, QueueIsTrue, Paired, UnchangedIsThere
<1>3. ItemsInv
  BY DEF ContextInit, ItemsInv
<1> QED
  BY <1>1, <1>2, <1>3 DEF ContextInv

LEMMA IncludeInv ==
  ASSUME QueueInv, ListsInv,
         \/ \E n \in 1 .. MaxListed : IncludeNumber(n)
         \/ \E f \in Files : IncludePath(f)
         \/ \E S \in SUBSET Files : \E n \in 1 .. 2 : IncludePattern(S, n) \/ AttachFiles(S)
         \/ AttachFolder
  PROVE  QueueInv' /\ ListsInv' /\ AddsNoIgnored /\ UNCHANGED <<items, resource>>
<1>1. ASSUME NEW n \in 1 .. MaxListed, IncludeNumber(n)
      PROVE  ListsInv' /\ \E S \in SUBSET Files : QueueFiles(S)
  <2> DEFINE list == IF candidates = << >> THEN Listing ELSE candidates
  <2> DEFINE S == IF n \in DOMAIN list /\ ~IsIgnored(list[n]) THEN {list[n]} ELSE {}
  <2>1. candidates' = list /\ QueueFiles(S) /\ UNCHANGED <<there, ignored>>
    BY <1>1 DEF IncludeNumber
  <2>2. list \in Seq(Files)
    BY ListingFiles DEF ListsInv
  <2> HIDE DEF list
  <2>3. S \in SUBSET Files
    BY <2>2
  <2> QED
    BY <2>1, <2>2, <2>3 DEF ListsInv
<1>2. ASSUME NEW f \in Files, IncludePath(f)
      PROVE  ListsInv' /\ \E S \in SUBSET Files : QueueFiles(S)
  <2> DEFINE S == IF IsIgnored(f) THEN {} ELSE {f}
  <2>1. S \in SUBSET Files /\ QueueFiles(S) /\ UNCHANGED lists
    BY <1>2 DEF IncludePath
  <2> QED
    BY <2>1 DEF ListsInv, lists
<1>3. ASSUME NEW S \in SUBSET Files, NEW n \in 1 .. 2, IncludePattern(S, n)
      PROVE  ListsInv' /\ \E T \in SUBSET Files : QueueFiles(T)
  <2> DEFINE U == { f \in S : there[f] # "none" /\ ~IsIgnored(f) }
  <2>1. U \in SUBSET Files /\ n \in Nat
    OBVIOUS
  <2>2. QueueFiles(Range(First(n, Sorted(U)))) /\ UNCHANGED lists
    BY <1>3 DEF IncludePattern
  <2> HIDE DEF U
  <2>3. Range(First(n, Sorted(U))) \in SUBSET Files
    BY <2>1, SortedFiles, FirstFiles
  <2> QED
    BY <2>2, <2>3 DEF ListsInv, lists
<1>4. ASSUME NEW S \in SUBSET Files, AttachFiles(S)
      PROVE  ListsInv' /\ \E T \in SUBSET Files : QueueFiles(T)
  BY <1>4 DEF AttachFiles, ListsInv, lists
<1>5. ASSUME AttachFolder PROVE ListsInv' /\ \E T \in SUBSET Files : QueueFiles(T)
  <2> DEFINE U == { f \in Files : there[f] # "none" /\ ~IsIgnored(f) }
  <2>1. U \in SUBSET Files /\ QueueFiles(U) /\ UNCHANGED lists
    BY <1>5 DEF AttachFolder
  <2> QED
    BY <2>1 DEF ListsInv, lists
<1>6. ListsInv' /\ \E T \in SUBSET Files : QueueFiles(T)
  BY <1>1, <1>2, <1>3, <1>4, <1>5
<1>7. PICK T \in SUBSET Files : QueueFiles(T)
  BY <1>6
<1> QED
  BY <1>6, <1>7, FilesInv

\* What a file step does to the queue and to the lists.
LEMMA FileNextInv ==
  ASSUME QueueInv, ListsInv, FileNext
  PROVE  /\ QueueInv' /\ ListsInv'
         /\ ReincludeChanged \/ AddsNoIgnored
         /\ resource' = resource /\ (items' = items \/ items' = {})
<1>1. CASE ShowFiles
  BY <1>1, KeepsQueue, ListingFiles DEF ShowFiles, ListsInv, queue
<1>2. ASSUME NEW checked \in BOOLEAN, Again(checked)
      PROVE  QueueInv' /\ ListsInv' /\ (checked => AddsNoIgnored) /\ UNCHANGED <<items, resource>>
  BY <1>2, AgainInv DEF ListsInv, lists
<1>3. CASE IncludeLast \/ ReincludeChanged
  <2>1. CASE IncludeLast
    BY <1>2, <2>1 DEF IncludeLast
  <2>2. CASE ReincludeChanged
    BY <1>2, <2>2 DEF ReincludeChanged
  <2> QED
    BY <1>3, <2>1, <2>2
<1>4. ASSUME NEW S \in SUBSET (Files \ ignored), QueueBundle(S)
      PROVE  QueueInv' /\ ListsInv' /\ AddsNoIgnored /\ UNCHANGED <<items, resource>>
  BY <1>4, BundleInv DEF ListsInv, lists
<1>5. CASE Map \/ CodeMap \/ AttachOther
  BY <1>4, <1>5, ListingFiles DEF Map, CodeMap, AttachOther
<1>6. ASSUME NEW S \in SUBSET Files, NEW n \in 1 .. 2, Recipe(S, {n})
      PROVE  QueueInv' /\ ListsInv' /\ AddsNoIgnored /\ UNCHANGED <<items, resource>>
  <2> DEFINE M == { f \in S \ {n} : Includable(f) }
  <2>1. M \in SUBSET (Files \ ignored) /\ QueueBundle(M)
    BY <1>6 DEF Recipe, Includable, IsIgnored
  <2> QED
    BY <1>4, <2>1
<1>7. ASSUME NEW i \in DOMAIN names, Detach(i)
      PROVE  QueueInv' /\ ListsInv' /\ AddsNoIgnored /\ UNCHANGED <<items, resource>>
  BY <1>7, DetachInv DEF ListsInv, lists
<1>8. ASSUME NEW f \in Files, DetachPath(f)
      PROVE  QueueInv' /\ ListsInv' /\ AddsNoIgnored /\ UNCHANGED <<items, resource>>
  <2>1. PICK i : Detach(i)
    BY <1>8 DEF DetachPath
  <2>2. i \in DOMAIN names
    BY <2>1 DEF Detach
  <2> QED
    BY <1>7, <2>1, <2>2
<1>9. CASE DetachAll
  BY <1>9, EmptiedInv DEF DetachAll, ListsInv, lists
<1>10. ASSUME NEW wrong \in SUBSET Problems, Send(wrong, Problems)
       PROVE  QueueInv' /\ ListsInv' /\ AddsNoIgnored /\ UNCHANGED <<items, resource>>
  BY <1>10, EmptiedInv DEF Send, ListsInv, lists
<1>11. CASE NewContext
  <2>1. QueueInv' /\ AddsNoIgnored
    BY <1>11, EmptiedInv DEF NewContext, Forget
  <2> QED
    BY <1>11, <2>1 DEF NewContext, Forget, ListsInv
<1>12. CASE EditIgnore
  <2>1. ignored' \subseteq Files
    <3>1. PICK rules \in RuleLists : ignored' = { f \in Files : Excluded(rules, f) }
      BY <1>12 DEF EditIgnore, Excludable
    <3> QED
      BY <3>1
  <2> QED
    BY <1>12, <2>1, KeepsQueue DEF EditIgnore, ListsInv, queue
<1>13. ASSUME NEW f \in Files, EditFile(f)
       PROVE  QueueInv' /\ ListsInv' /\ AddsNoIgnored /\ UNCHANGED <<items, resource>>
  <2>1. PICK t \in MayHold[f] : there' = [there EXCEPT ![f] = t]
    BY <1>13 DEF EditFile
  <2>2. t \in Texts \cup {"binary", "none"}
    BY <2>1, ContextAssumption
  <2> QED
    BY <1>13, <2>1, <2>2, KeepsQueue DEF EditFile, ListsInv, queue
<1>14. CASE \/ \E n \in 1 .. MaxListed : IncludeNumber(n)
            \/ \E f \in Files : IncludePath(f)
            \/ \E S \in SUBSET Files : \E n \in 1 .. 2 : IncludePattern(S, n) \/ AttachFiles(S)
            \/ AttachFolder
  BY <1>14, IncludeInv
<1>15. ASSUME NEW i \in 1 .. MaxQueue, Detach(i)
       PROVE  QueueInv' /\ ListsInv' /\ AddsNoIgnored /\ UNCHANGED <<items, resource>>
  BY <1>7, <1>15 DEF Detach
<1> QED
  BY <1>1, <1>3, <1>5, <1>6, <1>8, <1>9, <1>10, <1>11, <1>12, <1>13, <1>14, <1>15 DEF FileNext

LEMMA ItemNextInv ==
  ASSUME ContextInv, ItemNext
  PROVE  ContextInv' /\ AddsNoIgnored
<1>0. QueueInv /\ ListsInv /\ ItemsInv
  BY DEF ContextInv
<1>1. CASE NewContext \/ \E p \in Projects : ResumeContext(p)
  <2>1. QueueInv' /\ AddsNoIgnored
    BY <1>0, <1>1, EmptiedInv DEF NewContext, ResumeContext, Forget
  <2>2. ListsInv'
    <3>1. UNCHANGED <<there, ignored>> /\ candidates' = << >>
      BY <1>1 DEF NewContext, ResumeContext, Forget
    <3> QED
      BY <1>0, <3>1 DEF ListsInv
  <2>3. items' = {} \/ items' = items
    BY <1>1 DEF NewContext, ResumeContext
  <2>4. resource' = resource \/ \E p \in Projects : resource' = [resource EXCEPT !.own = p]
    BY <1>1 DEF NewContext, ResumeContext
  <2>5. ItemsInv'
    BY <1>0, <2>3, <2>4 DEF ItemsInv
  <2> QED
    BY <2>1, <2>2, <2>5 DEF ContextInv
<1>2. CASE UNCHANGED <<lists, last, queue, had>> /\ ItemsInv'
  <2>1. QueueInv' /\ AddsNoIgnored
    BY <1>0, <1>2, KeepsQueue DEF queue
  <2>2. ListsInv'
    BY <1>0, <1>2 DEF ListsInv, lists
  <2> QED
    BY <1>2, <2>1, <2>2 DEF ContextInv
<1>3. CASE ServerRemove \/ \E c \in {"FILE", "SNIPPET"}, t \in Texts : ServerAdd(c, t)
  BY <1>0, <1>2, <1>3 DEF ServerRemove, ServerAdd, ItemsInv
<1>4. CASE ListProjects
  <2>1. PICK found \in {<<"group/one">>, <<"group/two", "group/one">>} :
          Resource([resource EXCEPT !.listed = found])
    BY <1>4 DEF ListProjects
  <2>2. found \in Seq(Projects)
    <3>1. "group/one" \in Projects /\ "group/two" \in Projects
      BY DEF Projects
    <3>2. <<"group/one">> \in Seq(Projects) /\ <<"group/two", "group/one">> \in Seq(Projects)
      BY <3>1
    <3> QED
      BY <3>2
  <2>3. UNCHANGED <<lists, last, queue, items, had>> /\ resource' = [resource EXCEPT !.listed = found]
    BY <2>1 DEF Resource
  <2>4. ItemsInv'
    BY <1>0, <2>2, <2>3 DEF ItemsInv
  <2> QED
    BY <1>2, <2>3, <2>4
<1>5. CASE ClearProject
  <2>1. /\ UNCHANGED <<lists, last, queue, items, had>>
        /\ resource' = [resource EXCEPT !.active = "none", !.listed = << >>]
    BY <1>5 DEF ClearProject, Resource
  <2>2. << >> \in Seq(Projects)
    OBVIOUS
  <2>3. ItemsInv'
    BY <1>0, <2>1, <2>2 DEF ItemsInv
  <2> QED
    BY <1>2, <2>1, <2>3
<1>6. ASSUME NEW n \in 1 .. 2, PickProject(n) PROVE ContextInv' /\ AddsNoIgnored
  <2>1. resource.listed[n] \in Projects
    BY <1>0, <1>6 DEF PickProject, ItemsInv
  <2> QED
    BY <1>0, <1>2, <1>6, <2>1 DEF PickProject, Resource, ItemsInv
<1>7. ASSUME NEW p \in Projects, SetProject(p) \/ WindowProject(p) PROVE ContextInv' /\ AddsNoIgnored
  BY <1>0, <1>2, <1>7 DEF SetProject, WindowProject, Resource, ItemsInv
<1> QED
  BY <1>1, <1>3, <1>4, <1>5, <1>6, <1>7 DEF ItemNext

LEMMA ContextNextInv ==
  ASSUME ContextInv, [ContextNext]_contextVars
  PROVE  ContextInv' /\ (ReincludeChanged \/ AddsNoIgnored)
<1>1. CASE FileNext
  <2>1. /\ QueueInv' /\ ListsInv' /\ (ReincludeChanged \/ AddsNoIgnored)
        /\ resource' = resource /\ (items' = items \/ items' = {})
    BY <1>1, FileNextInv DEF ContextInv
  <2>2. ItemsInv'
    BY <2>1 DEF ContextInv, ItemsInv
  <2> QED
    BY <2>1, <2>2 DEF ContextInv
<1>2. CASE ItemNext
  BY <1>2, ItemNextInv
<1>3. CASE UNCHANGED contextVars
  <2>1. QueueInv' /\ AddsNoIgnored
    BY <1>3, KeepsQueue DEF ContextInv, contextVars, queue
  <2> QED
    BY <1>3, <2>1 DEF ContextInv, contextVars, lists, ListsInv, ItemsInv
<1> QED
  BY <1>1, <1>2, <1>3 DEF ContextNext

\* Through every way of filling, shortening and emptying it, a name of the
\* queue stands for the message at its place, and the file /include-last
\* compares with was queued in this conversation (queue_attachment,
\* detach_pending_attachment, reset_repl_state).
THEOREM QueueStaysTrue == ContextSpec => [](ContextTypeOK /\ QueueIsTrue)
<1>1. ContextInv => ContextTypeOK /\ QueueIsTrue
  BY ContextTypes DEF ContextInv, QueueInv
<1>2. ContextInv /\ [ContextNext]_contextVars => ContextInv'
  BY ContextNextInv
<1> QED
  BY <1>1, <1>2, ContextInitInv, PTL DEF ContextSpec

\* However many files there are and however old the numbered list, no step
\* but the window's button for a changed file queues anything of a file that
\* is ignored when it is queued (select_include_candidates, expand_recipe).
THEOREM NothingIgnoredIsQueued == ContextSpec => IgnoredStaysOut
<1>1. ContextInv /\ [ContextNext]_contextVars => ContextInv'
  BY ContextNextInv
<1>2. ContextInv /\ [ContextNext]_contextVars =>
        [\A i \in DOMAIN messages' \ DOMAIN messages :
           ReincludeChanged \/ messages'[i].files \cap ignored = {}]_contextVars
  BY ContextNextInv DEF AddsNoIgnored
<1> QED
  BY <1>1, <1>2, ContextInitInv, PTL DEF ContextSpec, IgnoredStaysOut
-----------------------------------------------------------------------------
(* The system prompt.                                                      *)

InstructionsSpec == InstructionsInit /\ [][InstructionsNext]_instructionsVars

\* Nothing is in a sequence twice.
Once(s) == \A i, j \in DOMAIN s : s[i] = s[j] => i = j

\* What a session is started with: unless the base came from a saved prompt,
\* it holds no section that is put around it.
Given == {<< >>, <<"base">>}

\* The metadata of a template waits only after its request was lost.
Waiting == tag => "template" \in lost

PromptTypes ==
  /\ prompt \in Seq(Sections) /\ replies \in Seq(Blocks)
  /\ base \in [known : BOOLEAN, text : Seq(Sections)]
  /\ kept = [text |-> <<"agents 1", "rules">>, replies |-> <<"compact">>]
  /\ {include, tag, mixed} \subseteq BOOLEAN /\ lost \subseteq {"turn", "template"}
  /\ path \in {"AGENTS.md", "picked"} /\ mode \in {"none", "auto", "selected"}
  /\ extra \in {"none", "extra", "rules"}
  /\ disk \in [agents : 0 .. Editions, pinned : SUBSET PinnedFiles]
  /\ tagged \in {"none", "own", "other"} /\ written \in {"nothing", "reply", "lost", "older"}

PromptInv ==
  /\ PromptTypes
  /\ ~mixed => base.text \in Given
  /\ Waiting
  /\ FromItsSource

\* Sequences over two disjoint alphabets, one after the other.
LEMMA JoinedOnce ==
  ASSUME NEW A, NEW B, NEW s \in Seq(A), NEW t \in Seq(B), A \cap B = {}, Once(s), Once(t)
  PROVE  s \o t \in Seq(A \cup B) /\ Once(s \o t)
<1>1. s \in Seq(A \cup B) /\ t \in Seq(A \cup B)
  OBVIOUS
<1>2. /\ s \o t \in Seq(A \cup B) /\ Len(s \o t) = Len(s) + Len(t)
      /\ Len(s) \in Nat /\ Len(t) \in Nat
      /\ \A i \in 1 .. Len(s) + Len(t) :
           IF i <= Len(s) THEN (s \o t)[i] = s[i]
           ELSE i - Len(s) \in 1 .. Len(t) /\ (s \o t)[i] = t[i - Len(s)]
  BY <1>1, Joined
<1>3. DOMAIN (s \o t) = 1 .. Len(s) + Len(t) /\ DOMAIN s = 1 .. Len(s) /\ DOMAIN t = 1 .. Len(t)
  BY <1>2
<1> DEFINE u == s \o t
<1>4. /\ \A i \in 1 .. Len(s) + Len(t) : i <= Len(s) => i \in 1 .. Len(s) /\ u[i] = s[i] /\ u[i] \in A
      /\ \A i \in 1 .. Len(s) + Len(t) : ~(i <= Len(s)) =>
           i - Len(s) \in 1 .. Len(t) /\ u[i] = t[i - Len(s)] /\ u[i] \in B
  BY <1>2
<1> HIDE DEF u
<1>5. ASSUME NEW i \in 1 .. Len(s) + Len(t), NEW j \in 1 .. Len(s) + Len(t), u[i] = u[j] PROVE i = j
  <2>1. CASE i <= Len(s) /\ j <= Len(s)
    BY <1>3, <1>4, <1>5, <2>1 DEF Once
  <2>2. CASE ~(i <= Len(s)) /\ ~(j <= Len(s))
    <3>1. i - Len(s) \in DOMAIN t /\ j - Len(s) \in DOMAIN t /\ t[i - Len(s)] = t[j - Len(s)]
      BY <1>3, <1>4, <1>5, <2>2
    <3>2. i - Len(s) = j - Len(s)
      BY <3>1 DEF Once
    <3> QED
      BY <1>2, <3>2
  <2>3. CASE (i <= Len(s)) # (j <= Len(s))
    BY <1>4, <1>5, <2>3
  <2> QED
    BY <2>1, <2>2, <2>3
<1> QED
  BY <1>2, <1>3, <1>5 DEF Once, u

Agents == {"agents 1", "agents 2", "picked"}

LEMMA SmallOnce ==
  /\ \A x : <<x>> \in Seq({x}) /\ Once(<<x>>)
  /\ \A S : << >> \in Seq(S)
  /\ Once(<< >>)
  /\ \A x, y : x # y => <<x, y>> \in Seq({x, y}) /\ Once(<<x, y>>)
BY DEF Once

LEMMA SeqWider == ASSUME NEW S, NEW T, S \subseteq T, NEW s \in Seq(S) PROVE s \in Seq(T)
OBVIOUS

LEMMA SectionOnce ==
  ASSUME NEW name, NEW files
  PROVE  Section(name, files) \in Seq({name}) /\ Once(Section(name, files))
BY SmallOnce DEF Section

LEMMA PinnedOnce ==
  ASSUME NEW files
  PROVE  Pinned(files) \in Seq({"compact", "memory", "todo"}) /\ Once(Pinned(files))
<1> DEFINE a == Section("compact", files) \o Section("memory", files)
<1>1. a \in Seq({"compact"} \cup {"memory"}) /\ Once(a)
  <2> DEFINE s == Section("compact", files)
  <2> DEFINE t == Section("memory", files)
  <2>1. s \in Seq({"compact"}) /\ Once(s) /\ t \in Seq({"memory"}) /\ Once(t)
    BY SectionOnce
  <2>2. {"compact"} \cap {"memory"} = {}
    OBVIOUS
  <2> HIDE DEF s, t
  <2>3. s \o t \in Seq({"compact"} \cup {"memory"}) /\ Once(s \o t)
    BY <2>1, <2>2, JoinedOnce
  <2> QED
    BY <2>3 DEF s, t
<1>2. Pinned(files) = a \o Section("todo", files)
  BY DEF Pinned
<1> HIDE DEF a
<1>3. Section("todo", files) \in Seq({"todo"}) /\ Once(Section("todo", files))
  BY SectionOnce
<1>4. a \in Seq({"compact", "memory"})
  BY <1>1
<1>5. {"compact", "memory"} \cap {"todo"} = {}
  OBVIOUS
<1>6. a \o Section("todo", files) \in Seq({"compact", "memory"} \cup {"todo"})
      /\ Once(a \o Section("todo", files))
  BY <1>1, <1>3, <1>4, <1>5, JoinedOnce
<1>7. {"compact", "memory"} \cup {"todo"} = {"compact", "memory", "todo"}
  OBVIOUS
<1> QED
  BY <1>2, <1>6, <1>7

LEMMA CustomOnce == Custom \in Seq({"rules", "extra"}) /\ Once(Custom)
<1> DEFINE e == IF extra = "extra" THEN <<"extra">> ELSE << >>
<1>1. e \in Seq({"extra"}) /\ Once(e)
  BY SmallOnce
<1>2. <<"rules">> \in Seq({"rules"}) /\ Once(<<"rules">>)
  BY SmallOnce
<1>3. Custom = <<"rules">> \o e
  BY DEF Custom
<1> HIDE DEF e
<1> DEFINE s == <<"rules">>
<1> HIDE DEF s
<1>4. s \o e \in Seq({"rules"} \cup {"extra"}) /\ Once(s \o e)
  <2>1. {"rules"} \cap {"extra"} = {}
    OBVIOUS
  <2>2. s \in Seq({"rules"}) /\ Once(s)
    BY <1>2 DEF s
  <2> QED
    BY <1>1, <2>1, <2>2, JoinedOnce
<1>5. {"rules"} \cup {"extra"} = {"rules", "extra"}
  OBVIOUS
<1> QED
  BY <1>3, <1>4, <1>5 DEF s

\* A prompt composed from what the session was started with has every
\* section once.
LEMMA ComposedOnce ==
  ASSUME NEW text \in Given, NEW agents \in Seq(Agents), Once(agents), NEW files
  PROVE  Once(Compose(text, agents, files))
<1> DEFINE a == IF Includes(text, agents) THEN << >> ELSE agents
<1>1. a \in Seq(Agents) /\ Once(a)
  BY SmallOnce
<1>2. text \in Seq({"base"}) /\ Once(text)
  BY SmallOnce DEF Given
<1> HIDE DEF a
<1> DEFINE b == a \o text
<1>3. b \in Seq(Agents \cup {"base"}) /\ Once(b)
  <2>1. Agents \cap {"base"} = {}
    BY DEF Agents
  <2> QED
    BY <1>1, <1>2, <2>1, JoinedOnce
<1> HIDE DEF b
<1> DEFINE c == b \o Custom
<1>4. (Agents \cup {"base"}) \cap {"rules", "extra"} = {}
  BY DEF Agents
<1>5. c \in Seq((Agents \cup {"base"}) \cup {"rules", "extra"}) /\ Once(c)
  BY <1>3, <1>4, CustomOnce, JoinedOnce
<1> HIDE DEF c
<1>6. ((Agents \cup {"base"}) \cup {"rules", "extra"}) \cap {"compact", "memory", "todo"} = {}
  BY DEF Agents
<1>7. Once(c \o Pinned(files))
  BY <1>5, <1>6, PinnedOnce, JoinedOnce
<1>8. Compose(text, agents, files) = c \o Pinned(files)
  BY DEF Compose, a, b, c
<1> QED
  BY <1>7, <1>8
LEMMA AgentsOnce ==
  ASSUME NEW file
  PROVE  AgentsText(file) \in Seq(Agents) /\ Once(AgentsText(file))
<1>1. /\ \A x \in Agents : <<x>> \in Seq(Agents) /\ Once(<<x>>)
      /\ << >> \in Seq(Agents) /\ Once(<< >>)
  BY SmallOnce
<1>2. "picked" \in Agents /\ "agents 1" \in Agents /\ "agents 2" \in Agents
  BY DEF Agents
<1>3. \/ AgentsText(file) = << >> \/ AgentsText(file) = <<"picked">>
      \/ AgentsText(file) = <<"agents 1">> \/ AgentsText(file) = <<"agents 2">>
  <2>1. CASE file = "picked"
    BY <2>1, Zenon DEF AgentsText
  <2>2. CASE file # "picked" /\ disk.agents = 0
    <3>1. AgentsText(file) = CASE disk.agents = 0 -> << >> [] disk.agents = 1 -> <<"agents 1">>
                               [] OTHER -> <<"agents 2">>
      BY <2>2, Zenon DEF AgentsText
    <3>2. disk.agents # 1
      BY <2>2
    <3>3. AgentsText(file) = << >>
      BY <2>2, <3>1, <3>2
    <3> QED
      BY <3>3
  <2>3. CASE file # "picked" /\ disk.agents # 0 /\ disk.agents = 1
    BY <2>3, Zenon DEF AgentsText
  <2>4. CASE file # "picked" /\ disk.agents # 0 /\ disk.agents # 1
    BY <2>4, Zenon DEF AgentsText
  <2> QED
    BY <2>1, <2>2, <2>3, <2>4
<1> QED
  BY <1>1, <1>2, <1>3

LEMMA PinnedSections ==
  ASSUME NEW files \in SUBSET PinnedFiles
  PROVE  Pinned(files) \in Seq(PinnedFiles)
<1>1. \A name : Section(name, files) \in Seq(PinnedFiles)
  <2> SUFFICES ASSUME NEW name PROVE Section(name, files) \in Seq(PinnedFiles)
    OBVIOUS
  <2>1. CASE name \in files
    <3>1. Section(name, files) = <<name>> /\ name \in PinnedFiles
      BY <2>1 DEF Section
    <3> HIDE DEF PinnedFiles
    <3> QED
      BY <3>1
  <2>2. CASE name \notin files
    BY <2>2, SmallOnce DEF Section
  <2> QED
    BY <2>1, <2>2
<1> DEFINE a == Section("compact", files) \o Section("memory", files)
<1>2. a \in Seq(PinnedFiles)
  BY <1>1, Joined
<1> HIDE DEF a
<1>3. a \o Section("todo", files) \in Seq(PinnedFiles)
  BY <1>1, <1>2, Joined
<1> QED
  BY <1>3 DEF Pinned, a

LEMMA ComposedSections ==
  ASSUME NEW text \in Seq(Sections), NEW agents \in Seq(Agents), NEW files \in SUBSET PinnedFiles
  PROVE  Compose(text, agents, files) \in Seq(Sections)
<1> DEFINE a == IF Includes(text, agents) THEN << >> ELSE agents
<1>1. Agents \subseteq Sections /\ {"rules", "extra"} \subseteq Sections /\ PinnedFiles \subseteq Sections
  BY DEF Agents, Sections
<1>2. a \in Seq(Sections)
  BY <1>1, SeqWider, SmallOnce
<1>3. Custom \in Seq(Sections)
  BY <1>1, CustomOnce, SeqWider
<1>4. Pinned(files) \in Seq(Sections)
  BY <1>1, PinnedSections, SeqWider
<1> HIDE DEF a
<1> DEFINE b == a \o text
<1>5. b \in Seq(Sections)
  BY <1>2, Joined
<1> HIDE DEF b
<1> DEFINE c == b \o Custom
<1>6. c \in Seq(Sections)
  BY <1>3, <1>5, Joined
<1> HIDE DEF c
<1>7. c \o Pinned(files) \in Seq(Sections)
  BY <1>4, <1>6, Joined
<1>8. Compose(text, agents, files) = c \o Pinned(files)
  BY DEF Compose, a, b, c
<1> QED
  BY <1>7, <1>8

LEMMA NothingTwiceOnce == NothingTwice <=> mixed \/ Once(prompt)
BY DEF NothingTwice, Once

LEMMA RecomposeInv ==
  ASSUME PromptInv, NEW with \in BOOLEAN, NEW file \in {"AGENTS.md", "picked"}, Recompose(with, file),
         include' \in BOOLEAN, path' \in {"AGENTS.md", "picked"}, mode' \in {"none", "auto", "selected"}
  PROVE  PromptInv'
<1> DEFINE agents == IF with THEN AgentsText(file) ELSE << >>
<1>1. /\ prompt' = Compose(Base(file), agents, disk.pinned) /\ mixed' = (mixed \/ ~base.known)
      /\ UNCHANGED <<replies, tagged, lost, base, extra, disk, kept, tag, written>>
  BY DEF Recompose, Composed
<1>2. agents \in Seq(Agents) /\ Once(agents)
  BY AgentsOnce, SmallOnce
<1> HIDE DEF agents
<1>3. disk.pinned \in SUBSET PinnedFiles
  BY DEF PromptInv, PromptTypes
<1>4. Base(file) \in Seq(Sections)
  <2>1. prompt \in Seq(Sections) /\ base.text \in Seq(Sections)
    BY DEF PromptInv, PromptTypes
  <2>2. Stripped(prompt, file) \in Seq(Sections)
    <3>1. prompt # << >> => Tail(prompt) \in Seq(Sections)
      <4> HIDE DEF Sections
      <4> QED
        BY <2>1
    <3> QED
      BY <2>1, <3>1 DEF Stripped, Includes
  <2> QED
    BY <2>1, <2>2 DEF Base
<1>5. prompt' \in Seq(Sections)
  BY <1>1, <1>2, <1>3, <1>4, ComposedSections
<1>6. ASSUME ~mixed' PROVE Once(prompt') /\ base'.text \in Given
  <2>1. ~mixed /\ base.known /\ base.text \in Given
    BY <1>1, <1>6 DEF PromptInv
  <2>2. Base(file) \in Given
    BY <2>1 DEF Base
  <2> QED
    BY <1>1, <1>2, <2>1, <2>2, ComposedOnce
<1>7. mixed' \in BOOLEAN
  BY <1>1 DEF PromptInv, PromptTypes
<1>8. PromptTypes'
  BY <1>1, <1>5, <1>7 DEF PromptInv, PromptTypes
<1>9. NothingTwice'
  BY <1>6 DEF NothingTwice, Once
<1> QED
  BY <1>1, <1>6, <1>8, <1>9 DEF PromptInv, Waiting, FromItsSource, TagStays, WrittenByReply

\* A new conversation.
LEMMA ResetInv ==
  ASSUME PromptInv, NEW files \in SUBSET PinnedFiles, ResetPrompt(files),
         UNCHANGED <<agentPrompt, base, extra>>,
         disk' \in [agents : 0 .. Editions, pinned : SUBSET PinnedFiles],
         written' \in {"nothing", "reply", "lost"}
  PROVE  PromptInv'
<1> DEFINE agents == IF include THEN AgentsText("AGENTS.md") ELSE << >>
<1>1. /\ prompt' = Compose(base.text, agents, files) /\ replies' = << >>
      /\ mixed' = (base.text \notin Given)
      /\ tag' = FALSE /\ tagged' = "none" /\ lost' = {} /\ kept' = kept
  BY DEF ResetPrompt, Left, Given
<1>2. agents \in Seq(Agents) /\ Once(agents)
  BY AgentsOnce, SmallOnce
<1> HIDE DEF agents
<1>3. base.text \in Seq(Sections)
  BY DEF PromptInv, PromptTypes
<1>4. prompt' \in Seq(Sections)
  BY <1>1, <1>2, <1>3, ComposedSections
<1>5. ~mixed' => Once(prompt') /\ base'.text \in Given
  BY <1>1, <1>2, ComposedOnce
<1>6. PromptTypes'
  <2>1. replies' \in Seq(Blocks) /\ mixed' \in BOOLEAN
    BY <1>1
  <2> QED
    BY <1>1, <1>4, <2>1 DEF PromptInv, PromptTypes, agentPrompt
<1>7. NothingTwice'
  BY <1>5 DEF NothingTwice, Once
<1> QED
  BY <1>1, <1>5, <1>6, <1>7 DEF PromptInv, Waiting, FromItsSource, TagStays, WrittenByReply

LEMMA SwitchInv ==
  ASSUME PromptInv, SwitchPrompt, include' \in BOOLEAN, UNCHANGED <<path, mode>>
  PROVE  PromptInv'
<1>1. /\ prompt' = <<"agents 1", "rules">> /\ replies' = <<"compact">> /\ mixed' = TRUE
      /\ tag' = FALSE /\ tagged' = "none" /\ lost' = {} /\ UNCHANGED <<kept, extra, disk, written>>
      /\ base' = [known |-> kept.text # << >>, text |-> <<"agents 1", "rules">>]
  BY DEF SwitchPrompt, Left, PromptInv, PromptTypes
<1>2. <<"agents 1", "rules">> \in Seq(Sections) /\ <<"compact">> \in Seq(Blocks)
  <2>1. "agents 1" \in Sections /\ "rules" \in Sections
    BY DEF Sections
  <2>2. "compact" \in Blocks
    BY DEF Blocks, PinnedFiles
  <2>3. \A S : \A x, y \in S : <<x, y>> \in Seq(S) /\ <<x>> \in Seq(S)
    OBVIOUS
  <2> QED
    BY <2>1, <2>2, <2>3
<1>3. PromptTypes'
  BY <1>1, <1>2 DEF PromptInv, PromptTypes
<1> QED
  BY <1>1, <1>3 DEF PromptInv, Waiting, FromItsSource, NothingTwice, TagStays, WrittenByReply

\* The block of a reply that is not empty is the latest there is.
LEMMA LatestIsLast ==
  ASSUME NEW said \in Seq(Blocks), said # << >>, said[Len(said)] # "empty"
  PROVE  Latest(said) = said[Len(said)]
<1> DEFINE full == { i \in DOMAIN said : said[i] # "empty" }
<1>1. Len(said) \in full /\ full \subseteq 1 .. Len(said) /\ Len(said) \in Nat
  <2>1. Len(said) \in Nat /\ Len(said) # 0 /\ DOMAIN said = 1 .. Len(said)
    OBVIOUS
  <2> QED
    BY <2>1
<1> HIDE DEF full
<1> DEFINE k == CHOOSE i \in full : \A j \in full : j <= i
<1>2. k \in full /\ \A j \in full : j <= k
  <2>1. \A j \in full : j <= Len(said)
    BY <1>1
  <2>2. \E i \in full : \A j \in full : j <= i
    BY <1>1, <2>1
  <2> QED
    BY <2>2
<1> HIDE DEF k
<1>3. k = Len(said)
  BY <1>1, <1>2
<1>4. Latest(said) = said[k]
  BY <1>1 DEF Latest, k, full
<1> QED
  BY <1>3, <1>4

\* A reply more: its block is the last.
LEMMA OneMoreReply ==
  ASSUME NEW said \in Seq(Blocks), NEW block \in Blocks
  PROVE  /\ Append(said, block) \in Seq(Blocks) /\ Append(said, block) # << >>
         /\ Len(Append(said, block)) > Len(said)
         /\ Append(said, block)[Len(Append(said, block))] = block
<1> HIDE DEF Blocks
<1> QED
  OBVIOUS

\* What a turn does to the replies and the tag.
LEMMA TurnTags ==
  ASSUME PromptInv, NEW block \in Blocks, NEW template \in BOOLEAN,
         Lose(template) \/ Reply(block, template)
  PROVE  /\ replies' \in Seq(Blocks) /\ tag' \in BOOLEAN /\ lost' \subseteq {"turn", "template"}
         /\ tagged' \in {"none", "own", "other"} /\ Waiting' /\ TagStays'
<1>1. /\ replies \in Seq(Blocks) /\ tag \in BOOLEAN /\ lost \subseteq {"turn", "template"}
      /\ tagged \in {"none", "own", "other"} /\ Waiting /\ TagStays
  BY DEF PromptInv, PromptTypes, FromItsSource
<1>2. CASE Lose(template)
  BY <1>1, <1>2 DEF Lose, Waiting, TagStays
<1>3. CASE Reply(block, template)
  <2>1. replies' \in Seq(Blocks)
    BY <1>1, <1>3, OneMoreReply DEF Reply
  <2> QED
    BY <1>1, <1>3, <2>1 DEF Reply, Waiting, TagStays
<1> QED
  BY <1>2, <1>3
\* A step of a turn, of the user's editor or of a command on the pinned files
\* leaves the prompt and what it was made from.
LEMMA KeepsPrompt ==
  ASSUME PromptInv, UNCHANGED <<prompt, agentPrompt, base, kept, mixed>>,
         extra' \in {"none", "extra", "rules"},
         disk' \in [agents : 0 .. Editions, pinned : SUBSET PinnedFiles],
         replies' \in Seq(Blocks), tag' \in BOOLEAN, lost' \subseteq {"turn", "template"},
         tagged' \in {"none", "own", "other"}, Waiting', TagStays',
         written' \in {"nothing", "reply", "lost"}
  PROVE  PromptInv'
<1>1. PromptTypes'
  BY DEF PromptInv, PromptTypes, agentPrompt
<1>2. NothingTwice'
  BY DEF PromptInv, FromItsSource, NothingTwice
<1> QED
  BY <1>1, <1>2 DEF PromptInv, FromItsSource, WrittenByReply

LEMMA AskInv == ASSUME PromptInv, NEW template \in BOOLEAN, Ask(template) PROVE PromptInv'
<1>1. "none" \in Blocks /\ "empty" \in Blocks
  BY DEF Blocks
<1>2. PICK block \in Blocks : Lose(template) \/ Reply(block, template)
  BY <1>1 DEF Ask
<1>3. UNCHANGED <<prompt, agentPrompt, base, extra, disk, kept, written, mixed>>
  BY DEF Ask
<1>4. /\ replies' \in Seq(Blocks) /\ tag' \in BOOLEAN /\ lost' \subseteq {"turn", "template"}
      /\ tagged' \in {"none", "own", "other"} /\ Waiting' /\ TagStays'
  BY <1>2, TurnTags
<1>5. written' \in {"nothing", "reply", "lost"}
  BY <1>3 DEF PromptInv, PromptTypes, FromItsSource, WrittenByReply
<1> QED
  BY <1>3, <1>4, <1>5, KeepsPrompt DEF PromptInv, PromptTypes

\* What a command writes comes from the reply it asked for, or that or
\* another request of the conversation came to nothing.
LEMMA WritesReply ==
  ASSUME PromptInv, NEW file \in PinnedFiles, NEW said \in Seq(Blocks), NEW noReply \in BOOLEAN,
         Write(file, said, noReply),
         noReply \/ (Len(said) > Len(replies) /\ said[Len(said)] = file)
  PROVE  /\ disk' \in [agents : 0 .. Editions, pinned : SUBSET PinnedFiles]
         /\ written' \in {"reply", "lost"} /\ disk'.pinned = disk.pinned \cup {file}
<1>1. disk \in [agents : 0 .. Editions, pinned : SUBSET PinnedFiles]
  BY DEF PromptInv, PromptTypes
<1>2. disk' = [disk EXCEPT !.pinned = @ \cup {file}]
  BY DEF Write
<1>3. written' \in {"reply", "lost"}
  BY DEF Write
<1> QED
  BY <1>1, <1>2, <1>3

LEMMA WritePinnedInv == ASSUME PromptInv, NEW file \in Notes, WritePinned(file) PROVE PromptInv'
<1>1. file \in PinnedFiles /\ file \in Blocks /\ "none" \in Blocks /\ "empty" \in Blocks
      /\ file # "none" /\ file # "empty"
  BY InstructionsAssumption DEF PinnedFiles, Blocks
<1>2. /\ Lose(FALSE) \/ \E block \in {file, "none", "empty"} : Reply(block, FALSE)
      /\ IF Latest(replies') = file THEN Write(file, replies', "turn" \in lost') ELSE UNCHANGED <<disk, written>>
      /\ UNCHANGED <<prompt, agentPrompt, base, extra, kept, mixed>>
  BY DEF WritePinned
<1>3. PICK block \in {file, "none", "empty"} : Lose(FALSE) \/ Reply(block, FALSE)
  BY <1>2
<1>4. block \in Blocks
  BY <1>1
<1>5. /\ replies' \in Seq(Blocks) /\ tag' \in BOOLEAN /\ lost' \subseteq {"turn", "template"}
      /\ tagged' \in {"none", "own", "other"} /\ Waiting' /\ TagStays'
  BY <1>3, <1>4, TurnTags
<1>6. CASE Latest(replies') = file
  <2>1. "turn" \in lost' \/ (Len(replies') > Len(replies) /\ replies'[Len(replies')] = file)
    <3>1. CASE Lose(FALSE)
      BY <3>1 DEF Lose
    <3>2. CASE Reply(block, FALSE)
      <4>1. replies' = Append(replies, block) /\ replies \in Seq(Blocks)
        BY <3>2 DEF Reply, PromptInv, PromptTypes
      <4>2. /\ replies' # << >> /\ Len(replies') > Len(replies)
            /\ replies'[Len(replies')] = block
        BY <1>4, <4>1, OneMoreReply
      <4>3. CASE block = "empty"
        BY <3>2, <4>3 DEF Reply
      <4>4. CASE block # "empty"
        <5>1. Latest(replies') = block
          BY <1>5, <4>2, <4>4, LatestIsLast
        <5> QED
          BY <1>6, <4>2, <5>1
      <4> QED
        BY <4>3, <4>4
    <3> QED
      BY <1>3, <3>1, <3>2
  <2> DEFINE noReply == "turn" \in lost'
  <2>2. Write(file, replies', noReply) /\ noReply \in BOOLEAN
    BY <1>2, <1>6
  <2> HIDE DEF noReply
  <2>3. noReply \/ (Len(replies') > Len(replies) /\ replies'[Len(replies')] = file)
    BY <2>1 DEF noReply
  <2>4. disk' \in [agents : 0 .. Editions, pinned : SUBSET PinnedFiles] /\ written' \in {"reply", "lost"}
    BY <1>1, <1>5, <2>2, <2>3, WritesReply
  <2> QED
    BY <1>2, <1>5, <2>4, KeepsPrompt DEF PromptInv, PromptTypes
<1>7. CASE Latest(replies') # file
  <2>1. disk' = disk /\ written' = written
    BY <1>2, <1>7
  <2>2. written' \in {"nothing", "reply", "lost"}
    BY <2>1 DEF PromptInv, PromptTypes, FromItsSource, WrittenByReply
  <2> QED
    BY <1>2, <1>5, <2>1, <2>2, KeepsPrompt DEF PromptInv, PromptTypes
<1> QED
  BY <1>6, <1>7

LEMMA CompactInv == ASSUME PromptInv, Compact PROVE PromptInv'
<1>1. PICK said \in {replies} \cup {Append(replies, block) : block \in {"compact", "none", "empty"}} :
        /\ Latest(said) = "compact"
        /\ Write("compact", said, "turn" \in lost \/ said \in {replies, Append(replies, "empty")})
  BY DEF Compact
<1> DEFINE noReply == "turn" \in lost \/ said \in {replies, Append(replies, "empty")}
<1>2. "compact" \in PinnedFiles /\ "compact" \in Blocks /\ "none" \in Blocks /\ "empty" \in Blocks
  BY DEF PinnedFiles, Blocks
<1>3. replies \in Seq(Blocks)
  BY DEF PromptInv, PromptTypes
<1>4. said \in Seq(Blocks) /\ (noReply \/ (Len(said) > Len(replies) /\ said[Len(said)] = "compact"))
  <2>1. CASE said = replies \/ said = Append(replies, "empty")
    <3>1. said \in Seq(Blocks)
      BY <1>2, <1>3, <2>1, OneMoreReply
    <3> QED
      BY <2>1, <3>1
  <2>2. ASSUME NEW block \in {"compact", "none"}, said = Append(replies, block)
        PROVE  said \in Seq(Blocks) /\ Len(said) > Len(replies) /\ said[Len(said)] = "compact"
    <3>1. /\ said \in Seq(Blocks) /\ said # << >> /\ Len(said) > Len(replies)
          /\ said[Len(said)] = block /\ block # "empty"
      BY <1>2, <1>3, <2>2, OneMoreReply
    <3>2. Latest(said) = block
      BY <3>1, LatestIsLast
    <3> QED
      BY <1>1, <3>1, <3>2
  <2> QED
    BY <1>1, <2>1, <2>2
<1>5. Write("compact", said, noReply) /\ noReply \in BOOLEAN
  BY <1>1
<1> HIDE DEF noReply
<1>6. /\ disk' \in [agents : 0 .. Editions, pinned : SUBSET PinnedFiles]
      /\ written' \in {"reply", "lost"}
  BY <1>2, <1>4, <1>5, WritesReply
<1>7. ResetPrompt(disk'.pinned) /\ UNCHANGED <<agentPrompt, base, extra>>
  BY DEF Compact
<1>8. disk'.pinned \in SUBSET PinnedFiles
  BY <1>6
<1> QED
  BY <1>6, <1>7, <1>8, ResetInv

LEMMA EditsInv ==
  ASSUME PromptInv, EditAgents \/ (\E file \in Notes : EditPinned(file))
                      \/ (\E file \in {"none", "extra", "rules"} : SelectCustom(file))
                      \/ UNCHANGED instructionsVars
  PROVE  PromptInv'
<1>1. disk \in [agents : 0 .. Editions, pinned : SUBSET PinnedFiles]
  BY DEF PromptInv, PromptTypes
<1>2. UNCHANGED <<prompt, replies, tagged, lost, agentPrompt, base, kept, tag, mixed>>
  BY DEF EditAgents, EditPinned, SelectCustom, instructionsVars, conversation
<1>3. extra' \in {"none", "extra", "rules"}
  BY DEF EditAgents, EditPinned, SelectCustom, instructionsVars, PromptInv, PromptTypes
<1>4. written' \in {"nothing", "reply", "lost"}
  BY DEF EditAgents, EditPinned, SelectCustom, instructionsVars, PromptInv, PromptTypes,
         FromItsSource, WrittenByReply
<1>5. disk' \in [agents : 0 .. Editions, pinned : SUBSET PinnedFiles]
  <2>1. CASE EditAgents
    BY <1>1, <2>1 DEF EditAgents
  <2>2. ASSUME NEW file \in Notes, EditPinned(file)
        PROVE  disk' \in [agents : 0 .. Editions, pinned : SUBSET PinnedFiles]
    <3>1. disk' = [disk EXCEPT !.pinned = IF file \in @ THEN @ \ {file} ELSE @ \cup {file}]
      BY <2>2 DEF EditPinned
    <3>2. (IF file \in disk.pinned THEN disk.pinned \ {file} ELSE disk.pinned \cup {file}) \subseteq PinnedFiles
      BY <1>1 DEF PinnedFiles
    <3> QED
      BY <1>1, <3>1, <3>2
  <2>3. CASE (\E file \in {"none", "extra", "rules"} : SelectCustom(file)) \/ UNCHANGED instructionsVars
    BY <1>1, <2>3 DEF SelectCustom, instructionsVars
  <2> QED
    BY <2>1, <2>2, <2>3
<1>6. Waiting' /\ TagStays'
  BY <1>2 DEF PromptInv, FromItsSource, Waiting, TagStays
<1> QED
  BY <1>2, <1>3, <1>4, <1>5, <1>6, KeepsPrompt DEF PromptInv, PromptTypes

LEMMA PromptInitInv == InstructionsInit => PromptInv
<1> SUFFICES ASSUME InstructionsInit PROVE PromptInv
  OBVIOUS
<1>1. /\ disk \in [agents : 0 .. 1, pinned : {{}, Notes}]
      /\ base \in {[known |-> FALSE, text |-> << >>], [known |-> TRUE, text |-> <<"base">>]}
      /\ replies = << >>
  BY Zenon DEF InstructionsInit
<1>2. disk \in [agents : 0 .. Editions, pinned : SUBSET PinnedFiles]
  <2>1. 0 .. 1 \subseteq 0 .. Editions
    BY InstructionsAssumption
  <2>2. {{}, Notes} \subseteq SUBSET PinnedFiles
    BY DEF PinnedFiles
  <2> QED
    BY <1>1, <2>1, <2>2
<1>3. base \in [known : BOOLEAN, text : Seq(Sections)] /\ base.text \in Given
  <2>1. "base" \in Sections
    BY DEF Sections
  <2>2. << >> \in Seq(Sections) /\ <<"base">> \in Seq(Sections)
    <3> HIDE DEF Sections
    <3> QED
      BY <2>1
  <2>3. CASE base = [known |-> FALSE, text |-> << >>]
    BY <2>2, <2>3 DEF Given
  <2>4. CASE base = [known |-> TRUE, text |-> <<"base">>]
    BY <2>2, <2>4 DEF Given
  <2> QED
    BY <1>1, <2>3, <2>4
<1>4. prompt = Compose(base.text, AgentsText("AGENTS.md"), disk.pinned)
  BY DEF InstructionsInit
<1>5. AgentsText("AGENTS.md") \in Seq(Agents) /\ Once(AgentsText("AGENTS.md"))
  BY AgentsOnce
<1>6. prompt \in Seq(Sections)
  BY <1>2, <1>3, <1>4, <1>5, ComposedSections
<1>7. Once(prompt)
  BY <1>3, <1>4, <1>5, ComposedOnce
<1>8. replies \in Seq(Blocks)
  BY <1>1, SmallOnce
<1>9. PromptTypes
  BY <1>2, <1>3, <1>6, <1>8 DEF InstructionsInit, PromptTypes
<1>10. NothingTwice
  BY <1>7 DEF NothingTwice, Once
<1> QED
  BY <1>3, <1>9, <1>10 DEF InstructionsInit, PromptInv, Waiting, FromItsSource, TagStays, WrittenByReply

LEMMA PromptNextInv == PromptInv /\ [InstructionsNext]_instructionsVars => PromptInv'
<1> SUFFICES ASSUME PromptInv, [InstructionsNext]_instructionsVars PROVE PromptInv'
  OBVIOUS
<1>1. CASE AgentPromptNone \/ AgentPromptAuto \/ AgentPromptPick
  BY <1>1, RecomposeInv DEF AgentPromptNone, AgentPromptAuto, AgentPromptPick, PromptInv, PromptTypes
<1>2. ASSUME NEW enabled \in BOOLEAN, IncludeAgents(enabled) PROVE PromptInv'
  BY <1>2, RecomposeInv DEF IncludeAgents, PromptInv, PromptTypes
<1>3. CASE NewPrompt
  <2>1. disk.pinned \in SUBSET PinnedFiles /\ disk' = disk /\ written' = written
    BY <1>3 DEF NewPrompt, PromptInv, PromptTypes
  <2>2. written' \in {"nothing", "reply", "lost"}
    BY <2>1 DEF PromptInv, PromptTypes, FromItsSource, WrittenByReply
  <2> QED
    BY <1>3, <2>1, <2>2, ResetInv DEF NewPrompt, PromptInv, PromptTypes
<1>4. CASE ResumePrompt
  BY <1>4, SwitchInv DEF ResumePrompt, agentPrompt, PromptInv, PromptTypes
<1>5. CASE ResumeInWindow
  <2>1. include' \in BOOLEAN
    BY <1>5 DEF ResumeInWindow, Includes
  <2> QED
    BY <1>5, <2>1, SwitchInv DEF ResumeInWindow
<1>6. ASSUME NEW template \in BOOLEAN, Ask(template) PROVE PromptInv'
  BY <1>6, AskInv
<1>7. ASSUME NEW file \in Notes, WritePinned(file) PROVE PromptInv'
  BY <1>7, WritePinnedInv
<1> QED
  BY <1>1, <1>2, <1>3, <1>4, <1>5, <1>6, <1>7, CompactInv, EditsInv DEF InstructionsNext

\* Whatever is chosen, edited, resumed and asked, a prompt composed from the
\* one given at the start has every section once, the metadata of a template
\* goes with another message only after its own request was lost, and a
\* pinned file is written from the reply to the command that writes it, or
\* after a request that came to nothing (compose_system_prompt,
\* send_chat_turn, latest_assistant_message).
THEOREM PromptFromItsSource == InstructionsSpec => []FromItsSource
<1>1. PromptInv => FromItsSource
  BY DEF PromptInv
<1> QED
  BY <1>1, PromptInitInv, PromptNextInv, PTL DEF InstructionsSpec

-----------------------------------------------------------------------------
(* The types of the picker's variables, which PickerInv does without.      *)

\* What Those gives: some of the items of the list, each as often at most.
LEMMA SomeOfThem ==
  ASSUME NEW list \in Seq(Items), NEW S
  PROVE  /\ Those(list, S) \in Seq(Items) /\ Len(Those(list, S)) <= Len(list)
<1> DEFINE P == { i \in DOMAIN list : list[i] \in S }
           sorted == CHOOSE s \in [1 .. Cardinality(P) -> P] : \A i, j \in DOMAIN s : i < j => s[i] < s[j]
<1>1. Len(list) \in Nat /\ DOMAIN list = 1 .. Len(list) /\ \A i \in DOMAIN list : list[i] \in Items
  OBVIOUS
<1>2. P \in SUBSET (1 .. Len(list)) /\ P \in SUBSET Nat
  BY <1>1
<1>3. IsFiniteSet(1 .. Len(list)) /\ Cardinality(1 .. Len(list)) = Len(list)
  <2>1. /\ IsFiniteSet(1 .. Len(list))
        /\ Cardinality(1 .. Len(list)) = IF 1 > Len(list) THEN 0 ELSE Len(list) - 1 + 1
    BY <1>1, FS_Interval
  <2> QED
    BY <1>1, <2>1
<1>4. IsFiniteSet(P) /\ Cardinality(P) <= Len(list)
  BY <1>2, <1>3, FS_Subset
<1>5. Cardinality(P) \in Nat
  BY <1>4, FS_CardinalityType
<1>6. sorted \in [1 .. Cardinality(P) -> P]
  <2>1. Ascending(Cardinality(P), P) # {}
    BY <1>2, <1>4, HasAscending
  <2>2. \E s \in [1 .. Cardinality(P) -> P] : \A i, j \in DOMAIN s : i < j => s[i] < s[j]
    BY <2>1 DEF Ascending
  <2> HIDE DEF P
  <2> QED
    BY <2>2
<1>7. Those(list, S) = [n \in DOMAIN sorted |-> list[sorted[n]]]
  BY DEF Those
<1> HIDE DEF sorted
<1> DEFINE card == Cardinality(P)
<1>8. DOMAIN sorted = 1 .. card /\ \A n \in 1 .. card : list[sorted[n]] \in Items
  BY <1>1, <1>6
<1>9. card \in Nat /\ card <= Len(list)
  BY <1>4, <1>5
<1> HIDE DEF card
<1> DEFINE t == [n \in 1 .. card |-> list[sorted[n]]]
<1>10. t \in Seq(Items) /\ Len(t) = card
  BY <1>8, <1>9
<1> QED
  BY <1>7, <1>8, <1>9, <1>10

\* A list without repetitions is no longer than there are items.
LEMMA NotLonger ==
  ASSUME NEW list \in Seq(Items), IsInjective(list)
  PROVE  Len(list) <= Count
<1>1. Count \in Nat /\ Len(list) \in Nat
  BY PickerAssumption
<1>2. list \in [1 .. Len(list) -> Items] /\ \A i, j \in 1 .. Len(list) : list[i] = list[j] => i = j
  BY DEF IsInjective
<1>3. IsFiniteSet(Items) /\ Cardinality(Items) = Count
  <2>1. /\ IsFiniteSet(1 .. Count)
        /\ Cardinality(1 .. Count) = IF 1 > Count THEN 0 ELSE Count - 1 + 1
    BY <1>1, FS_Interval
  <2> QED
    BY <1>1, <2>1 DEF Items
<1>4. IsFiniteSet(1 .. Len(list)) /\ Cardinality(1 .. Len(list)) = Len(list)
  <2>1. /\ IsFiniteSet(1 .. Len(list))
        /\ Cardinality(1 .. Len(list)) = IF 1 > Len(list) THEN 0 ELSE Len(list) - 1 + 1
    BY <1>1, FS_Interval
  <2> QED
    BY <1>1, <2>1
<1>5. list \in Injection(1 .. Len(list), Items)
  BY <1>2 DEF Injection, IsInjective
<1>6. Cardinality(1 .. Len(list)) <= Cardinality(Items)
  BY <1>3, <1>4, <1>5, FS_Injection
<1> QED
  BY <1>3, <1>4, <1>6

\* A number divided is no larger.
LEMMA Division ==
  ASSUME NEW a \in Nat, NEW b \in Nat \ {0}
  PROVE  a \div b \in Nat /\ a \div b <= a
<1> DEFINE q == a \div b
<1>1. q \in Int /\ a = b * q + (a % b) /\ a % b \in 0 .. b - 1
  OBVIOUS
<1> HIDE DEF q
<1>2. q >= 0
  <2>1. ASSUME q <= -1 PROVE FALSE
    <3>1. b * q <= -b
      BY <1>1, <2>1
    <3> QED
      BY <1>1, <3>1
  <2> QED
    BY <1>1, <2>1
<1>3. q <= b * q
  BY <1>1, <1>2
<1>4. q <= a
  <2> DEFINE m == b * q
  <2>1. m \in Int
    BY <1>1
  <2> HIDE DEF m
  <2> QED
    BY <1>1, <1>3, <2>1 DEF m
<1> QED
  BY <1>1, <1>2, <1>4 DEF q

\* The pages of a list are no more than the items.
LEMMA PagesInBounds ==
  ASSUME NEW list \in Seq(Items), Len(list) <= Count
  PROVE  Pages(list) \in 1 .. Count
<1>1. Size \in Nat \ {0} /\ Count \in Nat \ {0}
  BY PickerAssumption DEF Size
<1>2. CASE list = << >>
  BY <1>1, <1>2 DEF Pages
<1>3. CASE list # << >>
  <2> DEFINE a == Len(list) - 1
             q == a \div Size
  <2>1. a \in Nat /\ a + 1 <= Count
    BY <1>1, <1>3
  <2>2. q \in Nat /\ q <= a
    BY <1>1, <2>1, Division
  <2>3. Pages(list) = q + 1
    BY <1>3 DEF Pages
  <2> HIDE DEF a, q
  <2> QED
    BY <1>1, <2>1, <2>2, <2>3
<1> QED
  BY <1>2, <1>3

\* The part of a list on a page is a part of it.
LEMMA ChunkTypes ==
  ASSUME NEW list \in Seq(Items), Len(list) <= Count, NEW p \in Nat \ {0}
  PROVE  /\ Chunk(list, p) \in Seq(Items) /\ Len(Chunk(list, p)) <= Count
         /\ Reading(list, p) \in [DOMAIN Reading(list, p) -> Items]
         /\ DOMAIN Reading(list, p) \subseteq 0 .. Count
<1> DEFINE a == (p - 1) * Size
           b == Least(p * Size, Len(list))
<1>1. Count \in Nat \ {0} /\ Len(list) \in Nat /\ Size \in Nat
  BY PickerAssumption DEF Size
<1>2. a \in Nat
  BY <1>1
<1>3. b \in Nat /\ b <= Len(list)
  <2>1. p * Size \in Nat
    BY <1>1
  <2> QED
    BY <1>1, <2>1 DEF Least
<1>4. Chunk(list, p) = SubSeq(list, a + 1, b)
  BY DEF Chunk
<1> HIDE DEF a, b
<1>5. SubSeq(list, a + 1, b) \in Seq(Items) /\ Len(SubSeq(list, a + 1, b)) <= Count
  BY <1>1, <1>2, <1>3
<1>6. Chunk(list, p) \in Seq(Items) /\ Len(Chunk(list, p)) <= Count
  BY <1>4, <1>5
<1>7. CASE Blind
  <2>1. Reading(list, p) = Chunk(list, p)
    BY <1>7 DEF Reading
  <2> HIDE DEF Chunk
  <2>2. ASSUME NEW s \in Seq(Items), Len(s) <= Count
        PROVE  s \in [DOMAIN s -> Items] /\ DOMAIN s \subseteq 0 .. Count
    BY <1>1, <2>2
  <2> QED
    BY <1>6, <2>1, <2>2
<1>8. CASE ~Blind
  <2>1. Reading(list, p) = [n \in a + 1 .. b |-> list[n]]
    BY <1>8 DEF Reading, a, b
  <2>2. \A n \in a + 1 .. b : n \in 1 .. Len(list) /\ n \in 0 .. Count
    BY <1>1, <1>2, <1>3
  <2>3. \A n \in a + 1 .. b : list[n] \in Items
    BY <2>2
  <2> QED
    BY <1>6, <2>1, <2>2, <2>3
<1> QED
  BY <1>7, <1>8

\* The variables' types, and that what is shown one at a time is there.
PickerTyped ==
  /\ PickerTypeOK
  /\ Len(active) <= Count
  /\ way = "one" => at \in 1 .. Len(active)

\* A list of the items that may become the active one.
Listable(list) == list \in Seq(Items) /\ Len(list) <= Count

LEMMA ListsListable ==
  /\ Listable(All)
  /\ \A q \in Queries : Listable(Matched[q]) /\ Listable(InOrder(q))
  /\ \A q \in Queries : \A S : Listable(Those(Matched[q], S))
<1>0. Count \in Nat
  BY PickerAssumption
<1>1. Listable(All)
  BY <1>0 DEF Listable, All, Items
<1>2. ASSUME NEW q \in Queries PROVE Listable(Matched[q])
  BY NotLonger, PickerAssumption DEF Listable
<1>3. ASSUME NEW list, Listable(list), NEW S PROVE Listable(Those(list, S))
  <2>1. Those(list, S) \in Seq(Items) /\ Len(Those(list, S)) <= Len(list)
    BY <1>3, SomeOfThem DEF Listable
  <2>2. Len(list) \in Nat /\ Len(list) <= Count
    BY <1>3 DEF Listable
  <2>3. Len(Those(list, S)) \in Nat
    BY <2>1
  <2> QED
    BY <1>0, <2>1, <2>2, <2>3 DEF Listable
<1> QED
  BY <1>1, <1>2, <1>3 DEF InOrder

LEMMA ReadOutTyped ==
  ASSUME PickerTyped, way # "one", NEW list, Listable(list), NEW p \in 1 .. Count, ReadOut(list, p),
         chosen' \in Seq(Items)
  PROVE  PickerTyped'
<1>1. /\ active' = list /\ at' = p /\ picked' = NoPick
      /\ read' = IF list = << >> THEN read ELSE Reading(list, p)
      /\ way' = way /\ whole' = whole /\ outcome' = outcome
  BY DEF ReadOut, Stay
<1>2. Count \in Nat /\ p \in Nat \ {0}
  BY PickerAssumption
<1>3. /\ Reading(list, p) \in [DOMAIN Reading(list, p) -> Items]
      /\ DOMAIN Reading(list, p) \subseteq 0 .. Count
  BY <1>2, ChunkTypes DEF Listable
<1>4. DOMAIN read' \subseteq 0 .. Count /\ Range(read') \subseteq Items
  BY <1>1, <1>3 DEF PickerTyped, PickerTypeOK, Range
<1>5. picked' \in [number : 0 .. Count, item : 0 .. Count]
  BY <1>1, <1>2 DEF NoPick
<1> QED
  BY <1>1, <1>4, <1>5 DEF PickerTyped, PickerTypeOK, Listable

LEMMA ShowTyped ==
  ASSUME PickerTyped, NEW list, Listable(list), NEW i \in 1 .. Len(list), Show(list, i)
  PROVE  PickerTyped'
<1>1. /\ active' = list /\ at' = i /\ picked' = NoPick /\ read' = [n \in {0} |-> list[i]]
      /\ way' = way /\ whole' = whole /\ outcome' = outcome /\ chosen' = chosen
  BY DEF Show, Stay
<1>2. Count \in Nat /\ list[i] \in Items /\ Len(list) \in Nat /\ Len(list) <= Count
  BY PickerAssumption DEF Listable
<1>3. DOMAIN read' \subseteq 0 .. Count /\ Range(read') \subseteq Items
  BY <1>1, <1>2 DEF Range
<1>4. picked' \in [number : 0 .. Count, item : 0 .. Count]
  BY <1>1, <1>2 DEF NoPick
<1>5. at' \in 1 .. Count
  BY <1>1, <1>2
<1> QED
  BY <1>1, <1>3, <1>4, <1>5 DEF PickerTyped, PickerTypeOK, Listable

\* A step that leaves the list where it is.
LEMMA AnswersTyped ==
  ASSUME PickerTyped, UNCHANGED <<way, whole, place>>,
         picked' \in [number : 0 .. Count, item : 0 .. Count], chosen' \in Seq(Items),
         outcome' \in {"asking", "item", "none", "escaped"}
  PROVE  PickerTyped'
BY DEF PickerTyped, PickerTypeOK, place

LEMMA TakeTyped ==
  ASSUME PickerTyped, NEW n \in 0 .. Count, NEW i \in Items, Take(n, i)
  PROVE  PickerTyped'
<1>1. UNCHANGED <<way, whole, place>> /\ picked' = [number |-> n, item |-> i]
  BY DEF Take, End
<1>2. picked' \in [number : 0 .. Count, item : 0 .. Count]
  BY <1>1, PickerAssumption DEF Items
<1>3. chosen' \in Seq(Items)
  <2>1. chosen \in Seq(Items)
    BY DEF PickerTyped, PickerTypeOK
  <2>2. chosen' \in {chosen, Append(chosen, i), <<i>>}
    BY DEF Take
  <2>3. Append(chosen, i) \in Seq(Items) /\ <<i>> \in Seq(Items)
    BY <2>1
  <2> QED
    BY <2>1, <2>2, <2>3
<1>4. outcome' \in {"asking", "item", "none", "escaped"}
  BY DEF Take, End, PickerTyped, PickerTypeOK
<1> QED
  BY <1>1, <1>2, <1>3, <1>4, AnswersTyped

\* A list that has just been opened.
OpenedTyped ==
  /\ Listable(active) /\ chosen = << >> /\ outcome = "asking"
  /\ whole \in BOOLEAN /\ Opening

LEMMA OpensTyped == OpenedTyped => PickerTyped
<1> SUFFICES ASSUME OpenedTyped PROVE PickerTyped
  OBVIOUS
<1>0. /\ Listable(active) /\ active # << >> /\ at = 1 /\ picked = NoPick /\ chosen = << >>
      /\ outcome = "asking" /\ whole \in BOOLEAN /\ Opening
  BY DEF OpenedTyped, Opening
<1>1. Count \in Nat \ {0} /\ Len(active) \in Nat \ {0} /\ 1 \in Items
  BY <1>0, PickerAssumption DEF Listable, Items
<1>2. /\ Reading(active, 1) \in [DOMAIN Reading(active, 1) -> Items]
      /\ DOMAIN Reading(active, 1) \subseteq 0 .. Count
  BY <1>0, ChunkTypes DEF Listable
<1>3. \/ read = [n \in {0} |-> 1] \/ read = << >> \/ read = Reading(active, 1)
  BY <1>0 DEF Opening
<1>4. DOMAIN read \subseteq 0 .. Count /\ Range(read) \subseteq Items
  BY <1>1, <1>2, <1>3 DEF Range
<1>5. picked \in [number : 0 .. Count, item : 0 .. Count]
  BY <1>0, <1>1 DEF NoPick
<1> QED
  BY <1>0, <1>1, <1>4, <1>5 DEF PickerTyped, PickerTypeOK, Listable, Opening

LEMMA PickerInitTyped == PickerInit => PickerTyped
<1> SUFFICES ASSUME PickerInit PROVE PickerTyped
  OBVIOUS
<1>1. Opening
  <2>1. active # << >> /\ (way = "one" => active[1] = 1)
    <3>1. CASE way = "paged"
      BY <3>1, WholeList DEF PickerInit
    <3>2. CASE way # "paged"
      BY <3>2, WholeList DEF PickerInit
    <3> QED
      BY <3>1, <3>2
  <2> QED
    BY <2>1 DEF PickerInit, Opening
<1>2. Listable(active)
  <2>1. active = All \/ \E q \in Queries : active = InOrder(q)
    BY DEF PickerInit
  <2> QED
    BY <2>1, ListsListable
<1>3. whole \in BOOLEAN
  <2>1. CASE way = "all"
    BY <2>1 DEF PickerInit
  <2>2. CASE way \in {"paged", "one"}
    BY <2>2 DEF PickerInit
  <2>3. CASE way \in {"blind", "many"}
    BY <2>3 DEF PickerInit
  <2> QED
    BY <2>1, <2>2, <2>3 DEF PickerInit
<1> QED
  BY <1>1, <1>2, <1>3, OpensTyped DEF PickerInit, OpenedTyped

LEMMA PickerNextTyped == PickerTyped /\ [PickerNext]_pickerVars => PickerTyped'
<1> SUFFICES ASSUME PickerTyped, [PickerNext]_pickerVars PROVE PickerTyped'
  OBVIOUS
<1>0. /\ Listable(active) /\ Count \in Nat \ {0} /\ at \in 1 .. Count
      /\ chosen \in Seq(Items) /\ outcome \in {"asking", "item", "none", "escaped"}
      /\ NoPick \in [number : 0 .. Count, item : 0 .. Count]
      /\ picked \in [number : 0 .. Count, item : 0 .. Count]
      /\ Pages(active) \in 1 .. Count
  BY PickerAssumption, PagesInBounds DEF PickerTyped, PickerTypeOK, Listable, NoPick
<1>1. CASE NextPage \/ PreviousPage \/ ListAgain
  <2>1. way # "one"
    BY <1>1 DEF NextPage, PreviousPage, ListAgain, Asking
  <2>2. /\ Least(at + 1, Pages(active)) \in 1 .. Count
        /\ (IF at > 1 THEN at - 1 ELSE 1) \in 1 .. Count
    BY <1>0 DEF Least
  <2>3. PICK p \in 1 .. Count : ReadOut(active, p)
    BY <1>0, <1>1, <2>1, <2>2 DEF NextPage, PreviousPage, ListAgain
  <2>4. chosen' = chosen
    BY <2>3 DEF ReadOut, Stay
  <2> QED
    BY <1>0, <2>1, <2>3, <2>4, ReadOutTyped
<1>2. ASSUME NEW p \in Items, GoToPage(p) PROVE PickerTyped'
  <2>1. way # "one" /\ chosen' = chosen
    BY <1>2 DEF GoToPage, Asking, ReadOut, Stay
  <2>2. Least(p, Pages(active)) \in 1 .. Count
    BY <1>0 DEF Least, Items
  <2> QED
    BY <1>0, <1>2, <2>1, <2>2, ReadOutTyped DEF GoToPage
<1>3. ASSUME NEW list, Listable(list), ReadOut(list, 1), way # "one" PROVE PickerTyped'
  <2>1. chosen' = chosen /\ 1 \in 1 .. Count
    BY <1>0, <1>3 DEF ReadOut, Stay
  <2> QED
    BY <1>0, <1>3, <2>1, ReadOutTyped
<1>4. ASSUME NEW q \in Queries, Find(q) PROVE PickerTyped'
  BY <1>3, <1>4, ListsListable DEF Find, Asking
<1>5. ASSUME NEW list, Listable(list), Bracket(list) PROVE PickerTyped'
  <2>1. Len(list) \in Nat \ {0} /\ Show(list, 1)
    BY <1>5 DEF Bracket, Listable
  <2> QED
    BY <1>5, <2>1, ShowTyped
<1>6. ASSUME NEW step \in {-1, 1}, Round(step) PROVE PickerTyped'
  <2>1. at \in 1 .. Len(active) /\ Len(active) \in Nat
    BY <1>0, <1>6 DEF Round, Asking, PickerTyped, Listable
  <2> DEFINE length == Len(active)
             next == ((at - 1 + step + length) % length) + 1
  <2>2. length \in Nat \ {0} /\ at - 1 + step + length \in Nat
    BY <2>1
  <2>3. next \in 1 .. length
    <3> HIDE DEF length
    <3>1. at \in Int
      BY <1>0
    <3> DEFINE m == at - 1 + step + length
    <3>2. m \in Nat
      BY <2>2
    <3> HIDE DEF m
    <3>3. (m % length) + 1 \in 1 .. length
      BY <2>2, <3>2
    <3> QED
      BY <3>3 DEF m
  <2>4. Show(active, next)
    BY <1>6 DEF Round
  <2> HIDE DEF next
  <2> QED
    BY <1>0, <2>3, <2>4, ShowTyped
<1>7. ASSUME NEW n \in Items, Number(n) PROVE PickerTyped'
  <2>1. n \in DOMAIN Numbered /\ Take(n, Numbered[n])
    BY <1>7 DEF Number
  <2>2. Numbered \in Seq(Items)
    <3>1. at \in Nat \ {0} /\ active \in Seq(Items) /\ Len(active) <= Count
      BY <1>0 DEF Listable
    <3>2. Chunk(active, at) \in Seq(Items)
      BY <3>1, ChunkTypes
    <3> QED
      BY <3>1, <3>2 DEF Numbered
  <2>3. Numbered[n] \in Items /\ n \in 0 .. Count
    BY <1>0, <2>1, <2>2 DEF Items
  <2> QED
    BY <2>1, <2>3, TakeTyped
<1>8. CASE Enter
  <2>1. active[at] \in Items /\ Take(0, active[at])
    BY <1>0, <1>8 DEF Enter, Asking, PickerTyped, Listable
  <2> QED
    BY <1>0, <2>1, TakeTyped
<1>9. CASE Reopen
  <2>1. /\ active' = All /\ at' = 1 /\ picked' = NoPick /\ UNCHANGED <<way, whole>>
        /\ chosen' = << >> /\ outcome' = "asking"
    BY <1>9 DEF Reopen
  <2>2. read' = CASE way = "one" -> [n \in {0} |-> 1]
                  [] way \in {"all", "paged"} \/ (way = "blind" /\ whole) -> Reading(All, 1)
                  [] OTHER -> << >>
    BY <1>9 DEF Reopen
  <2>3. Reading(All, 1)' = Reading(All, 1)
    BY <2>1 DEF Reading, Blind, Chunk, Size, All, Items
  <2>4. Opening' /\ whole' \in BOOLEAN
    BY <2>1, <2>2, <2>3, WholeList DEF Opening, PickerTyped, PickerTypeOK
  <2>5. Listable(active)' /\ active' # << >>
    BY <2>1, WholeList, ListsListable DEF Listable
  <2>6. OpenedTyped'
    BY <2>1, <2>4, <2>5 DEF OpenedTyped
  <2> QED
    BY <2>6, OpensTyped, PTL
<1>10. CASE Clear \/ Done \/ Cancel \/ BackOrSkip \/ UNCHANGED pickerVars
  <2>1. UNCHANGED <<way, whole, place>> /\ (picked' = NoPick \/ picked' = picked)
    BY <1>10 DEF Clear, Done, Cancel, BackOrSkip, End, pickerVars
  <2>2. /\ chosen' = chosen \/ chosen' = << >>
        /\ outcome' \in {outcome, "item", "none", "escaped"}
    BY <1>10 DEF Clear, Done, Cancel, BackOrSkip, End, pickerVars
  <2>3. chosen' \in Seq(Items)
    <3>1. << >> \in Seq(Items)
      OBVIOUS
    <3> QED
      BY <1>0, <2>2, <3>1
  <2> QED
    BY <1>0, <2>1, <2>2, <2>3, AnswersTyped
<1>11. ASSUME NEW n \in Items, Deselect(n) PROVE PickerTyped'
  <2>1. /\ UNCHANGED <<way, whole, place, outcome>> /\ picked' = NoPick
        /\ n \in DOMAIN chosen /\ chosen' = RemoveAt(chosen, n)
    BY <1>11 DEF Deselect
  <2>2. n \in 1 .. Len(chosen) /\ Len(chosen) \in Nat
    BY <1>0, <2>1
  <2>3. SubSeq(chosen, 1, n - 1) \in Seq(Items) /\ SubSeq(chosen, n + 1, Len(chosen)) \in Seq(Items)
    BY <1>0, <2>2
  <2>4. chosen' \in Seq(Items)
    BY <2>1, <2>3 DEF RemoveAt
  <2> QED
    BY <1>0, <2>1, <2>4, AnswersTyped
<1>12. ASSUME NEW q \in Queries, Name(q) PROVE PickerTyped'
  <2>1. /\ UNCHANGED <<way, whole, place>> /\ picked' = NoPick /\ outcome' = "item"
        /\ chosen' = Those(active, Range(Matched[q]))
    BY <1>12 DEF Name, End
  <2>2. chosen' \in Seq(Items)
    BY <1>0, <2>1, SomeOfThem DEF Listable
  <2> QED
    BY <1>0, <2>1, <2>2, AnswersTyped
<1>13. ASSUME NEW q \in Queries, BlindName(q) PROVE PickerTyped'
  <2>1. way # "one"
    BY <1>13 DEF BlindName, Asking
  <2>2. Listable(Matched[q]) /\ Listable(Those(Matched[q], Range(active)))
    BY ListsListable
  <2>3. \/ /\ UNCHANGED <<way, whole, place>> /\ picked' = NoPick
           /\ outcome' \in {outcome, "item"}
           /\ chosen' \in {chosen, Matched[q], Those(Matched[q], Range(active))}
        \/ ReadOut(Matched[q], 1)
    BY <1>13 DEF BlindName, End, Stay
  <2>4. chosen \in Seq(Items) /\ Matched[q] \in Seq(Items) /\ Those(Matched[q], Range(active)) \in Seq(Items)
    BY <1>0, <2>2 DEF Listable
  <2> QED
    BY <1>0, <1>3, <2>1, <2>2, <2>3, <2>4, AnswersTyped
<1>14. ASSUME NEW q \in Queries, ManyName(q) PROVE PickerTyped'
  <2> DEFINE m == Those(Matched[q], Range(active))
  <2>1. way # "one" /\ Listable(m)
    BY <1>14, ListsListable DEF ManyName, Asking
  <2>2. \/ /\ UNCHANGED <<way, whole, place, outcome>> /\ picked' \in {NoPick, picked}
           /\ \/ chosen' = chosen
              \/ Len(m) = 1 /\ chosen' = Append(chosen, m[1])
        \/ ReadOut(m, 1)
    <3>1. CASE m = << >>
      BY <1>14, <3>1 DEF ManyName, pickerVars
    <3>2. CASE Len(m) = 1 /\ m # << >>
      BY <1>14, <3>2 DEF ManyName
    <3>3. CASE m # << >> /\ Len(m) # 1
      BY <1>14, <3>3 DEF ManyName
    <3> QED
      BY <3>1, <3>2, <3>3
  <2> HIDE DEF m
  <2>3. Len(m) = 1 => m[1] \in Items
    BY <2>1 DEF Listable
  <2>4. Len(m) = 1 => Append(chosen, m[1]) \in Seq(Items)
    BY <1>0, <2>3
  <2>5. CASE ReadOut(m, 1)
    BY <1>3, <2>1, <2>5
  <2>6. CASE UNCHANGED <<way, whole, place, outcome>> /\ picked' \in {NoPick, picked} /\ chosen' \in Seq(Items)
    BY <1>0, <2>6, AnswersTyped
  <2> QED
    BY <1>0, <2>2, <2>4, <2>5, <2>6
<1> QED
  BY <1>1, <1>2, <1>4, <1>5, <1>6, <1>7, <1>8, <1>9, <1>10, <1>11, <1>12, <1>13, <1>14, ListsListable DEF PickerNext

\* The variables of the picker have their types.
LEMMA PickerTypes == PickerSpec => []PickerTypeOK
<1>1. PickerTyped => PickerTypeOK
  BY DEF PickerTyped
<1> QED
  BY <1>1, PickerInitTyped, PickerNextTyped, PTL DEF PickerSpec

-----------------------------------------------------------------------------
(* The types of the rest of the terminal's variables, and of the prompts.  *)

\* The variables the invariant TerminalInv leaves out.
TerminalRest ==
  /\ listed \subseteq Ids /\ erased \subseteq Ids
  /\ own \in BOOLEAN /\ nuke \in BOOLEAN
  /\ opened \subseteq Stores /\ others \in {"nothing", "flag", "gone"}
  /\ status \in {"running", "closing", "ended", "failed"}

LEMMA TerminalInitRest == TerminalInit => TerminalRest
BY DEF TerminalInit, TerminalRest

LEMMA ListsOfIds == Active \subseteq Ids /\ Archived \subseteq Ids /\ \A C \in SUBSET Ids : Seen(C) \subseteq Ids
BY DEF Active, Archived, Seen

LEMMA UsingStores == ASSUME TerminalRest, Using PROVE opened' \subseteq Stores
BY DEF TerminalRest, Using, Stores

LEMMA TerminalNextRest == TerminalInv /\ TerminalRest /\ [TerminalNext]_terminalVars => TerminalRest'
<1> SUFFICES ASSUME TerminalInv, TerminalRest, [TerminalNext]_terminalVars PROVE TerminalRest'
  OBVIOUS
<1>0. writes \in BOOLEAN /\ \A list \in Lists : list \subseteq Ids
  BY ListsOfIds DEF TerminalInv, TerminalRest, Lists
<1>1. CASE Say \/ Title \/ UnarchiveAll \/ UNCHANGED terminalVars
  <2>1. UNCHANGED <<listed, own, status, nuke, erased, others>>
    BY <1>1 DEF Say, Title, UnarchiveAll, session, terminalVars, stores
  <2>2. Using \/ opened' = opened
    BY <1>1 DEF Say, Title, UnarchiveAll, terminalVars, stores
  <2> QED
    BY <2>1, <2>2, UsingStores DEF TerminalRest
<1>2. CASE ShowList
  <2>1. listed' \subseteq Ids /\ UNCHANGED <<own, status, nuke, erased, others>>
    BY <1>2, ListsOfIds DEF ShowList
  <2>2. Using
    BY <1>2 DEF ShowList
  <2> QED
    BY <2>1, <2>2, UsingStores DEF TerminalRest
<1>3. CASE ToggleWrites
  <2>1. UNCHANGED <<listed, status, nuke, erased>> /\ own' = TRUE
    BY <1>3 DEF ToggleWrites, session
  <2>2. opened' \subseteq opened \cup {"own"} /\ others' \in {others, "nothing"}
    BY <1>3 DEF ToggleWrites
  <2> QED
    BY <2>1, <2>2 DEF TerminalRest, Stores
<1>4. CASE Leave
  <2>1. UNCHANGED <<listed, own, opened, erased, others>> /\ status' = "closing" /\ nuke' \in BOOLEAN
    BY <1>4 DEF Leave, session, stores
  <2> QED
    BY <2>1 DEF TerminalRest
<1>5. CASE Finalize
  BY <1>5 DEF Finalize, TerminalRest, session
<1>6. ASSUME NEW c \in Ids, New(c) \/ Archive(c) PROVE TerminalRest'
  <2>1. UNCHANGED <<listed, own, status, nuke, erased>> /\ others' = "nothing"
    BY <1>6 DEF New, Archive, ResetTo, stores
  <2>2. Using \/ opened' = opened
    BY <1>6 DEF New, Archive, stores
  <2> QED
    BY <2>1, <2>2, UsingStores DEF TerminalRest
<1>7. ASSUME NEW c \in Ids, Resume(c) \/ Search(c) PROVE TerminalRest'
  <2>1. SwitchTo(c) /\ Using /\ UNCHANGED <<own, nuke, erased>>
    BY <1>7 DEF Resume, Search
  <2>2. others' \in {others, "nothing"} /\ status' \in {status, "failed"}
    BY <2>1 DEF SwitchTo
  <2>3. listed' \subseteq Ids
    <3>1. CASE c \in Seen(Active \cup Archived)
      BY <2>1, <3>1 DEF SwitchTo
    <3>2. CASE c \notin Seen(Active \cup Archived)
      <4>1. status' = "failed"
        BY <2>1, <3>2 DEF SwitchTo
      <4>2. ASSUME Search(c) PROVE FALSE
        BY <3>2, <4>2 DEF Search, Seen, Spoken
      <4>3. PICK list \in Lists : listed' = list
        BY <1>7, <4>1, <4>2 DEF Resume
      <4> QED
        BY <1>0, <4>3
    <3> QED
      BY <3>1, <3>2
  <2> QED
    BY <2>1, <2>2, <2>3, UsingStores DEF TerminalRest
<1>8. ASSUME NEW c \in Ids, Delete(c) \/ Unarchive(c) PROVE TerminalRest'
  <2>1. UNCHANGED <<own, status, nuke>> /\ Using
    BY <1>8 DEF Delete, Unarchive
  <2>2. listed' \subseteq Ids
    BY <1>0, <1>8 DEF Delete, Unarchive
  <2>3. others' \in {others, "nothing"} /\ erased' \subseteq erased \cup {c}
    BY <1>8 DEF Delete, Unarchive
  <2> QED
    BY <2>1, <2>2, <2>3, UsingStores DEF TerminalRest
<1>9. ASSUME NEW c \in Ids, Elsewhere(c) PROVE TerminalRest'
  <2>1. UNCHANGED <<listed, own, opened, status, nuke, erased>>
    BY <1>9 DEF Elsewhere, session, stores
  <2>2. others' \in {others, "flag", "gone"}
    BY <1>9 DEF Elsewhere
  <2> QED
    BY <2>1, <2>2 DEF TerminalRest
<1>10. ASSUME NEW c \in Ids, NEW expired \in SUBSET Ids,
              Chat(c, expired) \/ ResumeAtStart(c, expired)
       PROVE  TerminalRest'
  <2>1. \E conv : StartWith(conv)
    BY <1>10 DEF Chat, ResumeAtStart
  <2>2. erased' = erased
    BY <1>10 DEF Chat, ResumeAtStart
  <2> QED
    BY <2>1, <2>2 DEF TerminalRest, StartWith, Stores
<1> QED
  BY <1>1, <1>2, <1>3, <1>4, <1>5, <1>6, <1>7, <1>8, <1>9, <1>10 DEF TerminalNext

LEMMA TerminalTypes == TerminalSpec => []TerminalTypeOK
<1>1. TerminalInv /\ TerminalRest => TerminalTypeOK
  <2> SUFFICES ASSUME TerminalInv, TerminalRest PROVE TerminalTypeOK
    OBVIOUS
  <2>1. {writes, own, nuke} \subseteq BOOLEAN
    BY Zenon DEF TerminalInv, TerminalRest
  <2> QED
    BY <2>1 DEF TerminalInv, TerminalRest, TerminalTypeOK, Rows, Talks
<1> QED
  BY <1>1, TerminalInitInv, TerminalNextInv, TerminalInitRest, TerminalNextRest, PTL DEF TerminalSpec

LEMMA InstructionsTypes == InstructionsSpec => []InstructionsTypeOK
<1>1. PromptInv => InstructionsTypeOK
  <2> SUFFICES ASSUME PromptTypes PROVE InstructionsTypeOK
    BY DEF PromptInv
  <2>1. prompt \in Seq(Sections) /\ base.text \in Seq(Sections) /\ base.known \in BOOLEAN
    BY DEF PromptTypes
  <2>2. kept.text \in Seq(Sections) /\ kept.replies \in Seq(Blocks)
    <3>1. kept.text = <<"agents 1", "rules">> /\ kept.replies = <<"compact">>
      BY DEF PromptTypes
    <3>2. "agents 1" \in Sections /\ "rules" \in Sections /\ "compact" \in Blocks
      BY DEF Sections, Blocks, PinnedFiles
    <3> HIDE DEF Sections, Blocks
    <3>3. /\ \A S, a, b : a \in S /\ b \in S => <<a, b>> \in Seq(S)
          /\ \A S, a : a \in S => <<a>> \in Seq(S)
      OBVIOUS
    <3>4. <<"agents 1", "rules">> \in Seq(Sections) /\ <<"compact">> \in Seq(Blocks)
      BY <3>2, <3>3, Zenon
    <3> QED
      BY <3>1, <3>4, Zenon
  <2>3. disk.agents \in 0 .. Editions /\ disk.pinned \subseteq PinnedFiles
    BY DEF PromptTypes
  <2>4. {base.known, include, tag, mixed} \subseteq BOOLEAN
    BY <2>1, Zenon DEF PromptTypes
  <2>5. {prompt, base.text, kept.text} \subseteq Seq(Sections)
    BY <2>1, <2>2, Zenon
  <2> QED
    BY <2>2, <2>3, <2>4, <2>5 DEF PromptTypes, InstructionsTypeOK
<1> QED
  BY <1>1, PromptInitInv, PromptNextInv, PTL DEF InstructionsSpec

-----------------------------------------------------------------------------
(* The session.                                                            *)

\* A behaviour of the session is one of each of its parts.
LEMMA Parts ==
  Spec => TerminalSpec /\ InstructionsSpec /\ ContextSpec /\ PickerSpec /\ SettingsSpec
<1>1. Init => TerminalInit /\ InstructionsInit /\ ContextInit /\ PickerInit /\ SettingsInit
  BY DEF Init
<1>2. [Next]_vars => [TerminalNext]_terminalVars
  BY Zenon DEF Next, vars
<1>3. [Next]_vars => [InstructionsNext]_instructionsVars
  BY Zenon DEF Next, vars
<1>4. [Next]_vars => [ContextNext]_contextVars
  BY Zenon DEF Next, vars, ContextNext
<1>5. [Next]_vars => [PickerNext]_pickerVars
  BY Zenon DEF Next, vars
<1>6. [Next]_vars => [SettingsNext]_settingsVars
  BY Zenon DEF Next, vars
<1> QED
  BY <1>1, <1>2, <1>3, <1>4, <1>5, <1>6, PTL
     DEF Spec, TerminalSpec, InstructionsSpec, ContextSpec, PickerSpec, SettingsSpec

\* Every variable of the session keeps its type, for any number of
\* conversations, files, items and queries (MCSession!TypeOK).
THEOREM TypeCorrect == Spec => []TypeOK
<1>1. SettingsInv => SettingsTypeOK
  BY DEF SettingsInv
<1>2. SettingsSpec => []SettingsTypeOK
  BY <1>1, SettingsInitInv, SettingsNextInv, PTL DEF SettingsSpec
<1>3. ContextSpec => []ContextTypeOK
  BY QueueStaysTrue, PTL
<1>4. TerminalTypeOK /\ InstructionsTypeOK /\ ContextTypeOK /\ PickerTypeOK /\ SettingsTypeOK => TypeOK
  BY DEF TypeOK
<1> QED
  BY <1>2, <1>3, <1>4, Parts, TerminalTypes, InstructionsTypes, PickerTypes, PTL

\* What is proved of each part holds in the session: what it shows is saved,
\* prompts and the queue are what their sources make them, numbers pick what
\* was read out, and choices stay.
THEOREM SessionHolds ==
  Spec => /\ [](SavedAndDeleted /\ FromItsSource /\ QueueIsTrue /\ PicksWhatWasRead /\ ChoicesHold)
          /\ IgnoredStaysOut
BY Parts, SessionIsSaved, PromptFromItsSource, QueueStaysTrue, PicksAsRead, ChoicesAreKept,
   NothingIgnoredIsQueued, PTL
=============================================================================

----------------------------- MODULE WriteHere ------------------------------
(***************************************************************************)
(* Write-here mode: while it is on, the code a reply names goes to the     *)
(* working directory, with the user's approval where that is asked, and    *)
(* the archive goes to .tuochat below it.  Every turn, /open and /resume   *)
(* extract all blocks of the conversation again, wherever the program is   *)
(* by then: the window changes the working directory when the user picks   *)
(* one, at a new conversation and at a resumed one.                        *)
(***************************************************************************)
EXTENDS Naturals, FiniteSets

CONSTANTS
  Places,     \* working directories
  Tops,       \* those that are the root of a file system
  Repos,      \* those inside a git repository
  Talks,      \* conversations
  MaxBlocks   \* bound: code blocks in all replies

ASSUME WriteHereAssumption ==
  /\ Tops \subseteq Places /\ Repos \subseteq Places /\ MaxBlocks \in Nat
  /\ "data" \notin Places /\ "nowhere" \notin Places /\ IsFiniteSet(Talks) /\ Talks # {}

BlockType == [n : 1 .. MaxBlocks, named : BOOLEAN]
TalkType == [id : Talks, cwd : Places \cup {"nowhere"}, blocks : SUBSET BlockType]

VARIABLES
  place,     \* the working directory
  here,      \* the session's settings: [mode, approve, off]; off is /no-write
  talk,      \* the open conversation; its cwd is "nowhere" before the first turn
  saved,     \* the conversations of the store
  blocks,    \* blocks the model wrote so far
  written,   \* files of code in the working directories: [at, block]
  archived,  \* blocks in the archives
  roots,     \* where there are archives: a .tuochat, git told to ignore it, or "data"
  folder     \* last_saved_markdown_path: {} or the folder shown and opened

hereVars == <<place, here, talk, saved, blocks, written, archived, roots, folder>>

WriteHereTypeOK ==
  /\ place \in Places /\ here \in [mode : BOOLEAN, approve : BOOLEAN, off : BOOLEAN]
  /\ talk \in TalkType /\ saved \subseteq TalkType /\ blocks \in 0 .. MaxBlocks
  /\ written \subseteq [at : Places, block : BlockType]
  /\ archived \subseteq BlockType /\ roots \subseteq Places \cup {"data"}
  /\ folder \subseteq [at : Places \cup {"data"}, talk : Talks] /\ Cardinality(folder) <= 1

-----------------------------------------------------------------------------
(* sync_conversation_artifacts.                                            *)

\* Changed: as current_writing_directory tells it, by the mode alone.
HereByMode(at) == here.mode
\* The mode does nothing at the root of a file system.
Here(at) == here.mode /\ at \notin Tops

\* The named blocks of the conversation that go to the working directory:
\* what the user says yes to where approvals are on.
Wanted(t, at, yes) ==
  { b \in t.blocks : b.named /\ Here(at) /\ (here.approve => b \in yes) }
ArchiveRoot(at) == IF Here(at) THEN at ELSE "data"

\* Every block of the conversation is extracted, the transcript is written
\* and its path remembered; nothing with local writes off.
SyncArtifacts(t, at, yes) ==
  IF here.off THEN UNCHANGED <<written, archived, roots, folder>>
  ELSE LET root == ArchiveRoot(at)  wanted == Wanted(t, at, yes) IN
       /\ written' = written \cup { [at |-> at, block |-> b] : b \in wanted }
       /\ archived' = archived \cup (t.blocks \ wanted) /\ roots' = roots \cup {root}
       /\ folder' = {[at |-> root, talk |-> t.id]}

Save(t) == saved' = { s \in saved : s.id # t.id } \cup {t}

-----------------------------------------------------------------------------
(* What the user does.                                                     *)

Turn(named, yes) ==
  /\ blocks < MaxBlocks /\ blocks' = blocks + 1
  /\ talk' = [talk EXCEPT !.cwd = place,
                          !.blocks = @ \cup {[n |-> blocks + 1, named |-> named]}]
  /\ IF here.off THEN UNCHANGED saved ELSE Save(talk')
  /\ SyncArtifacts(talk', place, yes) /\ UNCHANGED <<place, here>>

\* /open, and the window's button where no folder is known.
OpenArchive(yes) ==
  /\ ~here.off /\ SyncArtifacts(talk, place, yes)
  /\ UNCHANGED <<place, here, talk, saved, blocks>>

Switch(t, at, yes) ==
  /\ talk' = t /\ SyncArtifacts(t, at, yes) /\ UNCHANGED <<here, saved, blocks>>
\* /title: the conversation is saved, also before its first turn.
Title(yes) ==
  /\ IF here.off THEN UNCHANGED saved ELSE Save(talk)
  /\ SyncArtifacts(talk, place, yes) /\ UNCHANGED <<place, here, talk, blocks>>

\* switch_to_conversation; the terminal stays where it is, the window goes to
\* the directory of the conversation's last turn.
Resume(t, yes) == ~here.off /\ Switch(t, place, yes) /\ UNCHANGED place
\* Changed: a conversation without a directory is not told apart.
ResumeAnywhere(t, yes) == ~here.off /\ Switch(t, t.cwd, yes) /\ place' = t.cwd
ResumeWindow(t, yes) ==
  LET at == IF t.cwd \in Places THEN t.cwd ELSE place IN
  ~here.off /\ Switch(t, at, yes) /\ place' = at

\* reset_repl_state.
Renew ==
  /\ \E id \in Talks \ ({talk.id} \cup { s.id : s \in saved }) :
       talk' = [id |-> id, cwd |-> "nowhere", blocks |-> {}]
  /\ folder' = {} /\ UNCHANGED <<saved, blocks, written, archived, roots>>
\* The window asks for a directory where it is in no repository.
NewTalk(at) == (place \in Repos => at = place) /\ place' = at /\ Renew /\ UNCHANGED here

\* toggle_write_here_mode.  A tree with changes is only warned of.
Allowed(mode, at) == mode => at \notin Tops
ToggleHere(mode) ==
  /\ here.mode # mode /\ Allowed(mode, place) /\ here' = [here EXCEPT !.mode = mode]
  /\ UNCHANGED <<place, talk, saved, blocks, written, archived, roots, folder>>
ToggleApprove ==
  /\ here' = [here EXCEPT !.approve = ~@]
  /\ UNCHANGED <<place, talk, saved, blocks, written, archived, roots, folder>>

\* toggle_no_write; the store is another one, and back on the conversation is saved.
ToggleWrites ==
  /\ here' = [here EXCEPT !.off = ~@]
  /\ IF here.off
     THEN (IF talk.blocks # {} THEN Save(talk) ELSE UNCHANGED saved) /\ UNCHANGED folder
     ELSE folder' = {} /\ UNCHANGED saved
  /\ UNCHANGED <<place, talk, blocks, written, archived, roots>>

\* The window's directory chooser turns the mode on, except at a root, and
\* offers a new conversation, which may ask for a directory again.
SelectDirectory(at, last, renew) ==
  /\ here' = [here EXCEPT !.mode = @ \/ at \notin Tops] /\ place' = last
  /\ ~renew \/ at \in Repos => last = at
  /\ IF renew
     THEN talk.blocks # {} /\ Renew
     ELSE UNCHANGED <<talk, saved, blocks, written, archived, roots, folder>>

\* In a repository the mode is on from the start, unless nothing is written.
WriteHereInit ==
  /\ place \in Places
  /\ \E off, configured, approve \in BOOLEAN :
       here = [off |-> off, approve |-> approve,
               mode |-> configured \/ (~off /\ place \in Repos \ Tops)]
  /\ talk = [id |-> CHOOSE id \in Talks : TRUE, cwd |-> "nowhere", blocks |-> {}]
  /\ saved = {} /\ blocks = 0 /\ written = {} /\ archived = {}
  /\ roots = {} /\ folder = {}

\* Where approvals are off nobody is asked.
Answers(known) == IF here.approve THEN SUBSET known ELSE {{}}

WriteHereNext ==
  \/ \E named \in BOOLEAN, yes \in Answers(talk.blocks \cup {[n |-> blocks + 1, named |-> TRUE]}) :
       Turn(named, yes)
  \/ \E yes \in Answers(talk.blocks) : OpenArchive(yes) \/ Title(yes)
  \/ \E t \in saved : \E yes \in Answers(t.blocks) : Resume(t, yes) \/ ResumeWindow(t, yes)
  \/ (\E at \in Places : NewTalk(at)) \/ ToggleApprove \/ ToggleWrites
  \/ \E mode \in BOOLEAN : ToggleHere(mode)
  \/ \E at, last \in Places, renew \in BOOLEAN : SelectDirectory(at, last, renew)

-----------------------------------------------------------------------------
\* Wherever the program is taken while the mode is on, nothing is written at
\* the root of a file system; and the folder shown and opened is one of the
\* open conversation, each of whose blocks is then in a file.
\* extract_code_files and conversation_archive_root in
\* src/tuochat/persistence/archive.py, select_working_directory and
\* conversation_folder_path in src/tuochat/gui/app.py.
HereIsSafe ==
  /\ { file.at : file \in written } \cup roots \subseteq (Places \ Tops) \cup {"data"}
  /\ \A f \in folder :
       /\ f.talk = talk.id /\ f.at \in roots
       /\ talk.blocks \subseteq { file.block : file \in written } \cup archived
=============================================================================

------------------------------ MODULE Archive ------------------------------
(***************************************************************************)
(* sync_conversation_artifacts: the directory a conversation is archived   *)
(* in (found by its marker, or allocated with the next number), the two    *)
(* older layouts it migrates, and the code blocks it extracts to files     *)
(* again at every sync, in the archive or in the working directory.  The   *)
(* user edits those files, and the process may die at any step.            *)
(***************************************************************************)
EXTENDS Integers, FiniteSets, Sequences

CONSTANTS
  Proc,        \* processes on one data directory
  Conv,        \* conversations, all created on one day
  None,        \* no marker
  Name,        \* file names a block may be given
  Hinted,      \* the names the answer gives (a safe relative path)
  Headed,      \* the names whose file gets the generated header
  Old,         \* the names of the files in an old archive
  Body,        \* code of a block
  Edited,      \* code the user wrote
  Torn,        \* what a process that dies while writing leaves
  WriteHere,   \* write-here mode
  LastNumber,  \* the highest number with three digits: 999
  MaxBlocks,   \* code blocks in all answers (bound)
  MaxCopies,   \* numbered copies of one file (bound)
  MaxDays,     \* days (bound)
  MaxEdits,    \* changes the user makes (bound)
  MaxCrashes,  \* processes that die (bound)
  Faults       \* what else may happen, a subset of AllFaults

AllFaults == {"overlap", "migration"}

ASSUME ArchiveAssumption ==
  /\ None \notin Conv /\ Edited \notin Body /\ Torn \notin Body
  /\ Hinted \subseteq Name /\ Old \subseteq Name /\ Headed \subseteq Name /\ WriteHere \in BOOLEAN
  /\ LastNumber \in Nat /\ MaxBlocks \in Nat /\ MaxCopies \in Nat \ {0}
  /\ MaxDays \in Nat \ {0} /\ MaxEdits \in Nat /\ MaxCrashes \in Nat
  /\ Faults \subseteq AllFaults

VARIABLES
  blocks,   \* the code blocks of a conversation's answers, in order
  updated,  \* the day of conv.updated_at
  today,    \* the day of the last answer
  marker,   \* the numbered directories there are: the id in .conversation_id
  laid,     \* those with a data directory
  files,    \* the files there are: path -> content
  sync,     \* a process's call of sync_conversation_artifacts
  wrote,    \* history: conversations that put files in a numbered directory
  edits, crashes   \* history, for the bounds

archive == <<marker, laid, files, wrote>>
conversations == <<blocks, updated, today>>
vars == <<conversations, archive, sync, edits, crashes>>

Number == 1 .. LastNumber + 1
Dir == DOMAIN marker
Place == {"here", "legacy", "top", "data"}
Path == Place \X (Number \cup Conv \cup {0}) \X Name \X (1 .. MaxCopies)
Here(n, k) == <<"here", 0, n, k>>             \* the working directory
Legacy(c, n, k) == <<"legacy", c, n, k>>      \* <root>/<conversation id>/
Top(d, n, k) == <<"top", d, n, k>>            \* <root>/<date>-<number>/
Data(d, n, k) == <<"data", d, n, k>>          \* <root>/<date>-<number>/data/
Content == (Body \cup {Edited, Torn}) \X (0 .. MaxDays)
ByUser == <<Edited, 0>>

Block == Name \X Body
Rendered(c, i) ==                             \* apply_generated_file_header
  LET b == blocks[c][i] IN <<b[2], IF b[1] \in Headed THEN updated[c] ELSE 0>>

Steps == {"idle", "locate", "make", "move", "mark", "extract", "write"}
Sync == [step : Steps, conv : Conv \cup {None}, dir : Number \cup {0},
         listed : Seq(Path), target : Path \cup {<<>>}]
Call(s, c) == [step |-> s, conv |-> c, dir |-> 0, listed |-> <<>>, target |-> <<>>]
Idle == Call("idle", None)
Step(p, s) == sync' = [sync EXCEPT ![p].step = s]
At(p, s) == sync[p].step = s
Quiet == \A p \in Proc : At(p, "idle")
Alone == Quiet \/ "overlap" \in Faults

\* A file is written, or takes another path.
Put(f, x) == files' = [g \in DOMAIN files \cup {f} |-> IF g = f THEN x ELSE files[g]]
In(place, at) == {f \in DOMAIN files : f[1] = place /\ f[2] = at}
Renamed(moved, place, at) ==
  LET stay == DOMAIN files \ moved
      new(f) == <<place, at, f[3], f[4]>>
  IN  files' = [g \in stay \cup {new(f) : f \in moved} |->
                  IF \E f \in moved : new(f) = g
                  THEN files[CHOOSE f \in moved : new(f) = g] ELSE files[g]]

(***************************************************************************)
(* The directory of a conversation                                         *)
(***************************************************************************)
Marked(c) == {d \in Dir : marker[d] = c}

NextNumber ==                                 \* a fourth digit is not seen
  {n \in Number : (n = 1 \/ n - 1 \in Dir) /\ \A d \in Dir : d <= LastNumber => d < n}

AlwaysNew(c) == NextNumber
ArchiveDir(c) == IF Marked(c) = {} THEN NextNumber ELSE Marked(c)

Start(p, c) ==
  /\ At(p, "idle") /\ Alone
  /\ \A q \in Proc : sync[q].conv # c
  /\ sync' = [sync EXCEPT ![p] = Call("locate", c)]
  /\ UNCHANGED <<conversations, archive, edits, crashes>>

Locate(p) ==
  LET c == sync[p].conv IN
  /\ At(p, "locate")
  /\ \E d \in ArchiveDir(c) :
       /\ sync' = [sync EXCEPT ![p].step = "make", ![p].dir = d]
       /\ IF In("legacy", c) # {} /\ Marked(c) = {} /\ d \notin Dir
          THEN /\ Renamed(In("legacy", c), "top", d)
               /\ marker' = [e \in Dir \cup {d} |-> IF e = d THEN None ELSE marker[e]]
               /\ wrote' = [wrote EXCEPT ![d] = @ \cup {c}]
          ELSE UNCHANGED <<marker, files, wrote>>
  /\ UNCHANGED <<conversations, laid, edits, crashes>>

MovesNothing(p) ==
  LET d == sync[p].dir IN
  /\ At(p, "make")
  /\ marker' = [e \in Dir \cup {d} |-> IF e \in Dir THEN marker[e] ELSE None]
  /\ laid' = laid \cup {d}
  /\ Step(p, "mark")
  /\ UNCHANGED <<conversations, files, wrote, edits, crashes>>
\* The children are moved only by the call that made the data directory.
MakeDir(p) ==
  LET d == sync[p].dir IN
  /\ At(p, "make")
  /\ marker' = [e \in Dir \cup {d} |-> IF e \in Dir THEN marker[e] ELSE None]
  /\ laid' = laid \cup {d}
  /\ Step(p, IF d \in laid THEN "mark" ELSE "move")
  /\ UNCHANGED <<conversations, files, wrote, edits, crashes>>

Move(p) ==
  LET d == sync[p].dir IN
  /\ At(p, "move")
  /\ IF In("top", d) = {} THEN Step(p, "mark") /\ UNCHANGED files
     ELSE /\ \E f \in In("top", d) : Renamed({f}, "data", d)
          /\ UNCHANGED sync
  /\ UNCHANGED <<conversations, marker, laid, wrote, edits, crashes>>

Mark(p) ==
  /\ At(p, "mark")
  /\ marker' = [marker EXCEPT ![sync[p].dir] = sync[p].conv]
  /\ Step(p, "extract")
  /\ UNCHANGED <<conversations, laid, files, wrote, edits, crashes>>

(***************************************************************************)
(* The blocks, all of them at every sync                                   *)
(***************************************************************************)
Next1(p) == Len(sync[p].listed) + 1           \* the block to extract now
Extracting(p) == At(p, "extract") /\ Next1(p) <= Len(blocks[sync[p].conv])

SameBody(f, x) == f \in DOMAIN files => files[f][1] = x[1]
Overwrites(place, at, n, x, k) == k = 1
FirstFree(place, at, n, x, k) ==
  /\ <<place, at, n, k>> \notin DOMAIN files
  /\ \A j \in 1 .. k - 1 : <<place, at, n, j>> \in DOMAIN files
\* unique_path: the first number that is free or holds this very content.
Fits(f, x) == f \in DOMAIN files => files[f] = x
UniqueNumber(place, at, n, x, k) ==
  /\ Fits(<<place, at, n, k>>, x)
  /\ \A j \in 1 .. k - 1 : ~Fits(<<place, at, n, j>>, x)

Choose(p) ==
  LET c == sync[p].conv
      d == sync[p].dir
      n == blocks[c][Next1(p)][1]
      x == Rendered(c, Next1(p))
  IN
  /\ Extracting(p)
  /\ \E k \in 1 .. MaxCopies :
       \/ /\ WriteHere /\ n \in Hinted        \* and approve_write says yes
          /\ UniqueNumber("here", 0, n, x, k)
          /\ sync' = [sync EXCEPT ![p].step = "write", ![p].target = Here(n, k)]
       \/ /\ UniqueNumber("data", d, n, x, k)
          /\ sync' = [sync EXCEPT ![p].step = "write", ![p].target = Data(d, n, k)]
  /\ UNCHANGED <<conversations, archive, edits, crashes>>

Touches(p, f) ==
  wrote' = IF f[1] = "data" THEN [wrote EXCEPT ![f[2]] = @ \cup {sync[p].conv}] ELSE wrote

Write(p) ==
  LET f == sync[p].target IN
  /\ At(p, "write")
  /\ Put(f, Rendered(sync[p].conv, Next1(p)))
  /\ Touches(p, f)
  /\ sync' = [sync EXCEPT ![p].step = "extract", ![p].listed = Append(@, f)]
  /\ UNCHANGED <<conversations, marker, laid, edits, crashes>>

\* conversation_markdown_path looks the directory up again.
Transcript(p) ==
  LET c == sync[p].conv IN
  /\ At(p, "extract") /\ ~Extracting(p)
  /\ \E d \in ArchiveDir(c) :
       /\ marker' = [e \in Dir \cup {d} |-> IF e \in Dir THEN marker[e] ELSE None]
       /\ laid' = laid \cup {d}
       /\ wrote' = [wrote EXCEPT ![d] = @ \cup {c}]
  /\ sync' = [sync EXCEPT ![p] = Idle]
  /\ UNCHANGED <<conversations, files, edits, crashes>>

(***************************************************************************)
(* The conversation, the user and the machine                              *)
(***************************************************************************)
Answer(c, n, b, day) ==
  /\ \A p \in Proc : sync[p].conv # c
  /\ Cardinality(UNION {{d} \X (1 .. Len(blocks[d])) : d \in Conv}) < MaxBlocks
  /\ blocks' = [blocks EXCEPT ![c] = Append(@, <<n, b>>)]
  /\ updated' = [updated EXCEPT ![c] = day]
  /\ today' = day
  /\ UNCHANGED <<archive, sync, edits, crashes>>

Edit(f) ==
  /\ Alone /\ edits < MaxEdits
  /\ Put(f, ByUser)
  /\ edits' = edits + 1
  /\ UNCHANGED <<conversations, marker, laid, sync, wrote, crashes>>

\* An old archive is between its two layouts, or not yet marked.
Migrating(p) == At(p, "move") \/ (At(p, "make") /\ wrote[sync[p].dir] # {} /\ Marked(sync[p].conv) = {})
                \/ (At(p, "mark") /\ wrote[sync[p].dir] # {} /\ Marked(sync[p].conv) = {})

\* The process dies; a file it was writing is left truncated.
Crash(p) ==
  /\ ~At(p, "idle") /\ crashes < MaxCrashes
  /\ ~Migrating(p) \/ "migration" \in Faults
  /\ crashes' = crashes + 1
  /\ sync' = [sync EXCEPT ![p] = Idle]
  /\ \/ UNCHANGED <<files, wrote>>
     \/ /\ At(p, "write")
        /\ Put(sync[p].target, <<Torn, 0>>)
        /\ Touches(p, sync[p].target)
  /\ UNCHANGED <<conversations, marker, laid, edits>>

\* Archives of earlier versions: <root>/<id>/ and a numbered one without data/.
Init ==
  /\ blocks = [c \in Conv |-> <<>>] /\ updated = [c \in Conv |-> 1] /\ today = 1
  /\ sync = [p \in Proc |-> Idle] /\ edits = 0 /\ crashes = 0
  /\ \E c \in Conv, old \in {"none", "legacy", "flat"} :
       LET numbered == IF old = "flat" THEN {1} ELSE {} IN
       /\ marker = [d \in numbered |-> c]
       /\ laid = {}
       /\ wrote = [d \in Number |-> IF d \in numbered THEN {c} ELSE {}]
       /\ files = [f \in IF old = "none" THEN {}
                         ELSE {IF old = "flat" THEN Top(1, n, 1) ELSE Legacy(c, n, 1) : n \in Old}
                    |-> ByUser]

Work(p) == Locate(p) \/ MakeDir(p) \/ Move(p) \/ Mark(p) \/ Choose(p) \/ Write(p) \/ Transcript(p)

Next ==
  \/ \E p \in Proc : Work(p) \/ Crash(p) \/ (\E c \in Conv : Start(p, c))
  \/ \E c \in Conv, n \in Name, b \in Body, day \in today .. MaxDays : Answer(c, n, b, day)
  \/ \E f \in {g \in DOMAIN files : g[1] \in {"data", "here"}} \cup {Here(n, 1) : n \in Hinted} : Edit(f)

Spec == Init /\ [][Next]_vars

(***************************************************************************)
(* Properties                                                              *)
(***************************************************************************)
\* Every variable has its type.
TypeOK ==
  /\ blocks \in [Conv -> Seq(Block)] /\ updated \in [Conv -> 1 .. MaxDays] /\ today \in 1 .. MaxDays
  /\ Dir \subseteq Number /\ marker \in [Dir -> Conv \cup {None}]
  /\ laid \subseteq Dir
  /\ DOMAIN files \subseteq Path /\ files \in [DOMAIN files -> Content]
  /\ wrote \in [Number -> SUBSET Conv]
  /\ sync \in [Proc -> Sync]
  /\ edits \in 0 .. MaxEdits /\ crashes \in 0 .. MaxCrashes

\* A conversation is archived in one directory and shares it with no other,
\* however often a sync died before the marker was written and a directory
\* was allocated anew (find_archive_dir_for_conversation, allocate_archive_dir).
OneDirectory ==
  /\ \A c \in Conv : Cardinality({d \in Number : c \in wrote[d]}) <= 1
  /\ \A d \in Number : Cardinality(wrote[d]) <= 1
  /\ \A d \in Dir : marker[d] # None => wrote[d] \subseteq {marker[d]}

\* No file of an old archive stays outside the data directory once there is
\* one, except while the call that made it moves them
\* (ensure_archive_payload_layout does nothing where data/ exists).
Migrated ==
  \A d \in laid : In("top", d) # {} => \E p \in Proc : At(p, "move") /\ sync[p].dir = d

\* When the transcript is written, every file it lists is there and holds
\* the block it is listed for: no later block took its path, and a file the
\* user changed or a crash truncated was replaced by a numbered one.
Extracted ==
  \A p \in Proc : At(p, "extract") =>
    \A i \in 1 .. Len(sync[p].listed) :
      LET f == sync[p].listed[i] IN
      f \in DOMAIN files /\ files[f] = Rendered(sync[p].conv, i)

\* No step of a sync changes or removes a file that was there, except for the
\* moves from an old layout (docs/files-and-data.md:56).
NothingOverwritten ==
  [][edits' = edits /\ crashes' = crashes =>
       \A f \in DOMAIN files : f[1] \in {"here", "data"} =>
         f \in DOMAIN files' /\ files'[f] = files[f]]_vars

\* Extracting a block again makes no second file of the same name and
\* content in the same place.
NoCopies ==
  [][edits' = edits /\ crashes' = crashes =>
       \A f \in DOMAIN files' \ DOMAIN files : \A g \in DOMAIN files :
         <<f[1], f[2], f[3]>> = <<g[1], g[2], g[3]>> => files'[f] # files[g]]_vars

=============================================================================

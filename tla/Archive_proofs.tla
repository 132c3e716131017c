--------------------------- MODULE Archive_proofs ---------------------------
(***************************************************************************)
(* Archiving keeps its types.  As long as syncs do not overlap with each   *)
(* other or with the user's edits, it overwrites no file, extracts nothing *)
(* twice and lists what is there; and where no process dies while an old   *)
(* archive is moved and the day has numbers enough, each conversation has  *)
(* one directory and no file of an old archive is left outside data/: for  *)
(* any number of conversations, names, blocks, days, edits and crashes.    *)
(***************************************************************************)
EXTENDS Archive, FiniteSetTheorems, TLAPS

(***************************************************************************)
(* What a sync holds between its steps                                     *)
(***************************************************************************)
\* A sync under way has a conversation; from "make" on it has a directory,
\* from "move" on that directory has a data directory; from the choice of a
\* path to the writing it has a block and a path for it.
Underway(p) == ~At(p, "idle") => sync[p].conv \in Conv
HasDir(p) == ~At(p, "idle") /\ ~At(p, "locate") => sync[p].dir \in Number
HasData(p) == At(p, "move") \/ At(p, "mark") \/ At(p, "extract") \/ At(p, "write")
                => sync[p].dir \in laid
HasTarget(p) ==
  At(p, "write") =>
    /\ sync[p].target \in Path /\ sync[p].target[1] \in {"here", "data"}
    /\ sync[p].target[1] = "data" => sync[p].target[2] \in laid
    /\ Next1(p) \in 1 .. Len(blocks[sync[p].conv])
Shape == \A p \in Proc : Underway(p) /\ HasDir(p) /\ HasData(p) /\ HasTarget(p)

\* A step that leaves the files alone, or writes one, or moves some, keeps
\* their types and says what became of each.
LEMMA PutType ==
  ASSUME TypeOK, NEW f \in Path, NEW x \in Content, Put(f, x)
  PROVE  /\ DOMAIN files' \subseteq Path /\ files' \in [DOMAIN files' -> Content]
         /\ DOMAIN files' = DOMAIN files \cup {f}
         /\ files'[f] = x
         /\ \A g \in DOMAIN files : g # f => files'[g] = files[g]
BY DEF TypeOK, Put

Relocated(moved, place, at) ==
  /\ \A g \in DOMAIN files' :
       g \in DOMAIN files \ moved \/ \E m \in moved : g = <<place, at, m[3], m[4]>>
  /\ \A g \in DOMAIN files \ moved :
       (\A m \in moved : g # <<place, at, m[3], m[4]>>)
         => g \in DOMAIN files' /\ files'[g] = files[g]

LEMMA RenamedType ==
  ASSUME TypeOK, NEW moved \in SUBSET DOMAIN files, NEW place \in Place, NEW at \in Number,
         Renamed(moved, place, at)
  PROVE  /\ DOMAIN files' \subseteq Path /\ files' \in [DOMAIN files' -> Content]
         /\ Relocated(moved, place, at)
<1> DEFINE new(m) == <<place, at, m[3], m[4]>>
           stay == DOMAIN files \ moved
<1>1. DOMAIN files' = stay \cup {new(m) : m \in moved}
  BY DEF Renamed
<1>2. \A m \in moved : new(m) \in Path
  BY DEF TypeOK, Path
<1>3. DOMAIN files' \subseteq Path
  BY <1>1, <1>2 DEF TypeOK
<1>4. files' = [g \in stay \cup {new(m) : m \in moved} |->
                  IF \E m \in moved : new(m) = g
                  THEN files[CHOOSE m \in moved : new(m) = g] ELSE files[g]]
  BY DEF Renamed
<1>5. ASSUME NEW g \in DOMAIN files'
      PROVE  files'[g] \in Content
  <2>1. CASE \E m \in moved : new(m) = g
    <3>1. files'[g] = files[CHOOSE m \in moved : new(m) = g]
      BY <1>1, <1>4, <2>1
    <3>2. (CHOOSE m \in moved : new(m) = g) \in moved
      BY <2>1
    <3> QED BY <3>1, <3>2 DEF TypeOK
  <2>2. CASE ~ \E m \in moved : new(m) = g
    <3>1. g \in stay /\ files'[g] = files[g]
      BY <1>1, <1>4, <2>2
    <3> QED BY <3>1 DEF TypeOK
  <2> QED BY <2>1, <2>2
<1>6. files' \in [DOMAIN files' -> Content]
  <2>1. files' = [g \in DOMAIN files' |-> files'[g]]
    BY <1>4
  <2> QED BY <2>1, <1>5
<1> QED BY <1>1, <1>3, <1>4, <1>6 DEF Relocated

\* A step of p changes p's own record only.
LEMMA OtherSyncs ==
  ASSUME TypeOK, Shape, NEW p \in Proc, sync' \in [Proc -> Sync],
         \A q \in Proc : q # p => sync'[q] = sync[q],
         laid \subseteq laid', UNCHANGED blocks,
         (Underway(p) /\ HasDir(p) /\ HasData(p) /\ HasTarget(p))'
  PROVE  Shape'
<1> SUFFICES ASSUME NEW q \in Proc, q # p
             PROVE  (Underway(q) /\ HasDir(q) /\ HasData(q) /\ HasTarget(q))'
  BY DEF Shape
<1>1. sync'[q] = sync[q]
  OBVIOUS
<1>2. Underway(q) /\ HasDir(q) /\ HasData(q) /\ HasTarget(q)
  BY DEF Shape
<1> QED BY <1>1, <1>2 DEF Underway, HasDir, HasData, HasTarget, At, Next1

\* The record of p after each form of update.
LEMMA Stepped ==
  ASSUME TypeOK, NEW p \in Proc, NEW s \in Steps, Step(p, s)
  PROVE  /\ sync' \in [Proc -> Sync]
         /\ \A q \in Proc : q # p => sync'[q] = sync[q]
         /\ sync'[p].step = s /\ sync'[p].conv = sync[p].conv /\ sync'[p].dir = sync[p].dir
         /\ sync'[p].listed = sync[p].listed /\ sync'[p].target = sync[p].target
BY DEF TypeOK, Step, Sync

LEMMA IdleIsSync == Idle \in Sync
BY DEF Idle, Call, Sync, Steps, Path

\* A directory that is allocated or found has a number.
LEMMA DirIsNumber ==
  ASSUME TypeOK, NEW c \in Conv, NEW d \in ArchiveDir(c)
  PROVE  d \in Number /\ (d \in Dir \/ Marked(c) = {})
BY DEF TypeOK, ArchiveDir, Marked, NextNumber

LEMMA RenderedType ==
  ASSUME TypeOK, NEW c \in Conv, NEW i \in 1 .. Len(blocks[c])
  PROVE  Rendered(c, i) \in Content /\ blocks[c][i] \in Block
<1>1. blocks[c] \in Seq(Block) /\ updated[c] \in 1 .. MaxDays
  BY DEF TypeOK
<1>2. blocks[c][i] \in Block
  BY <1>1
<1> QED BY <1>1, <1>2, ArchiveAssumption DEF Rendered, Content, Block

(***************************************************************************)
(* One lemma for each action                                               *)
(***************************************************************************)
LEMMA InitTypes == Init => TypeOK /\ Shape
<1> SUFFICES ASSUME Init PROVE TypeOK /\ Shape
  OBVIOUS
<1> USE ArchiveAssumption
<1>1. PICK c \in Conv, old \in {"none", "legacy", "flat"} :
        LET numbered == IF old = "flat" THEN {1} ELSE {} IN
        /\ marker = [d \in numbered |-> c]
        /\ laid = {}
        /\ wrote = [d \in Number |-> IF d \in numbered THEN {c} ELSE {}]
        /\ files = [f \in IF old = "none" THEN {}
                         ELSE {IF old = "flat" THEN Top(1, n, 1) ELSE Legacy(c, n, 1) : n \in Old}
                     |-> ByUser]
  BY DEF Init
<1>2. 1 \in Number
  BY DEF Number
<1>3. Dir \subseteq Number /\ marker \in [Dir -> Conv \cup {None}] /\ laid \subseteq Dir
  BY <1>1, <1>2 DEF Dir
<1>4. wrote \in [Number -> SUBSET Conv]
  BY <1>1
<1>5. DOMAIN files \subseteq Path
  BY <1>1, <1>2 DEF Path, Place, Top, Legacy
<1>6. files \in [DOMAIN files -> Content]
  BY <1>1 DEF ByUser, Content
<1>7. sync \in [Proc -> Sync] /\ \A p \in Proc : sync[p].step = "idle"
  BY IdleIsSync DEF Init, Idle, Call
<1>8. blocks \in [Conv -> Seq(Block)] /\ updated \in [Conv -> 1 .. MaxDays]
      /\ today \in 1 .. MaxDays /\ edits \in 0 .. MaxEdits /\ crashes \in 0 .. MaxCrashes
  BY DEF Init
<1>9. Shape
  BY <1>7 DEF Shape, Underway, HasDir, HasData, HasTarget, At
<1> QED BY <1>3, <1>4, <1>5, <1>6, <1>7, <1>8, <1>9 DEF TypeOK

LEMMA StartTypes ==
  ASSUME TypeOK, Shape, NEW p \in Proc, NEW c \in Conv, Start(p, c)
  PROVE  TypeOK' /\ Shape'
<1>1. sync' = [sync EXCEPT ![p] = Call("locate", c)]
  BY DEF Start
<1>2. Call("locate", c) \in Sync
  BY DEF Call, Sync, Steps, Path
<1>3. sync' \in [Proc -> Sync] /\ \A q \in Proc : q # p => sync'[q] = sync[q]
  BY <1>1, <1>2 DEF TypeOK
<1>4. sync'[p].step = "locate" /\ sync'[p].conv = c
  BY <1>1 DEF TypeOK, Call
<1>5. UNCHANGED <<conversations, archive, edits, crashes>>
  BY DEF Start
<1>6. TypeOK'
  BY <1>3, <1>5 DEF TypeOK, conversations, archive, Dir
<1>7. (Underway(p) /\ HasDir(p) /\ HasData(p) /\ HasTarget(p))'
  BY <1>4 DEF Underway, HasDir, HasData, HasTarget, At
<1>8. Shape'
  BY <1>3, <1>5, <1>7, OtherSyncs DEF conversations, archive
<1> QED BY <1>6, <1>8

LEMMA LocateTypes ==
  ASSUME TypeOK, Shape, NEW p \in Proc, Locate(p)
  PROVE  TypeOK' /\ Shape'
<1> DEFINE c == sync[p].conv
<1>1. c \in Conv /\ At(p, "locate")
  BY DEF Locate, Shape, Underway, At
<1>2. PICK d \in ArchiveDir(c) :
        /\ sync' = [sync EXCEPT ![p].step = "make", ![p].dir = d]
        /\ IF In("legacy", c) # {} /\ Marked(c) = {} /\ d \notin Dir
           THEN /\ Renamed(In("legacy", c), "top", d)
                /\ marker' = [e \in Dir \cup {d} |-> IF e = d THEN None ELSE marker[e]]
                /\ wrote' = [wrote EXCEPT ![d] = @ \cup {c}]
           ELSE UNCHANGED <<marker, files, wrote>>
  BY DEF Locate
<1>3. d \in Number
  BY <1>1, <1>2, DirIsNumber
<1>4. UNCHANGED <<conversations, laid, edits, crashes>>
  BY DEF Locate
<1>5. /\ sync' \in [Proc -> Sync] /\ \A q \in Proc : q # p => sync'[q] = sync[q]
      /\ sync'[p].step = "make" /\ sync'[p].conv = c /\ sync'[p].dir = d
  BY <1>2, <1>3, ZenonT(60) DEF TypeOK, Sync, Steps
<1>6. /\ DOMAIN files' \subseteq Path /\ files' \in [DOMAIN files' -> Content]
      /\ Dir' \subseteq Number /\ marker' \in [Dir' -> Conv \cup {None}] /\ laid \subseteq Dir'
      /\ wrote' \in [Number -> SUBSET Conv]
  <2>1. CASE In("legacy", c) # {} /\ Marked(c) = {} /\ d \notin Dir
    <3>1. DOMAIN files' \subseteq Path /\ files' \in [DOMAIN files' -> Content]
      BY <1>2, <1>3, <2>1, RenamedType DEF In, Place
    <3>2. marker' = [e \in Dir \cup {d} |-> IF e = d THEN None ELSE marker[e]]
          /\ wrote' = [wrote EXCEPT ![d] = @ \cup {c}]
      BY <1>2, <2>1
    <3> QED BY <1>1, <1>3, <3>1, <3>2 DEF TypeOK, Dir
  <2>2. CASE ~(In("legacy", c) # {} /\ Marked(c) = {} /\ d \notin Dir)
    BY <1>2, <2>2 DEF TypeOK, Dir
  <2> QED BY <2>1, <2>2
<1>7. TypeOK'
  BY <1>4, <1>5, <1>6 DEF TypeOK, conversations
<1>8. (Underway(p) /\ HasDir(p) /\ HasData(p) /\ HasTarget(p))'
  BY <1>1, <1>3, <1>5 DEF Underway, HasDir, HasData, HasTarget, At
<1>9. Shape'
  BY <1>4, <1>5, <1>8, OtherSyncs DEF conversations
<1> QED BY <1>7, <1>9

LEMMA MakeDirTypes ==
  ASSUME TypeOK, Shape, NEW p \in Proc, MakeDir(p)
  PROVE  TypeOK' /\ Shape'
<1> DEFINE d == sync[p].dir
           s == IF d \in laid THEN "mark" ELSE "move"
<1>1. d \in Number /\ sync[p].conv \in Conv
  BY DEF MakeDir, Shape, HasDir, Underway, At
<1>2. /\ marker' = [e \in Dir \cup {d} |-> IF e \in Dir THEN marker[e] ELSE None]
      /\ laid' = laid \cup {d} /\ Step(p, s)
      /\ UNCHANGED <<conversations, files, wrote, edits, crashes>>
  BY DEF MakeDir
<1>3. s \in Steps /\ s \in {"mark", "move"}
  BY DEF Steps
<1> HIDE DEF s
<1>4. /\ sync' \in [Proc -> Sync] /\ \A q \in Proc : q # p => sync'[q] = sync[q]
      /\ sync'[p].step = s /\ sync'[p].conv = sync[p].conv /\ sync'[p].dir = d
  BY <1>2, <1>3, Stepped
<1>5. Dir' \subseteq Number /\ marker' \in [Dir' -> Conv \cup {None}] /\ laid' \subseteq Dir'
  BY <1>1, <1>2 DEF TypeOK, Dir
<1>6. TypeOK'
  BY <1>2, <1>4, <1>5 DEF TypeOK, conversations
<1>7. (Underway(p) /\ HasDir(p) /\ HasData(p) /\ HasTarget(p))'
  BY <1>1, <1>2, <1>3, <1>4 DEF Underway, HasDir, HasData, HasTarget, At
<1>8. Shape'
  BY <1>2, <1>4, <1>7, OtherSyncs DEF conversations
<1> QED BY <1>6, <1>8

LEMMA MoveTypes ==
  ASSUME TypeOK, Shape, NEW p \in Proc, Move(p)
  PROVE  TypeOK' /\ Shape'
<1> DEFINE d == sync[p].dir
<1>1. d \in Number /\ d \in laid /\ sync[p].conv \in Conv /\ At(p, "move")
  BY DEF Move, Shape, HasDir, HasData, Underway, At
<1>2. UNCHANGED <<conversations, marker, laid, wrote, edits, crashes>>
  BY DEF Move
<1>3. CASE In("top", d) = {}
  <2>1. Step(p, "mark") /\ UNCHANGED files
    BY <1>3 DEF Move
  <2>2. /\ sync' \in [Proc -> Sync] /\ \A q \in Proc : q # p => sync'[q] = sync[q]
        /\ sync'[p].step = "mark" /\ sync'[p].conv = sync[p].conv /\ sync'[p].dir = d
    BY <2>1, Stepped DEF Steps
  <2>3. TypeOK'
    BY <1>2, <2>1, <2>2 DEF TypeOK, conversations, Dir
  <2>4. (Underway(p) /\ HasDir(p) /\ HasData(p) /\ HasTarget(p))'
    BY <1>1, <1>2, <2>2 DEF Underway, HasDir, HasData, HasTarget, At
  <2>5. Shape'
    BY <1>2, <2>2, <2>4, OtherSyncs DEF conversations
  <2> QED BY <2>3, <2>5
<1>4. CASE In("top", d) # {}
  <2>1. UNCHANGED sync /\ \E f \in In("top", d) : Renamed({f}, "data", d)
    BY <1>4 DEF Move
  <2>2. DOMAIN files' \subseteq Path /\ files' \in [DOMAIN files' -> Content]
    <3>1. PICK f \in In("top", d) : Renamed({f}, "data", d)
      BY <2>1
    <3>2. {f} \in SUBSET DOMAIN files /\ "data" \in Place
      BY DEF In, Place
    <3> QED BY <1>1, <3>1, <3>2, RenamedType
  <2>3. TypeOK'
    BY <1>2, <2>1, <2>2 DEF TypeOK, conversations, Dir
  <2>4. Shape'
    BY <1>2, <2>1 DEF Shape, Underway, HasDir, HasData, HasTarget, At, Next1, conversations
  <2> QED BY <2>3, <2>4
<1> QED BY <1>3, <1>4

LEMMA MarkTypes ==
  ASSUME TypeOK, Shape, NEW p \in Proc, Mark(p)
  PROVE  TypeOK' /\ Shape'
<1>1. sync[p].dir \in Number /\ sync[p].dir \in laid /\ sync[p].conv \in Conv
  BY DEF Mark, Shape, HasDir, HasData, Underway, At
<1>2. /\ marker' = [marker EXCEPT ![sync[p].dir] = sync[p].conv]
      /\ Step(p, "extract") /\ UNCHANGED <<conversations, laid, files, wrote, edits, crashes>>
  BY DEF Mark
<1>3. /\ sync' \in [Proc -> Sync] /\ \A q \in Proc : q # p => sync'[q] = sync[q]
      /\ sync'[p].step = "extract" /\ sync'[p].conv = sync[p].conv /\ sync'[p].dir = sync[p].dir
  BY <1>2, Stepped DEF Steps
<1>4. Dir' = Dir /\ marker' \in [Dir' -> Conv \cup {None}]
  BY <1>1, <1>2 DEF TypeOK, Dir
<1>5. TypeOK'
  BY <1>2, <1>3, <1>4 DEF TypeOK, conversations
<1>6. (Underway(p) /\ HasDir(p) /\ HasData(p) /\ HasTarget(p))'
  BY <1>1, <1>2, <1>3 DEF Underway, HasDir, HasData, HasTarget, At
<1>7. Shape'
  BY <1>2, <1>3, <1>6, OtherSyncs DEF conversations
<1> QED BY <1>5, <1>7

\* The path chosen for the next block, and that the block fits there.
Chosen(p, f) ==
  /\ f \in Path /\ f[1] \in {"here", "data"}
  /\ f[1] = "data" => f[2] \in laid /\ f[2] = sync[p].dir
  /\ Fits(f, Rendered(sync[p].conv, Next1(p)))
  /\ UniqueNumber(f[1], f[2], f[3], Rendered(sync[p].conv, Next1(p)), f[4])
  /\ sync' = [sync EXCEPT ![p].step = "write", ![p].target = f]

LEMMA ChooseFits ==
  ASSUME TypeOK, Shape, NEW p \in Proc, Choose(p)
  PROVE  Next1(p) \in 1 .. Len(blocks[sync[p].conv]) /\ \E f : Chosen(p, f)
<1> DEFINE c == sync[p].conv
           d == sync[p].dir
           n == blocks[c][Next1(p)][1]
           x == Rendered(c, Next1(p))
<1>1. At(p, "extract") /\ Next1(p) <= Len(blocks[c])
  BY DEF Choose, Extracting
<1>2. c \in Conv /\ d \in laid /\ d \in Number
  BY <1>1 DEF Shape, Underway, HasData, HasDir, At
<1>3. Next1(p) \in 1 .. Len(blocks[c])
  <2>1. sync[p].listed \in Seq(Path) /\ blocks[c] \in Seq(Block)
    BY <1>2 DEF TypeOK, Sync
  <2>2. Len(sync[p].listed) \in Nat /\ Len(blocks[c]) \in Nat
    BY <2>1
  <2> QED BY <1>1, <2>2 DEF Next1
<1>4. n \in Name
  BY <1>2, <1>3, RenderedType DEF Block
<1>5. PICK k \in 1 .. MaxCopies :
        \/ /\ UniqueNumber("here", 0, n, x, k)
           /\ sync' = [sync EXCEPT ![p].step = "write", ![p].target = Here(n, k)]
        \/ /\ UniqueNumber("data", d, n, x, k)
           /\ sync' = [sync EXCEPT ![p].step = "write", ![p].target = Data(d, n, k)]
  BY DEF Choose
<1>6. CASE /\ UniqueNumber("here", 0, n, x, k)
           /\ sync' = [sync EXCEPT ![p].step = "write", ![p].target = Here(n, k)]
  <2>1. Here(n, k) \in Path /\ Here(n, k)[1] = "here"
    BY <1>4 DEF Here, Path, Place
  <2>2. /\ Fits(Here(n, k), x)
        /\ UniqueNumber(Here(n, k)[1], Here(n, k)[2], Here(n, k)[3], x, Here(n, k)[4])
    BY <1>6 DEF UniqueNumber, Here
  <2> QED BY <1>3, <1>6, <2>1, <2>2 DEF Chosen
<1>7. CASE /\ UniqueNumber("data", d, n, x, k)
           /\ sync' = [sync EXCEPT ![p].step = "write", ![p].target = Data(d, n, k)]
  <2>1. /\ Data(d, n, k) \in Path /\ Data(d, n, k)[1] = "data"
        /\ Data(d, n, k)[2] \in laid /\ Data(d, n, k)[2] = d
    BY <1>2, <1>4 DEF Data, Path, Place
  <2>2. /\ Fits(Data(d, n, k), x)
        /\ UniqueNumber(Data(d, n, k)[1], Data(d, n, k)[2], Data(d, n, k)[3], x, Data(d, n, k)[4])
    BY <1>7 DEF UniqueNumber, Data
  <2> QED BY <1>3, <1>7, <2>1, <2>2 DEF Chosen
<1> QED BY <1>5, <1>6, <1>7

LEMMA ChooseTypes ==
  ASSUME TypeOK, Shape, NEW p \in Proc, Choose(p)
  PROVE  TypeOK' /\ Shape'
<1>1. At(p, "extract") /\ UNCHANGED <<conversations, archive, edits, crashes>>
  BY DEF Choose, Extracting
<1>2. sync[p].conv \in Conv /\ sync[p].dir \in laid /\ sync[p].dir \in Number
  BY <1>1 DEF Shape, Underway, HasData, HasDir, At
<1>3. PICK f : Chosen(p, f)
  BY ChooseFits
<1>4. f \in Path /\ sync' = [sync EXCEPT ![p].step = "write", ![p].target = f]
  BY <1>3 DEF Chosen
<1>5. /\ sync' \in [Proc -> Sync] /\ \A q \in Proc : q # p => sync'[q] = sync[q]
      /\ sync'[p].step = "write" /\ sync'[p].conv = sync[p].conv /\ sync'[p].dir = sync[p].dir
      /\ sync'[p].listed = sync[p].listed /\ sync'[p].target = f
  BY <1>4 DEF TypeOK, Sync, Steps
<1>6. TypeOK'
  BY <1>1, <1>5 DEF TypeOK, conversations, archive, Dir
<1>7. Next1(p)' \in 1 .. Len(blocks[sync[p].conv])'
  BY <1>1, <1>5, ChooseFits DEF Next1, conversations
<1>8. (Underway(p) /\ HasDir(p) /\ HasData(p) /\ HasTarget(p))'
  BY <1>1, <1>2, <1>3, <1>5, <1>7
  DEF Underway, HasDir, HasData, HasTarget, At, Chosen, archive
<1>9. Shape'
  BY <1>1, <1>5, <1>8, OtherSyncs DEF conversations, archive
<1> QED BY <1>6, <1>9

LEMMA TouchesType ==
  ASSUME TypeOK, Shape, NEW p \in Proc, At(p, "write"), Touches(p, sync[p].target)
  PROVE  wrote' \in [Number -> SUBSET Conv]
<1>1. sync[p].conv \in Conv
  BY DEF Shape, Underway, At
<1> QED BY <1>1 DEF TypeOK, Touches

LEMMA WriteTypes ==
  ASSUME TypeOK, Shape, NEW p \in Proc, Write(p)
  PROVE  TypeOK' /\ Shape'
<1> DEFINE f == sync[p].target
           c == sync[p].conv
<1>1. At(p, "write") /\ UNCHANGED <<conversations, marker, laid, edits, crashes>>
  BY DEF Write
<1>2. /\ c \in Conv /\ sync[p].dir \in laid /\ sync[p].dir \in Number
      /\ f \in Path /\ Next1(p) \in 1 .. Len(blocks[c])
  BY <1>1 DEF Shape, Underway, HasData, HasDir, HasTarget, At
<1>3. Rendered(c, Next1(p)) \in Content
  BY <1>2, RenderedType
<1>4. Put(f, Rendered(c, Next1(p))) /\ Touches(p, f)
  BY DEF Write
<1>5. DOMAIN files' \subseteq Path /\ files' \in [DOMAIN files' -> Content]
  BY <1>2, <1>3, <1>4, PutType
<1>6. wrote' \in [Number -> SUBSET Conv]
  BY <1>1, <1>4, TouchesType
<1>7. sync' = [sync EXCEPT ![p].step = "extract", ![p].listed = Append(@, f)]
  BY DEF Write
<1>8. /\ sync' \in [Proc -> Sync] /\ \A q \in Proc : q # p => sync'[q] = sync[q]
      /\ sync'[p].step = "extract" /\ sync'[p].conv = c /\ sync'[p].dir = sync[p].dir
  <2>1. Append(sync[p].listed, f) \in Seq(Path)
    BY <1>2 DEF TypeOK, Sync
  <2> DEFINE l == Append(sync[p].listed, f)
  <2>2. sync' = [sync EXCEPT ![p].step = "extract", ![p].listed = l] /\ l \in Seq(Path)
    BY <1>7, <2>1
  <2> HIDE DEF l
  <2> QED BY <2>2, ZenonT(60) DEF TypeOK, Sync, Steps
<1>9. TypeOK'
  BY <1>1, <1>5, <1>6, <1>8 DEF TypeOK, conversations, Dir
<1>10. (Underway(p) /\ HasDir(p) /\ HasData(p) /\ HasTarget(p))'
  BY <1>1, <1>2, <1>8 DEF Underway, HasDir, HasData, HasTarget, At
<1>11. Shape'
  BY <1>1, <1>8, <1>10, OtherSyncs DEF conversations
<1> QED BY <1>9, <1>11

LEMMA TranscriptTypes ==
  ASSUME TypeOK, Shape, NEW p \in Proc, Transcript(p)
  PROVE  TypeOK' /\ Shape'
<1> DEFINE c == sync[p].conv
<1>1. c \in Conv
  BY DEF Transcript, Shape, Underway, At
<1>2. PICK d \in ArchiveDir(c) :
        /\ marker' = [e \in Dir \cup {d} |-> IF e \in Dir THEN marker[e] ELSE None]
        /\ laid' = laid \cup {d}
        /\ wrote' = [wrote EXCEPT ![d] = @ \cup {c}]
  BY DEF Transcript
<1>3. d \in Number
  BY <1>1, <1>2, DirIsNumber
<1>4. sync' = [sync EXCEPT ![p] = Idle] /\ UNCHANGED <<conversations, files, edits, crashes>>
  BY DEF Transcript
<1>5. /\ sync' \in [Proc -> Sync] /\ \A q \in Proc : q # p => sync'[q] = sync[q]
      /\ sync'[p] = Idle
  BY <1>4, IdleIsSync DEF TypeOK
<1>6. /\ Dir' \subseteq Number /\ marker' \in [Dir' -> Conv \cup {None}] /\ laid' \subseteq Dir'
      /\ wrote' \in [Number -> SUBSET Conv]
  BY <1>1, <1>2, <1>3 DEF TypeOK, Dir
<1>7. TypeOK'
  BY <1>4, <1>5, <1>6 DEF TypeOK, conversations
<1>8. (Underway(p) /\ HasDir(p) /\ HasData(p) /\ HasTarget(p))'
  BY <1>5 DEF Underway, HasDir, HasData, HasTarget, At, Idle, Call
<1>9. Shape'
  BY <1>2, <1>4, <1>5, <1>8, OtherSyncs DEF conversations
<1> QED BY <1>7, <1>9

LEMMA CrashTypes ==
  ASSUME TypeOK, Shape, NEW p \in Proc, Crash(p)
  PROVE  TypeOK' /\ Shape'
<1>1. /\ sync' = [sync EXCEPT ![p] = Idle] /\ UNCHANGED <<conversations, marker, laid, edits>>
      /\ crashes' = crashes + 1 /\ crashes < MaxCrashes
  BY DEF Crash
<1>2. /\ sync' \in [Proc -> Sync] /\ \A q \in Proc : q # p => sync'[q] = sync[q]
      /\ sync'[p] = Idle
  BY <1>1, IdleIsSync DEF TypeOK
<1>3. /\ DOMAIN files' \subseteq Path /\ files' \in [DOMAIN files' -> Content]
      /\ wrote' \in [Number -> SUBSET Conv]
  <2>1. CASE UNCHANGED <<files, wrote>>
    BY <2>1 DEF TypeOK
  <2>2. CASE At(p, "write") /\ Put(sync[p].target, <<Torn, 0>>) /\ Touches(p, sync[p].target)
    <3>1. sync[p].target \in Path
      BY <2>2 DEF Shape, HasTarget
    <3>2. <<Torn, 0>> \in Content
      BY ArchiveAssumption DEF Content
    <3>3. wrote' \in [Number -> SUBSET Conv]
      BY <2>2, TouchesType
    <3> QED BY <2>2, <3>1, <3>2, <3>3, PutType
  <2> QED BY <2>1, <2>2 DEF Crash
<1>4. crashes' \in 0 .. MaxCrashes
  BY <1>1, ArchiveAssumption DEF TypeOK
<1>5. TypeOK'
  BY <1>1, <1>2, <1>3, <1>4 DEF TypeOK, conversations, Dir
<1>6. (Underway(p) /\ HasDir(p) /\ HasData(p) /\ HasTarget(p))'
  BY <1>2 DEF Underway, HasDir, HasData, HasTarget, At, Idle, Call
<1>7. Shape'
  BY <1>1, <1>2, <1>6, OtherSyncs DEF conversations
<1> QED BY <1>5, <1>7

\* An answer touches no conversation that is being archived.
LEMMA AnswerKeeps ==
  ASSUME TypeOK, Shape, NEW c \in Conv, NEW n \in Name, NEW b \in Body, NEW day,
         Answer(c, n, b, day), NEW p \in Proc, ~At(p, "idle")
  PROVE  /\ blocks'[sync[p].conv] = blocks[sync[p].conv]
         /\ updated'[sync[p].conv] = updated[sync[p].conv]
<1>1. sync[p].conv \in Conv /\ sync[p].conv # c
  BY DEF Shape, Underway, Answer
<1>2. /\ blocks' = [blocks EXCEPT ![c] = Append(@, <<n, b>>)]
      /\ updated' = [updated EXCEPT ![c] = day]
  BY DEF Answer
<1> QED BY <1>1, <1>2 DEF TypeOK

LEMMA AnswerTypes ==
  ASSUME TypeOK, Shape, NEW c \in Conv, NEW n \in Name, NEW b \in Body, NEW day \in today .. MaxDays,
         Answer(c, n, b, day)
  PROVE  TypeOK' /\ Shape'
<1>1. /\ blocks' = [blocks EXCEPT ![c] = Append(@, <<n, b>>)]
      /\ updated' = [updated EXCEPT ![c] = day] /\ today' = day
      /\ UNCHANGED <<archive, sync, edits, crashes>>
  BY DEF Answer
<1>2. blocks' \in [Conv -> Seq(Block)]
  <2>1. Append(blocks[c], <<n, b>>) \in Seq(Block)
    BY DEF TypeOK, Block
  <2> DEFINE l == Append(blocks[c], <<n, b>>)
  <2>2. blocks' = [blocks EXCEPT ![c] = l] /\ l \in Seq(Block)
    BY <1>1, <2>1
  <2> HIDE DEF l
  <2> QED BY <2>2 DEF TypeOK
<1>3. day \in 1 .. MaxDays
  BY ArchiveAssumption DEF TypeOK
<1>4. TypeOK'
  BY <1>1, <1>2, <1>3 DEF TypeOK, archive, Dir
<1>5. ASSUME NEW p \in Proc
      PROVE  (Underway(p) /\ HasDir(p) /\ HasData(p) /\ HasTarget(p))'
  <2>1. Underway(p) /\ HasDir(p) /\ HasData(p) /\ HasTarget(p)
    BY DEF Shape
  <2>2. At(p, "write") => blocks'[sync[p].conv] = blocks[sync[p].conv]
    BY AnswerKeeps DEF At
  <2>3. UNCHANGED <<sync, laid>>
    BY <1>1 DEF archive
  <2> QED BY <2>1, <2>2, <2>3 DEF Underway, HasDir, HasData, HasTarget, At, Next1
<1> QED BY <1>4, <1>5 DEF Shape

Editable == {g \in DOMAIN files : g[1] \in {"data", "here"}} \cup {Here(n, 1) : n \in Hinted}

LEMMA EditTypes ==
  ASSUME TypeOK, Shape, NEW f \in Editable, Edit(f)
  PROVE  TypeOK' /\ Shape'
<1>1. /\ Put(f, ByUser) /\ edits' = edits + 1 /\ edits < MaxEdits
      /\ UNCHANGED <<conversations, marker, laid, sync, wrote, crashes>>
  BY DEF Edit
<1>2. f \in Path /\ ByUser \in Content
  BY ArchiveAssumption, SMTT(30) DEF Editable, TypeOK, Here, Path, Place, ByUser, Content
<1>3. DOMAIN files' \subseteq Path /\ files' \in [DOMAIN files' -> Content]
  BY <1>1, <1>2, PutType
<1>4. TypeOK'
  BY <1>1, <1>3, ArchiveAssumption DEF TypeOK, conversations, Dir
<1>5. Shape'
  BY <1>1 DEF Shape, Underway, HasDir, HasData, HasTarget, At, Next1, conversations
<1> QED BY <1>4, <1>5

LEMMA StutterTypes == TypeOK /\ Shape /\ UNCHANGED vars => TypeOK' /\ Shape'
<1> SUFFICES ASSUME TypeOK, Shape, UNCHANGED vars
             PROVE  TypeOK' /\ Shape'
  OBVIOUS
<1>1. TypeOK'
  BY DEF TypeOK, vars, conversations, archive, Dir
<1>2. Shape'
  BY DEF Shape, Underway, HasDir, HasData, HasTarget, At, Next1, vars, conversations, archive
<1> QED BY <1>1, <1>2

LEMMA NextTypes == TypeOK /\ Shape /\ [Next]_vars => TypeOK' /\ Shape'
<1> SUFFICES ASSUME TypeOK, Shape, [Next]_vars
             PROVE  TypeOK' /\ Shape'
  OBVIOUS
<1>1. ASSUME NEW p \in Proc, Work(p)
      PROVE  TypeOK' /\ Shape'
  BY <1>1, LocateTypes, MakeDirTypes, MoveTypes, MarkTypes, ChooseTypes, WriteTypes, TranscriptTypes
  DEF Work
<1>2. ASSUME NEW p \in Proc, Crash(p) PROVE TypeOK' /\ Shape'
  BY <1>2, CrashTypes
<1>3. ASSUME NEW p \in Proc, NEW c \in Conv, Start(p, c) PROVE TypeOK' /\ Shape'
  BY <1>3, StartTypes
<1>4. ASSUME NEW c \in Conv, NEW n \in Name, NEW b \in Body, NEW day \in today .. MaxDays,
             Answer(c, n, b, day)
      PROVE  TypeOK' /\ Shape'
  BY <1>4, AnswerTypes
<1>5. ASSUME NEW f \in Editable, Edit(f) PROVE TypeOK' /\ Shape'
  BY <1>5, EditTypes
<1>6. CASE UNCHANGED vars
  BY <1>6, StutterTypes
<1> QED BY <1>1, <1>2, <1>3, <1>4, <1>5, <1>6 DEF Next, Editable

\* Archiving keeps its types, whatever overlaps or dies.
THEOREM TypeCorrect == Spec => []TypeOK
<1>1. TypeOK /\ Shape /\ [Next]_vars => (TypeOK /\ Shape)'
  BY NextTypes
<1> QED BY <1>1, InitTypes, PTL DEF Spec

(***************************************************************************)
(* No file is overwritten                                                  *)
(***************************************************************************)
\* Syncs do not overlap; files are under data/ only where there is one; what
\* was found to fit a path still does when it is written; and the files of an
\* old archive take no path that is in use.
OneAtATime == \A p, q \in Proc : ~At(p, "idle") /\ ~At(q, "idle") => p = q
DataLaid == \A f \in DOMAIN files : f[1] = "data" => f[2] \in laid
TargetFits(p) == At(p, "write") => Fits(sync[p].target, Rendered(sync[p].conv, Next1(p)))
Apart(p) ==
  At(p, "move") =>
    \A f \in In("top", sync[p].dir), g \in In("data", sync[p].dir) :
      <<f[3], f[4]>> # <<g[3], g[4]>>
Serial == OneAtATime /\ DataLaid /\ \A p \in Proc : TargetFits(p) /\ Apart(p)

Kept ==
  \A f \in DOMAIN files : f[1] \in {"here", "data"} => f \in DOMAIN files' /\ files'[f] = files[f]

\* The step of the only sync under way disturbs what is said of that one.
LEMMA OnlyOne ==
  ASSUME TypeOK, Serial, NEW p \in Proc, ~At(p, "idle"),
         \A q \in Proc : q # p => sync'[q] = sync[q],
         DataLaid', (TargetFits(p) /\ Apart(p))'
  PROVE  Serial'
<1>1. \A q \in Proc : q # p => sync'[q].step = "idle"
  BY DEF Serial, OneAtATime, At
<1>2. OneAtATime'
  BY <1>1 DEF OneAtATime, At
<1>3. \A q \in Proc : q # p => (TargetFits(q) /\ Apart(q))'
  BY <1>1 DEF TargetFits, Apart, At
<1> QED BY <1>2, <1>3 DEF Serial

LEMMA LocateSerial ==
  ASSUME TypeOK, Shape, Serial, NEW p \in Proc, Locate(p)
  PROVE  Serial' /\ Kept
<1> DEFINE c == sync[p].conv
<1>1. c \in Conv /\ At(p, "locate") /\ ~At(p, "idle") /\ UNCHANGED laid
  BY DEF Locate, Shape, Underway, At
<1>2. PICK d \in ArchiveDir(c) :
        /\ sync' = [sync EXCEPT ![p].step = "make", ![p].dir = d]
        /\ IF In("legacy", c) # {} /\ Marked(c) = {} /\ d \notin Dir
           THEN Renamed(In("legacy", c), "top", d)
           ELSE UNCHANGED files
  BY DEF Locate
<1>3. d \in Number
  BY <1>1, <1>2, DirIsNumber
<1>4. sync'[p].step = "make" /\ \A q \in Proc : q # p => sync'[q] = sync[q]
  BY <1>2 DEF TypeOK, Sync
<1>5. Kept /\ DataLaid'
  <2>1. CASE UNCHANGED files
    BY <1>1, <2>1 DEF Kept, DataLaid, Serial
  <2>2. CASE Renamed(In("legacy", c), "top", d)
    <3>1. In("legacy", c) \in SUBSET DOMAIN files /\ "top" \in Place
      BY DEF In, Place
    <3>2. Relocated(In("legacy", c), "top", d)
      BY <1>3, <2>2, <3>1, RenamedType
    <3>3. DataLaid'
      BY <1>1, <3>2 DEF DataLaid, Serial, Relocated
    <3>4. ASSUME NEW f \in DOMAIN files, f[1] \in {"here", "data"}
          PROVE  f \in DOMAIN files' /\ files'[f] = files[f]
      <4>1. f \notin In("legacy", c) /\ \A x, y : f # <<"top", d, x, y>>
        BY <3>4 DEF In
      <4> QED BY <3>2, <4>1 DEF Relocated
    <3> QED BY <3>3, <3>4 DEF Kept
  <2> QED BY <1>2, <2>1, <2>2
<1>6. (TargetFits(p) /\ Apart(p))'
  BY <1>4 DEF TargetFits, Apart, At
<1> QED BY <1>1, <1>4, <1>5, <1>6, OnlyOne

LEMMA MakeDirSerial ==
  ASSUME TypeOK, Shape, Serial, NEW p \in Proc, MakeDir(p)
  PROVE  Serial' /\ Kept
<1> DEFINE d == sync[p].dir
           s == IF d \in laid THEN "mark" ELSE "move"
<1>1. ~At(p, "idle") /\ laid' = laid \cup {d} /\ Step(p, s) /\ UNCHANGED files
  BY DEF MakeDir, At
<1>2. s \in Steps /\ s # "write"
  BY DEF Steps
<1>3. s = "move" => In("data", d) = {}
  BY DEF Serial, DataLaid, In
<1> HIDE DEF s
<1>4. /\ \A q \in Proc : q # p => sync'[q] = sync[q]
      /\ sync'[p].step = s /\ sync'[p].dir = d
  BY <1>1, <1>2, Stepped
<1>5. DataLaid' /\ Kept
  BY <1>1 DEF Serial, DataLaid, Kept
<1>6. (TargetFits(p) /\ Apart(p))'
  BY <1>1, <1>2, <1>3, <1>4 DEF TargetFits, Apart, At, In
<1> QED BY <1>1, <1>4, <1>5, <1>6, OnlyOne

LEMMA MoveSerial ==
  ASSUME TypeOK, Shape, Serial, NEW p \in Proc, Move(p)
  PROVE  Serial' /\ Kept
<1> DEFINE d == sync[p].dir
<1>1. d \in Number /\ d \in laid /\ At(p, "move") /\ ~At(p, "idle") /\ UNCHANGED laid
  BY DEF Move, Shape, HasDir, HasData, At
<1>2. CASE In("top", d) = {}
  <2>1. Step(p, "mark") /\ UNCHANGED files
    BY <1>2 DEF Move
  <2>2. sync'[p].step = "mark" /\ \A q \in Proc : q # p => sync'[q] = sync[q]
    BY <2>1, Stepped DEF Steps
  <2>3. (TargetFits(p) /\ Apart(p))'
    BY <2>2 DEF TargetFits, Apart, At
  <2>4. DataLaid' /\ Kept
    BY <1>1, <2>1 DEF Serial, DataLaid, Kept
  <2> QED BY <1>1, <2>2, <2>3, <2>4, OnlyOne
<1>3. CASE In("top", d) # {}
  <2>1. PICK f \in In("top", d) : Renamed({f}, "data", d)
    BY <1>3 DEF Move
  <2>2. UNCHANGED sync
    BY <1>3 DEF Move
  <2> DEFINE new == <<"data", d, f[3], f[4]>>
  <2>3. {f} \in SUBSET DOMAIN files /\ "data" \in Place /\ f[1] = "top" /\ f[2] = d
    BY DEF In, Place
  <2>4. /\ \A g \in DOMAIN files' : (g \in DOMAIN files /\ g # f) \/ g = new
        /\ \A g \in DOMAIN files : g # f /\ g # new => g \in DOMAIN files' /\ files'[g] = files[g]
    <3>1. Relocated({f}, "data", d)
      BY <1>1, <2>1, <2>3, RenamedType
    <3> QED BY <3>1 DEF Relocated
  <2>5. \A a \in In("top", d), g \in In("data", d) : <<a[3], a[4]>> # <<g[3], g[4]>>
    BY <1>1 DEF Serial, Apart
  <2>6. DataLaid'
    BY <1>1, <2>4 DEF Serial, DataLaid
  <2>7. new \notin DOMAIN files
    BY <2>5 DEF In
  <2>8. Kept
    BY <2>3, <2>4, <2>7 DEF Kept
  <2>9. Apart(p)'
    <3> SUFFICES ASSUME NEW a \in In("top", d)', NEW g \in In("data", d)'
                 PROVE  <<a[3], a[4]>> # <<g[3], g[4]>>
      BY <2>2 DEF Apart
    <3>1. a \in DOMAIN files /\ a # f /\ a[1] = "top" /\ a[2] = d
      BY <2>2, <2>4 DEF In
    <3>2. CASE g \in DOMAIN files
      <4>1. a \in In("top", d) /\ g \in In("data", d)
        BY <2>2, <3>1, <3>2 DEF In
      <4> QED BY <2>5, <4>1
    <3>3. CASE g = new
      <4>1. a \in Path /\ f \in Path
        BY <2>3, <3>1 DEF TypeOK
      <4>2. a = <<a[1], a[2], a[3], a[4]>> /\ f = <<f[1], f[2], f[3], f[4]>>
        BY <4>1 DEF Path
      <4>3. <<a[3], a[4]>> # <<f[3], f[4]>>
        BY <2>3, <3>1, <4>2
      <4> QED BY <3>3, <4>3
    <3> QED BY <2>4, <3>2, <3>3 DEF In
  <2>10. TargetFits(p)'
    BY <1>1, <2>2 DEF TargetFits, At
  <2> QED BY <1>1, <2>2, <2>6, <2>8, <2>9, <2>10, OnlyOne
<1> QED BY <1>2, <1>3

LEMMA MarkSerial ==
  ASSUME TypeOK, Shape, Serial, NEW p \in Proc, Mark(p)
  PROVE  Serial' /\ Kept
<1>1. ~At(p, "idle") /\ Step(p, "extract") /\ UNCHANGED <<laid, files>>
  BY DEF Mark, At
<1>2. sync'[p].step = "extract" /\ \A q \in Proc : q # p => sync'[q] = sync[q]
  BY <1>1, Stepped DEF Steps
<1>3. DataLaid' /\ Kept
  BY <1>1 DEF Serial, DataLaid, Kept
<1>4. (TargetFits(p) /\ Apart(p))'
  BY <1>2 DEF TargetFits, Apart, At
<1> QED BY <1>1, <1>2, <1>3, <1>4, OnlyOne

LEMMA ChooseSerial ==
  ASSUME TypeOK, Shape, Serial, NEW p \in Proc, Choose(p)
  PROVE  Serial' /\ Kept
<1>1. ~At(p, "idle") /\ UNCHANGED <<conversations, archive, edits, crashes>>
  BY DEF Choose, Extracting, At
<1>2. PICK f : Chosen(p, f)
  BY ChooseFits
<1>3. /\ sync' = [sync EXCEPT ![p].step = "write", ![p].target = f]
      /\ Fits(f, Rendered(sync[p].conv, Next1(p)))
  BY <1>2 DEF Chosen
<1>4. /\ \A q \in Proc : q # p => sync'[q] = sync[q]
      /\ sync'[p].step = "write" /\ sync'[p].conv = sync[p].conv
      /\ sync'[p].listed = sync[p].listed /\ sync'[p].target = f
  BY <1>3 DEF TypeOK, Sync
<1>5. DataLaid' /\ Kept
  BY <1>1 DEF Serial, DataLaid, Kept, archive
<1>6. TargetFits(p)'
  BY <1>1, <1>3, <1>4 DEF TargetFits, At, Fits, Rendered, Next1, conversations, archive
<1>7. Apart(p)'
  BY <1>4 DEF Apart, At
<1> QED BY <1>1, <1>4, <1>5, <1>6, <1>7, OnlyOne

LEMMA WriteSerial ==
  ASSUME TypeOK, Shape, Serial, NEW p \in Proc, Write(p)
  PROVE  Serial' /\ Kept
<1> DEFINE f == sync[p].target
           x == Rendered(sync[p].conv, Next1(p))
<1>1. /\ At(p, "write") /\ ~At(p, "idle") /\ UNCHANGED laid /\ Put(f, x)
      /\ sync' = [sync EXCEPT ![p].step = "extract", ![p].listed = Append(@, f)]
  BY DEF Write, At
<1>2. /\ f \in Path /\ (f[1] = "data" => f[2] \in laid)
      /\ sync[p].conv \in Conv /\ Next1(p) \in 1 .. Len(blocks[sync[p].conv])
  BY <1>1 DEF Shape, HasTarget, Underway
<1>3. x \in Content
  BY <1>2, RenderedType
<1>4. /\ DOMAIN files' = DOMAIN files \cup {f} /\ files'[f] = x
      /\ \A g \in DOMAIN files : g # f => files'[g] = files[g]
  BY <1>1, <1>2, <1>3, PutType, ZenonT(60)
<1>5. f \in DOMAIN files => files[f] = x
  BY <1>1 DEF Serial, TargetFits, Fits
<1>6. Kept
  BY <1>4, <1>5 DEF Kept
<1>7. DataLaid'
  BY <1>1, <1>2, <1>4 DEF Serial, DataLaid
<1>8. sync'[p].step = "extract" /\ \A q \in Proc : q # p => sync'[q] = sync[q]
  BY <1>1 DEF TypeOK, Sync
<1>9. (TargetFits(p) /\ Apart(p))'
  BY <1>8 DEF TargetFits, Apart, At
<1> QED BY <1>1, <1>6, <1>7, <1>8, <1>9, OnlyOne

LEMMA TranscriptSerial ==
  ASSUME TypeOK, Shape, Serial, NEW p \in Proc, Transcript(p)
  PROVE  Serial' /\ Kept
<1>1. /\ ~At(p, "idle") /\ sync' = [sync EXCEPT ![p] = Idle] /\ UNCHANGED files
      /\ laid \subseteq laid'
  BY DEF Transcript, At
<1>2. sync'[p].step = "idle" /\ \A q \in Proc : q # p => sync'[q] = sync[q]
  BY <1>1 DEF TypeOK, Idle, Call
<1>3. DataLaid' /\ Kept
  BY <1>1 DEF Serial, DataLaid, Kept
<1>4. (TargetFits(p) /\ Apart(p))'
  BY <1>2 DEF TargetFits, Apart, At
<1> QED BY <1>1, <1>2, <1>3, <1>4, OnlyOne

LEMMA CrashSerial ==
  ASSUME TypeOK, Shape, Serial, NEW p \in Proc, Crash(p)
  PROVE  Serial'
<1>1. ~At(p, "idle") /\ sync' = [sync EXCEPT ![p] = Idle] /\ UNCHANGED laid
  BY DEF Crash
<1>2. sync'[p].step = "idle" /\ \A q \in Proc : q # p => sync'[q] = sync[q]
  BY <1>1 DEF TypeOK, Idle, Call
<1>3. DataLaid'
  <2>1. CASE UNCHANGED files
    BY <1>1, <2>1 DEF Serial, DataLaid
  <2>2. CASE At(p, "write") /\ Put(sync[p].target, <<Torn, 0>>)
    <3>1. sync[p].target[1] = "data" => sync[p].target[2] \in laid
      BY <2>2 DEF Shape, HasTarget
    <3>2. DOMAIN files' = DOMAIN files \cup {sync[p].target}
      BY <2>2 DEF Put
    <3> QED BY <1>1, <3>1, <3>2 DEF Serial, DataLaid
  <2> QED BY <2>1, <2>2 DEF Crash
<1>4. (TargetFits(p) /\ Apart(p))'
  BY <1>2 DEF TargetFits, Apart, At
<1> QED BY <1>1, <1>2, <1>3, <1>4, OnlyOne

LEMMA StartSerial ==
  ASSUME TypeOK, Serial, "overlap" \notin Faults, NEW p \in Proc, NEW c \in Conv, Start(p, c)
  PROVE  Serial' /\ Kept
<1>1. /\ \A q \in Proc : At(q, "idle")
      /\ sync' = [sync EXCEPT ![p] = Call("locate", c)] /\ UNCHANGED <<laid, files>>
  BY DEF Start, Alone, Quiet, archive
<1>2. sync'[p].step = "locate" /\ \A q \in Proc : q # p => sync'[q].step = "idle"
  BY <1>1 DEF TypeOK, Call, At
<1>3. OneAtATime' /\ \A q \in Proc : (TargetFits(q) /\ Apart(q))'
  BY <1>2 DEF OneAtATime, TargetFits, Apart, At
<1>4. DataLaid' /\ Kept
  BY <1>1 DEF Serial, DataLaid, Kept
<1> QED BY <1>3, <1>4 DEF Serial

LEMMA AnswerSerial ==
  ASSUME TypeOK, Shape, Serial, NEW c \in Conv, NEW n \in Name, NEW b \in Body, NEW day,
         Answer(c, n, b, day)
  PROVE  Serial' /\ Kept
<1>1. UNCHANGED <<archive, sync>>
  BY DEF Answer
<1>2. ASSUME NEW p \in Proc PROVE (TargetFits(p) /\ Apart(p))'
  <2>1. TargetFits(p) /\ Apart(p)
    BY DEF Serial
  <2>2. At(p, "write") => /\ blocks'[sync[p].conv] = blocks[sync[p].conv]
                          /\ updated'[sync[p].conv] = updated[sync[p].conv]
    BY AnswerKeeps DEF At
  <2>3. TargetFits(p)'
    BY <1>1, <2>1, <2>2 DEF TargetFits, At, Fits, Rendered, Next1, archive
  <2>4. Apart(p)'
    BY <1>1, <2>1 DEF Apart, At, In, archive
  <2> QED BY <2>3, <2>4
<1>3. OneAtATime' /\ DataLaid' /\ Kept
  BY <1>1 DEF Serial, OneAtATime, DataLaid, Kept, At, archive
<1> QED BY <1>2, <1>3 DEF Serial

LEMMA EditSerial ==
  ASSUME TypeOK, Serial, "overlap" \notin Faults, NEW f \in Editable, Edit(f)
  PROVE  Serial'
<1>1. /\ \A q \in Proc : At(q, "idle")
      /\ UNCHANGED <<laid, sync>> /\ DOMAIN files' = DOMAIN files \cup {f}
  BY DEF Edit, Alone, Quiet, Put
<1>2. f[1] = "data" => f \in DOMAIN files
  BY DEF Editable, Here
<1>3. DataLaid'
  BY <1>1, <1>2 DEF Serial, DataLaid
<1>4. OneAtATime' /\ \A q \in Proc : (TargetFits(q) /\ Apart(q))'
  BY <1>1 DEF OneAtATime, TargetFits, Apart, At
<1> QED BY <1>3, <1>4 DEF Serial

LEMMA InitSerial == Init => Serial
<1> SUFFICES ASSUME Init PROVE Serial
  OBVIOUS
<1>1. \A p \in Proc : sync[p].step = "idle"
  BY DEF Init, Idle, Call
<1>2. \A f \in DOMAIN files : f[1] # "data"
  BY DEF Init, Top, Legacy
<1> QED BY <1>1, <1>2 DEF Serial, OneAtATime, DataLaid, TargetFits, Apart, At

LEMMA NextSerial ==
  ASSUME "overlap" \notin Faults, TypeOK, Shape, Serial, [Next]_vars
  PROVE  Serial' /\ (edits' = edits /\ crashes' = crashes => Kept)
<1>1. ASSUME NEW p \in Proc, Work(p) PROVE Serial' /\ Kept
  BY <1>1, LocateSerial, MakeDirSerial, MoveSerial, MarkSerial, ChooseSerial, WriteSerial,
     TranscriptSerial DEF Work
<1>2. ASSUME NEW p \in Proc, Crash(p) PROVE Serial' /\ crashes' # crashes
  <2>1. crashes' = crashes + 1 /\ crashes \in Int
    BY <1>2 DEF Crash, TypeOK
  <2> QED BY <1>2, <2>1, CrashSerial
<1>3. ASSUME NEW p \in Proc, NEW c \in Conv, Start(p, c) PROVE Serial' /\ Kept
  BY <1>3, StartSerial
<1>4. ASSUME NEW c \in Conv, NEW n \in Name, NEW b \in Body, NEW day, Answer(c, n, b, day)
      PROVE  Serial' /\ Kept
  BY <1>4, AnswerSerial
<1>5. ASSUME NEW f \in Editable, Edit(f) PROVE Serial' /\ edits' # edits
  <2>1. edits' = edits + 1 /\ edits \in Int
    BY <1>5 DEF Edit, TypeOK
  <2> QED BY <1>5, <2>1, EditSerial
<1>6. CASE UNCHANGED vars
  <2>1. UNCHANGED <<laid, files, sync, blocks, updated>>
    BY <1>6 DEF vars, archive, conversations
  <2>2. OneAtATime' /\ DataLaid' /\ Kept
    BY <2>1 DEF Serial, OneAtATime, DataLaid, Kept, At
  <2>3. \A p \in Proc : (TargetFits(p) /\ Apart(p))'
    BY <2>1 DEF Serial, TargetFits, Apart, At, Fits, Rendered, Next1, In
  <2> QED BY <2>2, <2>3 DEF Serial
<1> QED BY <1>1, <1>2, <1>3, <1>4, <1>5, <1>6 DEF Next, Editable

\* As long as syncs overlap neither with each other nor with the user's edits,
\* no step of a sync changes or removes a file in the working directory or in
\* an archive (docs/files-and-data.md:56), for any number of files, edits and
\* crashes, and from an archive of any earlier layout.
THEOREM NeverOverwrites ==
  ASSUME "overlap" \notin Faults
  PROVE  Spec => NothingOverwritten
<1> DEFINE IInv == TypeOK /\ Shape /\ Serial
<1>1. Init => IInv
  BY InitTypes, InitSerial
<1>2. IInv /\ [Next]_vars => IInv'
  BY NextTypes, NextSerial
<1>3. IInv /\ [Next]_vars =>
        [edits' = edits /\ crashes' = crashes =>
           \A f \in DOMAIN files : f[1] \in {"here", "data"} =>
             f \in DOMAIN files' /\ files'[f] = files[f]]_vars
  BY NextSerial DEF Kept
<1> QED BY <1>1, <1>2, <1>3, PTL DEF Spec, NothingOverwritten

(***************************************************************************)
(* Every file the transcript lists is there                                *)
(***************************************************************************)
\* A sync has listed nothing before it extracts; then each file it listed is
\* in the working directory or under data/ and holds its block.
Before(p) == At(p, "locate") \/ At(p, "make") \/ At(p, "move") \/ At(p, "mark")
Holds(f, c, i) ==
  f[1] \in {"here", "data"} /\ f \in DOMAIN files /\ files[f] = Rendered(c, i)
Listed(p) ==
  /\ Before(p) => sync[p].listed = <<>>
  /\ At(p, "extract") \/ At(p, "write") =>
       \A i \in 1 .. Len(sync[p].listed) : Holds(sync[p].listed[i], sync[p].conv, i)
AllListed == \A p \in Proc : Listed(p)

\* The other syncs are idle, before and after a step of the one under way.
LEMMA OnlyListed ==
  ASSUME Serial, NEW p \in Proc, ~At(p, "idle"),
         \A q \in Proc : q # p => sync'[q] = sync[q], Listed(p)'
  PROVE  AllListed'
<1>1. \A q \in Proc : q # p => sync'[q].step = "idle"
  BY DEF Serial, OneAtATime, At
<1> QED BY <1>1 DEF AllListed, Listed, Before, At

\* A step that keeps the files and the list of a sync that had begun to
\* extract, or that had not, keeps what is said of it.
LEMMA ListKept ==
  ASSUME Kept, NEW p \in Proc, Listed(p), NEW c, sync[p].conv = c,
         sync'[p].listed = sync[p].listed, sync'[p].conv = c,
         blocks'[c] = blocks[c], updated'[c] = updated[c],
         Before(p) \/ At(p, "extract") \/ At(p, "write")
  PROVE  Listed(p)' \/ (Before(p)' /\ ~Before(p))
<1>1. ASSUME NEW i \in 1 .. Len(sync[p].listed), Holds(sync[p].listed[i], c, i)
      PROVE  Holds(sync[p].listed[i], c, i)'
  BY <1>1 DEF Holds, Kept, Rendered
<1> QED BY <1>1 DEF Listed, Before, At

LEMMA ListGrows ==
  ASSUME Kept, UNCHANGED <<blocks, updated>>, NEW c, NEW l \in Seq(Path), NEW f \in Path,
         \A i \in 1 .. Len(l) : Holds(l[i], c, i), Holds(f, c, Len(l) + 1)'
  PROVE  \A i \in 1 .. Len(Append(l, f)) : Holds(Append(l, f)[i], c, i)'
<1> SUFFICES ASSUME NEW i \in 1 .. Len(Append(l, f))
             PROVE  Holds(Append(l, f)[i], c, i)'
  OBVIOUS
<1>1. CASE i = Len(l) + 1
  <2>1. Append(l, f)[i] = f
    BY <1>1
  <2> QED BY <1>1, <2>1
<1>2. CASE i # Len(l) + 1
  <2>1. i \in 1 .. Len(l) /\ Append(l, f)[i] = l[i]
    BY <1>2
  <2> QED BY <2>1 DEF Holds, Kept, Rendered
<1> QED BY <1>1, <1>2

LEMMA WorkListed ==
  ASSUME TypeOK, Shape, Serial, AllListed, NEW p \in Proc, Work(p), Kept
  PROVE  AllListed'
<1> DEFINE c == sync[p].conv
<1>1. Listed(p) /\ ~At(p, "idle") /\ c \in Conv
  BY DEF AllListed, Work, Locate, MakeDir, Move, Mark, Choose, Extracting, Write, Transcript,
         At, Shape, Underway
<1>2. UNCHANGED conversations
  BY DEF Work, Locate, MakeDir, Move, Mark, Choose, Write, Transcript
<1>3. CASE Locate(p)
  <2>1. PICK d : sync' = [sync EXCEPT ![p].step = "make", ![p].dir = d]
    BY <1>3 DEF Locate
  <2>2. /\ \A q \in Proc : q # p => sync'[q] = sync[q]
        /\ sync'[p].step = "make" /\ sync'[p].listed = sync[p].listed
    BY <2>1 DEF TypeOK, Sync
  <2>3. Listed(p)'
    BY <1>1, <1>3, <2>2 DEF Listed, Before, At, Locate
  <2> QED BY <1>1, <2>2, <2>3, OnlyListed
<1>4. CASE MakeDir(p) \/ Mark(p) \/ (Move(p) /\ In("top", sync[p].dir) = {})
  <2>1. PICK s \in {"mark", "move", "extract"} : Step(p, s) /\ Before(p)
    BY <1>4 DEF MakeDir, Mark, Move, Before
  <2>2. /\ \A q \in Proc : q # p => sync'[q] = sync[q]
        /\ sync'[p].step = s /\ sync'[p].listed = sync[p].listed
    BY <2>1, Stepped DEF Steps
  <2>3. sync[p].listed = <<>>
    BY <1>1, <2>1 DEF Listed
  <2>4. Listed(p)'
    BY <2>2, <2>3 DEF Listed, Before, At
  <2> QED BY <1>1, <2>2, <2>4, OnlyListed
<1>5. CASE Move(p) /\ In("top", sync[p].dir) # {}
  <2>1. UNCHANGED sync /\ Before(p)
    BY <1>5 DEF Move, Before
  <2>2. Listed(p)'
    BY <1>1, <2>1 DEF Listed, Before, At
  <2> QED BY <1>1, <2>1, <2>2, OnlyListed
<1>6. CASE Choose(p)
  <2>1. PICK f : sync' = [sync EXCEPT ![p].step = "write", ![p].target = f]
    BY <1>6, ChooseFits DEF Chosen
  <2>2. /\ \A q \in Proc : q # p => sync'[q] = sync[q]
        /\ sync'[p].step = "write" /\ sync'[p].listed = sync[p].listed /\ sync'[p].conv = c
    BY <2>1 DEF TypeOK, Sync
  <2>3. At(p, "extract") /\ ~Before(p)'
    BY <1>6, <2>2 DEF Choose, Extracting, Before, At
  <2>4. Listed(p)'
    BY <1>1, <1>2, <2>2, <2>3, ListKept DEF conversations
  <2> QED BY <1>1, <2>2, <2>4, OnlyListed
<1>7. CASE Write(p)
  <2> DEFINE f == sync[p].target
             l == sync[p].listed
  <2>1. /\ At(p, "write") /\ Put(f, Rendered(c, Next1(p)))
        /\ sync' = [sync EXCEPT ![p].step = "extract", ![p].listed = Append(@, f)]
    BY <1>7 DEF Write
  <2>2. /\ \A q \in Proc : q # p => sync'[q] = sync[q]
        /\ sync'[p].step = "extract" /\ sync'[p].listed = Append(l, f) /\ sync'[p].conv = c
    BY <2>1 DEF TypeOK, Sync
  <2>3. /\ l \in Seq(Path) /\ f \in Path /\ f[1] \in {"here", "data"}
        /\ Next1(p) \in 1 .. Len(blocks[c])
    BY <2>1 DEF TypeOK, Sync, Shape, HasTarget
  <2>4. f \in DOMAIN files' /\ files'[f] = Rendered(c, Next1(p))
    BY <1>1, <2>1, <2>3, RenderedType, PutType
  <2>5. \A i \in 1 .. Len(l) : Holds(l[i], c, i)
    BY <1>1, <2>1 DEF Listed
  <2>6. UNCHANGED <<blocks, updated>>
    BY <1>2 DEF conversations
  <2>7. PICK cc, ll, ff : cc = c /\ ll = l /\ ff = f
    OBVIOUS
  <2>8. Holds(ff, cc, Len(ll) + 1)'
    BY <2>3, <2>4, <2>6, <2>7 DEF Holds, Rendered, Next1
  <2>9. \A i \in 1 .. Len(Append(ll, ff)) : Holds(Append(ll, ff)[i], cc, i)'
    BY <2>3, <2>5, <2>6, <2>7, <2>8, ListGrows
  <2>10. Listed(p)'
    BY <2>2, <2>7, <2>9 DEF Listed, Before, At
  <2> QED BY <1>1, <2>2, <2>10, OnlyListed
<1>8. CASE Transcript(p)
  <2>1. /\ sync'[p].step = "idle" /\ \A q \in Proc : q # p => sync'[q] = sync[q]
    BY <1>8 DEF Transcript, TypeOK, Idle, Call
  <2>2. Listed(p)'
    BY <2>1 DEF Listed, Before, At
  <2> QED BY <1>1, <2>1, <2>2, OnlyListed
<1> QED BY <1>3, <1>4, <1>5, <1>6, <1>7, <1>8 DEF Work

LEMMA NextListed ==
  ASSUME "overlap" \notin Faults, TypeOK, Shape, Serial, AllListed, [Next]_vars
  PROVE  AllListed'
<1>1. ASSUME NEW p \in Proc, Work(p) PROVE AllListed'
  <2>1. Kept
    BY <1>1, LocateSerial, MakeDirSerial, MoveSerial, MarkSerial, ChooseSerial, WriteSerial,
       TranscriptSerial DEF Work
  <2> QED BY <1>1, <2>1, WorkListed
<1>2. ASSUME NEW p \in Proc, Crash(p) PROVE AllListed'
  <2>1. /\ ~At(p, "idle") /\ sync'[p].step = "idle"
        /\ \A q \in Proc : q # p => sync'[q] = sync[q]
    BY <1>2 DEF Crash, TypeOK, Idle, Call
  <2>2. Listed(p)'
    BY <2>1 DEF Listed, Before, At
  <2> QED BY <2>1, <2>2, OnlyListed
<1>3. ASSUME NEW p \in Proc, NEW c \in Conv, Start(p, c) PROVE AllListed'
  <2>1. /\ \A q \in Proc : At(q, "idle")
        /\ sync' = [sync EXCEPT ![p] = Call("locate", c)]
    BY <1>3 DEF Start, Alone, Quiet
  <2>2. /\ \A q \in Proc : q # p => sync'[q].step = "idle"
        /\ sync'[p].step = "locate" /\ sync'[p].listed = <<>>
    BY <2>1 DEF TypeOK, Call, At
  <2> QED BY <2>2 DEF AllListed, Listed, Before, At
<1>4. ASSUME NEW c \in Conv, NEW n \in Name, NEW b \in Body, NEW day, Answer(c, n, b, day)
      PROVE  AllListed'
  <2>1. UNCHANGED <<sync, files>>
    BY <1>4 DEF Answer, archive
  <2>2. ASSUME NEW p \in Proc PROVE Listed(p)'
    <3>1. Listed(p)
      BY DEF AllListed
    <3>2. ~At(p, "idle") => /\ blocks'[sync[p].conv] = blocks[sync[p].conv]
                            /\ updated'[sync[p].conv] = updated[sync[p].conv]
      BY <1>4, AnswerKeeps
    <3> QED BY <2>1, <3>1, <3>2 DEF Listed, Before, At, Holds, Rendered
  <2> QED BY <2>2 DEF AllListed
<1>5. ASSUME NEW f \in Editable, Edit(f) PROVE AllListed'
  <2>1. \A p \in Proc : sync'[p].step = "idle"
    BY <1>5 DEF Edit, Alone, Quiet, At
  <2> QED BY <2>1 DEF AllListed, Listed, Before, At
<1>6. CASE UNCHANGED vars
  BY <1>6 DEF vars, archive, conversations, AllListed, Listed, Before, At, Holds, Rendered
<1> QED BY <1>1, <1>2, <1>3, <1>4, <1>5, <1>6 DEF Next, Editable

\* As long as syncs and edits do not overlap, every file a sync has listed
\* by the time it writes the transcript is there and holds the block it is
\* listed for, whatever crashes came before.
THEOREM ListsWhatIsThere ==
  ASSUME "overlap" \notin Faults
  PROVE  Spec => []Extracted
<1> DEFINE IInv == TypeOK /\ Shape /\ Serial /\ AllListed
<1>1. Init => IInv
  <2>1. ASSUME Init PROVE AllListed
    BY <2>1 DEF Init, Idle, Call, AllListed, Listed, Before, At
  <2> QED BY <2>1, InitTypes, InitSerial
<1>2. IInv /\ [Next]_vars => IInv'
  BY NextTypes, NextSerial, NextListed
<1>3. IInv => Extracted
  BY DEF AllListed, Listed, Holds, Extracted
<1> QED BY <1>1, <1>2, <1>3, PTL DEF Spec

(***************************************************************************)
(* No block is extracted twice                                             *)
(***************************************************************************)
\* The copies of a file are numbered without a gap, the files of an old
\* archive are all first ones, and the number a path was chosen with is still
\* the first that fits when the file is written.
Gapless ==
  \A f \in DOMAIN files : f[1] \in {"here", "data"} =>
    \A j \in 1 .. f[4] - 1 : <<f[1], f[2], f[3], j>> \in DOMAIN files
OldFirst == \A f \in DOMAIN files : f[1] \in {"legacy", "top"} => f[4] = 1
TargetFirst(p) ==
  At(p, "write") =>
    LET t == sync[p].target IN
    UniqueNumber(t[1], t[2], t[3], Rendered(sync[p].conv, Next1(p)), t[4])
Numbered == Gapless /\ OldFirst /\ \A p \in Proc : TargetFirst(p)

NoCopy ==
  \A f \in DOMAIN files' \ DOMAIN files : \A g \in DOMAIN files :
    <<f[1], f[2], f[3]>> = <<g[1], g[2], g[3]>> => files'[f] # files[g]

\* A path is its four parts.
LEMMA Parts ==
  ASSUME TypeOK, NEW f \in DOMAIN files
  PROVE  f = <<f[1], f[2], f[3], f[4]>> /\ f[1] \in Place /\ f[4] \in 1 .. MaxCopies
BY DEF TypeOK, Path

\* The step of the only sync under way.
LEMMA OnlyNumbered ==
  ASSUME Serial, NEW p \in Proc, ~At(p, "idle"),
         \A q \in Proc : q # p => sync'[q] = sync[q],
         Gapless', OldFirst', TargetFirst(p)'
  PROVE  Numbered'
<1>1. \A q \in Proc : q # p => sync'[q].step = "idle"
  BY DEF Serial, OneAtATime, At
<1> QED BY <1>1 DEF Numbered, TargetFirst, At

\* A file written with a number below which all are taken leaves no gap.
LEMMA PutGapless ==
  ASSUME TypeOK, Gapless, OldFirst, NEW t \in Path, NEW x, Put(t, x), t[1] \in {"here", "data"},
         \A j \in 1 .. t[4] - 1 : <<t[1], t[2], t[3], j>> \in DOMAIN files
  PROVE  Gapless' /\ OldFirst'
<1>1. DOMAIN files' = DOMAIN files \cup {t}
  BY DEF Put
<1> QED BY <1>1 DEF Gapless, OldFirst

LEMMA LocateNumbered ==
  ASSUME TypeOK, Shape, Serial, Numbered, NEW p \in Proc, Locate(p)
  PROVE  Numbered' /\ NoCopy
<1> DEFINE c == sync[p].conv
<1>1. c \in Conv /\ At(p, "locate") /\ ~At(p, "idle")
  BY DEF Locate, Shape, Underway, At
<1>2. PICK d \in ArchiveDir(c) :
        /\ sync' = [sync EXCEPT ![p].step = "make", ![p].dir = d]
        /\ IF In("legacy", c) # {} /\ Marked(c) = {} /\ d \notin Dir
           THEN Renamed(In("legacy", c), "top", d)
           ELSE UNCHANGED files
  BY DEF Locate
<1>3. d \in Number
  BY <1>1, <1>2, DirIsNumber
<1>4. sync'[p].step = "make" /\ \A q \in Proc : q # p => sync'[q] = sync[q]
  BY <1>2 DEF TypeOK, Sync
<1>5. Gapless' /\ OldFirst' /\ NoCopy
  <2>1. CASE UNCHANGED files
    BY <2>1 DEF Numbered, Gapless, OldFirst, NoCopy
  <2>2. CASE Renamed(In("legacy", c), "top", d)
    <3>1. In("legacy", c) \in SUBSET DOMAIN files /\ "top" \in Place
      BY DEF In, Place
    <3>2. Relocated(In("legacy", c), "top", d)
      BY <1>3, <2>2, <3>1, RenamedType
    <3>3. \A m \in In("legacy", c) : m[4] = 1
      BY DEF Numbered, OldFirst, In
    <3>4. ASSUME NEW f \in DOMAIN files'
          PROVE  \/ f \in DOMAIN files \ In("legacy", c)
                 \/ f[1] = "top" /\ f[2] = d /\ f[4] = 1 /\ f = <<f[1], f[2], f[3], f[4]>>
      BY <3>2, <3>3 DEF Relocated
    <3>5. \A f \in DOMAIN files : f[1] \in {"here", "data"} => f \in DOMAIN files'
      <4> SUFFICES ASSUME NEW f \in DOMAIN files, f[1] \in {"here", "data"}
                   PROVE  f \in DOMAIN files'
        OBVIOUS
      <4>1. f \notin In("legacy", c) /\ \A x, y : f # <<"top", d, x, y>>
        BY DEF In
      <4> QED BY <3>2, <4>1 DEF Relocated
    <3>6. OldFirst'
      BY <3>4 DEF Numbered, OldFirst
    <3>7. Gapless'
      <4> SUFFICES ASSUME NEW f \in DOMAIN files', f[1] \in {"here", "data"},
                          NEW j \in 1 .. f[4] - 1
                   PROVE  <<f[1], f[2], f[3], j>> \in DOMAIN files'
        BY DEF Gapless
      <4>1. f \in DOMAIN files
        BY <3>4
      <4>2. <<f[1], f[2], f[3], j>> \in DOMAIN files
        BY <4>1 DEF Numbered, Gapless
      <4> QED BY <3>5, <4>2
    <3>8. NoCopy
      <4> SUFFICES ASSUME NEW f \in DOMAIN files' \ DOMAIN files, NEW g \in DOMAIN files,
                          <<f[1], f[2], f[3]>> = <<g[1], g[2], g[3]>>
                   PROVE  FALSE
        BY DEF NoCopy
      <4>1. f[1] = "top" /\ f[4] = 1 /\ f = <<f[1], f[2], f[3], f[4]>>
        BY <3>4
      <4>2. g[4] = 1 /\ g = <<g[1], g[2], g[3], g[4]>>
        BY <4>1, Parts DEF Numbered, OldFirst
      <4> QED BY <4>1, <4>2
    <3> QED BY <3>6, <3>7, <3>8
  <2> QED BY <1>2, <2>1, <2>2
<1>6. TargetFirst(p)'
  BY <1>4 DEF TargetFirst, At
<1> QED BY <1>1, <1>4, <1>5, <1>6, OnlyNumbered

LEMMA MoveNumbered ==
  ASSUME TypeOK, Shape, Serial, Numbered, NEW p \in Proc, Move(p)
  PROVE  Numbered' /\ NoCopy
<1> DEFINE d == sync[p].dir
<1>1. d \in Number /\ At(p, "move") /\ ~At(p, "idle")
  BY DEF Move, Shape, HasDir, At
<1>2. CASE In("top", d) = {}
  <2>1. Step(p, "mark") /\ UNCHANGED files
    BY <1>2 DEF Move
  <2>2. sync'[p].step = "mark" /\ \A q \in Proc : q # p => sync'[q] = sync[q]
    BY <2>1, Stepped DEF Steps
  <2>3. Gapless' /\ OldFirst' /\ NoCopy
    BY <2>1 DEF Numbered, Gapless, OldFirst, NoCopy
  <2>4. TargetFirst(p)'
    BY <2>2 DEF TargetFirst, At
  <2> QED BY <1>1, <2>2, <2>3, <2>4, OnlyNumbered
<1>3. CASE In("top", d) # {}
  <2>1. PICK f \in In("top", d) : Renamed({f}, "data", d)
    BY <1>3 DEF Move
  <2>2. UNCHANGED sync
    BY <1>3 DEF Move
  <2> DEFINE new == <<"data", d, f[3], f[4]>>
  <2>3. /\ {f} \in SUBSET DOMAIN files /\ "data" \in Place
        /\ f[1] = "top" /\ f[2] = d /\ f[4] = 1
    BY DEF In, Place, Numbered, OldFirst
  <2>4. /\ \A g \in DOMAIN files' : (g \in DOMAIN files /\ g # f) \/ g = new
        /\ \A g \in DOMAIN files : g # f /\ g # new => g \in DOMAIN files' /\ files'[g] = files[g]
    <3>1. Relocated({f}, "data", d)
      BY <1>1, <2>1, <2>3, RenamedType
    <3> QED BY <3>1 DEF Relocated
  <2>5. \A g \in In("data", d) : <<f[3], f[4]>> # <<g[3], g[4]>>
    BY <1>1 DEF Serial, Apart
  <2>6. new \notin DOMAIN files
    BY <2>5 DEF In
  <2>7. OldFirst'
    BY <2>4 DEF Numbered, OldFirst
  <2>8. Gapless'
    <3> SUFFICES ASSUME NEW g \in DOMAIN files', g[1] \in {"here", "data"},
                        NEW j \in 1 .. g[4] - 1
                 PROVE  <<g[1], g[2], g[3], j>> \in DOMAIN files'
      BY DEF Gapless
    <3>1. g # new
      BY <2>3
    <3>2. <<g[1], g[2], g[3], j>> \in DOMAIN files
      BY <2>4, <3>1 DEF Numbered, Gapless
    <3>3. <<g[1], g[2], g[3], j>> # f /\ <<g[1], g[2], g[3], j>> # new
      BY <2>3, <2>6, <3>2
    <3> QED BY <2>4, <3>2, <3>3
  <2>9. NoCopy
    <3> SUFFICES ASSUME NEW h \in DOMAIN files' \ DOMAIN files, NEW g \in DOMAIN files,
                        <<h[1], h[2], h[3]>> = <<g[1], g[2], g[3]>>
                 PROVE  FALSE
      BY DEF NoCopy
    <3>1. h = new
      BY <2>4
    <3>2. g[1] = "data" /\ g[2] = d /\ g[3] = f[3]
      BY <3>1
    <3>3. g = <<g[1], g[2], g[3], g[4]>> /\ g[4] \in 1 .. MaxCopies
      BY Parts
    <3>4. CASE g[4] = 1
      BY <2>3, <2>6, <3>2, <3>3, <3>4
    <3>5. CASE g[4] # 1
      <4>1. 1 \in 1 .. g[4] - 1
        BY <3>3, <3>5
      <4>2. <<g[1], g[2], g[3], 1>> \in DOMAIN files
        BY <3>2, <4>1 DEF Numbered, Gapless
      <4> QED BY <2>3, <2>6, <3>2, <4>2
    <3> QED BY <3>4, <3>5
  <2>10. TargetFirst(p)'
    BY <1>1, <2>2 DEF TargetFirst, At
  <2> QED BY <1>1, <2>2, <2>7, <2>8, <2>9, <2>10, OnlyNumbered
<1> QED BY <1>2, <1>3

LEMMA WriteNumbered ==
  ASSUME TypeOK, Shape, Serial, Numbered, NEW p \in Proc, Write(p)
  PROVE  Numbered' /\ NoCopy
<1> DEFINE t == sync[p].target
           x == Rendered(sync[p].conv, Next1(p))
<1>1. /\ At(p, "write") /\ ~At(p, "idle") /\ Put(t, x)
      /\ sync' = [sync EXCEPT ![p].step = "extract", ![p].listed = Append(@, t)]
  BY DEF Write, At
<1>2. /\ t \in Path /\ t[1] \in {"here", "data"} /\ sync[p].conv \in Conv
      /\ Next1(p) \in 1 .. Len(blocks[sync[p].conv])
  BY <1>1 DEF Shape, HasTarget, Underway
<1>3. /\ DOMAIN files' = DOMAIN files \cup {t} /\ files'[t] = x
      /\ \A g \in DOMAIN files : g # t => files'[g] = files[g]
  BY <1>1, <1>2, RenderedType, PutType
<1>4. \A j \in 1 .. t[4] - 1 : ~Fits(<<t[1], t[2], t[3], j>>, x)
  BY <1>1 DEF Numbered, TargetFirst, UniqueNumber
<1>5. Gapless' /\ OldFirst'
  <2>1. \A j \in 1 .. t[4] - 1 : <<t[1], t[2], t[3], j>> \in DOMAIN files
    BY <1>4 DEF Fits
  <2> QED BY <1>1, <1>2, <2>1, PutGapless DEF Numbered
<1>6. NoCopy
  <2> SUFFICES ASSUME t \notin DOMAIN files, NEW g \in DOMAIN files,
                      <<t[1], t[2], t[3]>> = <<g[1], g[2], g[3]>>
               PROVE  x # files[g]
    BY <1>3 DEF NoCopy
  <2>1. /\ g = <<g[1], g[2], g[3], g[4]>> /\ t = <<t[1], t[2], t[3], t[4]>>
        /\ g[4] \in 1 .. MaxCopies /\ t[4] \in 1 .. MaxCopies
    BY <1>2, Parts DEF Path
  <2>2. g[4] # t[4]
    BY <2>1
  <2>3. ~(t[4] < g[4])
    <3> SUFFICES ASSUME t[4] < g[4] PROVE FALSE
      OBVIOUS
    <3>1. t[4] \in 1 .. g[4] - 1
      BY <2>1
    <3>2. <<g[1], g[2], g[3], t[4]>> \in DOMAIN files
      BY <1>2, <3>1 DEF Numbered, Gapless
    <3> QED BY <2>1, <3>2
  <2>4. g[4] \in 1 .. t[4] - 1
    BY <2>1, <2>2, <2>3
  <2>5. ~Fits(<<t[1], t[2], t[3], g[4]>>, x)
    BY <1>4, <2>4
  <2> QED BY <2>1, <2>5 DEF Fits
<1>7. sync'[p].step = "extract" /\ \A q \in Proc : q # p => sync'[q] = sync[q]
  BY <1>1 DEF TypeOK, Sync
<1>8. TargetFirst(p)'
  BY <1>7 DEF TargetFirst, At
<1> QED BY <1>1, <1>5, <1>6, <1>7, <1>8, OnlyNumbered

\* The steps of a sync that touch no file.
LEMMA StillNumbered ==
  ASSUME TypeOK, Shape, Serial, Numbered, NEW p \in Proc,
         MakeDir(p) \/ Mark(p) \/ Choose(p) \/ Transcript(p)
  PROVE  Numbered' /\ NoCopy
<1>1. UNCHANGED <<files, blocks, updated>> /\ ~At(p, "idle")
  BY DEF MakeDir, Mark, Choose, Extracting, Transcript, archive, conversations, At
<1>2. Gapless' /\ OldFirst' /\ NoCopy
  BY <1>1 DEF Numbered, Gapless, OldFirst, NoCopy
<1>3. CASE MakeDir(p) \/ Mark(p)
  <2>1. PICK s \in {"mark", "move", "extract"} : Step(p, s)
    BY <1>3 DEF MakeDir, Mark
  <2>2. sync'[p].step = s /\ \A q \in Proc : q # p => sync'[q] = sync[q]
    BY <2>1, Stepped DEF Steps
  <2>3. TargetFirst(p)'
    BY <2>2 DEF TargetFirst, At
  <2> QED BY <1>1, <1>2, <2>2, <2>3, OnlyNumbered
<1>4. CASE Choose(p)
  <2>1. PICK f : Chosen(p, f)
    BY <1>4, ChooseFits
  <2>2. /\ sync' = [sync EXCEPT ![p].step = "write", ![p].target = f]
        /\ UniqueNumber(f[1], f[2], f[3], Rendered(sync[p].conv, Next1(p)), f[4])
    BY <2>1 DEF Chosen
  <2>3. /\ \A q \in Proc : q # p => sync'[q] = sync[q]
        /\ sync'[p].conv = sync[p].conv
        /\ sync'[p].listed = sync[p].listed /\ sync'[p].target = f
    BY <2>2 DEF TypeOK, Sync
  <2>4. TargetFirst(p)'
    BY <1>1, <2>2, <2>3 DEF TargetFirst, UniqueNumber, Fits, Rendered, Next1
  <2> QED BY <1>1, <1>2, <2>3, <2>4, OnlyNumbered
<1>5. CASE Transcript(p)
  <2>1. /\ sync'[p].step = "idle" /\ \A q \in Proc : q # p => sync'[q] = sync[q]
    BY <1>5 DEF Transcript, TypeOK, Idle, Call
  <2>2. TargetFirst(p)'
    BY <2>1 DEF TargetFirst, At
  <2> QED BY <1>1, <1>2, <2>1, <2>2, OnlyNumbered
<1> QED BY <1>3, <1>4, <1>5

LEMMA CrashNumbered ==
  ASSUME TypeOK, Shape, Serial, Numbered, NEW p \in Proc, Crash(p)
  PROVE  Numbered'
<1>1. /\ ~At(p, "idle") /\ sync'[p].step = "idle"
      /\ \A q \in Proc : q # p => sync'[q] = sync[q]
  BY DEF Crash, TypeOK, Idle, Call
<1>2. Gapless' /\ OldFirst'
  <2>1. CASE UNCHANGED files
    BY <2>1 DEF Numbered, Gapless, OldFirst
  <2>2. CASE At(p, "write") /\ Put(sync[p].target, <<Torn, 0>>)
    <3> DEFINE t == sync[p].target
    <3>1. t \in Path /\ t[1] \in {"here", "data"}
      BY <2>2 DEF Shape, HasTarget
    <3>2. \A j \in 1 .. t[4] - 1 : <<t[1], t[2], t[3], j>> \in DOMAIN files
      BY <2>2 DEF Numbered, TargetFirst, UniqueNumber, Fits
    <3> QED BY <2>2, <3>1, <3>2, PutGapless DEF Numbered
  <2> QED BY <2>1, <2>2 DEF Crash
<1>3. TargetFirst(p)'
  BY <1>1 DEF TargetFirst, At
<1> QED BY <1>1, <1>2, <1>3, OnlyNumbered

LEMMA EditNumbered ==
  ASSUME TypeOK, Numbered, "overlap" \notin Faults, NEW f \in Editable, Edit(f)
  PROVE  Numbered'
<1>1. Put(f, ByUser) /\ \A p \in Proc : sync'[p].step = "idle"
  BY DEF Edit, Alone, Quiet, At
<1>2. f \in Path /\ f[1] \in {"here", "data"}
  BY ArchiveAssumption DEF Editable, TypeOK, Here, Path, Place
<1>3. \A j \in 1 .. f[4] - 1 : <<f[1], f[2], f[3], j>> \in DOMAIN files
  <2>1. CASE f \in DOMAIN files
    BY <1>2, <2>1 DEF Numbered, Gapless
  <2>2. CASE f \notin DOMAIN files
    <3>1. f[4] = 1
      BY <2>2 DEF Editable, Here
    <3> QED BY <3>1
  <2> QED BY <2>1, <2>2
<1>4. Gapless' /\ OldFirst'
  BY <1>1, <1>2, <1>3, PutGapless DEF Numbered
<1> QED BY <1>1, <1>4 DEF Numbered, TargetFirst, At

LEMMA InitNumbered == Init => Numbered
<1> SUFFICES ASSUME Init PROVE Numbered
  OBVIOUS
<1>1. \A p \in Proc : sync[p].step = "idle"
  BY DEF Init, Idle, Call
<1>2. \A f \in DOMAIN files : f[1] \in {"legacy", "top"} /\ f[4] = 1
  BY DEF Init, Top, Legacy
<1> QED BY <1>1, <1>2 DEF Numbered, Gapless, OldFirst, TargetFirst, At

LEMMA NextNumbered ==
  ASSUME "overlap" \notin Faults, TypeOK, Shape, Serial, Numbered, [Next]_vars
  PROVE  Numbered' /\ (edits' = edits /\ crashes' = crashes => NoCopy)
<1>1. ASSUME NEW p \in Proc, Work(p) PROVE Numbered' /\ NoCopy
  BY <1>1, LocateNumbered, MoveNumbered, WriteNumbered, StillNumbered DEF Work
<1>2. ASSUME NEW p \in Proc, Crash(p) PROVE Numbered' /\ crashes' # crashes
  <2>1. crashes' = crashes + 1 /\ crashes \in Int
    BY <1>2 DEF Crash, TypeOK
  <2> QED BY <1>2, <2>1, CrashNumbered
<1>3. ASSUME NEW p \in Proc, NEW c \in Conv, Start(p, c) PROVE Numbered' /\ NoCopy
  <2>1. /\ \A q \in Proc : At(q, "idle") /\ UNCHANGED files
        /\ sync' = [sync EXCEPT ![p] = Call("locate", c)]
    BY <1>3 DEF Start, Alone, Quiet, archive
  <2>2. \A q \in Proc : sync'[q].step \in {"idle", "locate"}
    BY <2>1 DEF TypeOK, Call, At
  <2> QED BY <2>1, <2>2 DEF Numbered, Gapless, OldFirst, TargetFirst, At, NoCopy
<1>4. ASSUME NEW c \in Conv, NEW n \in Name, NEW b \in Body, NEW day, Answer(c, n, b, day)
      PROVE  Numbered' /\ NoCopy
  <2>1. UNCHANGED <<sync, files>>
    BY <1>4 DEF Answer, archive
  <2>2. ASSUME NEW p \in Proc PROVE TargetFirst(p)'
    <3>1. TargetFirst(p)
      BY DEF Numbered
    <3>2. ~At(p, "idle") => /\ blocks'[sync[p].conv] = blocks[sync[p].conv]
                            /\ updated'[sync[p].conv] = updated[sync[p].conv]
      BY <1>4, AnswerKeeps
    <3> QED BY <2>1, <3>1, <3>2 DEF TargetFirst, At, UniqueNumber, Fits, Rendered, Next1
  <2> QED BY <2>1, <2>2 DEF Numbered, Gapless, OldFirst, NoCopy
<1>5. ASSUME NEW f \in Editable, Edit(f) PROVE Numbered' /\ edits' # edits
  <2>1. edits' = edits + 1 /\ edits \in Int
    BY <1>5 DEF Edit, TypeOK
  <2> QED BY <1>5, <2>1, EditNumbered
<1>6. CASE UNCHANGED vars
  BY <1>6 DEF vars, archive, conversations, Numbered, Gapless, OldFirst, TargetFirst, At,
              UniqueNumber, Fits, Rendered, Next1, NoCopy
<1> QED BY <1>1, <1>2, <1>3, <1>4, <1>5, <1>6 DEF Next, Editable

\* As long as syncs and edits do not overlap, extracting the same blocks again,
\* after any crash and from any older layout, makes no second file of the same
\* name and content: the first number that fits is found because no number
\* below it is free.
THEOREM NeverCopies ==
  ASSUME "overlap" \notin Faults
  PROVE  Spec => NoCopies
<1> DEFINE IInv == TypeOK /\ Shape /\ Serial /\ Numbered
<1>1. Init => IInv
  BY InitTypes, InitSerial, InitNumbered
<1>2. IInv /\ [Next]_vars => IInv'
  BY NextTypes, NextSerial, NextNumbered
<1>3. IInv /\ [Next]_vars =>
        [edits' = edits /\ crashes' = crashes =>
           \A f \in DOMAIN files' \ DOMAIN files : \A g \in DOMAIN files :
             <<f[1], f[2], f[3]>> = <<g[1], g[2], g[3]>> => files'[f] # files[g]]_vars
  BY NextNumbered DEF NoCopy
<1> QED BY <1>1, <1>2, <1>3, PTL DEF Spec, NoCopies

(***************************************************************************)
(* One directory for a conversation                                        *)
(***************************************************************************)
\* There are numbers enough for the conversations of a day and for those a
\* sync that died allocated and did not mark.
Room == IsFiniteSet(Conv) /\ Cardinality(Conv) + MaxCrashes <= LastNumber

\* A sync on its way to the marker has the directory that is marked for its
\* conversation or, when none is, an unmarked one or the next number; one that
\* extracts has the marked directory and writes in it.
InPlace(p) == At(p, "make") \/ At(p, "move") \/ At(p, "mark")
Homing(p) ==
  LET c == sync[p].conv
      d == sync[p].dir
  IN
  /\ InPlace(p) =>
       \/ d \in Marked(c)
       \/ Marked(c) = {} /\ d \in Dir /\ marker[d] = None
       \/ Marked(c) = {} /\ d \notin Dir /\ d \in NextNumber /\ At(p, "make")
  /\ At(p, "extract") \/ At(p, "write") => d \in Marked(c)
  /\ At(p, "write") /\ sync[p].target[1] = "data" => sync[p].target[2] = d

\* A marker is on one directory; what a conversation wrote is in the directory
\* it marked, or in the one it is about to mark.
OneMarker == \A d, e \in Dir : marker[d] = marker[e] /\ marker[d] # None => d = e
Brings(p, c, d) == InPlace(p) /\ sync[p].conv = c /\ sync[p].dir = d
Owned ==
  \A d \in Number : \A c \in wrote[d] :
    d \in Dir /\ (marker[d] = c \/ (marker[d] = None /\ \E p \in Proc : Brings(p, c, d)))
Home == OneMarker /\ Owned /\ \A p \in Proc : Homing(p)

\* The numbers in use are the first ones, and are no more than the marked
\* conversations, the crashes and the sync under way account for.
Homed == {c \in Conv : Marked(c) # {}}
Unmarked(p) == InPlace(p) /\ sync[p].dir \in Dir /\ Marked(sync[p].conv) = {}
Counted ==
  \E k \in Nat :
    /\ Dir = 1 .. k
    /\ \/ k <= Cardinality(Homed) + crashes
       \/ k <= Cardinality(Homed) + crashes + 1 /\ \E p \in Proc : Unmarked(p)

\* The conversations that have a directory are no more than there are.
LEMMA HomedCount ==
  ASSUME Room
  PROVE  /\ Cardinality(Homed) \in Nat /\ Cardinality(Conv) \in Nat
         /\ Cardinality(Homed) <= Cardinality(Conv)
         /\ \A c \in Conv \ Homed : /\ Cardinality(Homed \cup {c}) = Cardinality(Homed) + 1
                                    /\ Cardinality(Homed) + 1 <= Cardinality(Conv)
<1>1. Homed \in SUBSET Conv
  BY DEF Homed
<1>2. IsFiniteSet(Homed) /\ Cardinality(Homed) <= Cardinality(Conv)
  BY <1>1, FS_Subset DEF Room
<1>3. Cardinality(Homed) \in Nat /\ Cardinality(Conv) \in Nat
  BY <1>2, FS_CardinalityType DEF Room
<1>4. ASSUME NEW c \in Conv \ Homed
      PROVE  /\ Cardinality(Homed \cup {c}) = Cardinality(Homed) + 1
             /\ Cardinality(Homed) + 1 <= Cardinality(Conv)
  <2>1. Cardinality(Homed \cup {c}) = Cardinality(Homed) + 1
    BY <1>2, FS_AddElement
  <2>2. Homed \cup {c} \in SUBSET Conv
    BY <1>1
  <2>3. Cardinality(Homed \cup {c}) <= Cardinality(Conv)
    BY <2>2, FS_Subset DEF Room
  <2> QED BY <2>1, <2>3
<1> QED BY <1>2, <1>3, <1>4

\* The number a conversation without a directory gets is a new one.
LEMMA NextIsFree ==
  ASSUME Room, TypeOK, Counted, NEW c \in Conv, Marked(c) = {}, \A p \in Proc : ~Unmarked(p)
  PROVE  \E k \in Nat : /\ Dir = 1 .. k /\ k + 1 <= LastNumber
                        /\ k <= Cardinality(Homed) + crashes
                        /\ NextNumber = {k + 1}
<1>1. PICK k \in Nat : Dir = 1 .. k /\ k <= Cardinality(Homed) + crashes
  BY DEF Counted
<1>2. Cardinality(Homed) + 1 <= Cardinality(Conv)
      /\ Cardinality(Homed) \in Nat /\ Cardinality(Conv) \in Nat
  <2>1. c \in Conv \ Homed
    BY DEF Homed
  <2> QED BY <2>1, HomedCount
<1>3. k + 1 <= LastNumber
  <2> DEFINE homed == Cardinality(Homed)
             talks == Cardinality(Conv)
  <2>1. crashes \in Nat /\ crashes <= MaxCrashes /\ MaxCrashes \in Nat /\ LastNumber \in Nat
    BY ArchiveAssumption DEF TypeOK
  <2>2. talks + MaxCrashes <= LastNumber
    BY DEF Room
  <2>3. homed \in Nat /\ talks \in Nat /\ homed + 1 <= talks /\ k <= homed + crashes
    BY <1>1, <1>2
  <2> HIDE DEF homed, talks
  <2> QED BY <2>1, <2>2, <2>3
<1>4. ASSUME NEW n \in NextNumber PROVE n = k + 1
  <2>1. n \in Number /\ (n = 1 \/ n - 1 \in 1 .. k) /\ \A d \in 1 .. k : d <= LastNumber => d < n
    BY <1>1 DEF NextNumber
  <2>2. n \in Nat /\ n <= k + 1
    BY <1>1, <2>1, ArchiveAssumption DEF Number
  <2>3. n > k
    <3>1. CASE k = 0
      BY <2>1, <3>1, ArchiveAssumption DEF Number
    <3>2. CASE k # 0
      <4>1. k \in 1 .. k /\ k <= LastNumber
        BY <1>1, <1>3, <3>2, ArchiveAssumption
      <4> QED BY <2>1, <4>1
    <3> QED BY <3>1, <3>2
  <2> QED BY <1>1, <2>2, <2>3
<1>5. k + 1 \in NextNumber
  <2>1. k + 1 \in Number
    BY <1>1, <1>3, ArchiveAssumption DEF Number
  <2>2. k + 1 = 1 \/ (k + 1) - 1 \in Dir
    BY <1>1
  <2>3. \A d \in Dir : d < k + 1
    BY <1>1
  <2> QED BY <2>1, <2>2, <2>3 DEF NextNumber
<1> QED BY <1>1, <1>3, <1>4, <1>5

\* Before a step of the only sync under way no other has a directory.
LEMMA NoOther ==
  ASSUME Serial, NEW p \in Proc, ~At(p, "idle")
  PROVE  \A q \in Proc : q # p => /\ ~InPlace(q) /\ ~Unmarked(q) /\ At(q, "idle")
                                  /\ \A c, d : ~Brings(q, c, d)
BY DEF Serial, OneAtATime, At, InPlace, Unmarked, Brings

LEMMA OnlyHome ==
  ASSUME Serial, NEW p \in Proc, ~At(p, "idle"),
         \A q \in Proc : q # p => sync'[q] = sync[q],
         OneMarker', Owned', Homing(p)'
  PROVE  Home'
<1>1. \A q \in Proc : q # p => sync'[q].step = "idle"
  BY DEF Serial, OneAtATime, At
<1> QED BY <1>1 DEF Home, Homing, InPlace, At

LEMMA LocateHome ==
  ASSUME Room, TypeOK, Shape, Serial, Home, Counted, NEW p \in Proc, Locate(p)
  PROVE  Home' /\ Counted'
<1> DEFINE c == sync[p].conv
<1>1. c \in Conv /\ At(p, "locate") /\ ~At(p, "idle") /\ c # None
  BY ArchiveAssumption DEF Locate, Shape, Underway, At
<1>2. PICK d \in ArchiveDir(c) :
        /\ sync' = [sync EXCEPT ![p].step = "make", ![p].dir = d]
        /\ IF In("legacy", c) # {} /\ Marked(c) = {} /\ d \notin Dir
           THEN /\ Renamed(In("legacy", c), "top", d)
                /\ marker' = [e \in Dir \cup {d} |-> IF e = d THEN None ELSE marker[e]]
                /\ wrote' = [wrote EXCEPT ![d] = @ \cup {c}]
           ELSE UNCHANGED <<marker, files, wrote>>
  BY DEF Locate
<1>3. d \in Number /\ crashes' = crashes
  BY <1>1, <1>2, DirIsNumber DEF Locate
<1>4. /\ sync'[p].step = "make" /\ sync'[p].dir = d /\ sync'[p].conv = c
      /\ \A q \in Proc : q # p => sync'[q] = sync[q]
  BY <1>2 DEF TypeOK, Sync
<1>5. ~InPlace(p) /\ ~Unmarked(p)
  BY <1>1 DEF InPlace, Unmarked, At
<1>6. \A q \in Proc : ~InPlace(q) /\ ~Unmarked(q) /\ \A x, e : ~Brings(q, x, e)
  BY <1>1, <1>5, NoOther DEF Brings
<1>7. \A e \in Number : \A x \in wrote[e] : e \in Dir /\ marker[e] = x
  BY <1>6 DEF Home, Owned
<1>8. CASE Marked(c) # {}
  <2>1. d \in Marked(c) /\ UNCHANGED <<marker, wrote>>
    BY <1>2, <1>8 DEF ArchiveDir
  <2>2. OneMarker' /\ Owned'
    BY <1>7, <2>1 DEF Home, OneMarker, Owned, Dir
  <2>3. Homing(p)'
    BY <1>4, <2>1 DEF Homing, InPlace, At, Marked, Dir
  <2>4. Counted'
    BY <1>3, <1>6, <2>1 DEF Counted, Homed, Marked, Dir
  <2> QED BY <1>1, <1>4, <2>2, <2>3, <2>4, OnlyHome
<1>9. CASE Marked(c) = {}
  <2>1. PICK k \in Nat : /\ Dir = 1 .. k /\ k + 1 <= LastNumber
                         /\ k <= Cardinality(Homed) + crashes /\ NextNumber = {k + 1}
    BY <1>1, <1>6, <1>9, NextIsFree
  <2>2. d = k + 1 /\ d \notin Dir /\ d \in NextNumber
    BY <1>2, <1>9, <2>1 DEF ArchiveDir
  <2>3. wrote[d] = {}
    BY <1>3, <1>7, <2>2
  <2>4. CASE In("legacy", c) # {}
    <3>1. /\ marker' = [e \in Dir \cup {d} |-> IF e = d THEN None ELSE marker[e]]
          /\ wrote' = [wrote EXCEPT ![d] = @ \cup {c}]
      BY <1>2, <1>9, <2>2, <2>4
    <3>2. Dir' = Dir \cup {d} /\ marker'[d] = None /\ \A e \in Dir : marker'[e] = marker[e]
      BY <2>2, <3>1 DEF Dir
    <3>3. OneMarker'
      BY <3>2 DEF Home, OneMarker
    <3>4. \A x \in Conv : Marked(x)' = Marked(x)
      BY <3>2, ArchiveAssumption DEF Marked
    <3>5. Owned'
      <4>1. wrote'[d] = {c} /\ \A e \in Number : e # d => wrote'[e] = wrote[e]
        BY <1>3, <2>3, <3>1 DEF TypeOK
      <4> SUFFICES ASSUME NEW e \in Number, NEW x \in wrote'[e]
                   PROVE  e \in Dir' /\ (marker'[e] = x \/ (marker'[e] = None /\ \E q \in Proc : Brings(q, x, e)'))
        BY DEF Owned
      <4>2. CASE e = d
        <5>1. x = c /\ d \in Dir' /\ marker'[d] = None
          BY <3>2, <4>1, <4>2
        <5>2. Brings(p, x, e)'
          BY <1>4, <4>2, <5>1 DEF Brings, InPlace, At
        <5> QED BY <4>2, <5>1, <5>2
      <4>3. CASE e # d
        BY <1>7, <3>2, <4>1, <4>3
      <4> QED BY <4>2, <4>3
    <3>6. Homing(p)'
      BY <1>1, <1>4, <1>9, <3>2, <3>4 DEF Homing, InPlace, At
    <3>7. Counted'
      <4>1. Dir' = 1 .. k + 1
        BY <2>1, <2>2, <3>2
      <4>2. Homed' = Homed
        BY <3>4 DEF Homed
      <4>3. Unmarked(p)'
        BY <1>1, <1>4, <1>9, <3>2, <3>4 DEF Unmarked, InPlace, At
      <4>4. k + 1 <= Cardinality(Homed) + crashes + 1
        <5>1. Cardinality(Homed) \in Nat /\ crashes \in Nat
          BY HomedCount DEF TypeOK
        <5> QED BY <2>1, <5>1
      <4> QED BY <1>3, <2>1, <4>1, <4>2, <4>3, <4>4 DEF Counted
    <3> QED BY <1>1, <1>4, <3>3, <3>5, <3>6, <3>7, OnlyHome
  <2>5. CASE In("legacy", c) = {}
    <3>1. UNCHANGED <<marker, wrote>>
      BY <1>2, <2>5
    <3>2. OneMarker' /\ Owned'
      BY <1>7, <3>1 DEF Home, OneMarker, Owned, Dir
    <3>3. Homing(p)'
      BY <1>4, <1>9, <2>2, <3>1 DEF Homing, InPlace, At, Marked, Dir, NextNumber
    <3>4. Counted'
      BY <1>3, <1>6, <3>1 DEF Counted, Homed, Marked, Dir
    <3> QED BY <1>1, <1>4, <3>2, <3>3, <3>4, OnlyHome
  <2> QED BY <2>4, <2>5
<1> QED BY <1>8, <1>9

LEMMA MakeDirHome ==
  ASSUME Room, TypeOK, Shape, Serial, Home, Counted, NEW p \in Proc, MakeDir(p)
  PROVE  Home' /\ Counted'
<1> DEFINE c == sync[p].conv
           d == sync[p].dir
<1>1. c \in Conv /\ At(p, "make") /\ ~At(p, "idle") /\ c # None /\ d \in Number /\ Homing(p)
  BY ArchiveAssumption DEF MakeDir, Shape, Underway, HasDir, At, Home
<1>2. PICK s \in {"mark", "move"} : Step(p, s)
  BY DEF MakeDir
<1>3. /\ marker' = [e \in Dir \cup {d} |-> IF e \in Dir THEN marker[e] ELSE None]
      /\ UNCHANGED <<wrote, crashes>>
  BY DEF MakeDir
<1>4. /\ sync'[p].step = s /\ sync'[p].conv = c /\ sync'[p].dir = d
      /\ \A q \in Proc : q # p => sync'[q] = sync[q]
  BY <1>2, Stepped DEF Steps
<1>5. /\ Dir' = Dir \cup {d} /\ \A e \in Dir : marker'[e] = marker[e]
      /\ d \notin Dir => marker'[d] = None
  BY <1>3 DEF Dir
<1>6. \A x \in Conv : Marked(x)' = Marked(x)
  BY <1>5, ArchiveAssumption DEF Marked
<1>7. OneMarker'
  BY <1>5 DEF Home, OneMarker
<1>8. Owned'
  <2>1. \A e \in Number : \A x \in wrote[e] :
          e \in Dir /\ (marker[e] = x \/ (marker[e] = None /\ Brings(p, x, e)))
    BY <1>1, NoOther DEF Home, Owned
  <2>2. \A x, e : Brings(p, x, e) => Brings(p, x, e)'
    BY <1>4 DEF Brings, InPlace, At
  <2> QED BY <1>3, <1>5, <2>1, <2>2 DEF Owned
<1>9. InPlace(p)' /\ ~At(p, "write")' /\ ~At(p, "extract")' /\ InPlace(p)
  BY <1>1, <1>4 DEF InPlace, At
<1>10. Homing(p)'
  <2>1. CASE d \in Marked(c)
    BY <1>1, <1>4, <1>6, <1>9, <2>1 DEF Homing
  <2>2. CASE Marked(c) = {} /\ d \in Dir /\ marker[d] = None
    BY <1>1, <1>4, <1>5, <1>6, <1>9, <2>2 DEF Homing
  <2>3. CASE Marked(c) = {} /\ d \notin Dir
    BY <1>1, <1>4, <1>5, <1>6, <1>9, <2>3 DEF Homing
  <2> QED BY <1>1, <1>9, <2>1, <2>2, <2>3 DEF Homing
<1>11. Counted'
  <2>1. Homed' = Homed
    BY <1>6 DEF Homed
  <2>2. CASE d \in Dir
    <3>1. Dir' = Dir
      BY <1>5, <2>2
    <3>2. \A q \in Proc : Unmarked(q) => Unmarked(p)'
      BY <1>1, <1>4, <1>6, <1>9, <3>1, NoOther DEF Unmarked
    <3> QED BY <1>3, <2>1, <3>1, <3>2 DEF Counted
  <2>3. CASE d \notin Dir
    <3>1. Marked(c) = {} /\ d \in NextNumber
      BY <1>1, <1>9, <2>3 DEF Homing, Marked
    <3>2. \A q \in Proc : ~Unmarked(q)
      BY <1>1, <2>3, NoOther DEF Unmarked
    <3>3. PICK k \in Nat : /\ Dir = 1 .. k /\ k <= Cardinality(Homed) + crashes
                           /\ NextNumber = {k + 1}
      BY <1>1, <3>1, <3>2, NextIsFree
    <3>4. Dir' = 1 .. k + 1
      BY <1>5, <3>1, <3>3
    <3>5. Unmarked(p)'
      BY <1>1, <1>4, <1>5, <1>6, <1>9, <3>1 DEF Unmarked
    <3>6. k + 1 <= Cardinality(Homed) + crashes + 1
      <4>1. Cardinality(Homed) \in Nat /\ crashes \in Nat
        BY HomedCount DEF TypeOK
      <4> QED BY <3>3, <4>1
    <3> QED BY <1>3, <2>1, <3>3, <3>4, <3>5, <3>6 DEF Counted
  <2> QED BY <2>2, <2>3
<1> QED BY <1>1, <1>4, <1>7, <1>8, <1>10, <1>11, OnlyHome

\* A step that changes neither the markers nor what was written.
LEMMA SameHome ==
  ASSUME Serial, Home, Counted, NEW p \in Proc, ~At(p, "idle"),
         \A q \in Proc : q # p => sync'[q] = sync[q],
         UNCHANGED <<marker, wrote, crashes>>,
         \A c, d : Brings(p, c, d) => Brings(p, c, d)', Homing(p)'
  PROVE  Home' /\ Counted'
<1>1. OneMarker'
  BY DEF Home, OneMarker, Dir
<1>2. Owned'
  <2>1. \A e \in Number : \A x \in wrote[e] :
          e \in Dir /\ (marker[e] = x \/ (marker[e] = None /\ Brings(p, x, e)))
    BY NoOther DEF Home, Owned
  <2> QED BY <2>1 DEF Owned, Dir
<1>3. \A q \in Proc : Unmarked(q) => Unmarked(p)'
  <2>1. Unmarked(p) => Unmarked(p)'
    <3> SUFFICES ASSUME Unmarked(p) PROVE Unmarked(p)'
      OBVIOUS
    <3>1. PICK c, d : Brings(p, c, d)
      BY DEF Unmarked, Brings
    <3>2. Brings(p, c, d)'
      BY <3>1
    <3> QED BY <3>1, <3>2 DEF Unmarked, Brings, Marked, Dir
  <2> QED BY <2>1, NoOther
<1>4. Counted'
  BY <1>3 DEF Counted, Homed, Marked, Dir
<1> QED BY <1>1, <1>2, <1>4, OnlyHome

LEMMA MoveHome ==
  ASSUME TypeOK, Shape, Serial, Home, Counted, NEW p \in Proc, Move(p)
  PROVE  Home' /\ Counted'
<1>1. /\ At(p, "move") /\ ~At(p, "idle") /\ UNCHANGED <<marker, wrote, crashes>> /\ Homing(p)
  BY DEF Move, At, Home
<1>2. UNCHANGED sync \/ Step(p, "mark")
  BY DEF Move
<1>3. /\ \A q \in Proc : q # p => sync'[q] = sync[q]
      /\ sync'[p].step \in {"move", "mark"} /\ sync'[p].conv = sync[p].conv
      /\ sync'[p].dir = sync[p].dir
  BY <1>1, <1>2, Stepped DEF Steps, At
<1>4. Homing(p)' /\ \A c, d : Brings(p, c, d) => Brings(p, c, d)'
  BY <1>1, <1>3 DEF Homing, Brings, InPlace, At, Marked, Dir
<1> QED BY <1>1, <1>3, <1>4, SameHome

LEMMA MarkHome ==
  ASSUME Room, TypeOK, Shape, Serial, Home, Counted, NEW p \in Proc, Mark(p)
  PROVE  Home' /\ Counted'
<1> DEFINE c == sync[p].conv
           d == sync[p].dir
<1>1. /\ c \in Conv /\ At(p, "mark") /\ ~At(p, "idle") /\ c # None /\ d \in Number /\ d \in Dir
      /\ Homing(p) /\ InPlace(p)
  BY ArchiveAssumption
  DEF Mark, Shape, Underway, HasDir, HasData, At, Home, InPlace, TypeOK
<1>2. marker' = [marker EXCEPT ![d] = c] /\ Step(p, "extract") /\ UNCHANGED <<wrote, crashes>>
  BY DEF Mark
<1>3. /\ sync'[p].step = "extract" /\ sync'[p].conv = c /\ sync'[p].dir = d
      /\ \A q \in Proc : q # p => sync'[q] = sync[q]
  BY <1>2, Stepped DEF Steps
<1>4. Dir' = Dir /\ marker'[d] = c /\ \A e \in Dir : e # d => marker'[e] = marker[e]
  BY <1>1, <1>2 DEF TypeOK, Dir
<1>5. marker[d] = c \/ (marker[d] = None /\ Marked(c) = {})
  BY <1>1 DEF Homing, At, Marked
<1>6. OneMarker'
  <2> SUFFICES ASSUME NEW a \in Dir, NEW e \in Dir, marker'[a] = marker'[e], marker'[a] # None,
                      a # e
               PROVE  FALSE
    BY <1>4 DEF OneMarker
  <2>1. CASE a # d /\ e # d
    BY <1>4, <2>1 DEF Home, OneMarker
  <2>2. CASE a = d \/ e = d
    <3>1. PICK b \in Dir : b # d /\ marker[b] = c
      BY <1>4, <2>2
    <3>2. marker[d] = c
      BY <1>5, <3>1 DEF Marked
    <3> QED BY <1>1, <3>1, <3>2 DEF Home, OneMarker
  <2> QED BY <2>1, <2>2
<1>7. Owned'
  <2> SUFFICES ASSUME NEW e \in Number, NEW x \in wrote[e]
               PROVE  e \in Dir /\ marker'[e] = x
    BY <1>2, <1>4 DEF Owned
  <2>1. e \in Dir /\ (marker[e] = x \/ (marker[e] = None /\ Brings(p, x, e)))
    BY <1>1, NoOther DEF Home, Owned
  <2>2. CASE Brings(p, x, e)
    BY <1>4, <2>1, <2>2 DEF Brings
  <2>3. CASE marker[e] = x
    <3>1. x \in Conv
      BY DEF TypeOK
    <3>2. e = d => x = c
      BY <1>5, <2>3, <3>1, ArchiveAssumption
    <3> QED BY <1>4, <2>1, <2>3, <3>2
  <2> QED BY <2>1, <2>2, <2>3
<1>8. Homing(p)'
  BY <1>1, <1>3, <1>4 DEF Homing, InPlace, At, Marked
<1>9. Counted'
  <2>1. Homed' = Homed \cup {c}
    <3>1. \A x \in Conv : x # c => Marked(x)' = Marked(x)
      BY <1>4, <1>5, ArchiveAssumption DEF Marked
    <3>2. \A x \in Conv : x = c => Marked(x)' # {}
      BY <1>1, <1>4 DEF Marked
    <3>3. \A x \in Conv : x \in Homed' <=> x \in Homed \/ x = c
      BY <3>1, <3>2 DEF Homed
    <3> QED BY <1>1, <3>3 DEF Homed
  <2>2. PICK k \in Nat : /\ Dir = 1 .. k
                         /\ \/ k <= Cardinality(Homed) + crashes
                            \/ k <= Cardinality(Homed) + crashes + 1 /\ \E q \in Proc : Unmarked(q)
    BY DEF Counted
  <2>3. /\ Cardinality(Homed) \in Nat /\ crashes \in Nat
        /\ \A x \in Conv \ Homed : Cardinality(Homed \cup {x}) = Cardinality(Homed) + 1
    <3>1. crashes \in Nat
      BY DEF TypeOK
    <3> QED BY <3>1, HomedCount
  <2>4. CASE c \in Homed
    <3>1. \A q \in Proc : ~Unmarked(q)
      BY <1>1, <2>4, NoOther DEF Unmarked, Homed
    <3>2. Homed \cup {c} = Homed
      BY <2>4
    <3> QED BY <1>2, <1>4, <2>1, <2>2, <3>1, <3>2 DEF Counted
  <2>5. CASE c \notin Homed
    <3>1. k <= Cardinality(Homed \cup {c}) + crashes
      BY <1>1, <2>2, <2>3, <2>5
    <3> QED BY <1>2, <1>4, <2>1, <2>2, <3>1 DEF Counted
  <2> QED BY <2>4, <2>5
<1> QED BY <1>1, <1>3, <1>6, <1>7, <1>8, <1>9, OnlyHome

LEMMA ChooseHome ==
  ASSUME TypeOK, Shape, Serial, Home, Counted, NEW p \in Proc, Choose(p)
  PROVE  Home' /\ Counted'
<1>1. /\ At(p, "extract") /\ ~At(p, "idle") /\ UNCHANGED <<marker, wrote, crashes>> /\ Homing(p)
  BY DEF Choose, Extracting, archive, At, Home
<1>2. PICK f : Chosen(p, f)
  BY ChooseFits
<1>3. /\ \A q \in Proc : q # p => sync'[q] = sync[q]
      /\ sync'[p].step = "write" /\ sync'[p].conv = sync[p].conv /\ sync'[p].dir = sync[p].dir
      /\ sync'[p].target = f
  BY <1>2 DEF Chosen, TypeOK, Sync
<1>4. Homing(p)' /\ \A c, d : ~Brings(p, c, d)
  BY <1>1, <1>2, <1>3 DEF Homing, Brings, InPlace, At, Marked, Dir, Chosen
<1> QED BY <1>1, <1>3, <1>4, SameHome

\* What the sync writes goes into the directory marked for its conversation.
LEMMA WrittenAtHome ==
  ASSUME TypeOK, Serial, Home, Counted, NEW p \in Proc, At(p, "extract") \/ At(p, "write"),
         \A q \in Proc : q # p => sync'[q] = sync[q], sync'[p].step \in {"idle", "extract"},
         sync'[p].step = "extract" => sync'[p].dir = sync[p].dir /\ sync'[p].conv = sync[p].conv,
         UNCHANGED marker, crashes' \in {crashes, crashes + 1},
         \A e \in Number : \A x \in wrote'[e] :
           x \in wrote[e] \/ (x = sync[p].conv /\ e \in Marked(x)),
         Room
  PROVE  Home' /\ Counted'
<1>1. ~At(p, "idle") /\ ~InPlace(p) /\ Homing(p)
  BY DEF At, InPlace, Home
<1>2. \A q \in Proc : ~InPlace(q) /\ ~Unmarked(q) /\ \A x, e : ~Brings(q, x, e)
  BY <1>1, NoOther DEF Unmarked, Brings
<1>3. OneMarker'
  BY DEF Home, OneMarker, Dir
<1>4. Owned'
  BY <1>2 DEF Home, Owned, Marked, Dir
<1>5. Homing(p)'
  BY <1>1 DEF Homing, InPlace, At, Marked, Dir
<1>6. Counted'
  <2>1. PICK k \in Nat : Dir = 1 .. k /\ k <= Cardinality(Homed) + crashes
    BY <1>2 DEF Counted
  <2>2. Cardinality(Homed) \in Nat /\ crashes \in Nat
    BY HomedCount DEF TypeOK
  <2>3. k <= Cardinality(Homed) + crashes'
    BY <2>1, <2>2
  <2> QED BY <2>1, <2>3 DEF Counted, Homed, Marked, Dir
<1> QED BY <1>1, <1>3, <1>4, <1>5, <1>6, OnlyHome

LEMMA TouchesHome ==
  ASSUME TypeOK, Shape, Home, NEW p \in Proc, At(p, "write"), Touches(p, sync[p].target)
  PROVE  \A e \in Number : \A x \in wrote'[e] :
           x \in wrote[e] \/ (x = sync[p].conv /\ e \in Marked(x))
<1>1. /\ sync[p].dir \in Marked(sync[p].conv)
      /\ sync[p].target[1] = "data" => sync[p].target[2] = sync[p].dir
  BY DEF Home, Homing
<1> QED BY <1>1 DEF Touches, TypeOK

LEMMA WriteHome ==
  ASSUME Room, TypeOK, Shape, Serial, Home, Counted, NEW p \in Proc, Write(p)
  PROVE  Home' /\ Counted'
<1>1. /\ At(p, "write") /\ Touches(p, sync[p].target) /\ UNCHANGED <<marker, crashes>>
      /\ sync' = [sync EXCEPT ![p].step = "extract", ![p].listed = Append(@, sync[p].target)]
  BY DEF Write
<1>2. /\ \A q \in Proc : q # p => sync'[q] = sync[q]
      /\ sync'[p].step = "extract" /\ sync'[p].dir = sync[p].dir /\ sync'[p].conv = sync[p].conv
  BY <1>1 DEF TypeOK, Sync
<1> QED BY <1>1, <1>2, TouchesHome, WrittenAtHome

LEMMA TranscriptHome ==
  ASSUME Room, TypeOK, Shape, Serial, Home, Counted, NEW p \in Proc, Transcript(p)
  PROVE  Home' /\ Counted' /\ laid' = laid
<1> DEFINE c == sync[p].conv
<1>1. /\ At(p, "extract") /\ c \in Conv /\ c # None /\ sync[p].dir \in laid
      /\ sync[p].dir \in Marked(c)
  BY ArchiveAssumption
  DEF Transcript, At, Shape, Underway, HasData, Home, Homing
<1>2. PICK d \in ArchiveDir(c) :
        /\ marker' = [e \in Dir \cup {d} |-> IF e \in Dir THEN marker[e] ELSE None]
        /\ laid' = laid \cup {d}
        /\ wrote' = [wrote EXCEPT ![d] = @ \cup {c}]
  BY DEF Transcript
<1>3. d \in Marked(c) /\ d = sync[p].dir
  BY <1>1, <1>2 DEF ArchiveDir, Home, OneMarker, Marked
<1>4. UNCHANGED marker
  BY <1>2, <1>3 DEF Marked, TypeOK, Dir
<1>5. \A e \in Number : \A x \in wrote'[e] : x \in wrote[e] \/ (x = c /\ e \in Marked(x))
  BY <1>2, <1>3 DEF TypeOK
<1>6. /\ \A q \in Proc : q # p => sync'[q] = sync[q]
      /\ sync'[p].step = "idle" /\ crashes' = crashes
  BY DEF Transcript, TypeOK, Idle, Call
<1>7. Home' /\ Counted'
  BY <1>1, <1>4, <1>5, <1>6, WrittenAtHome
<1> QED BY <1>1, <1>2, <1>3, <1>7

\* A sync that dies where it may leaves nothing in a directory without marker.
LEMMA CrashHome ==
  ASSUME Room, "migration" \notin Faults, TypeOK, Shape, Serial, Home, Counted,
         NEW p \in Proc, Crash(p)
  PROVE  Home' /\ Counted'
<1>1. /\ ~At(p, "idle") /\ ~Migrating(p) /\ crashes' = crashes + 1
      /\ sync' = [sync EXCEPT ![p] = Idle] /\ UNCHANGED marker
  BY DEF Crash
<1>2. sync'[p].step = "idle" /\ \A q \in Proc : q # p => sync'[q] = sync[q]
  BY <1>1 DEF TypeOK, Idle, Call
<1>3. CASE At(p, "extract") \/ At(p, "write")
  <2>1. \A e \in Number : \A x \in wrote'[e] :
          x \in wrote[e] \/ (x = sync[p].conv /\ e \in Marked(x))
    <3>1. CASE UNCHANGED wrote
      BY <3>1
    <3>2. CASE At(p, "write") /\ Touches(p, sync[p].target)
      BY <3>2, TouchesHome
    <3> QED BY <3>1, <3>2 DEF Crash
  <2> QED BY <1>1, <1>2, <1>3, <2>1, WrittenAtHome
<1>4. CASE ~At(p, "extract") /\ ~At(p, "write")
  <2>1. UNCHANGED wrote
    BY <1>4 DEF Crash
  <2>2. OneMarker'
    BY <1>1 DEF Home, OneMarker, Dir
  <2>3. \A c, d : Brings(p, c, d) /\ d \in Number /\ c \in wrote[d] => marker[d] # None \/ d \notin Dir
    <3> SUFFICES ASSUME NEW c, NEW d \in Number, Brings(p, c, d), c \in wrote[d],
                        marker[d] = None, d \in Dir
                 PROVE  FALSE
      OBVIOUS
    <3>1. c \in Conv /\ c # None /\ Homing(p)
      BY ArchiveAssumption DEF TypeOK, Home
    <3>2. Marked(c) = {}
      BY <3>1 DEF Brings, Homing, Marked
    <3> QED BY <1>1, <3>2 DEF Brings, InPlace, Migrating
  <2>4. Owned'
    <3>1. \A e \in Number : \A x \in wrote[e] : e \in Dir /\ marker[e] = x
      BY <1>1, <2>3, NoOther DEF Home, Owned
    <3> QED BY <1>1, <2>1, <3>1 DEF Owned, Dir
  <2>5. Homing(p)'
    BY <1>2 DEF Homing, InPlace, At
  <2>6. Counted'
    <3>1. PICK k \in Nat : Dir = 1 .. k /\ k <= Cardinality(Homed) + crashes + 1
      <4>1. Cardinality(Homed) \in Nat /\ crashes \in Nat
        BY HomedCount DEF TypeOK
      <4> QED BY <4>1 DEF Counted
    <3>2. Cardinality(Homed) \in Nat /\ crashes \in Nat
      BY HomedCount DEF TypeOK
    <3>3. k <= Cardinality(Homed) + crashes'
      BY <1>1, <3>1, <3>2
    <3> QED BY <1>1, <3>1, <3>3 DEF Counted, Homed, Marked, Dir
  <2> QED BY <1>1, <1>2, <2>2, <2>4, <2>5, <2>6, OnlyHome
<1> QED BY <1>3, <1>4

\* The steps of the conversation and the user.
LEMMA OutsideHome ==
  ASSUME TypeOK, Home, Counted, UNCHANGED <<marker, wrote, crashes>>,
         UNCHANGED sync \/ (/\ \A p \in Proc : ~InPlace(p)
                            /\ \A p \in Proc : sync'[p].step \in {"idle", "locate"})
  PROVE  Home' /\ Counted'
<1>1. OneMarker'
  BY DEF Home, OneMarker, Dir
<1>2. \A p \in Proc : /\ \A c, d : Brings(p, c, d) => Brings(p, c, d)'
                      /\ Unmarked(p) => Unmarked(p)'
  BY DEF Brings, Unmarked, InPlace, At, Marked, Dir
<1>3. Owned'
  BY <1>2 DEF Home, Owned, Dir
<1>4. \A p \in Proc : Homing(p)'
  BY DEF Home, Homing, InPlace, At, Marked, Dir, NextNumber
<1>5. Counted'
  BY <1>2 DEF Counted, Homed, Marked, Dir
<1> QED BY <1>1, <1>3, <1>4, <1>5 DEF Home

LEMMA InitHome == Init => Home /\ Counted
<1> SUFFICES ASSUME Init PROVE Home /\ Counted
  OBVIOUS
<1>1. PICK c \in Conv, old \in {"none", "legacy", "flat"} :
        LET numbered == IF old = "flat" THEN {1} ELSE {} IN
        /\ marker = [d \in numbered |-> c]
        /\ wrote = [d \in Number |-> IF d \in numbered THEN {c} ELSE {}]
  BY DEF Init
<1>2. \A p \in Proc : sync[p].step = "idle"
  BY DEF Init, Idle, Call
<1>3. OneMarker /\ Owned
  BY <1>1 DEF OneMarker, Owned, Dir
<1>4. \A p \in Proc : Homing(p)
  BY <1>2 DEF Homing, InPlace, At
<1>5. Counted
  <2>1. CASE old = "flat"
    <3>1. Dir = 1 .. 1
      BY <1>1, <2>1 DEF Dir
    <3>2. Homed = {c}
      BY <1>1, <2>1 DEF Homed, Marked, Dir
    <3>3. 1 <= Cardinality(Homed) + crashes
      <4>1. Cardinality({c}) = 1
        BY FS_Singleton
      <4>2. crashes = 0
        BY DEF Init
      <4> QED BY <3>2, <4>1, <4>2
    <3> QED BY <3>1, <3>3 DEF Counted
  <2>2. CASE old # "flat"
    <3>1. Dir = 1 .. 0 /\ Homed = {}
      BY <1>1, <2>2 DEF Dir, Homed, Marked
    <3>2. 0 <= Cardinality(Homed) + crashes
      BY <3>1, FS_EmptySet DEF Init
    <3> QED BY <3>1, <3>2 DEF Counted
  <2> QED BY <2>1, <2>2
<1> QED BY <1>3, <1>4, <1>5 DEF Home

LEMMA NextHome ==
  ASSUME Room, Faults = {}, TypeOK, Shape, Serial, Home, Counted, [Next]_vars
  PROVE  Home' /\ Counted'
<1>1. ASSUME NEW p \in Proc, Work(p) PROVE Home' /\ Counted'
  BY <1>1, LocateHome, MakeDirHome, MoveHome, MarkHome, ChooseHome, WriteHome, TranscriptHome
  DEF Work
<1>2. ASSUME NEW p \in Proc, Crash(p) PROVE Home' /\ Counted'
  BY <1>2, CrashHome
<1>3. ASSUME NEW p \in Proc, NEW c \in Conv, Start(p, c) PROVE Home' /\ Counted'
  <2>1. /\ \A q \in Proc : At(q, "idle") /\ UNCHANGED <<marker, wrote, crashes>>
        /\ sync' = [sync EXCEPT ![p] = Call("locate", c)]
    BY <1>3 DEF Start, Alone, Quiet, archive
  <2>2. \A q \in Proc : sync'[q].step \in {"idle", "locate"} /\ ~InPlace(q)
    BY <2>1 DEF TypeOK, Call, At, InPlace
  <2> QED BY <2>1, <2>2, OutsideHome
<1>4. ASSUME NEW c \in Conv, NEW n \in Name, NEW b \in Body, NEW day, Answer(c, n, b, day)
      PROVE  Home' /\ Counted'
  BY <1>4, OutsideHome DEF Answer, archive
<1>5. ASSUME NEW f \in Editable, Edit(f) PROVE Home' /\ Counted'
  BY <1>5, OutsideHome DEF Edit
<1>6. CASE UNCHANGED vars
  BY <1>6, OutsideHome DEF vars, archive
<1> QED BY <1>1, <1>2, <1>3, <1>4, <1>5, <1>6 DEF Next, Editable

LEMMA AtMostOne ==
  ASSUME NEW S, \A d, e \in S : d = e
  PROVE  Cardinality(S) <= 1
<1>1. CASE S = {}
  BY <1>1, FS_EmptySet
<1>2. CASE S # {}
  <2>1. PICK x : S = {x}
    BY <1>2
  <2> QED BY <2>1, FS_Singleton
<1> QED BY <1>1, <1>2

LEMMA HomeIsOne ==
  ASSUME TypeOK, Serial, Home
  PROVE  OneDirectory
<1>1. \A c \in Conv : c # None
  BY ArchiveAssumption
<1>2. ASSUME NEW d \in Number, NEW c \in wrote[d]
      PROVE  /\ c \in Conv /\ d \in Dir
             /\ \/ marker[d] = c
                \/ marker[d] = None /\ \E p \in Proc : Brings(p, c, d) /\ Marked(c) = {}
  <2>1. c \in Conv
    BY DEF TypeOK
  <2>2. \A p \in Proc : Brings(p, c, d) /\ marker[d] = None => Marked(c) = {}
    BY <1>1, <2>1 DEF Home, Homing, Brings, Marked
  <2> QED BY <2>1, <2>2 DEF Home, Owned
<1>3. \A p, q \in Proc : InPlace(p) /\ InPlace(q) => p = q
  BY DEF Serial, OneAtATime, InPlace, At
<1>4. ASSUME NEW c \in Conv PROVE Cardinality({d \in Number : c \in wrote[d]}) <= 1
  <2>1. ASSUME NEW d \in Number, NEW e \in Number, c \in wrote[d], c \in wrote[e] PROVE d = e
    <3>1. CASE marker[d] = c /\ marker[e] = c
      BY <1>1, <1>2, <2>1, <3>1 DEF Home, OneMarker
    <3>2. CASE marker[d] # c /\ marker[e] # c
      BY <1>2, <1>3, <2>1, <3>2 DEF Brings
    <3>3. CASE marker[d] = c /\ marker[e] # c
      BY <1>2, <2>1, <3>3 DEF Marked
    <3>4. CASE marker[d] # c /\ marker[e] = c
      BY <1>2, <2>1, <3>4 DEF Marked
    <3> QED BY <3>1, <3>2, <3>3, <3>4
  <2> QED BY <2>1, AtMostOne
<1>5. ASSUME NEW d \in Number PROVE Cardinality(wrote[d]) <= 1
  <2>1. ASSUME NEW b \in wrote[d], NEW c \in wrote[d] PROVE b = c
    <3>1. CASE marker[d] # None
      BY <1>2, <2>1, <3>1
    <3>2. CASE marker[d] = None
      <4>1. b # None /\ c # None
        BY <1>1, <1>2, <2>1
      <4> QED BY <1>2, <1>3, <2>1, <3>2, <4>1 DEF Brings
    <3> QED BY <3>1, <3>2
  <2> QED BY <2>1, AtMostOne
<1>6. \A d \in Dir : marker[d] # None => wrote[d] \subseteq {marker[d]}
  BY <1>2 DEF TypeOK
<1> QED BY <1>4, <1>5, <1>6 DEF OneDirectory

\* As long as syncs and edits do not overlap, no process dies while it moves an
\* old archive, and a day has numbers enough, a conversation is archived in
\* one directory and shares it with no other, however many syncs died before
\* they wrote the marker.
THEOREM OneDirectoryEach ==
  ASSUME Faults = {}, Room
  PROVE  Spec => []OneDirectory
<1> DEFINE IInv == TypeOK /\ Shape /\ Serial /\ Home /\ Counted
<1>1. Init => IInv
  BY InitTypes, InitSerial, InitHome
<1>2. IInv /\ [Next]_vars => IInv'
  BY NextTypes, NextSerial, NextHome
<1>3. IInv => OneDirectory
  BY HomeIsOne
<1> QED BY <1>1, <1>2, <1>3, PTL DEF Spec

(***************************************************************************)
(* Every file of an old archive is moved                                   *)
(***************************************************************************)
\* A step that lays out no directory, puts nothing in the old place of one
\* that is laid out, and stops no sync that moves, leaves none behind.
LEMMA StillMigrated ==
  ASSUME Migrated, laid' = laid,
         \A f \in DOMAIN files' : f[1] = "top" /\ f[2] \in laid => f \in DOMAIN files,
         \A p \in Proc : At(p, "move") => sync'[p].step = "move" /\ sync'[p].dir = sync[p].dir
  PROVE  Migrated'
<1> SUFFICES ASSUME NEW d \in laid, In("top", d)' # {}
             PROVE  \E p \in Proc : sync'[p].step = "move" /\ sync'[p].dir = d
  BY DEF Migrated, At
<1>1. PICK f \in DOMAIN files' : f[1] = "top" /\ f[2] = d
  BY DEF In
<1>2. In("top", d) # {}
  BY <1>1 DEF In
<1> QED BY <1>2 DEF Migrated, At

LEMMA WorkMigrated ==
  ASSUME Room, Faults = {}, TypeOK, Shape, Serial, Home, Counted, Migrated, NEW p \in Proc, Work(p)
  PROVE  Migrated'
<1> DEFINE c == sync[p].conv
           d == sync[p].dir
<1>1. ~At(p, "idle") /\ c \in Conv
  BY DEF Work, Locate, MakeDir, Move, Mark, Choose, Extracting, Write, Transcript, At, Shape,
         Underway
<1>2. \A q \in Proc : q # p => ~At(q, "move")
  BY <1>1, NoOther DEF InPlace
<1>3. CASE Locate(p)
  <2>1. At(p, "locate") /\ UNCHANGED laid
    BY <1>3 DEF Locate
  <2>2. \A q \in Proc : ~At(q, "move")
    BY <1>2, <2>1 DEF At
  <2>3. PICK e \in ArchiveDir(c) :
          IF In("legacy", c) # {} /\ Marked(c) = {} /\ e \notin Dir
          THEN Renamed(In("legacy", c), "top", e) ELSE UNCHANGED files
    BY <1>3 DEF Locate
  <2>4. CASE UNCHANGED files
    BY <2>1, <2>2, <2>4, StillMigrated
  <2>5. CASE ~UNCHANGED files
    <3>1. Renamed(In("legacy", c), "top", e) /\ e \notin Dir /\ e \in Number
      BY <1>1, <2>3, <2>5, DirIsNumber
    <3>2. Relocated(In("legacy", c), "top", e)
      BY <3>1, RenamedType DEF In, Place
    <3>3. \A f \in DOMAIN files' : f[1] = "top" /\ f[2] \in laid => f \in DOMAIN files
      BY <3>1, <3>2 DEF Relocated, TypeOK
    <3> QED BY <2>1, <2>2, <3>3, StillMigrated
  <2> QED BY <2>4, <2>5
<1>4. CASE MakeDir(p)
  <2>1. /\ laid' = laid \cup {d} /\ UNCHANGED files
        /\ Step(p, IF d \in laid THEN "mark" ELSE "move") /\ At(p, "make")
    BY <1>4 DEF MakeDir
  <2>2. \A q \in Proc : ~At(q, "move")
    BY <1>2, <2>1 DEF At
  <2>3. \A e \in laid : In("top", e) = {}
    BY <2>2 DEF Migrated
  <2>4. d \notin laid => sync'[p].step = "move" /\ sync'[p].dir = d
    BY <2>1, Stepped DEF Steps
  <2> QED BY <2>1, <2>3, <2>4 DEF Migrated, In, At
<1>5. CASE Move(p)
  <2>1. d \in Number /\ laid' = laid /\ At(p, "move")
    BY <1>5 DEF Move, Shape, HasDir, At
  <2>2. CASE In("top", d) = {}
    <3>1. UNCHANGED files
      BY <1>5, <2>2 DEF Move
    <3>2. \A e \in laid : In("top", e) = {}
      BY <1>2, <2>2 DEF Migrated
    <3> QED BY <2>1, <3>1, <3>2 DEF Migrated, In
  <2>3. CASE In("top", d) # {}
    <3>1. UNCHANGED sync
      BY <1>5, <2>3 DEF Move
    <3>2. PICK f \in In("top", d) : Renamed({f}, "data", d)
      BY <1>5, <2>3 DEF Move
    <3>3. Relocated({f}, "data", d)
      BY <2>1, <3>2, RenamedType DEF In, Place
    <3>4. \A g \in DOMAIN files' : g[1] = "top" => g \in DOMAIN files
      BY <3>3 DEF Relocated
    <3> QED BY <2>1, <3>1, <3>4, StillMigrated DEF At
  <2> QED BY <2>2, <2>3
<1>6. CASE Mark(p) \/ Choose(p) \/ Write(p) \/ Transcript(p)
  <2>1. ~At(p, "move")
    BY <1>6 DEF Mark, Choose, Extracting, Write, Transcript, At
  <2>2. laid' = laid
    BY <1>6, TranscriptHome DEF Mark, Choose, Write, archive
  <2>3. \A f \in DOMAIN files' : f[1] = "top" => f \in DOMAIN files
    <3>1. CASE Mark(p) \/ Choose(p) \/ Transcript(p)
      BY <3>1 DEF Mark, Choose, Transcript, archive
    <3>2. CASE Write(p)
      <4>1. At(p, "write") /\ DOMAIN files' = DOMAIN files \cup {sync[p].target}
        BY <3>2 DEF Write, Put
      <4>2. sync[p].target[1] \in {"here", "data"}
        BY <4>1 DEF Shape, HasTarget
      <4> QED BY <4>1, <4>2
    <3> QED BY <1>6, <3>1, <3>2
  <2>4. \A q \in Proc : ~At(q, "move")
    BY <1>2, <2>1
  <2> QED BY <2>2, <2>3, <2>4, StillMigrated
<1> QED BY <1>3, <1>4, <1>5, <1>6 DEF Work

LEMMA NextMigrated ==
  ASSUME Room, Faults = {}, TypeOK, Shape, Serial, Home, Counted, Migrated, [Next]_vars
  PROVE  Migrated'
<1>1. ASSUME NEW p \in Proc, Crash(p) PROVE Migrated'
  <2>1. ~At(p, "move") /\ ~At(p, "idle") /\ laid' = laid
    BY <1>1 DEF Crash, Migrating
  <2>2. \A q \in Proc : ~At(q, "move")
    BY <2>1, NoOther DEF InPlace
  <2>3. \A f \in DOMAIN files' : f[1] = "top" => f \in DOMAIN files
    <3>1. CASE UNCHANGED files
      BY <3>1
    <3>2. CASE At(p, "write") /\ Put(sync[p].target, <<Torn, 0>>)
      BY <3>2 DEF Shape, HasTarget, Put
    <3> QED BY <1>1, <3>1, <3>2 DEF Crash
  <2> QED BY <2>1, <2>2, <2>3, StillMigrated
<1>2. ASSUME NEW p \in Proc, NEW c \in Conv, Start(p, c) PROVE Migrated'
  <2>1. \A q \in Proc : ~At(q, "move")
    BY <1>2 DEF Start, Alone, Quiet, At
  <2> QED BY <1>2, <2>1, StillMigrated DEF Start, archive
<1>3. ASSUME NEW c \in Conv, NEW n \in Name, NEW b \in Body, NEW day, Answer(c, n, b, day)
      PROVE  Migrated'
  BY <1>3, StillMigrated DEF Answer, archive, At
<1>4. ASSUME NEW f \in Editable, Edit(f) PROVE Migrated'
  <2>1. \A g \in DOMAIN files' : g[1] = "top" => g \in DOMAIN files
    BY <1>4 DEF Edit, Put, Editable, Here
  <2> QED BY <1>4, <2>1, StillMigrated DEF Edit, At
<1>5. CASE UNCHANGED vars
  BY <1>5, StillMigrated DEF vars, archive, At
<1> QED BY <1>1, <1>2, <1>3, <1>4, <1>5, WorkMigrated DEF Next, Editable

\* Under the same conditions no file of an old archive stays outside the data
\* directory once there is one, except while the sync that made it moves them.
THEOREM OldArchivesMove ==
  ASSUME Faults = {}, Room
  PROVE  Spec => []Migrated
<1> DEFINE IInv == TypeOK /\ Shape /\ Serial /\ Home /\ Counted /\ Migrated
<1>1. Init => IInv
  <2>1. Init => Migrated
    BY DEF Init, Migrated
  <2> QED BY <2>1, InitTypes, InitSerial, InitHome
<1>2. IInv /\ [Next]_vars => IInv'
  BY NextTypes, NextSerial, NextHome, NextMigrated
<1> QED BY <1>1, <1>2, PTL DEF Spec
=============================================================================

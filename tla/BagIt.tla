-------------------------------- MODULE BagIt --------------------------------
(***************************************************************************)
(* BagIt metadata of an archive: every sync of the conversation, and the   *)
(* command bagit-update, writes the checksums of its files; bagit-check    *)
(* compares them.  A process may die between the writes, the session and   *)
(* the command may run at once, and the user edits and removes files.  The *)
(* package bagit is optional, and may be installed at one turn and not at  *)
(* the next.                                                               *)
(***************************************************************************)
EXTENDS Integers

CONSTANTS
  MaxTurns,   \* bound: syncs of the conversation
  MaxEdits,   \* bound: changes the user makes; one needs one copy
  MaxDeaths   \* bound: processes that die

ASSUME BagItAssumption == {MaxTurns, MaxDeaths} \subseteq Nat /\ MaxEdits \in {0, 1}

Artifacts == {"transcript", "block", "copy"}
Absent == 0           \* content of a file: of the turn it was written at, or
User == -1            \* of the user
Contents == [Artifacts -> {Absent, User} \cup 1 .. MaxTurns]
NoBag == [f \in Artifacts |-> -2]
Counted == Contents \cup {NoBag}
NoSeal == <<NoBag, NoBag>>

VARIABLES
  payload,  \* the files in data/
  bag,      \* [txt, listed, oxum, seal]: bagit.txt is there, and what the manifests, the
            \* count in bag-info.txt and the tag manifest were made from
  work,      \* what the session and the command do: [pc, counted, mixed]
  last,     \* history: the files when the metadata were last written to the end by one
            \* process alone, NoBag if the program wrote to the archive since
  turns, edits, deaths

bagVars == <<payload, bag, work, last, turns, edits, deaths>>
counts == <<turns, edits, deaths>>

Workers == {"session", "command"}
Steps == {"idle", "extract", "transcript", "open", "list", "name", "describe", "relist", "recount", "seal"}

BagItTypeOK ==
  /\ payload \in Contents /\ last \in Counted
  /\ bag.txt \in BOOLEAN /\ {bag.listed, bag.oxum} \subseteq Counted
  /\ \A w \in Workers : work[w].pc \in Steps /\ work[w].counted \in Counted

-----------------------------------------------------------------------------
\* bagit.Bag.validate: the counts, the files listed and their checksums, and
\* the checksums of the two tag files.
Status ==
  IF ~bag.txt THEN "missing"
  ELSE IF /\ bag.listed = payload
          /\ bag.oxum \in {NoBag, payload}
          /\ bag.seal \in {NoSeal, <<bag.listed, bag.oxum>>}
       THEN "valid" ELSE "changed"

Idle == [pc |-> "idle", counted |-> NoBag, mixed |-> FALSE]
Other(w) == CHOOSE v \in Workers : v # w
IsAt(w, pc) == work[w].pc = pc
Goes(w, pc, counted) == work' = [work EXCEPT ![w].pc = pc, ![w].counted = counted]
MoveTo(w, pc) == Goes(w, pc, NoBag)

\* A worker comes to the archive, where the other may be at work.
Enter(w, pc) ==
  LET both == ~IsAt(Other(w), "idle") IN
  /\ IsAt(w, "idle") /\ last' = NoBag
  /\ work' = [work EXCEPT ![w] = [Idle EXCEPT !.pc = pc, !.mixed = both], ![Other(w)].mixed = both]

-----------------------------------------------------------------------------
(* A turn: the block is written again unless it is there, next to one the  *)
(* user changed.                                                           *)
Sync == Enter("session", "extract") /\ turns < MaxTurns /\ turns' = turns + 1
        /\ UNCHANGED <<payload, bag, edits, deaths>>
Extract ==
  /\ IsAt("session", "extract") /\ MoveTo("session", "transcript")
  /\ payload' = IF payload["block"] # User THEN [payload EXCEPT !["block"] = 1]
                ELSE [payload EXCEPT !["copy"] = 1]
  /\ UNCHANGED <<bag, last, counts>>

\* Where the package cannot be imported, the sync ends here.
Transcript(installed) ==
  /\ IsAt("session", "transcript")
  /\ payload' = [payload EXCEPT !["transcript"] = turns]
  /\ IF installed THEN MoveTo("session", "open") ELSE work' = [work EXCEPT !["session"] = Idle]
  /\ UNCHANGED <<bag, last, counts>>

\* /update-bagit comes to the archive, one of those with a marker.
Update == Enter("command", "open") /\ turns > 0 /\ UNCHANGED <<payload, bag, counts>>

-----------------------------------------------------------------------------
(* sync_bagit_metadata; what is no bag yet becomes one first.              *)

OpenBag(w) ==
  /\ IsAt(w, "open") /\ MoveTo(w, IF bag.txt THEN "relist" ELSE "list")
  /\ UNCHANGED <<payload, bag, last, counts>>

\* initialize_bagit_archive: the manifests, bagit.txt, bag-info.txt.
List(w) ==
  /\ IsAt(w, "list") /\ Goes(w, "name", payload) /\ bag' = [bag EXCEPT !.listed = payload]
  /\ UNCHANGED <<payload, last, counts>>
NameBag(w) ==
  /\ IsAt(w, "name") /\ Goes(w, "describe", work[w].counted) /\ bag' = [bag EXCEPT !.txt = TRUE]
  /\ UNCHANGED <<payload, last, counts>>
Describe(w) ==
  /\ IsAt(w, "describe") /\ MoveTo(w, "relist") /\ bag' = [bag EXCEPT !.oxum = work[w].counted]
  /\ UNCHANGED <<payload, last, counts>>

\* Changed: bag.save() without the manifests.
SaveTags(w) ==
  /\ IsAt(w, "relist") /\ Goes(w, "recount", bag.oxum) /\ last' = payload
  /\ UNCHANGED <<payload, bag, counts>>

\* bag.save(manifests=True): the manifests, bag-info.txt, the tag manifest.
Relist(w) ==
  /\ IsAt(w, "relist") /\ Goes(w, "recount", payload) /\ last' = payload
  /\ bag' = [bag EXCEPT !.listed = payload]
  /\ UNCHANGED <<payload, counts>>
Recount(w) ==
  /\ IsAt(w, "recount") /\ MoveTo(w, "seal") /\ bag' = [bag EXCEPT !.oxum = work[w].counted]
  /\ UNCHANGED <<payload, last, counts>>
Seal(w) ==
  /\ IsAt(w, "seal") /\ bag' = [bag EXCEPT !.seal = <<bag.listed, bag.oxum>>]
  /\ last' = IF work[w].mixed THEN NoBag ELSE last
  /\ work' = [work EXCEPT ![w] = Idle]
  /\ UNCHANGED <<payload, counts>>

-----------------------------------------------------------------------------
\* The user edits a file or removes it; a process dies.
EditFile(f, x) ==
  /\ edits < MaxEdits /\ edits' = edits + 1
  /\ payload[f] # Absent /\ payload' = [payload EXCEPT ![f] = x]
  /\ UNCHANGED <<bag, work, last, turns, deaths>>
Die(w) ==
  /\ ~IsAt(w, "idle") /\ deaths < MaxDeaths /\ deaths' = deaths + 1
  /\ work' = [work EXCEPT ![w] = Idle] /\ last' = NoBag
  /\ UNCHANGED <<payload, bag, turns, edits>>

BagItInit ==
  /\ payload = [f \in Artifacts |-> Absent] /\ last = NoBag
  /\ bag = [txt |-> FALSE, listed |-> NoBag, oxum |-> NoBag, seal |-> NoSeal]
  /\ work = [w \in Workers |-> Idle] /\ turns = 0 /\ edits = 0 /\ deaths = 0

BagItNext ==
  \/ Sync \/ Extract \/ (\E installed \in BOOLEAN : Transcript(installed)) \/ Update
  \/ \E f \in Artifacts, x \in {Absent, User} : EditFile(f, x)
  \/ \E w \in Workers :
       \/ OpenBag(w) \/ List(w) \/ NameBag(w) \/ Describe(w) \/ Relist(w) \/ Recount(w) \/ Seal(w)
       \/ Die(w)

-----------------------------------------------------------------------------
\* Once the metadata of an archive have been written to the end, by one
\* process alone and whatever died before, the check tells it valid exactly as
\* long as no file is edited, removed or added: what the program itself wrote
\* is never told as the edit of a human (run_bagit_check in
\* src/tuochat/cli/commands/archive_cmd.py).
BagTells ==
  last # NoBag /\ (\A w \in Workers : IsAt(w, "idle")) =>
    Status = IF payload = last THEN "valid" ELSE "changed"
=============================================================================

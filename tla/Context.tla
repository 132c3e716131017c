------------------------------ MODULE Context ------------------------------
(***************************************************************************)
(* What goes with the next request: the queue of attachments and every     *)
(* command that fills or empties it, in the terminal and in the window;    *)
(* the list the numbers of /include refer to; the file included last; the  *)
(* ignore rules; the items of the server context and the project chosen    *)
(* with /resource.  Files are numbered in the order of their paths.        *)
(***************************************************************************)
EXTENDS Integers, Sequences, SequencesExt, FiniteSets

CONSTANTS
  Files,       \* files below the working directory
  MayHold,     \* what each of them may hold (bound)
  MaxListed,   \* the limits of the lists (25 and 100 in the program)
  MaxQueue     \* attachments queued (bound)

Texts == {"first", "second"}             \* what a text file may hold

ASSUME ContextAssumption ==
  /\ Files \subseteq Nat \ {0} /\ IsFiniteSet(Files) /\ {MaxListed, MaxQueue} \subseteq Nat
  /\ MayHold \in [Files -> SUBSET (Texts \cup {"binary", "none"})]

VARIABLES
  there,       \* what every file holds: a text, "binary", or "none" (no file)
  ignored,     \* the files the ignore files exclude now
  candidates,  \* state.last_candidates, << >> for None
  last,        \* state.last_include_path and last_include_hash
  names,       \* state.pending_attachment_names
  messages,    \* state.pending_attachment_messages: the files told of, and the text of one
  items,       \* state.server_context
  resource,    \* state.active_resource, conv.resource_id and state.resource_candidates
  had          \* the files queued in this conversation, with their text (history)

lists == <<there, ignored, candidates>>
queue == <<names, messages>>
contextVars == <<lists, last, queue, items, resource, had>>

Nothing == [file |-> 0, text |-> "none"]
Version == [file : Files, text : Texts]
Projects == {"group/one", "group/two"}

ContextTypeOK ==
  /\ there \in [Files -> Texts \cup {"binary", "none"}] /\ ignored \subseteq Files
  /\ candidates \in Seq(Files) /\ last \in Version \cup {Nothing}
  /\ names \in Seq(Files \cup {0}) /\ messages \in Seq([files : SUBSET Files, text : Texts \cup {"several"}])
  /\ items \subseteq [category : {"FILE", "SNIPPET"}, name : {"a"}, text : Texts]
  /\ resource.active \in Projects \cup {"none"} /\ resource.own \in Projects \cup {"none"}
  /\ resource.listed \in Seq(Projects)
  /\ had \subseteq Version

-----------------------------------------------------------------------------
(* Which files may be listed and read.                                     *)

\* The rules of all ignore files, those of deeper directories later: a rule
\* has the files it matches below its own directory, and may be negated.
Rules == [matches : SUBSET Files, negated : BOOLEAN]
RuleLists == { <<r>> : r \in Rules } \cup { <<r, s>> : r \in Rules, s \in Rules }

\* ContextIgnoreMatcher.is_ignored: the last rule that matches decides.
Excluded(rules, f) ==
  FoldLeft(LAMBDA was, rule : IF f \in rule.matches THEN ~rule.negated ELSE was, FALSE, rules)

Excludable == { { f \in Files : Excluded(rules, f) } : rules \in RuleLists }

\* is_context_ignored_path: the ignore files are read for every question.
IsIgnored(f) == f \in ignored
Sorted(S) ==
  CHOOSE s \in [1 .. Cardinality(S) -> S] : \A i, j \in DOMAIN s : i < j => s[i] < s[j]
First(n, s) == SubSeq(s, 1, IF Len(s) < n THEN Len(s) ELSE n)

\* list_include_candidates, map_candidates: by their suffix and path only.
Listing == First(MaxListed, Sorted({ f \in Files : there[f] # "none" /\ ~IsIgnored(f) }))
\* code_map_candidates, expand_recipe: text files.
IsText(f) == there[f] \in Texts
CodeListing == First(MaxListed, Sorted({ f \in Range(Listing) : IsText(f) }))

\* Changed: only the lists ask the ignore files.
IncludableAnyway(f) == IsText(f)

\* prepare_include: what can be included.
Includable(f) == IsText(f) /\ ~IsIgnored(f)
Content(f) == [file |-> f, text |-> there[f]]
Told(f) == [files |-> {f}, text |-> there[f]]

-----------------------------------------------------------------------------
(* The queue.                                                              *)

\* queue_attachment.
Queue(n, m) ==
  /\ Len(names) < MaxQueue
  /\ names' = Append(names, n) /\ messages' = Append(messages, m)
  /\ UNCHANGED <<lists, items, resource>>
QueueBundle(S) == Queue(0, [files |-> S, text |-> "several"]) /\ UNCHANGED <<last, had>>

\* Files are prepared and queued one after the other, in the order of their
\* paths; those that cannot be included are left out.
QueueFiles(S) ==
  LET good == Sorted({ f \in S : Includable(f) })
  IN /\ Len(names) + Len(good) <= MaxQueue
     /\ names' = names \o good
     /\ messages' = messages \o [i \in DOMAIN good |-> Told(good[i])]
     /\ last' = IF good = << >> THEN last ELSE Content(good[Len(good)])
     /\ had' = had \cup { Content(f) : f \in Range(good) }
     /\ UNCHANGED <<items, resource>>

\* /files and /include without an argument show a new list.
ShowFiles ==
  /\ candidates' = Listing
  /\ UNCHANGED <<there, ignored, last, queue, items, resource, had>>

\* /include with a number, a path or a pattern with a limit.  The file of a
\* number and of a path is checked twice, here and by prepare_include.
IncludeNumber(n) ==
  LET list == IF candidates = << >> THEN Listing ELSE candidates
  IN /\ candidates' = list
     /\ QueueFiles(IF n \in DOMAIN list /\ ~IsIgnored(list[n]) THEN {list[n]} ELSE {})
     /\ UNCHANGED <<there, ignored>>

IncludePath(f) ==
  /\ QueueFiles(IF IsIgnored(f) THEN {} ELSE {f})
  /\ UNCHANGED lists

IncludePattern(S, limit) ==
  /\ QueueFiles(Range(First(limit, Sorted({ f \in S : there[f] # "none" /\ ~IsIgnored(f) }))))
  /\ UNCHANGED lists

\* The window's dialogs: files, or a folder.
AttachFiles(S) ==
  /\ QueueFiles(S)
  /\ UNCHANGED lists

AttachFolder ==
  /\ QueueFiles({ f \in Files : there[f] # "none" /\ ~IsIgnored(f) })
  /\ UNCHANGED lists

\* /include-last; the window's button does not ask the ignore rules.
Again(checked) ==
  /\ last # Nothing /\ (checked => ~IsIgnored(last.file))
  /\ IsText(last.file) /\ Content(last.file) # last
  /\ last' = Content(last.file) /\ had' = had \cup {last'}
  /\ Queue(last.file, Told(last.file))
IncludeLast == Again(TRUE)
ReincludeChanged == Again(FALSE)

\* /map, /code-map and /recipe, confirmed.  /code-map fails when no file
\* matches (render_tree_lines).
Map == QueueBundle(Range(Listing))
CodeMap == CodeListing # << >> /\ QueueBundle(Range(CodeListing))

\* expand_recipe: the globs of the recipe without the excluded ones.
Recipe(globs, excluded) ==
  LET matched == { f \in globs \ excluded : Includable(f) }
  IN matched # {} /\ QueueBundle(matched)

\* A page of /web or /web-preview, the output of !command, an issue, a diff
\* or an artifact of the window's tabs: no file of the workspace.
AttachOther == QueueBundle({})

\* Changed: the name goes, and the first message.
DetachFirst(i) ==
  /\ i \in DOMAIN names
  /\ names' = RemoveAt(names, i) /\ messages' = RemoveAt(messages, 1)
  /\ UNCHANGED <<lists, last, items, resource, had>>

\* /detach N, /detach PATH (the first of that name) and the window's dialog.
Detach(i) ==
  /\ i \in DOMAIN names
  /\ names' = RemoveAt(names, i) /\ messages' = RemoveAt(messages, i)
  /\ UNCHANGED <<lists, last, items, resource, had>>
DetachPath(f) ==
  /\ f \in Range(names)
  /\ Detach(CHOOSE i \in DOMAIN names : names[i] = f /\ \A j \in 1 .. i - 1 : names[j] # f)
DetachAll ==
  /\ names # << >>
  /\ names' = << >> /\ messages' = << >>
  /\ UNCHANGED <<lists, last, items, resource, had>>

-----------------------------------------------------------------------------
(* Requests and conversations.                                             *)

\* validate_user_request: a request that is blank or holds the GitLab token
\* is refused; what else is wrong with it is asked about.
Problems == {"blank", "token", "short", "large", "warn words", "entropy"}
Asked(wrong, answers) == wrong \cap {"blank", "token"} = {} /\ wrong \subseteq answers

\* send_chat_turn takes what was queued when the request went out; a
\* refused one leaves the queue.
Send(wrong, answers) ==
  /\ Asked(wrong, answers)
  /\ names' = << >> /\ messages' = << >>
  /\ UNCHANGED <<lists, last, items, resource, had>>

\* Changed: the file included last outlives the conversation.
ForgetQueue ==
  /\ candidates' = << >> /\ names' = << >> /\ messages' = << >>
  /\ had' = {}
  /\ UNCHANGED <<there, ignored, last>>

\* What both ways to another conversation forget.
Forget ==
  /\ last' = Nothing /\ candidates' = << >> /\ names' = << >> /\ messages' = << >>
  /\ had' = {}
  /\ UNCHANGED <<there, ignored>>

NewContext ==
  /\ Forget /\ items' = {}
  /\ UNCHANGED resource

\* The resumed conversation's project comes with it, the items of the old
\* one stay.
ResumeContext(project) ==
  /\ Forget
  /\ resource' = [resource EXCEPT !.own = project]
  /\ UNCHANGED items

-----------------------------------------------------------------------------
(* The server context and the project.                                     *)

\* /server-add, /server-remove and /server-clear.
ServerAdd(c, text) ==
  /\ items' = { x \in items : x.category # c } \cup {[category |-> c, name |-> "a", text |-> text]}
  /\ UNCHANGED <<lists, last, queue, resource, had>>
ServerRemove ==
  /\ items # {} /\ items' = {}
  /\ UNCHANGED <<lists, last, queue, resource, had>>

\* /resource list, pick, set and clear; the window's GitLab tab sets the
\* conversation's own.
Resource(r) ==
  /\ resource' = r
  /\ UNCHANGED <<lists, last, queue, items, had>>
ListProjects == \E found \in {<<"group/one">>, <<"group/two", "group/one">>} :
  Resource([resource EXCEPT !.listed = found])
PickProject(n) ==
  n \in DOMAIN resource.listed /\ Resource([resource EXCEPT !.active = resource.listed[n]])
SetProject(p) == Resource([resource EXCEPT !.active = p])
ClearProject ==
  resource.active # "none" /\ Resource([resource EXCEPT !.active = "none", !.listed = << >>])
WindowProject(p) == Resource([resource EXCEPT !.own = p])

-----------------------------------------------------------------------------
\* The user's editor and ignore files.
EditFile(f) ==
  /\ \E t \in MayHold[f] \ {there[f]} : there' = [there EXCEPT ![f] = t]
  /\ UNCHANGED <<ignored, candidates, last, queue, items, resource, had>>
EditIgnore ==
  /\ ignored' \in Excludable
  /\ UNCHANGED <<there, candidates, last, queue, items, resource, had>>

ContextInit ==
  /\ there = [f \in Files |-> IF "binary" \in MayHold[f] THEN "binary" ELSE "first"] /\ ignored = {}
  /\ candidates = << >> /\ last = Nothing /\ names = << >> /\ messages = << >>
  /\ items = {} /\ resource = [active |-> "none", own |-> "none", listed |-> << >>]
  /\ had = {}

FileNext ==
  \/ ShowFiles \/ AttachFolder \/ IncludeLast \/ ReincludeChanged
  \/ Map \/ CodeMap \/ AttachOther \/ DetachAll \/ NewContext \/ EditIgnore
  \/ \E n \in 1 .. MaxListed : IncludeNumber(n)
  \/ \E f \in Files : IncludePath(f) \/ DetachPath(f) \/ EditFile(f)
  \/ \E S \in SUBSET Files : \E n \in 1 .. 2 :
        IncludePattern(S, n) \/ AttachFiles(S) \/ Recipe(S, {n})
  \/ \E i \in 1 .. MaxQueue : Detach(i)
  \/ \E wrong \in SUBSET Problems : Send(wrong, Problems)

ItemNext ==
  \/ \E c \in {"FILE", "SNIPPET"}, t \in Texts : ServerAdd(c, t)
  \/ ServerRemove \/ NewContext \/ ListProjects \/ ClearProject
  \/ \E n \in 1 .. 2 : PickProject(n)
  \/ \E p \in Projects : SetProject(p) \/ WindowProject(p) \/ ResumeContext(p)

-----------------------------------------------------------------------------
(* Properties.                                                             *)

\* A name of the queue and the message at its place belong together, through
\* every way of adding, detaching and sending (queue_attachment,
\* detach_pending_attachment, remove_pending_attachment_dialog).
Paired ==
  /\ Len(names) = Len(messages)
  /\ \A i \in DOMAIN names : names[i] # 0 => messages[i].files = {names[i]} /\ messages[i].text \in Texts

\* Nothing of a file the ignore files exclude is queued, however old the
\* numbered list is, except by the window's button for a changed file
\* (select_include_candidates, prepare_include, expand_recipe).
IgnoredStaysOut ==
  [][\A i \in DOMAIN messages' \ DOMAIN messages :
       ReincludeChanged \/ messages'[i].files \cap ignored = {}]_contextVars

\* The text a changed file is compared with went to the queue of this
\* conversation: "unchanged; not re-including it" is true (/include-last).
UnchangedIsThere == last # Nothing => last \in had

\* What the session says of its queue, and of what went before, is so.
QueueIsTrue == Paired /\ UnchangedIsThere

=============================================================================

------------------------------ MODULE Browser -------------------------------
(***************************************************************************)
(* The window's Context Browser: it lists the skills, instructions, agent  *)
(* prompts and recipes it found, shows the one selected and attaches it to *)
(* the next request or makes it the agent prompt.  The list is of the last *)
(* refresh, the selection outlives the tree it was made in, files change   *)
(* on disk meanwhile and a turn may be under way.                          *)
(***************************************************************************)
EXTENDS Naturals, FiniteSets

CONSTANTS
  Skills, Prompts, Customs, Recipes,  \* what the files are
  MaxEdition                          \* bound: versions of each file

Sources == Skills \cup Prompts \cup Customs
Items == Sources \cup Recipes

ASSUME BrowserAssumption == "none" \notin Items /\ MaxEdition \in Nat \ {0}

VARIABLES
  disk,      \* version of each artifact and of what each recipe matches; 0: none
  listed,    \* versions read by the last refresh
  artifact,  \* selected_artifact
  recipe,    \* selected_recipe
  preview,   \* the item in the preview pane
  dialog,    \* the match in the modal recipe preview
  inTurn,    \* a submission runs: the window's callbacks refuse
  uses       \* history: what was attached or set last, and what the user had seen of it

browserVars == <<disk, listed, artifact, recipe, preview, dialog, inTurn, uses>>

View == [of : Items \cup {"none"}, version : 0 .. MaxEdition]
NoView == [of |-> "none", version |-> 0]
Shows(item, version) == [of |-> item, version |-> version]

BrowserTypeOK ==
  /\ {disk, listed} \subseteq [Items -> 0 .. MaxEdition]
  /\ {artifact, recipe, preview, dialog} \subseteq View
  /\ inTurn \in BOOLEAN
  /\ uses \subseteq [used : View, seen : View, fixed : BOOLEAN]

-----------------------------------------------------------------------------
\* discover_all_artifacts reads every file; the recipes are built in.
Discover == [i \in Items |-> IF i \in Recipes THEN 1 ELSE disk[i]]
Listable(list) == { i \in Items : list[i] # 0 }

\* refresh_preview, show_recipe_preview, clear_preview.
Show(view) == preview' = view
\* update_action_buttons, which all three call: the buttons are of the item
\* shown.  "Apply to next conversation" changes nothing.
Attachable == preview.of \in Skills \cup Recipes
Settable == preview.of \in Prompts

NoDialog == dialog = NoView
Undisturbed == UNCHANGED <<disk, dialog, inTurn, uses>>

\* refresh: the tree is filled again, with no row selected; what was selected
\* before stays selected and shown.  The filter fills it likewise with the rows
\* that match and reads nothing.
Reload ==
  /\ NoDialog /\ listed' = Discover
  /\ Undisturbed /\ UNCHANGED <<artifact, recipe, preview>>

\* Changed: the recipe stays selected when an artifact is.
SelectKeeping(i) ==
  /\ NoDialog /\ i \in Listable(listed) /\ Show(Shows(i, listed[i]))
  /\ IF i \in Recipes
     THEN artifact' = NoView /\ recipe' = Shows(i, listed[i])
     ELSE artifact' = Shows(i, listed[i]) /\ UNCHANGED recipe
  /\ Undisturbed /\ UNCHANGED <<listed>>
\* on_tree_select of an item, and of the heading of a group.
Select(i) ==
  /\ NoDialog /\ i \in Listable(listed) /\ Show(Shows(i, listed[i]))
  /\ IF i \in Recipes
     THEN artifact' = NoView /\ recipe' = Shows(i, listed[i])
     ELSE artifact' = Shows(i, listed[i]) /\ recipe' = NoView
  /\ Undisturbed /\ UNCHANGED <<listed>>
SelectHeading ==
  /\ NoDialog /\ Listable(listed) # {} /\ artifact' = NoView /\ recipe' = NoView /\ Show(NoView)
  /\ Undisturbed /\ UNCHANGED <<listed>>

\* The radio buttons show the selected artifact again; a selected recipe is
\* no longer shown, and stays selected.
SwitchView ==
  /\ NoDialog /\ Show(artifact)
  /\ Undisturbed /\ UNCHANGED <<listed, artifact, recipe>>

\* Something is queued or set unless a turn is under way.
Use(used, seen, fixed) ==
  uses' = IF inTurn THEN uses ELSE {[used |-> used, seen |-> seen, fixed |-> fixed]}

\* action_attach_request: the content is what the last refresh read, resolved
\* in either view.
AttachArtifact ==
  /\ NoDialog /\ Attachable /\ recipe = NoView /\ artifact # NoView
  /\ Use(artifact, preview, TRUE)
  /\ UNCHANGED <<disk, listed, artifact, recipe, preview, dialog, inTurn>>
\* attach_recipe: the files are matched now, and a large match is shown first.
AttachRecipe(large) ==
  /\ NoDialog /\ Attachable /\ recipe # NoView /\ disk[recipe.of] # 0
  /\ LET match == Shows(recipe.of, disk[recipe.of]) IN
     IF large THEN dialog' = match /\ UNCHANGED uses
     ELSE Use(match, preview, FALSE) /\ UNCHANGED dialog
  /\ UNCHANGED <<disk, listed, artifact, recipe, preview, inTurn>>
Confirm(attach) ==
  /\ dialog # NoView /\ dialog' = NoView
  /\ IF attach THEN Use(dialog, dialog, TRUE) ELSE UNCHANGED uses
  /\ UNCHANGED <<disk, listed, artifact, recipe, preview, inTurn>>

\* action_set_agent_prompt gives the path; the file is read when it is set.
SetAgentPrompt ==
  /\ NoDialog /\ Settable /\ artifact # NoView /\ disk[artifact.of] # 0
  /\ Use(Shows(artifact.of, disk[artifact.of]), preview, FALSE)
  /\ UNCHANGED <<disk, listed, artifact, recipe, preview, dialog, inTurn>>

\* The user edits or removes files; a turn begins, not from under the dialog,
\* or ends.
ChangeFile(i) ==
  /\ \E v \in {0, disk[i] + 1} \ {MaxEdition + 1} : disk' = [disk EXCEPT ![i] = v] /\ disk[i] # 0
  /\ UNCHANGED <<listed, artifact, recipe, preview, dialog, inTurn, uses>>
TurnRuns ==
  /\ inTurn' = ~inTurn /\ (inTurn' => NoDialog)
  /\ UNCHANGED <<disk, listed, artifact, recipe, preview, dialog, uses>>

BrowserInit ==
  /\ disk = [i \in Items |-> 1] /\ listed = Discover
  /\ artifact = NoView /\ recipe = NoView /\ preview = NoView
  /\ dialog = NoView /\ inTurn = FALSE /\ uses = {}

BrowserNext ==
  \/ Reload \/ SelectHeading \/ SwitchView \/ AttachArtifact \/ SetAgentPrompt
  \/ (\E i \in Items : Select(i) \/ ChangeFile(i)) \/ TurnRuns
  \/ (\E large \in BOOLEAN : AttachRecipe(large)) \/ \E attach \in BOOLEAN : Confirm(attach)

-----------------------------------------------------------------------------
\* What is attached or made the agent prompt is the item the user has before
\* him, whatever was selected, filtered and refreshed before: and with the
\* content shown, except that a small recipe and an agent prompt are read when
\* they are used.  ContextBrowserTab in src/tuochat/gui/context_browser.py.
ActsOnShown ==
  \A use \in uses : /\ use.used.of = use.seen.of
                    /\ use.fixed => use.used.version = use.seen.version
=============================================================================

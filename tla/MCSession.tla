----------------------------- MODULE MCSession -----------------------------
(***************************************************************************)
(* The parts of a session that share no state are checked in one run: a    *)
(* behaviour is of one part, chosen at the start, and the others stay as   *)
(* they are.                                                               *)
(***************************************************************************)
EXTENDS Terminal, Instructions, Context, Picker, Settings

CONSTANTS c1, c2, c3
MCIds == {c1, c2, c3}

MCMayHold == <<{"first", "second", "none"}, {"first", "binary"}>>

\* Three items on two pages, and what parts of their names match.
MCQueries == {"a", "ab", "b", "x"}
MCMatched == [q \in MCQueries |-> CASE q = "a" -> <<1, 2>> [] q = "ab" -> <<2>>
                                    [] q = "b" -> <<3, 2>> [] OTHER -> << >>]
MCExact == [q \in MCQueries |-> CASE q = "a" -> 1 [] q = "ab" -> 2 [] q = "b" -> 3 [] OTHER -> 0]

VARIABLE scene

Alone(part) == scene = part /\ UNCHANGED scene

vars == <<scene, terminalVars, instructionsVars, contextVars, pickerVars, settingsVars>>

\* A part that does not act starts in one state.
Init ==
  /\ scene \in {"terminal", "instructions", "files", "items", "picker", "settings"}
  /\ TerminalInit
  /\ open.id = c1 \* which one makes no difference
  /\ InstructionsInit
  /\ scene # "instructions" => base.known /\ disk.agents = 0 /\ disk.pinned = {}
  /\ ContextInit
  /\ PickerInit
  /\ scene # "picker" => way = "all"
  /\ SettingsInit
  /\ scene # "settings" => front = "terminal" /\ toml = Built /\ ~world.env /\ ~world.ring

Next ==
  \/ /\ Alone("terminal") /\ TerminalNext
     /\ UNCHANGED <<instructionsVars, contextVars, pickerVars, settingsVars>>
  \/ /\ Alone("instructions") /\ InstructionsNext
     /\ UNCHANGED <<terminalVars, contextVars, pickerVars, settingsVars>>
  \/ /\ Alone("files") /\ FileNext
     /\ UNCHANGED <<terminalVars, instructionsVars, pickerVars, settingsVars>>
  \/ /\ Alone("items") /\ ItemNext
     /\ UNCHANGED <<terminalVars, instructionsVars, pickerVars, settingsVars>>
  \/ /\ Alone("picker") /\ PickerNext
     /\ UNCHANGED <<terminalVars, instructionsVars, contextVars, settingsVars>>
  \/ /\ Alone("settings") /\ SettingsNext
     /\ UNCHANGED <<terminalVars, instructionsVars, contextVars, pickerVars>>

Spec == Init /\ [][Next]_vars

\* The variables of every part have their types.
TypeOK ==
  TerminalTypeOK /\ InstructionsTypeOK /\ ContextTypeOK /\ PickerTypeOK /\ SettingsTypeOK
=============================================================================

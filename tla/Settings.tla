------------------------------ MODULE Settings ------------------------------
(***************************************************************************)
(* The settings of the program: the configuration file, the environment    *)
(* and the keyring laid over each other at the start, the copies a session *)
(* works with, the commands that change them, the guided setup, and what   *)
(* is written back to the file.                                            *)
(***************************************************************************)
EXTENDS Integers

CONSTANT MaxRank      \* classifications above "unclassified"

ASSUME SettingsAssumption == MaxRank \in Nat

VARIABLES
  front,      \* "terminal" or "window"
  world,      \* the token in the environment, and the one in the keyring
  toml,       \* the configuration file; there tells none, an old and a new one
  cfg,        \* state.cfg
  run,        \* the session: streaming, dots and blind as ReplState has them
  mark,       \* active_classification and last_classification; -1 is None
  asked       \* what the user last chose, and whether with writes on (history)

settingsVars == <<front, world, toml, cfg, run, mark, asked>>

Ranks == 0 .. MaxRank
Marks == Ranks \cup {-1}

\* The settings of the file; each stands for those treated alike: dots for
\* quiet, hold is enable_no_stream, top the highest of max_markings.
Kinds == [dots : BOOLEAN, blind : BOOLEAN, nowrite : BOOLEAN, streaming : BOOLEAN,
          hold : BOOLEAN, jira : BOOLEAN, top : Ranks, token : BOOLEAN, there : {"no", "old", "new"}]

Built == [dots |-> FALSE, blind |-> FALSE, nowrite |-> FALSE, streaming |-> TRUE,
          hold |-> FALSE, jira |-> FALSE, top |-> 0, token |-> FALSE, there |-> "no"]

SettingsTypeOK ==
  /\ front \in {"terminal", "window"} /\ world \in [env : BOOLEAN, ring : BOOLEAN]
  /\ {toml, cfg} \subseteq Kinds
  /\ run \in [on : BOOLEAN, streaming : BOOLEAN, dots : BOOLEAN, blind : BOOLEAN]
  /\ mark \in [active : Marks, last : Marks]
  /\ asked \in [dots : BOOLEAN, kept : BOOLEAN, nowrite : BOOLEAN]

-----------------------------------------------------------------------------
(* Layers.                                                                 *)

\* apply_toml: what the file says replaces what is built in.
Applied(file) == IF file.there # "no" THEN file ELSE Built

\* load_config: a token of the environment wins over the file, and the file
\* over the keyring.
Loaded(file) == [Applied(file) EXCEPT !.token = @ \/ world.env \/ world.ring]

\* render_config: the section of the issue tracker is a comment, and the
\* token of any layer is written.
Rendered(c) == [c EXCEPT !.jira = FALSE, !.there = "new"]

NoMark == [active |-> -1, last |-> -1]
Off == [on |-> FALSE, streaming |-> TRUE, dots |-> FALSE, blind |-> FALSE]

\* classification_within_max; "unclassified" has rank 0, and a top of 0 is
\* no maximum.
WithinMax(c, r) == c.top = 0 \/ r <= c.top

\* resolve_streaming_enabled; the window does not ask it.
Streams(c, noStream) ==
  IF front = "window" THEN ~noStream /\ c.streaming
  ELSE ~c.hold \/ (~noStream /\ c.streaming)

-----------------------------------------------------------------------------
(* The guided setup.                                                       *)

\* Signing in is only asked without a token, and may fail.
Answers(token) ==
  [login : IF token THEN {FALSE} ELSE BOOLEAN, blind : BOOLEAN, nowrite : BOOLEAN,
   dots : BOOLEAN, streaming : BOOLEAN, top : Ranks]

\* The advanced settings are asked last.
Advanced(c, a) == [c EXCEPT !.dots = a.dots, !.streaming = a.streaming]

\* run_init_wizard: what is in the file, changed by the answers, is saved.
Wizard(a) ==
  Rendered(Advanced([Loaded(toml) EXCEPT !.blind = a.blind, !.nowrite = a.nowrite,
                                         !.top = a.top, !.token = @ \/ a.login], a))

Answered(a) == asked' = [dots |-> a.dots, kept |-> TRUE, nowrite |-> a.nowrite]

-----------------------------------------------------------------------------
(* A session.                                                              *)

\* cmd_chat and run_gui_app: without a token no session starts.
Begin(c, noStream) ==
  IF ~c.token THEN UNCHANGED <<cfg, run, mark>>
  ELSE /\ cfg' = c
       /\ run' = [on |-> TRUE, streaming |-> Streams(c, noStream), dots |-> c.dots, blind |-> c.blind]
       /\ \E r \in Marks : (r # -1 => WithinMax(c, r)) /\ mark' = [active |-> r, last |-> -1]

Flags == [blind : BOOLEAN, noStream : BOOLEAN]

\* apply_global_overrides: flags are laid over the configuration.
Start(flags) ==
  /\ ~run.on /\ (toml.there # "no" \/ world.env)
  /\ Begin([Loaded(toml) EXCEPT !.blind = @ \/ flags.blind], flags.noStream)
  /\ UNCHANGED <<front, world, toml, asked>>

\* maybe_run_first_run_setup: no file, or an old one; the configuration is
\* loaded anew and the flags laid over it are gone.
FirstSetup(a, noStream) ==
  /\ ~run.on /\ toml.there # "new"
  /\ toml' = Wizard(a) /\ Begin(Loaded(Wizard(a)), noStream) /\ Answered(a)
  /\ UNCHANGED <<front, world>>

Stop ==
  /\ run.on
  /\ run' = Off /\ cfg' = Built /\ mark' = NoMark
  /\ UNCHANGED <<front, world, toml, asked>>

\* Changed: the session keeps its own copy through a setup.
SetupStale(a) ==
  /\ run.on /\ front = "terminal"
  /\ toml' = Wizard(a) /\ cfg' = Loaded(Wizard(a))
  /\ Answered(a)
  /\ UNCHANGED <<front, world, run, mark>>

\* /setup: the copies of blind, streaming and the classification stay.
Setup(a) ==
  /\ run.on /\ front = "terminal"
  /\ toml' = Wizard(a) /\ cfg' = Loaded(Wizard(a)) /\ run' = [run EXCEPT !.dots = a.dots]
  /\ Answered(a)
  /\ UNCHANGED <<front, world, mark>>

\* Changed: the mode is not asked before the file is written.
PersistAlways(c) == toml' = Rendered(c)

\* persist_chat_preferences and persist_tutorial_completed.
Persist(c) == IF c.nowrite THEN UNCHANGED toml ELSE toml' = Rendered(c)

\* /dot-timer; a setting made without writes is not kept.
DotTimer(on) ==
  /\ run.on /\ front = "terminal"
  /\ LET c == [cfg EXCEPT !.blind = run.blind, !.dots = IF cfg.nowrite THEN @ ELSE on]
     IN /\ cfg' = IF cfg.nowrite THEN cfg ELSE c
        /\ Persist(c)
  /\ run' = [run EXCEPT !.dots = on]
  /\ asked' = [asked EXCEPT !.dots = on, !.kept = ~cfg.nowrite]
  /\ UNCHANGED <<front, world, mark>>

\* /blind.
BlindMode(on) ==
  /\ run.on /\ front = "terminal"
  /\ LET c == [cfg EXCEPT !.blind = on, !.dots = IF cfg.nowrite THEN @ ELSE run.dots]
     IN cfg' = c /\ Persist(c)
  /\ run' = [run EXCEPT !.blind = on]
  /\ UNCHANGED <<front, world, mark, asked>>

\* Changed: the flag is not asked before streaming is turned off.
StreamAnyway(on) ==
  /\ run.on /\ front = "terminal" /\ run' = [run EXCEPT !.streaming = on]
  /\ UNCHANGED <<front, world, toml, cfg, mark, asked>>

\* /stream: off is refused unless the configuration allows it.
Stream(on) ==
  /\ run.on /\ front = "terminal"
  /\ run' = [run EXCEPT !.streaming = on \/ ~cfg.hold]
  /\ UNCHANGED <<front, world, toml, cfg, mark, asked>>

\* toggle_no_write: for this session only.
NoWrite(on) ==
  /\ run.on /\ cfg.nowrite # on
  /\ cfg' = [cfg EXCEPT !.nowrite = on]
  /\ UNCHANGED <<front, world, toml, run, mark, asked>>

\* The tutorial saves the configuration; the fonts and themes of the window
\* do without asking for the mode.
Tutorial ==
  /\ run.on /\ front = "terminal" /\ Persist(cfg)
  /\ UNCHANGED <<front, world, cfg, run, mark, asked>>
Theme ==
  /\ run.on /\ front = "window" /\ toml' = Rendered(cfg)
  /\ UNCHANGED <<front, world, cfg, run, mark, asked>>

-----------------------------------------------------------------------------
(* Classification.                                                         *)

\* /classify with a name, or a choice from the list.
Classify(r) ==
  /\ run.on /\ WithinMax(cfg, r)
  /\ mark' = [active |-> r, last |-> IF front = "terminal" THEN r ELSE mark.last]
  /\ UNCHANGED <<front, world, toml, cfg, run, asked>>

\* A new conversation asks again: Enter keeps the last one.
NewMarked(r) ==
  /\ run.on /\ (r = mark.last \/ WithinMax(cfg, r))
  /\ mark' = [active |-> r, last |-> r]
  /\ UNCHANGED <<front, world, toml, cfg, run, asked>>
NewUnmarked ==
  /\ run.on /\ mark' = [mark EXCEPT !.active = -1]
  /\ UNCHANGED <<front, world, toml, cfg, run, asked>>

-----------------------------------------------------------------------------
SettingsInit ==
  /\ front \in {"terminal", "window"} /\ world \in { w \in [env : BOOLEAN, ring : BOOLEAN] : ~(w.env /\ w.ring) }
  /\ toml \in {Built} \cup
       [dots : {FALSE}, blind : {FALSE}, nowrite : BOOLEAN, streaming : BOOLEAN, hold : BOOLEAN,
        jira : {TRUE}, top : {MaxRank}, token : {FALSE}, there : {"old", "new"}]
  /\ cfg = Built /\ run = Off /\ mark = NoMark
  /\ asked = [dots |-> toml.dots, kept |-> TRUE, nowrite |-> toml.nowrite]

SettingsNext ==
  \/ Stop \/ Tutorial \/ Theme \/ NewUnmarked
  \/ \E flags \in Flags : Start(flags)
  \/ \E a \in Answers(Loaded(toml).token) : Setup(a) \/ \E noStream \in BOOLEAN : FirstSetup(a, noStream)
  \/ \E on \in BOOLEAN : DotTimer(on) \/ BlindMode(on) \/ Stream(on) \/ NoWrite(on)
  \/ \E r \in Ranks : Classify(r) \/ NewMarked(r)

-----------------------------------------------------------------------------
(* Properties.                                                             *)

\* What the user last set with writes on, at the prompt or in the setup, is
\* in the file, whatever is saved later by another command or session
\* (persist_chat_preferences, run_init_wizard, render_config).
ChoiceIsKept == asked.kept => asked.dots = toml.dots

\* In the terminal a no-write mode of one session is never saved: it "is not
\* saved because saving it would require writing to disk" (toggle_no_write).
NoWriteIsNotSaved == front = "terminal" /\ toml.nowrite => asked.nowrite

\* "We should keep the non-streaming path behind an explicit feature flag"
\* (resolve_streaming_enabled): in the terminal it is, on every way of turning
\* streaming off, a flag, the file, a command, and a setup after any of them.
TerminalStreams == front = "terminal" /\ run.on /\ ~run.streaming => cfg.hold

\* The file and the session agree with what was chosen, on every way in.
ChoicesHold == ChoiceIsKept /\ NoWriteIsNotSaved /\ TerminalStreams
=============================================================================

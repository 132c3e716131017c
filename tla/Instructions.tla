---------------------------- MODULE Instructions ----------------------------
(***************************************************************************)
(* The system prompt of a conversation: how it is put together from the    *)
(* agent prompt file, the prompt given at the start, custom instructions   *)
(* and the files pinned in the workspace; the commands of the terminal and *)
(* the window that put it together again; templates; and the commands      *)
(* that let the model write the pinned files.  A prompt is the sequence of *)
(* its sections.                                                           *)
(***************************************************************************)
EXTENDS Integers, Sequences

CONSTANTS
  Notes,         \* the pinned files with a command of their own: "memory", "todo"
  Editions,      \* editions of AGENTS.md (bound)
  MaxSections,   \* sections of a prompt (bound)
  MaxReplies     \* replies in a conversation (bound)

ASSUME InstructionsAssumption == 
  Notes \subseteq {"memory", "todo"} /\ Editions \in 1 .. 2 /\ {MaxSections, MaxReplies} \subseteq Nat

PinnedFiles == {"compact"} \cup Notes
Blocks == PinnedFiles \cup {"none", "empty"}
Sections == {"agents 1", "agents 2", "picked", "base", "rules", "extra"} \cup PinnedFiles

VARIABLES
  prompt,     \* conv.system_prompt
  replies,    \* the pinned file each reply has a block for, "none", or "empty"
  base,       \* state.base_system_prompt: known is FALSE for None
  include,    \* state.include_agents_file
  path,       \* state.active_agent_prompt_path: "AGENTS.md" stands for None
  mode,       \* state.active_agent_prompt_mode
  extra,      \* state.pending_custom_path: "none", a file of its own or the standing one
  disk,       \* AGENTS.md: 0 is no file, else its edition; and the pinned files there are
  kept,       \* a conversation saved by an earlier session, the only one resumed here
  tag,        \* state.pending_template_metadata is set
  tagged,     \* the last message recorded: "none", "own" or "other" template (history)
  written,    \* what the last pinned file came from (history): the "reply" asked for, an
              \* older one because that one was "lost", or an "older" one anyway
  lost,       \* what came to no reply in this conversation: a "turn", a "template" (history)
  mixed       \* the prompt was composed from a composed prompt (history)

conversation == <<prompt, replies, tagged, lost>>
agentPrompt == <<include, path, mode>>
instructionsVars == <<conversation, agentPrompt, base, extra, disk, kept, tag, written, mixed>>

InstructionsTypeOK ==
  /\ {prompt, base.text, kept.text} \subseteq Seq(Sections) /\ replies \in Seq(Blocks) /\ kept.replies \in Seq(Blocks)
  /\ {base.known, include, tag, mixed} \subseteq BOOLEAN
  /\ lost \subseteq {"turn", "template"}
  /\ path \in {"AGENTS.md", "picked"} /\ mode \in {"none", "auto", "selected"}
  /\ extra \in {"none", "extra", "rules"}
  /\ disk.agents \in 0 .. Editions /\ disk.pinned \subseteq PinnedFiles
  /\ tagged \in {"none", "own", "other"} /\ written \in {"nothing", "reply", "lost", "older"}

-----------------------------------------------------------------------------
(* Putting a prompt together.                                              *)

\* load_agents_instructions.
AgentsText(file) ==
  IF file = "picked" THEN <<"picked">>
  ELSE CASE disk.agents = 0 -> << >> [] disk.agents = 1 -> <<"agents 1">> [] OTHER -> <<"agents 2">>

\* system_prompt_includes_agents_instructions: as the file is now.
Includes(text, agents) == agents # << >> /\ text # << >> /\ Head(text) = Head(agents)

\* strip_agents_instructions_prefix.
Stripped(text, file) == IF Includes(text, AgentsText(file)) THEN Tail(text) ELSE text

\* Changed: a file that is loaded anyway is loaded again.
CustomAgain == <<"rules">> \o IF extra = "none" THEN << >> ELSE <<extra>>

\* load_custom_instruction_sections: a file is loaded once.
Custom == <<"rules">> \o IF extra = "extra" THEN <<"extra">> ELSE << >>

\* load_pinned_sections.
Section(name, files) == IF name \in files THEN <<name>> ELSE << >>
Pinned(files) == Section("compact", files) \o Section("memory", files) \o Section("todo", files)

\* compose_system_prompt.
Compose(text, agents, files) ==
  (IF Includes(text, agents) THEN << >> ELSE agents) \o text \o Custom \o Pinned(files)

\* What the commands compose from: without a base, the prompt there is.
Base(file) == IF base.known THEN base.text ELSE Stripped(prompt, file)
Composed(with, file) ==
  Compose(Base(file), IF with THEN AgentsText(file) ELSE << >>, disk.pinned)

Recompose(with, file) ==
  /\ Len(Composed(with, file)) <= MaxSections
  /\ prompt' = Composed(with, file)
  /\ mixed' = (mixed \/ ~base.known)
  /\ UNCHANGED <<replies, tagged, lost, base, extra, disk, kept, tag, written>>

-----------------------------------------------------------------------------
(* The agent prompt: /agent-prompt, and the window's menu and button.      *)

AgentPromptNone ==
  /\ include' = FALSE /\ mode' = "none" /\ UNCHANGED path
  /\ Recompose(FALSE, path)

AgentPromptAuto ==
  /\ include' = TRUE /\ mode' = "auto" /\ path' = "AGENTS.md"
  /\ Recompose(TRUE, "AGENTS.md")

AgentPromptPick ==
  /\ include' = TRUE /\ mode' = "selected" /\ path' = "picked"
  /\ Recompose(TRUE, "picked")

IncludeAgents(enabled) ==
  /\ include' = enabled /\ UNCHANGED <<path, mode>>
  /\ Recompose(enabled, path)

\* /custom, and the window's menu.
SelectCustom(file) ==
  /\ extra' = file
  /\ UNCHANGED <<conversation, agentPrompt, base, disk, kept, tag, written, mixed>>

-----------------------------------------------------------------------------
(* Conversations.                                                          *)

\* Changed: the tag outlives the conversation.
LeftWithTag == tagged' = "none" /\ lost' = {} /\ UNCHANGED <<tag, kept>>

\* What both ways to another conversation forget.
Left == tag' = FALSE /\ tagged' = "none" /\ lost' = {} /\ UNCHANGED kept

\* reset_repl_state: the agent prompt that was picked is not passed on.
ResetPrompt(files) ==
  LET p == Compose(base.text, IF include THEN AgentsText("AGENTS.md") ELSE << >>, files)
  IN /\ Len(p) <= MaxSections
     /\ prompt' = p /\ replies' = << >>
     /\ mixed' = (base.text \notin {<< >>, <<"base">>})
     /\ Left

NewPrompt ==
  /\ ResetPrompt(disk.pinned)
  /\ UNCHANGED <<agentPrompt, base, extra, disk, written>>

\* switch_to_conversation: the saved prompt becomes the base.
SwitchPrompt ==
  /\ prompt' = kept.text /\ replies' = kept.replies
  /\ base' = [known |-> kept.text # << >>, text |-> kept.text]
  /\ mixed' = TRUE
  /\ Left
  /\ UNCHANGED <<extra, disk, written>>

ResumePrompt == SwitchPrompt /\ UNCHANGED agentPrompt

ResumeInWindow ==
  /\ SwitchPrompt
  /\ include' = Includes(kept.text, AgentsText("AGENTS.md"))
  /\ UNCHANGED <<path, mode>>

-----------------------------------------------------------------------------
(* Turns.                                                                  *)

\* send_chat_turn, as far as it is told apart here.  A turn that is refused,
\* fails or is aborted leaves the tag; one that is interrupted before the
\* first token has an empty reply.
Reply(block, template) ==
  /\ Len(replies) < MaxReplies /\ replies' = Append(replies, block)
  /\ tag' = FALSE
  /\ tagged' = IF template THEN "own" ELSE IF tag THEN "other" ELSE "none"
  /\ lost' = IF block = "empty" THEN lost \cup {"turn"} ELSE lost
Lose(template) ==
  /\ tag' = (tag \/ template)
  /\ lost' = lost \cup {"turn"} \cup IF template THEN {"template"} ELSE {}
  /\ UNCHANGED <<replies, tagged>>

\* A message, /retry, or /template when its variables have values.
Ask(template) ==
  /\ Lose(template) \/ \E block \in {"none", "empty"} : Reply(block, template)
  /\ UNCHANGED <<prompt, agentPrompt, base, extra, disk, kept, written, mixed>>

\* Changed: the first reply there is.
FirstReply(said) == IF said = << >> THEN "none" ELSE said[1]

\* latest_assistant_message: an empty reply is passed over.
Latest(said) ==
  LET full == { i \in DOMAIN said : said[i] # "empty" }
  IN IF full = {} THEN "none" ELSE said[CHOOSE i \in full : \A j \in full : j <= i]

\* What a command writes is the block of the latest reply.
Write(file, said, noReply) ==
  /\ disk' = [disk EXCEPT !.pinned = @ \cup {file}]
  /\ written' = CASE Len(said) > Len(replies) /\ said[Len(said)] = file -> "reply"
                   [] noReply -> "lost"
                   [] OTHER -> "older"

\* /memory and /todo.
WritePinned(file) ==
  /\ Lose(FALSE) \/ \E block \in {file, "none", "empty"} : Reply(block, FALSE)
  /\ IF Latest(replies') = file THEN Write(file, replies', "turn" \in lost') ELSE UNCHANGED <<disk, written>>
  /\ UNCHANGED <<prompt, agentPrompt, base, extra, kept, mixed>>

\* /compact: with a summary a new conversation starts; without one it is like
\* a message.
Compact ==
  /\ replies # << >>
  /\ \E said \in {replies} \cup {Append(replies, block) : block \in {"compact", "none", "empty"}} :
       /\ Len(said) <= MaxReplies /\ Latest(said) = "compact"
       /\ Write("compact", said, "turn" \in lost \/ said \in {replies, Append(replies, "empty")})
  /\ ResetPrompt(disk'.pinned)
  /\ UNCHANGED <<agentPrompt, base, extra>>

\* /memory with a text, /memory clear and /todo clear.
EditPinned(file) ==
  /\ disk' = [disk EXCEPT !.pinned = IF file \in @ THEN @ \ {file} ELSE @ \cup {file}]
  /\ file = "todo" => file \in disk.pinned
  /\ written' = "nothing"
  /\ UNCHANGED <<conversation, agentPrompt, base, extra, kept, tag, mixed>>

\* AGENTS.md is created, edited or deleted.
EditAgents ==
  /\ \E edition \in 0 .. Editions : disk' = [disk EXCEPT !.agents = edition]
  /\ UNCHANGED <<conversation, agentPrompt, base, extra, kept, tag, written, mixed>>

-----------------------------------------------------------------------------
\* A session starts, with --prompt or without.
InstructionsInit ==
  /\ disk \in [agents : 0 .. 1, pinned : {{}, Notes}]
  /\ base \in {[known |-> FALSE, text |-> << >>], [known |-> TRUE, text |-> <<"base">>]}
  /\ include = TRUE /\ path = "AGENTS.md" /\ mode = "auto" /\ extra = "none"
  /\ prompt = Compose(base.text, AgentsText("AGENTS.md"), disk.pinned)
  /\ replies = << >>
  /\ kept = [text |-> <<"agents 1", "rules">>, replies |-> <<"compact">>]
  /\ tag = FALSE /\ tagged = "none" /\ written = "nothing" /\ lost = {} /\ mixed = FALSE

InstructionsNext ==
  \/ AgentPromptNone \/ AgentPromptAuto \/ AgentPromptPick
  \/ \E enabled \in BOOLEAN : IncludeAgents(enabled)
  \/ \E file \in {"none", "extra", "rules"} : SelectCustom(file)
  \/ NewPrompt \/ ResumePrompt \/ ResumeInWindow \/ EditAgents
  \/ \E template \in BOOLEAN : Ask(template)
  \/ \E file \in Notes : EditPinned(file) \/ WritePinned(file)
  \/ Compact

-----------------------------------------------------------------------------
(* Properties.                                                             *)

\* However agent prompts, custom instructions and conversations were changed,
\* a prompt composed from the one given at the start has every section once
\* (compose_system_prompt, load_custom_instruction_sections).
NothingTwice ==
  mixed \/ \A i, j \in DOMAIN prompt : prompt[i] = prompt[j] => i = j

\* The metadata of a template goes with another message only when the
\* template's own request was lost, in the same conversation
\* (state.pending_template_metadata).
TagStays == tagged = "other" => "template" \in lost

\* /memory, /todo and /compact save what the model answered to them, unless
\* that came to nothing or a turn of the conversation did before
\* (latest_assistant_message, extract_fence_content).
WrittenByReply == written # "older"

\* What is composed, tagged and written comes from where it should: the
\* sections of a prompt, the metadata of a message, the files of a reply.
FromItsSource == NothingTwice /\ TagStays /\ WrittenByReply

=============================================================================

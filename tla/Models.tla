------------------------------- MODULE Models -------------------------------
(***************************************************************************)
(* Which model a question of a session goes to, what OpenRouter, which     *)
(* keeps nothing between two calls, is told of the conversation, and how   *)
(* the way to the GitLab host is found.                                    *)
(*                                                                         *)
(* A question is its number; one that failed may be asked again.  How Duo  *)
(* answers is DuoChat and ChatTurn.                                        *)
(***************************************************************************)
EXTENDS Integers, Sequences, SequencesExt

CONSTANTS
  MaxQuestions, \* bound: different questions
  MaxTries,     \* bound: attempts, of all questions
  Routers,      \* how OpenRouter is configured: the key and how many models
  Networks      \* whether the environment names a proxy, and what reaches the host

ASSUME ModelsAssumption ==
  /\ {MaxQuestions, MaxTries} \subseteq Nat
  /\ Routers \subseteq [key : BOOLEAN, models : 0 .. 2]
  /\ Networks \subseteq [env : BOOLEAN, reached : SUBSET {"env", "direct", "wpad"}]

ModelNames == {"duo", "eliza", "openrouter"} \* MODEL_LABELS
Routes == {"env", "direct", "wpad"}          \* ProxyStrategy
Numbers == 1 .. MaxQuestions
Roles == {"user", "assistant"}
Messages == [role : Roles, question : Numbers, empty : BOOLEAN]

VARIABLES
  active,   \* active_model
  router,   \* cfg.openrouter and active_openrouter_model
  modelField,    \* duo_chat_model_support: what the session's provider knows
  duoModel, \* whether active_duo_model is set
  network,  \* the environment's proxy and the routes that reach the host
  route,    \* SESSION_RESULT, or "none" before the first probe
  dialogue, \* conv.messages
  stage,    \* "idle", "asked" or "waiting"
  question, \* the question in hand
  failed,   \* the question that failed last, or 0
  tries,    \* attempts so far
  request   \* what OpenRouter is sent: the messages and the place of the model

modelsVars == <<active, router, modelField, duoModel, network, route, dialogue, stage,
                question, failed, tries, request>>
settingVars == <<active, router, modelField, duoModel, network, route>>

ModelsTypeOK ==
  /\ active \in ModelNames
  /\ router \in [key : BOOLEAN, models : 0 .. 2, rotate : BOOLEAN, pinned : BOOLEAN]
  /\ modelField \in {"unknown", "accepted", "rejected"} /\ duoModel \in BOOLEAN
  /\ network \in Networks /\ route \in Routes \cup {"none"}
  /\ \A i \in DOMAIN dialogue : dialogue[i] \in Messages
  /\ stage \in {"idle", "asked", "waiting"} /\ {question, failed} \subseteq 0 .. MaxQuestions
  /\ tries \in 0 .. MaxTries
  /\ \A i \in DOMAIN request.messages : request.messages[i] \in Messages
  /\ request.model \in 0 .. 2

NoCall == [messages |-> << >>, model |-> 0]

ModelsInit ==
  /\ active = "duo"
  /\ \E r \in Routers : router = [key |-> r.key, models |-> r.models,
                                 rotate |-> FALSE, pinned |-> FALSE]
  /\ modelField = "unknown" /\ duoModel = FALSE
  /\ network \in Networks /\ route = "none"
  /\ dialogue = << >> /\ stage = "idle" /\ question = 0 /\ failed = 0 /\ tries = 0
  /\ request = NoCall

-----------------------------------------------------------------------------
(* Choosing.                                                               *)

Choosing == stage = "idle" /\ UNCHANGED <<network, dialogue, stage, question, failed,
                                          tries, request>>

\* /model, and the window's menu.
ChooseModel(m) == Choosing /\ active' = m /\ UNCHANGED <<router, modelField, duoModel, route>>

\* /openrouter-model set, clear and rotate.
PinModel(on) ==
  /\ Choosing /\ router' = [router EXCEPT !.pinned = on]
  /\ UNCHANGED <<active, modelField, duoModel, route>>
ToggleRotation ==
  /\ Choosing /\ router' = [router EXCEPT !.rotate = ~ @]
  /\ UNCHANGED <<active, modelField, duoModel, route>>

\* /duo-model: the modelField is probed once, unless `probe` asks for it again.
ProbeField(again) ==
  /\ Choosing
  /\ modelField' \in IF modelField = "unknown" \/ again THEN {"accepted", "rejected"} ELSE {modelField}
  /\ UNCHANGED <<active, router, duoModel, route>>
SetDuoModel == Choosing /\ modelField = "accepted" /\ duoModel' = TRUE
               /\ UNCHANGED <<active, router, modelField, route>>
ClearDuoModel == Choosing /\ duoModel' = FALSE /\ UNCHANGED <<active, router, modelField, route>>

\* ProxyProbe.probe: the environment's proxy, no proxy, the network's own; the
\* first that reaches the host, and if none does what the environment says.
Works(strategy) == strategy \in network.reached /\ (strategy = "env" => network.env)
BestRoute ==
  IF Works("env") THEN "env"
  ELSE IF Works("direct") THEN "direct"
  ELSE IF Works("wpad") THEN "wpad"
  ELSE IF network.env THEN "env" ELSE "direct"

\* The provider of the session is made: at its start, after /setup and after a
\* sign-in.  The route of the first time is kept.
MakeProvider ==
  /\ Choosing /\ route' = IF route = "none" THEN BestRoute ELSE route
  /\ modelField' = "unknown"
  /\ UNCHANGED <<active, router, duoModel>>

\* /new and /clear.
NewDialogue ==
  /\ stage = "idle" /\ dialogue' = << >> /\ failed' = 0
  /\ UNCHANGED <<settingVars, stage, question, tries, request>>

-----------------------------------------------------------------------------
(* A turn.                                                                 *)

NewQuestion == question + 1
AskQuestion(n) ==
  /\ stage = "idle" /\ tries < MaxTries /\ n <= MaxQuestions
  /\ stage' = "asked" /\ question' = n /\ failed' = 0 /\ tries' = tries + 1
  /\ UNCHANGED <<settingVars, dialogue, request>>
AskNew == AskQuestion(NewQuestion)
AskAgain == failed # 0 /\ failed = question /\ AskQuestion(failed)

EndTurn == stage' = "idle" /\ UNCHANGED <<settingVars, question, tries>>

UserMessage == [role |-> "user", question |-> question, empty |-> FALSE]

\* The turn is recorded once it has an answer; an interrupted one may be empty.
Record(empty) ==
  /\ dialogue' = dialogue \o
       <<UserMessage, [role |-> "assistant", question |-> question, empty |-> empty]>>
  /\ UNCHANGED <<failed, request>> /\ EndTurn

\* Nothing is recorded of a turn that failed.
Forget == failed' = question /\ UNCHANGED <<dialogue, request>> /\ EndTurn

\* conversation_history_for_openrouter: the messages in their order, without
\* the empty ones.
NotEmpty == { i \in DOMAIN dialogue : ~ dialogue[i].empty }
InOrder(S) ==
  { p \in [1 .. Cardinality(S) -> S] : \A i, j \in DOMAIN p : i < j => p[i] < p[j] }
Told == { [i \in DOMAIN p |-> dialogue[p[i]]] : p \in InOrder(NotEmpty) }

\* select_model, of a provider that has made `calls` calls.
SelectModel(calls) == IF router.rotate /\ ~ router.pinned THEN (calls % router.models) + 1 ELSE 1

\* The session makes an OpenRouterProvider for every turn, so it has made none.
Unavailable == ~ router.key \/ (router.models = 0 /\ ~ router.pinned)
RefuseTurn == stage = "asked" /\ active = "openrouter" /\ Unavailable /\ Forget

ToOpenRouter == stage = "asked" /\ active = "openrouter" /\ ~ Unavailable
Call == { [messages |-> Append(told, UserMessage), model |-> SelectModel(0)] : told \in Told }

\* Changed: the question is put into the conversation before it is sent.
SendRecorded ==
  /\ ToOpenRouter /\ request' \in Call /\ stage' = "waiting"
  /\ dialogue' = Append(dialogue, UserMessage)
  /\ UNCHANGED <<settingVars, question, failed, tries>>

SendCall ==
  /\ ToOpenRouter /\ request' \in Call /\ stage' = "waiting"
  /\ UNCHANGED <<settingVars, dialogue, question, failed, tries>>

\* The stream ends, perhaps without a text.
CallAnswered(empty) == stage = "waiting" /\ Record(empty)

\* It fails before or in the middle: what has arrived is not kept.
CallFails == stage = "waiting" /\ Forget

ElizaAnswers == stage = "asked" /\ active = "eliza" /\ Record(FALSE)

\* Duo answers, or is interrupted; or its attempts fail and the user aborts, as
\* they do when a model was chosen that the host does not accept.
DuoAnswers(empty) == stage = "asked" /\ active = "duo" /\ Record(empty)
DuoFails == stage = "asked" /\ active = "duo" /\ Forget

ModelsNext ==
  \/ \E m \in ModelNames : ChooseModel(m)
  \/ \E on \in BOOLEAN : PinModel(on) \/ ProbeField(on)
  \/ ToggleRotation \/ SetDuoModel \/ ClearDuoModel \/ MakeProvider \/ NewDialogue
  \/ AskNew \/ AskAgain \/ RefuseTurn \/ SendCall \/ CallFails \/ ElizaAnswers \/ DuoFails
  \/ \E empty \in BOOLEAN : CallAnswered(empty) \/ DuoAnswers(empty)

-----------------------------------------------------------------------------
Asked(s) == { i \in DOMAIN s : s[i].role = "user" }

\* OpenRouter is sent every question of the conversation once, in the order they
\* were asked and each with its answer, and the new one last: also after turns
\* that failed and were asked again, were interrupted, or went to another model
\* (conversation_history_for_openrouter, send_chat_turn).
QuestionsOnce ==
  stage = "waiting" =>
    LET told == request.messages
    IN /\ Last(told).role = "user" /\ Last(told).question = question
       /\ \A i, j \in Asked(told) : i < j => told[i].question < told[j].question
       /\ { told[i].question : i \in Asked(told) }
            = { dialogue[i].question : i \in Asked(dialogue) } \cup {question}
       /\ \A i \in Asked(dialogue) : dialogue[i].question # question
       /\ \A i \in DOMAIN told : told[i].role = "assistant" =>
            i > 1 /\ told[i-1].role = "user" /\ told[i-1].question = told[i].question
=============================================================================

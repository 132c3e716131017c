----------------------------- MODULE MCServices -----------------------------
(***************************************************************************)
(* The parts of the program that share no state are checked in one run: a  *)
(* behaviour is of one part, chosen at the start, and the others stay as   *)
(* they are.                                                               *)
(***************************************************************************)
EXTENDS MCWsFrames, Services

MCRouters == {[key |-> FALSE, models |-> 2], [key |-> TRUE, models |-> 2]}
MCNetworks == {[env |-> TRUE, reached |-> {"wpad"}]}

VARIABLE scene

Scenes == {"frames", "sandbox", "signin", "lab", "jira", "packages", "headless", "page",
           "models", "bag", "schema", "log", "here", "browser"}
Alone(part) == scene = part /\ UNCHANGED scene

servicesVars == <<scene, vars, sandboxVars, signInVars, tabsVars, pkgVars, headlessVars,
                  pageVars, modelsVars, bagVars, schemaVars, errorVars, hereVars, browserVars>>

\* A part that does not act starts in one state.
ServicesInit ==
  /\ scene \in Scenes
  /\ Init
  /\ scene # "frames" => Len(frames) = 5 /\ frames[5].op = "text" /\ frames[1].len = 2
  /\ SandboxInit
  /\ scene # "sandbox" => host = "inline" /\ engine = "none"
  /\ SignInInit
  /\ scene # "signin" => secret = "gitlab" /\ ~given /\ ring
  /\ TabsInit /\ PkgCacheInit /\ HeadlessInit
  /\ scene # "headless" => row[2].there
  /\ WebPageInit
  /\ scene # "page" => order = <<"html2text">>
  /\ ModelsInit
  /\ scene # "models" => router.key
  /\ BagItInit /\ SchemaInit
  /\ scene # "schema" => base.version = NoVersion
  /\ ErrorLogInit
  /\ WriteHereInit
  /\ scene # "here" => place \in Repos /\ here = [off |-> FALSE, approve |-> FALSE, mode |-> TRUE]
  /\ BrowserInit

ServicesNext ==
  \/ /\ Alone("frames") /\ Next
     /\ UNCHANGED <<sandboxVars, signInVars, tabsVars, pkgVars, headlessVars, pageVars,
                   modelsVars, bagVars, schemaVars, errorVars, hereVars, browserVars>>
  \/ /\ Alone("sandbox") /\ SandboxNext
     /\ UNCHANGED <<vars, signInVars, tabsVars, pkgVars, headlessVars, pageVars,
                   modelsVars, bagVars, schemaVars, errorVars, hereVars, browserVars>>
  \/ /\ Alone("signin") /\ SignInNext
     /\ UNCHANGED <<vars, sandboxVars, tabsVars, pkgVars, headlessVars, pageVars,
                   modelsVars, bagVars, schemaVars, errorVars, hereVars, browserVars>>
  \/ /\ Alone("lab") /\ LabNext
     /\ UNCHANGED <<vars, sandboxVars, signInVars, jiraVars, pkgVars, headlessVars,
                   pageVars, modelsVars, bagVars, schemaVars, errorVars, hereVars, browserVars>>
  \/ /\ Alone("jira") /\ JiraNext
     /\ UNCHANGED <<vars, sandboxVars, signInVars, labVars, pkgVars, headlessVars,
                   pageVars, modelsVars, bagVars, schemaVars, errorVars, hereVars, browserVars>>
  \/ /\ Alone("packages") /\ PkgCacheNext
     /\ UNCHANGED <<vars, sandboxVars, signInVars, tabsVars, headlessVars, pageVars,
                   modelsVars, bagVars, schemaVars, errorVars, hereVars, browserVars>>
  \/ /\ Alone("headless") /\ HeadlessNext
     /\ UNCHANGED <<vars, sandboxVars, signInVars, tabsVars, pkgVars, pageVars,
                   modelsVars, bagVars, schemaVars, errorVars, hereVars, browserVars>>
  \/ /\ Alone("page") /\ WebPageNext
     /\ UNCHANGED <<vars, sandboxVars, signInVars, tabsVars, pkgVars, headlessVars,
                   modelsVars, bagVars, schemaVars, errorVars, hereVars, browserVars>>
  \/ /\ Alone("models") /\ ModelsNext
     /\ UNCHANGED <<vars, sandboxVars, signInVars, tabsVars, pkgVars, headlessVars,
                   pageVars, bagVars, schemaVars, errorVars, hereVars, browserVars>>
  \/ /\ Alone("bag") /\ BagItNext
     /\ UNCHANGED <<vars, sandboxVars, signInVars, tabsVars, pkgVars, headlessVars,
                   pageVars, modelsVars, schemaVars, errorVars, hereVars, browserVars>>
  \/ /\ Alone("schema") /\ SchemaNext
     /\ UNCHANGED <<vars, sandboxVars, signInVars, tabsVars, pkgVars, headlessVars,
                   pageVars, modelsVars, bagVars, errorVars, hereVars, browserVars>>
  \/ /\ Alone("log") /\ ErrorLogNext
     /\ UNCHANGED <<vars, sandboxVars, signInVars, tabsVars, pkgVars, headlessVars,
                   pageVars, modelsVars, bagVars, schemaVars, hereVars, browserVars>>
  \/ /\ Alone("here") /\ WriteHereNext
     /\ UNCHANGED <<vars, sandboxVars, signInVars, tabsVars, pkgVars, headlessVars,
                   pageVars, modelsVars, bagVars, schemaVars, errorVars, browserVars>>
  \/ /\ Alone("browser") /\ BrowserNext
     /\ UNCHANGED <<vars, sandboxVars, signInVars, tabsVars, pkgVars, headlessVars,
                   pageVars, modelsVars, bagVars, schemaVars, errorVars, hereVars>>

\* The fairness of the two parts that must end: the client of the socket runs,
\* the network delivers and an expired timeout is raised; the sandbox goes on.
ServicesFairness ==
  /\ WF_vars(scene = "frames" /\ Client)
  /\ WF_vars(scene = "frames" /\ Arrive)
  /\ WF_vars(scene = "frames" /\ RecvTimeout)
  /\ WF_sandboxVars(scene = "sandbox" /\ SandboxStep)

ServicesSpec == ServicesInit /\ [][ServicesNext]_servicesVars /\ ServicesFairness

-----------------------------------------------------------------------------
\* The variables of the part that acts have their types; the others stay as
\* they are.
ServicesTypeOK ==
  /\ scene = "frames" => TypeOK
  /\ scene = "sandbox" => SandboxTypeOK
  /\ scene = "signin" => SignInTypeOK
  /\ scene \in {"lab", "jira"} => TabsTypeOK
  /\ scene = "packages" => PkgCacheTypeOK
  /\ scene = "headless" => HeadlessTypeOK
  /\ scene = "page" => WebPageTypeOK
  /\ scene = "models" => ModelsTypeOK
  /\ scene = "bag" => BagItTypeOK
  /\ scene = "schema" => SchemaTypeOK
  /\ scene = "log" => ErrorLogTypeOK
  /\ scene = "here" => WriteHereTypeOK
  /\ scene = "browser" => BrowserTypeOK

\* The caller of recv() gets every message and, again and again, control; the
\* caller of the sandbox gets an answer even when the code never ends, or when
\* its output fills the pipe that nobody reads yet.
\* recv (src/tuochat/provider/websocket.py), run_in_worker
\* (src/tuochat/sandbox/worker.py).
WaitsEnd == []<>(/\ scene = "frames" => AllRead
                 /\ scene = "sandbox" => answer # << >>)
=============================================================================

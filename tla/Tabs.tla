-------------------------------- MODULE Tabs --------------------------------
(***************************************************************************)
(* The GitLab and Jira tabs of the window.  Lists are fetched on threads   *)
(* of their own, which put them into the tab and post a callback to the    *)
(* main thread, which shows them; meanwhile the user goes on choosing.     *)
(*                                                                         *)
(* A list stands for the project it is of, an issue too; 0 is none.        *)
(***************************************************************************)
EXTENDS Integers, Sequences

CONSTANTS
  Projects, \* projects the user chooses among
  MaxJobs   \* bound: Jira's threads and callbacks under way, GitLab's callbacks

ASSUME TabsAssumption == Projects \subseteq Nat \ {0} /\ MaxJobs \in Nat

None == 0
Some == Projects \cup {None}
Lists3 == {"mrs", "issues", "pipelines"}

VARIABLES
  lab,     \* GitLab tab: [project, loading, held, shown], lists in memory and on the screen
  fetch,   \* its thread: [pc, of, done], done the lists it has put into the tab
  posts,   \* its callbacks that have not run
  sent,    \* the merge request attached: [shown, from, quiet]
  jira,    \* Jira tab: [client, listed, loading, picked, held, shown, chosen, preview]
  jobs,    \* its threads and callbacks under way, in the order they were started
  crossed  \* history: a project was picked while issues were on their way

labVars == <<lab, fetch, posts, sent>>
jiraVars == <<jira, jobs, crossed>>
tabsVars == <<labVars, jiraVars>>

JobKinds == {"connect", "projects", "issues", "preview", "attach"}

TabsTypeOK ==
  /\ lab \in [project : Some, loading : BOOLEAN, held : [Lists3 -> Some], shown : [Lists3 -> Some]]
  /\ fetch \in [pc : {"none", "asking", "posted"}, of : Some, done : SUBSET Lists3]
  /\ posts \in Nat /\ sent \in [shown : Some, from : Some, quiet : BOOLEAN]
  /\ jira \in [client : BOOLEAN, listed : BOOLEAN, loading : BOOLEAN, picked : Some, held : Some, shown : Some,
               chosen : Some, preview : Some]
  /\ jobs \in Seq([kind : JobKinds, of : Some, posted : BOOLEAN, ok : BOOLEAN])
  /\ crossed \in BOOLEAN

Nothing == [l \in Lists3 |-> None]
TabsInit ==
  /\ lab = [project |-> None, loading |-> FALSE, held |-> Nothing, shown |-> Nothing]
  /\ fetch = [pc |-> "none", of |-> None, done |-> {}]
  /\ posts = 0 /\ sent = [shown |-> None, from |-> None, quiet |-> TRUE]
  /\ jira = [client |-> FALSE, listed |-> FALSE, loading |-> FALSE, picked |-> None, held |-> None,
             shown |-> None, chosen |-> None, preview |-> None]
  /\ jobs = << >> /\ crossed = FALSE

-----------------------------------------------------------------------------
(* GitLab: one thread at a time.                                           *)

LabIdle == fetch.pc = "none" /\ posts = 0

\* refresh_data does nothing while a fetch is under way.
Refreshed(p) ==
  IF lab.loading THEN lab' = [lab EXCEPT !.project = p] /\ UNCHANGED fetch
  ELSE /\ lab' = [lab EXCEPT !.project = p, !.loading = TRUE]
       /\ fetch' = [pc |-> "asking", of |-> None, done |-> {}]

LoadProject(p) == Refreshed(p) /\ UNCHANGED <<posts, sent>>
RefreshTab == lab.project # None /\ ~lab.loading /\ Refreshed(lab.project) /\ UNCHANGED <<posts, sent>>

\* The thread reads the project, asks for the three lists, and only then puts
\* them into the tab, one after the other.
ReadProject ==
  /\ fetch.pc = "asking" /\ fetch.of = None /\ fetch' = [fetch EXCEPT !.of = lab.project]
  /\ UNCHANGED <<lab, posts, sent>>

\* Changed: the project is read again for every list.
HoldNow(l) ==
  /\ fetch.pc = "asking" /\ fetch.of # None /\ l \notin fetch.done
  /\ fetch' = [fetch EXCEPT !.done = @ \cup {l}] /\ lab' = [lab EXCEPT !.held[l] = lab.project]
  /\ UNCHANGED <<posts, sent>>

Hold(l) ==
  /\ fetch.pc = "asking" /\ fetch.of # None /\ l \notin fetch.done
  /\ fetch' = [fetch EXCEPT !.done = @ \cup {l}] /\ lab' = [lab EXCEPT !.held[l] = fetch.of]
  /\ UNCHANGED <<posts, sent>>

PostLists ==
  /\ fetch.pc = "asking" /\ fetch.done = Lists3 /\ posts < MaxJobs
  /\ fetch' = [fetch EXCEPT !.pc = "posted"] /\ posts' = posts + 1 /\ UNCHANGED <<lab, sent>>
FetchFails ==
  /\ fetch.pc = "asking" /\ fetch.done = {} /\ fetch' = [fetch EXCEPT !.pc = "posted"]
  /\ UNCHANGED <<lab, posts, sent>>
FetchEnds ==
  /\ fetch.pc = "posted" /\ fetch' = [pc |-> "none", of |-> None, done |-> {}]
  /\ lab' = [lab EXCEPT !.loading = FALSE] /\ UNCHANGED <<posts, sent>>

\* populate_ui shows what the tab holds by then.
Populate ==
  /\ posts > 0 /\ posts' = posts - 1 /\ lab' = [lab EXCEPT !.shown = lab.held]
  /\ UNCHANGED <<fetch, sent>>

\* attach_mr_to_context and attach_issue_to_context look the selected row up
\* in the list the tab holds.
AttachMr ==
  /\ lab.shown["mrs"] # None
  /\ sent' = [shown |-> lab.shown["mrs"], from |-> lab.held["mrs"], quiet |-> LabIdle]
  /\ UNCHANGED <<lab, fetch, posts>>

LabNext ==
  \/ (\E p \in Projects : LoadProject(p)) \/ RefreshTab \/ ReadProject
  \/ (\E l \in Lists3 : Hold(l)) \/ PostLists \/ FetchFails \/ FetchEnds
  \/ Populate \/ AttachMr

-----------------------------------------------------------------------------
(* Jira: a thread for every question.                                      *)

Job(kind, p) == [kind |-> kind, of |-> p, posted |-> FALSE, ok |-> FALSE]
Started(kind, p) == jobs' = Append(jobs, Job(kind, p))
Room == Len(jobs) < MaxJobs
Underway(kind) == \E i \in DOMAIN jobs : jobs[i].kind = kind
Dropped(i) == [k \in 1 .. Len(jobs) - 1 |-> jobs[IF k < i THEN k ELSE k + 1]]

Connect ==
  /\ ~jira.loading /\ Room /\ ~Underway("connect") /\ Started("connect", None)
  /\ jira' = [jira EXCEPT !.loading = TRUE] /\ UNCHANGED crossed

\* A thread has its answer, leaves it in the tab and posts its callback.
JobAnswered(i, kind, ok) ==
  /\ jobs[i].kind = kind /\ ~jobs[i].posted
  /\ jobs' = [jobs EXCEPT ![i].posted = TRUE, ![i].ok = ok] /\ UNCHANGED crossed

DoConnect(i, ok) ==
  JobAnswered(i, "connect", ok) /\ jira' = [jira EXCEPT !.client = @ \/ ok, !.loading = FALSE]
DoFetchProjects(i, ok) ==
  JobAnswered(i, "projects", ok) /\ jira' = [jira EXCEPT !.loading = FALSE]
DoFetchIssues(i, ok) ==
  /\ JobAnswered(i, "issues", ok)
  /\ jira' = [jira EXCEPT !.held = IF ok THEN jobs[i].of ELSE @, !.loading = FALSE]
DoLoadPreview(i, ok) == JobAnswered(i, "preview", ok) /\ UNCHANGED jira
DoAttach(i, ok) == JobAnswered(i, "attach", ok) /\ UNCHANGED jira

\* Callbacks run in any order of the threads.  Those of an
\* attachment and most errors only tell.
Called(i, kind) == jobs[i].kind = kind /\ jobs[i].posted /\ UNCHANGED crossed

OnConnected(i) ==
  /\ Called(i, "connect")
  /\ IF jobs[i].ok
     THEN jobs' = Append(Dropped(i), Job("projects", None)) /\ jira' = [jira EXCEPT !.loading = TRUE]
     ELSE jobs' = Dropped(i) /\ UNCHANGED jira

\* A tree that is filled again has nothing selected.
PopulateIssues(i) ==
  /\ Called(i, "issues") /\ jobs' = Dropped(i)
  /\ jira' = IF jobs[i].ok THEN [jira EXCEPT !.shown = jira.held, !.chosen = None] ELSE jira

SetPreview(i) ==
  /\ Called(i, "preview") /\ jobs' = Dropped(i)
  /\ jira' = [jira EXCEPT !.preview = IF jobs[i].ok THEN jobs[i].of ELSE None]

PopulateProjects(i) ==
  Called(i, "projects") /\ jobs' = Dropped(i) /\ jira' = [jira EXCEPT !.listed = @ \/ jobs[i].ok]
FinishAttach(i) == Called(i, "attach") /\ jobs' = Dropped(i) /\ UNCHANGED jira

IssuesAsked(p) == IF jira.client THEN Started("issues", p) ELSE UNCHANGED jobs

\* Changed: the issues of the project before stay until the new ones arrive.
PickProjectKeeping(p) ==
  /\ jira.listed /\ p # jira.picked /\ Room
  /\ jira' = [jira EXCEPT !.picked = p, !.loading = jira.client \/ @]
  /\ crossed' = (Underway("issues") \/ (crossed /\ jira.shown # None))
  /\ IssuesAsked(p)

\* on_project_select: the same project is not asked for again.
PickProject(p) ==
  /\ jira.listed /\ p # jira.picked /\ Room
  /\ jira' = [jira EXCEPT !.picked = p, !.held = None, !.shown = None, !.chosen = None,
                          !.preview = None, !.loading = jira.client \/ @]
  /\ crossed' = Underway("issues")
  /\ IssuesAsked(p)

FilterIssues == jira' = [jira EXCEPT !.shown = jira.held, !.chosen = None] /\ UNCHANGED <<jobs, crossed>>

PickIssue ==
  /\ jira.shown # None /\ jira.client /\ Room /\ Started("preview", jira.shown)
  /\ jira' = [jira EXCEPT !.chosen = jira.shown, !.preview = None] /\ UNCHANGED crossed
AttachIssue ==
  /\ jira.chosen # None /\ Room /\ Started("attach", jira.chosen) /\ UNCHANGED <<jira, crossed>>

JiraNext ==
  \/ Connect \/ (\E p \in Projects : PickProject(p)) \/ FilterIssues \/ PickIssue \/ AttachIssue
  \/ \E i \in DOMAIN jobs :
       \/ OnConnected(i) \/ PopulateProjects(i) \/ PopulateIssues(i) \/ SetPreview(i) \/ FinishAttach(i)
       \/ \E ok \in BOOLEAN :
            \/ DoConnect(i, ok) \/ DoFetchProjects(i, ok) \/ DoFetchIssues(i, ok)
            \/ DoLoadPreview(i, ok) \/ DoAttach(i, ok)

-----------------------------------------------------------------------------
(* Properties.                                                             *)

\* Once the GitLab tab is quiet its three lists are of one project, and what
\* is attached then is what is shown, whatever was chosen, refreshed or failed
\* meanwhile; the Jira tab never shows issues of a project other than the one
\* picked, unless that was picked while issues were still on their way.
\* GitLabTab.fetch_data (src/tuochat/gui/gitlab_tab.py),
\* JiraTab.on_project_select (src/tuochat/gui/jira_tab.py).
TabsAgree ==
  /\ LabIdle => \A l, m \in Lists3 : lab.shown[l] = lab.shown[m]
  /\ sent.quiet => sent.shown = sent.from
  /\ ~crossed => jira.shown \in {None, jira.picked}
=============================================================================

------------------------------ MODULE PkgCache ------------------------------
(***************************************************************************)
(* tuochat's own package management: one JSON file of what PyPI last said, *)
(* of the suggestions the user does not want for a while, and of the last  *)
(* audit.  Every change loads the file, edits the copy and replaces the    *)
(* file; a refresh fetches between the two, in a thread that the end of    *)
(* the program stops, and several programs may be at it.                   *)
(*                                                                         *)
(* Versions are numbered in the order they are published, 0 is none; time  *)
(* is counted in days, the time an entry is fresh.                         *)
(***************************************************************************)
EXTENDS Integers

CONSTANTS
  Packages,    \* the program and what it depends on
  Updaters,    \* the threads and programs that use the file
  MaxVersion,  \* bound: versions published
  MaxDay       \* bound: days that pass

ASSUME PkgCacheAssumption == MaxVersion \in Nat \ {0} /\ MaxDay \in Nat \ {0}

Versions == 0 .. MaxVersion
Days == 0 .. MaxDay + 1
Newer == 2 .. MaxVersion  \* the first is installed
CacheFiles == [latest : [Packages -> Versions], fetched : [Packages -> Days],
               quiet : [Newer -> Days], audited : BOOLEAN]
NoCache == [latest |-> [p \in Packages |-> 0], fetched |-> [p \in Packages |-> 0],
            quiet |-> [v \in Newer |-> 0], audited |-> FALSE]
Resting == [pc |-> "idle", job |-> "none", names |-> {}, got |-> {}, target |-> 0, copy |-> NoCache]

VARIABLES
  pypi,     \* the version PyPI has of each package
  today,
  sidecar,  \* the file
  updater,  \* [Updaters -> what each is doing]
  behind    \* history: those whose copy is of an older file

pkgVars == <<pypi, today, sidecar, updater, behind>>

PkgCacheTypeOK ==
  /\ pypi \in [Packages -> Versions \ {0}] /\ today \in 1 .. MaxDay
  /\ sidecar \in CacheFiles
  /\ updater \in [Updaters -> [pc : {"idle", "due", "fetching", "auditing", "saving", "written"},
                               job : {"none", "refresh", "snooze", "clear", "audit"},
                               names : SUBSET Packages, got : SUBSET Packages,
                               target : Versions, copy : CacheFiles]]
  /\ behind \subseteq Updaters

PkgCacheInit ==
  /\ pypi = [p \in Packages |-> 1] /\ today = 1
  /\ sidecar = NoCache /\ updater = [u \in Updaters |-> Resting] /\ behind = {}

-----------------------------------------------------------------------------
(* The cache.                                                              *)

IsFresh(f, p) == f.latest[p] # 0 /\ today - f.fetched[p] < 1
IsSnoozed(f, v) == today < f.quiet[v]
PutPackage(f, p, v) == [f EXCEPT !.latest[p] = v, !.fetched[p] = today]
Snoozed(f, v) == [f EXCEPT !.quiet[v] = today + 1]
Audited(f) == [f EXCEPT !.audited = TRUE]
\* build_version_info.
Offered(f, p) == f.latest[p] \in Newer /\ ~IsSnoozed(f, f.latest[p])

Does(u, how) == updater' = [updater EXCEPT ![u] = how]
FileStays == UNCHANGED <<pypi, today, sidecar>>
\* Cache.load, then the edit.
Loads(u, job, copy) ==
  /\ Does(u, [updater[u] EXCEPT !.pc = "saving", !.job = job, !.copy = copy])
  /\ behind' = behind \ {u} /\ FileStays

-----------------------------------------------------------------------------
(* check_for_updates and refresh_pypi.                                     *)

\* At the start of the program what is stale is refreshed by a thread.
CheckAtStart(u) ==
  LET stale == { p \in Packages : ~IsFresh(sidecar, p) } IN
  /\ updater[u].pc = "idle" /\ stale # {}
  /\ Does(u, [Resting EXCEPT !.pc = "due", !.job = "refresh", !.names = stale])
  /\ UNCHANGED behind /\ FileStays

CheckAtEnd(u) ==
  /\ updater[u].pc = "idle"
  /\ Does(u, [Resting EXCEPT !.pc = "due", !.job = "refresh", !.names = Packages])
  /\ UNCHANGED behind /\ FileStays

\* Changed: the refresh starts from an empty cache and saves what it fetched.
RefreshAnew(u) ==
  /\ updater[u].pc = "due"
  /\ Does(u, [updater[u] EXCEPT !.pc = "fetching"])
  /\ behind' = behind \ {u} /\ FileStays

\* The refresh reads the file again, and skips what another has refreshed.
RefreshLoads(u) ==
  /\ updater[u].pc = "due"
  /\ Does(u, [updater[u] EXCEPT !.pc = "fetching", !.copy = sidecar,
                !.names = { p \in updater[u].names : ~IsFresh(sidecar, p) }])
  /\ behind' = behind \ {u} /\ FileStays

\* Each package in turn; one that fails is left as it was.
FetchOne(u, p, reached) ==
  LET m == updater[u] IN
  /\ m.pc = "fetching" /\ p \in m.names
  /\ Does(u, IF reached THEN [m EXCEPT !.names = @ \ {p}, !.got = @ \cup {p},
                                      !.copy = PutPackage(@, p, pypi[p])]
             ELSE [m EXCEPT !.names = @ \ {p}])
  /\ UNCHANGED behind /\ FileStays

\* Nothing is saved when nothing was fetched.
RefreshEnds(u) ==
  LET m == updater[u] IN
  /\ m.pc = "fetching" /\ m.names = {}
  /\ Does(u, IF m.got = {} THEN Resting ELSE [m EXCEPT !.pc = "saving"])
  /\ UNCHANGED behind /\ FileStays

-----------------------------------------------------------------------------
(* snooze, clear_cache, run_audit.                                         *)

Snooze(u, v) ==
  /\ updater[u].pc = "idle"
  /\ Does(u, [Resting EXCEPT !.pc = "saving", !.job = "snooze", !.target = v,
                             !.copy = Snoozed(sidecar, v)])
  /\ behind' = behind \ {u} /\ FileStays

ClearCache(u) == updater[u].pc = "idle" /\ Loads(u, "clear", NoCache)

\* Only when there is something to upgrade to, or with --force.
RunAudit(u, force) ==
  /\ updater[u].pc = "idle" /\ (force \/ \E p \in Packages : Offered(sidecar, p))
  /\ Does(u, [Resting EXCEPT !.pc = "auditing"])
  /\ UNCHANGED behind /\ FileStays

\* The first of uv, pip-audit and safety that is there and runs; the file is
\* read when it has ended.
AuditEnds(u, found) ==
  /\ updater[u].pc = "auditing"
  /\ IF found THEN Loads(u, "audit", Audited(sidecar))
     ELSE Does(u, Resting) /\ UNCHANGED behind /\ FileStays

-----------------------------------------------------------------------------
(* Cache.save.                                                             *)

\* Into a temporary file.  An error removes it.
WriteSidecar(u) ==
  /\ updater[u].pc = "saving"
  /\ \/ Does(u, [updater[u] EXCEPT !.pc = "written"])
     \/ Does(u, Resting)
  /\ UNCHANGED behind /\ FileStays

\* What a change makes of a file.
Applied(m, f) ==
  CASE m.job = "refresh" ->
         [f EXCEPT !.latest = [p \in Packages |-> IF p \in m.got THEN m.copy.latest[p] ELSE @[p]],
                   !.fetched = [p \in Packages |-> IF p \in m.got THEN m.copy.fetched[p] ELSE @[p]]]
    [] m.job = "snooze" -> [f EXCEPT !.quiet[m.target] = m.copy.quiet[m.target]]
    [] m.job = "audit" -> Audited(f)
    [] OTHER -> NoCache

ReplaceSidecar(u) ==
  /\ updater[u].pc = "written"
  /\ sidecar' = updater[u].copy
  /\ behind' = { w \in Updaters : w # u /\ updater[w].pc \in {"fetching", "saving", "written"} }
  /\ Does(u, Resting) /\ UNCHANGED <<pypi, today>>

\* The program ends: its thread with it, wherever it is.
ProgramEnds(u) ==
  /\ updater[u].pc # "idle" /\ Does(u, Resting)
  /\ behind' = behind \ {u} /\ FileStays

-----------------------------------------------------------------------------
(* PyPI and the time.                                                      *)

Publish(p) ==
  /\ pypi[p] < MaxVersion /\ pypi' = [pypi EXCEPT ![p] = @ + 1]
  /\ UNCHANGED <<today, sidecar, updater, behind>>
NextDay == today < MaxDay /\ today' = today + 1
           /\ UNCHANGED <<pypi, sidecar, updater, behind>>

PkgCacheNext ==
  \/ \E u \in Updaters :
       \/ CheckAtStart(u) \/ CheckAtEnd(u) \/ RefreshLoads(u)
       \/ \E p \in Packages, reached \in BOOLEAN : FetchOne(u, p, reached)
       \/ RefreshEnds(u) \/ \E v \in Newer : Snooze(u, v)
       \/ ClearCache(u) \/ \E force \in BOOLEAN : RunAudit(u, force)
       \/ \E found \in BOOLEAN : AuditEnds(u, found)
       \/ WriteSidecar(u) \/ ReplaceSidecar(u) \/ ProgramEnds(u)
  \/ \E p \in Packages : Publish(p)
  \/ NextDay

-----------------------------------------------------------------------------
(* Properties.                                                             *)

\* A change that is saved is the only one made, and is made to the file as it
\* is, whichever programs and threads worked on it before and wherever they
\* were stopped; unless another has replaced the file since the one that saves
\* has read it: then the change made meanwhile is undone.
\* refresh_pypi, snooze, run_audit (src/tuochat/self_pkg_mgmt/api.py),
\* Cache.save (src/tuochat/self_pkg_mgmt/cache.py).
ChangesStand ==
  [][ sidecar' # sidecar =>
        \E u \in Updaters : updater[u].pc = "written" /\ updater'[u].pc = "idle"
                            /\ (u \notin behind => sidecar' = Applied(updater[u], sidecar)) ]_pkgVars
=============================================================================

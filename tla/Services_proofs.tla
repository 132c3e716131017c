--------------------------- MODULE Services_proofs ---------------------------
(***************************************************************************)
(* The parts that share no state with a chat, each by itself: signing in,  *)
(* the cache of packages, the sandbox, the Context Browser and the tabs of *)
(* GitLab and Jira, the commands of one turn, web pages, the models behind *)
(* OpenRouter, and the frames of the WebSocket.                            *)
(***************************************************************************)
EXTENDS Services, WsFrames, FiniteSetTheorems, SequenceTheorems,
        WellFoundedInduction, TLAPS

-----------------------------------------------------------------------------
(* Signing in: the token used next is the one obtained last.               *)

SignInSpec == SignInInit /\ [][SignInNext]_signInVars

\* What the file and the keyring's entry name, whether the keyring can be
\* reached at the moment or not.
Found == IF kept # 0 THEN kept ELSE entry.token
FoundIsLatest == ~astray => Found = latest

SignInInv == /\ SignInTypeOK
        /\ FoundIsLatest

LEMMA NextToken ==
  ASSUME minted \in 0 .. MaxTokens, minted < MaxTokens
  PROVE  minted + 1 \in Tokens /\ minted + 1 \in 0 .. MaxTokens /\ minted + 1 # 0
BY SignInAssumption DEF Tokens, Given

\* A token that was obtained is stored where it is found.
LEMMA SignedInKeeps ==
  ASSUME SignInInv, NEW oauth \in BOOLEAN, SignedIn(oauth)
  PROVE  /\ entry' \in [token : Tokens, oauth : BOOLEAN] /\ kept' \in Tokens /\ latest' \in Tokens
         /\ minted' \in 0 .. MaxTokens /\ astray' \in BOOLEAN
         /\ UNCHANGED <<secret, given, ring, copy>> /\ FoundIsLatest'
<1>1. minted + 1 \in Tokens /\ minted + 1 \in 0 .. MaxTokens /\ minted + 1 # 0
  BY NextToken DEF SignInInv, SignInTypeOK, SignedIn
<1>2. minted' = minted + 1 /\ latest' = minted + 1 /\ astray' = FALSE
  BY DEF SignedIn
<1>3. PICK inRing \in InRing : StoreSecret(minted + 1, oauth, inRing)
  BY DEF SignedIn
<1>4. 0 \in Tokens
  BY SignInAssumption DEF Tokens, Given
<1>5. CASE inRing
  <2>1. entry' = [token |-> minted + 1, oauth |-> oauth] /\ kept' = 0
    BY <1>3, <1>5 DEF StoreSecret
  <2> QED
    BY <1>1, <1>2, <1>4, <2>1 DEF SignedIn, FoundIsLatest, Found
<1>6. CASE ~inRing
  <2>1. entry' = entry /\ kept' = minted + 1
    BY <1>3, <1>6 DEF StoreSecret
  <2> QED
    BY <1>1, <1>2, <2>1 DEF SignedIn, FoundIsLatest, Found, SignInInv, SignInTypeOK
<1> QED
  BY <1>5, <1>6

LEMMA InitSignIn == SignInInit => SignInInv
<1> SUFFICES ASSUME SignInInit PROVE SignInInv
  OBVIOUS
<1>1. 0 \in Tokens /\ 0 \in 0 .. MaxTokens /\ 0 \in 0 .. MaxAttempts
  BY SignInAssumption DEF Tokens, Given
<1> QED
  BY <1>1 DEF SignInInit, SignInInv, SignInTypeOK, NoEntry, FoundIsLatest, Found

LEMMA NextSignIn == SignInInv /\ [SignInNext]_signInVars => SignInInv'
<1> SUFFICES ASSUME SignInInv, [SignInNext]_signInVars PROVE SignInInv'
  OBVIOUS
<1> USE DEF SignInInv
<1>0. 0 \in Tokens /\ Given \in Tokens
  BY SignInAssumption DEF Tokens, Given
<1>1. CASE TypeToken
  BY <1>1, SignedInKeeps DEF TypeToken, SignInTypeOK
<1>2. CASE TypeKey
  BY <1>2, SignedInKeeps DEF TypeKey, SignInTypeOK
<1>3. CASE Exchange
  <2>1. flow' \in [pc : {"idle", "listening", "called", "exchanging"}, n : 0 .. MaxAttempts,
                   from : 0 .. MaxAttempts, code : BOOLEAN]
    BY <1>3 DEF Exchange, SignInTypeOK
  <2> QED
    BY <1>3, <2>1, SignedInKeeps DEF Exchange, SignInTypeOK
<1>4. CASE RefreshToken
  <2>1. minted + 1 \in Tokens /\ minted + 1 \in 0 .. MaxTokens /\ minted + 1 # 0
    BY <1>4, NextToken DEF RefreshToken, SignInTypeOK
  <2>2. minted' = minted + 1 /\ latest' = minted + 1 /\ UNCHANGED <<secret, given, ring, copy, flow>>
    BY <1>4 DEF RefreshToken, Same
  <2>3. PICK inRing \in BOOLEAN :
          /\ entry' = IF inRing THEN [token |-> minted + 1, oauth |-> TRUE] ELSE entry
          /\ kept' = IF inRing THEN kept ELSE minted + 1
          /\ astray' = (inRing /\ kept # 0)
    BY <1>4 DEF RefreshToken
  <2>4. CASE inRing
    <3>1. entry' = [token |-> minted + 1, oauth |-> TRUE] /\ kept' = kept /\ astray' = (kept # 0)
      BY <2>3, <2>4
    <3> QED
      BY <2>1, <2>2, <3>1 DEF SignInTypeOK, FoundIsLatest, Found
  <2>5. CASE ~inRing
    <3>1. entry' = entry /\ kept' = minted + 1 /\ astray' = FALSE
      BY <2>3, <2>5
    <3> QED
      BY <2>1, <2>2, <3>1 DEF SignInTypeOK, FoundIsLatest, Found
  <2> QED
    BY <2>4, <2>5
<1>5. CASE Logout
  <2>1. entry' \in [token : Tokens, oauth : BOOLEAN]
    BY <1>0, <1>5 DEF Logout, Deleted, NoEntry, SignInTypeOK
  <2>2. astray' = (entry'.token # 0) /\ kept' = 0 /\ latest' = 0
        /\ UNCHANGED <<secret, given, ring, copy, minted, flow>>
    BY <1>5 DEF Logout, Same
  <2> QED
    BY <1>0, <2>1, <2>2 DEF SignInTypeOK, FoundIsLatest, Found
<1>6. CASE RingComesAndGoes
  BY <1>6 DEF RingComesAndGoes, Same, SignInTypeOK, FoundIsLatest, Found
<1>7. CASE OpenSession
  <2>1. copy' \in Tokens
    BY <1>0, <1>7 DEF OpenSession, Effective, FromRing, SignInTypeOK
  <2> QED
    BY <1>7, <2>1 DEF OpenSession, Same, SignInTypeOK, FoundIsLatest, Found
<1>8. CASE SaveSession
  <2>1. kept' = copy /\ copy # 0 /\ UNCHANGED <<secret, given, flow, ring, entry, copy, minted, latest>>
    BY <1>8 DEF SaveSession, Same
  <2>2. astray' = (astray \/ copy # latest)
    BY <1>8 DEF SaveSession
  <2> QED
    BY <2>1, <2>2 DEF SignInTypeOK, FoundIsLatest, Found
<1>9. CASE \/ OpenPage \/ GiveUp \/ CheckCallback \/ ExchangeFails
           \/ \E n \in 0 .. MaxAttempts, c \in BOOLEAN : Callback(n, c)
  <2>1. UNCHANGED <<secret, given, ring, entry, kept, copy, minted, latest, astray>>
    BY <1>9 DEF OpenPage, GiveUp, CheckCallback, ExchangeFails, Callback, FlowOnly
  <2> DEFINE Flows == [pc : {"idle", "listening", "called", "exchanging"}, n : 0 .. MaxAttempts,
                   from : 0 .. MaxAttempts, code : BOOLEAN]
  <2>2. flow \in Flows
    BY DEF SignInTypeOK
  <2>3. CASE OpenPage
    BY <2>1, <2>2, <2>3, SignInAssumption DEF OpenPage, SignInTypeOK, FoundIsLatest, Found
  <2>4. CASE GiveUp \/ ExchangeFails
    <3>1. flow' \in Flows
      BY <2>2, <2>4 DEF GiveUp, ExchangeFails
    <3> QED
      BY <2>1, <3>1 DEF SignInTypeOK, FoundIsLatest, Found
  <2>5. CASE CheckCallback
    <3>1. flow' = [flow EXCEPT !.pc = "exchanging"] \/ flow' = [flow EXCEPT !.pc = "idle"]
      BY <2>5 DEF CheckCallback
    <3>2. flow' \in Flows
      BY <2>2, <3>1
    <3> QED
      BY <2>1, <3>2 DEF SignInTypeOK, FoundIsLatest, Found
  <2>6. ASSUME NEW n \in 0 .. MaxAttempts, NEW c \in BOOLEAN, Callback(n, c) PROVE SignInInv'
    <3>1. flow' = [flow EXCEPT !.pc = "called", !.from = n, !.code = c]
      BY <2>6 DEF Callback
    <3>2. flow' \in Flows
      BY <2>2, <3>1
    <3> QED
      BY <2>1, <3>2 DEF SignInTypeOK, FoundIsLatest, Found
  <2> QED
    BY <1>9, <2>3, <2>4, <2>5, <2>6
<1>10. CASE UNCHANGED signInVars
  BY <1>10 DEF signInVars, SignInTypeOK, FoundIsLatest, Found
<1> QED
  BY <1>1, <1>2, <1>3, <1>4, <1>5, <1>6, <1>7, <1>8, <1>9, <1>10 DEF SignInNext

\* Wherever tokens are kept and in whatever order they are obtained, refreshed,
\* saved and deleted, the next session uses the one obtained last
\* (store_credentials, load_config).
THEOREM LatestIsUsed == SignInSpec => []SignedInIsUsed
<1>1. SignInInv => SignedInIsUsed
  BY DEF SignInInv, FoundIsLatest, Found, SignedInIsUsed, Effective, FromRing
<1> QED
  BY <1>1, InitSignIn, NextSignIn, PTL DEF SignInSpec
-----------------------------------------------------------------------------
(* The cache of packages: a change saved by one whose copy is not of an     *)
(* older file is the only one made.                                        *)

PkgCacheSpec == PkgCacheInit /\ [][PkgCacheNext]_pkgVars

Machines == [pc : {"idle", "due", "fetching", "auditing", "saving", "written"},
             job : {"none", "refresh", "snooze", "clear", "audit"},
             names : SUBSET Packages, got : SUBSET Packages,
             target : Versions, copy : CacheFiles]
PkgTyped ==
  /\ pypi \in [Packages -> Versions \ {0}] /\ today \in 1 .. MaxDay
  /\ sidecar \in CacheFiles /\ updater \in [Updaters -> Machines] /\ behind \subseteq Updaters

HasCopy(m) == m.pc \in {"fetching", "saving", "written"}
\* A refresh that has fetched nothing yet has changed nothing.
Began(m) == /\ m.pc \in {"due", "fetching"} => m.job = "refresh"
            /\ m.pc = "due" => m.got = {}
\* A copy that is not of an older file is the file with one change.
UpToDate(u) == HasCopy(updater[u]) /\ u \notin behind => updater[u].copy = Applied(updater[u], sidecar)

PkgInv == PkgTyped /\ \A u \in Updaters : Began(updater[u]) /\ UpToDate(u)

-----------------------------------------------------------------------------
(* The cache.                                                              *)

LEMMA RestingTyped == NoCache \in CacheFiles /\ Resting \in Machines /\ ~HasCopy(Resting) /\ Began(Resting)
<1>1. 0 \in Versions /\ 0 \in Days
  BY PkgCacheAssumption DEF Versions, Days
<1>2. NoCache \in CacheFiles
  BY <1>1 DEF NoCache, CacheFiles
<1> QED
  BY <1>1, <1>2 DEF Resting, Machines, HasCopy, Began

LEMMA FetchedTyped ==
  ASSUME PkgTyped, NEW f \in CacheFiles, NEW p \in Packages
  PROVE  PutPackage(f, p, pypi[p]) \in CacheFiles
<1>1. pypi[p] \in Versions /\ today \in Days
  BY PkgCacheAssumption DEF PkgTyped, Days
<1> QED
  BY <1>1 DEF PutPackage, CacheFiles

LEMMA SnoozedTyped ==
  ASSUME PkgTyped, NEW f \in CacheFiles, NEW v \in Newer
  PROVE  Snoozed(f, v) \in CacheFiles /\ v \in Versions
<1>1. today + 1 \in Days
  BY PkgCacheAssumption DEF PkgTyped, Days
<1>2. v \in Versions
  BY PkgCacheAssumption DEF Newer, Versions
<1>3. [f.quiet EXCEPT ![v] = today + 1] \in [Newer -> Days]
  BY <1>1 DEF CacheFiles
<1> QED
  BY <1>2, <1>3 DEF Snoozed, CacheFiles

\* A refresh applies to a file what it has got of its packages.
LEMMA RefreshApplied ==
  ASSUME NEW m \in Machines, m.job = "refresh", NEW f \in CacheFiles
  PROVE  Applied(m, f) =
           [latest |-> [p \in Packages |-> IF p \in m.got THEN m.copy.latest[p] ELSE f.latest[p]],
            fetched |-> [p \in Packages |-> IF p \in m.got THEN m.copy.fetched[p] ELSE f.fetched[p]],
            quiet |-> f.quiet, audited |-> f.audited]
BY DEF Applied, CacheFiles

\* With nothing got the file is as it was.
LEMMA NothingApplied ==
  ASSUME NEW m \in Machines, m.job = "refresh", m.got = {}, NEW f \in CacheFiles
  PROVE  Applied(m, f) = f
<1>1. /\ f.latest = [p \in Packages |-> f.latest[p]] /\ f.fetched = [p \in Packages |-> f.fetched[p]]
      /\ f = [latest |-> f.latest, fetched |-> f.fetched, quiet |-> f.quiet, audited |-> f.audited]
  BY DEF CacheFiles
<1>2. /\ [p \in Packages |-> IF p \in m.got THEN m.copy.latest[p] ELSE f.latest[p]] = f.latest
      /\ [p \in Packages |-> IF p \in m.got THEN m.copy.fetched[p] ELSE f.fetched[p]] = f.fetched
  BY <1>1
<1> QED
  BY <1>1, <1>2, RefreshApplied

\* One package more is got and put into the copy.
LEMMA OneMoreApplied ==
  ASSUME PkgTyped, NEW m \in Machines, m.job = "refresh", m.copy = Applied(m, sidecar),
         NEW q \in Packages, NEW n \in Machines, n.job = "refresh",
         n.got = m.got \cup {q}, n.copy = PutPackage(m.copy, q, pypi[q])
  PROVE  n.copy = Applied(n, sidecar)
<1> DEFINE f == sidecar
           new(m1) == [p \in Packages |-> IF p \in m1.got THEN m1.copy.latest[p] ELSE f.latest[p]]
           when(m1) == [p \in Packages |-> IF p \in m1.got THEN m1.copy.fetched[p] ELSE f.fetched[p]]
<1>0. f \in CacheFiles /\ m.copy \in CacheFiles /\ n.copy \in CacheFiles
  BY DEF PkgTyped, Machines
<1>1. /\ m.copy.latest = new(m) /\ m.copy.fetched = when(m)
      /\ m.copy.quiet = f.quiet /\ m.copy.audited = f.audited
  <2>1. m.copy = [latest |-> new(m), fetched |-> when(m), quiet |-> f.quiet, audited |-> f.audited]
    BY <1>0, RefreshApplied
  <2> HIDE DEF new, when
  <2> QED
    BY <2>1
<1>2. /\ n.copy.latest = [m.copy.latest EXCEPT ![q] = pypi[q]]
      /\ n.copy.fetched = [m.copy.fetched EXCEPT ![q] = today]
      /\ n.copy.quiet = f.quiet /\ n.copy.audited = f.audited
  BY <1>0, <1>1 DEF PutPackage, CacheFiles
<1>3. /\ n.copy.latest \in [Packages -> Versions] /\ n.copy.fetched \in [Packages -> Days]
      /\ n.copy = [latest |-> n.copy.latest, fetched |-> n.copy.fetched,
                   quiet |-> n.copy.quiet, audited |-> n.copy.audited]
  BY <1>0 DEF CacheFiles
<1>4. ASSUME NEW p \in Packages
      PROVE  n.copy.latest[p] = new(n)[p] /\ n.copy.fetched[p] = when(n)[p]
  <2>1. p \notin n.got => n.copy.latest[p] = m.copy.latest[p] /\ n.copy.fetched[p] = m.copy.fetched[p]
    BY <1>0, <1>2 DEF CacheFiles
  <2>2. p \notin n.got => m.copy.latest[p] = f.latest[p] /\ m.copy.fetched[p] = f.fetched[p]
    BY <1>1
  <2> QED
    BY <2>1, <2>2
<1>5. n.copy.latest = new(n) /\ n.copy.fetched = when(n)
  BY <1>3, <1>4
<1>6. Applied(n, f) = [latest |-> new(n), fetched |-> when(n), quiet |-> f.quiet, audited |-> f.audited]
  BY <1>0, RefreshApplied
<1> HIDE DEF new, when
<1> QED
  BY <1>2, <1>3, <1>5, <1>6

-----------------------------------------------------------------------------
(* The invariant.                                                          *)

\* A step of one that leaves the file alone.
LEMMA OneMoves ==
  ASSUME PkgInv, NEW u \in Updaters, NEW how \in Machines, Does(u, how), FileStays,
         behind' = behind \/ behind' = behind \ {u}, Began(how),
         HasCopy(how) /\ u \notin behind' => how.copy = Applied(how, sidecar)
  PROVE  PkgInv'
<1>1. PkgTyped'
  BY DEF PkgInv, PkgTyped, Does, FileStays
<1>2. updater'[u] = how /\ \A w \in Updaters \ {u} : updater'[w] = updater[w]
  BY DEF PkgInv, PkgTyped, Does
<1>3. sidecar' = sidecar /\ \A w \in Updaters \ {u} : w \in behind' <=> w \in behind
  BY DEF FileStays
<1>4. ASSUME NEW w \in Updaters PROVE Began(updater'[w]) /\ UpToDate(w)'
  <2>1. CASE w = u
    BY <1>2, <1>3, <2>1 DEF UpToDate
  <2>2. CASE w # u
    BY <1>2, <1>3, <2>2 DEF UpToDate, PkgInv
  <2> QED
    BY <2>1, <2>2
<1> QED
  BY <1>1, <1>4 DEF PkgInv

LEMMA InitPkgs == PkgCacheInit => PkgInv
<1> SUFFICES ASSUME PkgCacheInit PROVE PkgInv
  OBVIOUS
<1>1. 1 \in Versions \ {0} /\ 1 \in 1 .. MaxDay
  BY PkgCacheAssumption DEF Versions
<1>2. PkgTyped
  BY <1>1, RestingTyped DEF PkgCacheInit, PkgTyped
<1> QED
  BY <1>2, RestingTyped DEF PkgCacheInit, PkgInv, UpToDate

LEMMA RefreshPkgs ==
  ASSUME PkgInv, NEW u \in Updaters,
         \/ CheckAtStart(u) \/ CheckAtEnd(u) \/ RefreshLoads(u) \/ RefreshEnds(u)
         \/ \E p \in Packages, reached \in BOOLEAN : FetchOne(u, p, reached)
  PROVE  PkgInv'
<1> DEFINE m == updater[u]
<1>1. m \in Machines /\ Began(m) /\ UpToDate(u) /\ sidecar \in CacheFiles
  BY DEF PkgInv, PkgTyped
<1>2. CASE CheckAtStart(u) \/ CheckAtEnd(u)
  <2>1. PICK names \in SUBSET Packages :
          Does(u, [Resting EXCEPT !.pc = "due", !.job = "refresh", !.names = names])
    BY <1>2 DEF CheckAtStart, CheckAtEnd
  <2> DEFINE how == [Resting EXCEPT !.pc = "due", !.job = "refresh", !.names = names]
  <2>2. how \in Machines /\ how.pc = "due" /\ how.job = "refresh" /\ how.got = {}
    BY RestingTyped DEF Machines, Resting
  <2>3. FileStays /\ behind' = behind
    BY <1>2 DEF CheckAtStart, CheckAtEnd
  <2> HIDE DEF how
  <2>4. Does(u, how)
    BY <2>1 DEF how
  <2> QED
    BY <2>2, <2>3, <2>4, OneMoves DEF HasCopy, Began
<1>3. CASE RefreshLoads(u)
  <2> DEFINE left == { p \in m.names : ~IsFresh(sidecar, p) }
             how == [m EXCEPT !.pc = "fetching", !.copy = sidecar, !.names = left]
  <2>1. Does(u, how) /\ behind' = behind \ {u} /\ FileStays /\ m.pc = "due"
    BY <1>3 DEF RefreshLoads
  <2>2. left \subseteq Packages
    BY <1>1 DEF Machines
  <2>3. how \in Machines /\ how.job = m.job /\ how.got = m.got /\ how.pc = "fetching" /\ how.copy = sidecar
    BY <1>1, <2>2 DEF Machines
  <2> HIDE DEF how
  <2>4. how.job = "refresh" /\ how.got = {}
    BY <1>1, <2>1, <2>3 DEF Began
  <2>5. how.copy = Applied(how, sidecar)
    BY <1>1, <2>3, <2>4, NothingApplied
  <2> QED
    BY <2>1, <2>3, <2>4, <2>5, OneMoves DEF Began
<1>4. CASE RefreshEnds(u)
  <2>1. FileStays /\ behind' = behind /\ m.pc = "fetching"
    BY <1>4 DEF RefreshEnds
  <2>2. CASE Does(u, Resting)
    BY <2>1, <2>2, RestingTyped, OneMoves
  <2>3. CASE Does(u, [m EXCEPT !.pc = "saving"])
    <3> DEFINE how == [m EXCEPT !.pc = "saving"]
    <3>1. how \in Machines /\ how.pc = "saving" /\ how.job = m.job /\ how.got = m.got
          /\ how.copy = m.copy /\ how.target = m.target
      BY <1>1 DEF Machines
    <3> HIDE DEF how
    <3>2. m.job = "refresh" /\ how.job = "refresh"
      BY <1>1, <2>1, <3>1 DEF Began
    <3>3. Applied(how, sidecar) = Applied(m, sidecar)
      BY <1>1, <3>1, <3>2, RefreshApplied
    <3>4. u \notin behind => how.copy = Applied(how, sidecar)
      BY <1>1, <2>1, <3>1, <3>3 DEF UpToDate, HasCopy
    <3>5. Does(u, how)
      BY <2>3 DEF how
    <3> QED
      BY <2>1, <3>1, <3>4, <3>5, OneMoves DEF Began
  <2> QED
    BY <1>4, <2>2, <2>3 DEF RefreshEnds
<1>5. ASSUME NEW p \in Packages, NEW reached \in BOOLEAN, FetchOne(u, p, reached) PROVE PkgInv'
  <2>1. FileStays /\ behind' = behind /\ m.pc = "fetching" /\ m.job = "refresh"
    BY <1>1, <1>5 DEF FetchOne, Began
  <2>2. CASE reached
    <3> DEFINE how == [m EXCEPT !.names = @ \ {p}, !.got = @ \cup {p},
                                !.copy = PutPackage(@, p, pypi[p])]
    <3>1. PutPackage(m.copy, p, pypi[p]) \in CacheFiles
      BY <1>1, FetchedTyped DEF PkgInv, Machines
    <3>2. how \in Machines /\ how.pc = "fetching" /\ how.job = "refresh" /\ how.got = m.got \cup {p}
          /\ how.copy = PutPackage(m.copy, p, pypi[p])
      BY <1>1, <2>1, <3>1 DEF Machines
    <3>3. Does(u, how)
      BY <1>5, <2>2 DEF FetchOne
    <3> HIDE DEF how
    <3>4. u \notin behind => m.copy = Applied(m, sidecar)
      BY <1>1, <2>1 DEF UpToDate, HasCopy
    <3>5. u \notin behind => how.copy = Applied(how, sidecar)
      BY <1>1, <2>1, <3>2, <3>4, OneMoreApplied DEF PkgInv
    <3> QED
      BY <2>1, <3>2, <3>3, <3>5, OneMoves DEF Began
  <2>3. CASE ~reached
    <3> DEFINE how == [m EXCEPT !.names = @ \ {p}]
    <3>1. how \in Machines /\ how.pc = "fetching" /\ how.job = "refresh" /\ how.got = m.got
          /\ how.copy = m.copy
      BY <1>1, <2>1 DEF Machines
    <3>2. Does(u, how)
      BY <1>5, <2>3 DEF FetchOne
    <3> HIDE DEF how
    <3>3. Applied(how, sidecar) = Applied(m, sidecar)
      BY <1>1, <2>1, <3>1, RefreshApplied
    <3>4. u \notin behind => how.copy = Applied(how, sidecar)
      BY <1>1, <2>1, <3>1, <3>3 DEF UpToDate, HasCopy
    <3> QED
      BY <2>1, <3>1, <3>2, <3>4, OneMoves DEF Began
  <2> QED
    BY <2>2, <2>3
<1> QED
  BY <1>2, <1>3, <1>4, <1>5

LEMMA ChangePkgs ==
  ASSUME PkgInv, NEW u \in Updaters,
         \/ (\E v \in Newer : Snooze(u, v)) \/ ClearCache(u)
         \/ (\E force \in BOOLEAN : RunAudit(u, force)) \/ (\E found \in BOOLEAN : AuditEnds(u, found))
  PROVE  PkgInv'
<1> DEFINE m == updater[u]
<1>1. m \in Machines /\ sidecar \in CacheFiles /\ PkgTyped
  BY DEF PkgInv, PkgTyped
<1>2. ASSUME NEW v \in Newer, Snooze(u, v) PROVE PkgInv'
  <2> DEFINE how == [Resting EXCEPT !.pc = "saving", !.job = "snooze", !.target = v,
                                    !.copy = Snoozed(sidecar, v)]
  <2>1. Does(u, how) /\ behind' = behind \ {u} /\ FileStays
    BY <1>2 DEF Snooze
  <2>2. Snoozed(sidecar, v) \in CacheFiles /\ v \in Versions
    BY <1>1, SnoozedTyped
  <2>3. how \in Machines /\ how.pc = "saving" /\ how.job = "snooze" /\ how.target = v
        /\ how.copy = Snoozed(sidecar, v)
    BY <2>2, RestingTyped DEF Machines, Resting
  <2> HIDE DEF how
  <2>4. Applied(how, sidecar) = [sidecar EXCEPT !.quiet[v] = how.copy.quiet[v]]
    BY <2>3 DEF Applied
  <2>5. how.copy.quiet[v] = today + 1
    BY <1>1, <2>3 DEF Snoozed, CacheFiles
  <2>6. how.copy = Applied(how, sidecar)
    BY <2>3, <2>4, <2>5 DEF Snoozed
  <2> QED
    BY <2>1, <2>3, <2>6, OneMoves DEF Began
<1>3. CASE ClearCache(u)
  <2> DEFINE how == [m EXCEPT !.pc = "saving", !.job = "clear", !.copy = NoCache]
  <2>1. Does(u, how) /\ behind' = behind \ {u} /\ FileStays
    BY <1>3 DEF ClearCache, Loads
  <2>2. how \in Machines /\ how.pc = "saving" /\ how.job = "clear" /\ how.copy = NoCache
    BY <1>1, RestingTyped DEF Machines
  <2> HIDE DEF how
  <2>3. how.copy = Applied(how, sidecar)
    BY <2>2 DEF Applied
  <2> QED
    BY <2>1, <2>2, <2>3, OneMoves DEF Began
<1>4. ASSUME NEW force \in BOOLEAN, RunAudit(u, force) PROVE PkgInv'
  <2> DEFINE how == [Resting EXCEPT !.pc = "auditing"]
  <2>1. Does(u, how) /\ behind' = behind /\ FileStays
    BY <1>4 DEF RunAudit
  <2>2. how \in Machines /\ how.pc = "auditing"
    BY RestingTyped DEF Machines, Resting
  <2> HIDE DEF how
  <2> QED
    BY <2>1, <2>2, OneMoves DEF Began, HasCopy
<1>5. ASSUME NEW found \in BOOLEAN, AuditEnds(u, found) PROVE PkgInv'
  <2>1. CASE found
    <3> DEFINE how == [m EXCEPT !.pc = "saving", !.job = "audit", !.copy = Audited(sidecar)]
    <3>1. Does(u, how) /\ behind' = behind \ {u} /\ FileStays
      BY <1>5, <2>1 DEF AuditEnds, Loads
    <3>2. Audited(sidecar) \in CacheFiles
      BY <1>1 DEF Audited, CacheFiles
    <3>3. how \in Machines /\ how.pc = "saving" /\ how.job = "audit" /\ how.copy = Audited(sidecar)
      BY <1>1, <3>2 DEF Machines
    <3> HIDE DEF how
    <3>4. how.copy = Applied(how, sidecar)
      BY <3>3 DEF Applied
    <3> QED
      BY <3>1, <3>3, <3>4, OneMoves DEF Began
  <2>2. CASE ~found
    BY <1>5, <2>2, RestingTyped, OneMoves DEF AuditEnds
  <2> QED
    BY <2>1, <2>2
<1> QED
  BY <1>2, <1>3, <1>4, <1>5

LEMMA SavePkgs ==
  ASSUME PkgInv, NEW u \in Updaters, WriteSidecar(u) \/ ReplaceSidecar(u) \/ ProgramEnds(u)
  PROVE  PkgInv'
<1> DEFINE m == updater[u]
<1>1. m \in Machines /\ UpToDate(u) /\ PkgTyped
  BY DEF PkgInv, PkgTyped
<1>2. CASE Does(u, Resting) /\ FileStays /\ (behind' = behind \/ behind' = behind \ {u})
  BY <1>2, RestingTyped, OneMoves
<1>3. CASE WriteSidecar(u)
  <2> DEFINE how == [m EXCEPT !.pc = "written"]
  <2>1. m.pc = "saving" /\ behind' = behind /\ FileStays
    BY <1>3 DEF WriteSidecar
  <2>2. how \in Machines /\ how.pc = "written" /\ how.job = m.job /\ how.got = m.got
        /\ how.copy = m.copy /\ how.target = m.target
    BY <1>1 DEF Machines
  <2>3. CASE Does(u, how)
    <3> HIDE DEF how
    <3>1. Applied(how, sidecar) = Applied(m, sidecar)
      BY <2>2 DEF Applied
    <3>2. u \notin behind => how.copy = Applied(how, sidecar)
      BY <1>1, <2>1, <2>2, <3>1 DEF UpToDate, HasCopy
    <3> QED
      BY <2>1, <2>2, <2>3, <3>2, OneMoves DEF Began
  <2> QED
    BY <1>2, <1>3, <2>1, <2>3 DEF WriteSidecar
<1>4. CASE ReplaceSidecar(u)
  <2>1. /\ sidecar' = m.copy /\ UNCHANGED <<pypi, today>>
        /\ behind' = { w \in Updaters : w # u /\ HasCopy(updater[w]) }
        /\ Does(u, Resting)
    BY <1>4 DEF ReplaceSidecar, HasCopy
  <2>2. updater'[u] = Resting /\ \A w \in Updaters \ {u} : updater'[w] = updater[w]
    BY <1>1, <2>1 DEF PkgTyped, Does
  <2>3. PkgTyped'
    BY <1>1, <2>1, RestingTyped DEF PkgTyped, Does, Machines
  <2>4. ASSUME NEW w \in Updaters PROVE Began(updater'[w]) /\ UpToDate(w)'
    BY <2>1, <2>2, RestingTyped DEF UpToDate, PkgInv
  <2> QED
    BY <2>3, <2>4 DEF PkgInv
<1>5. CASE ProgramEnds(u)
  BY <1>2, <1>5 DEF ProgramEnds
<1> QED
  BY <1>3, <1>4, <1>5

LEMMA NextPkgs == PkgInv /\ [PkgCacheNext]_pkgVars => PkgInv'
<1> SUFFICES ASSUME PkgInv, [PkgCacheNext]_pkgVars PROVE PkgInv'
  OBVIOUS
<1>1. ASSUME NEW p \in Packages, Publish(p) PROVE PkgInv'
  <2>1. UNCHANGED <<today, sidecar, updater, behind>>
    BY <1>1 DEF Publish
  <2>2. pypi' \in [Packages -> Versions \ {0}]
    BY <1>1, PkgCacheAssumption DEF Publish, PkgInv, PkgTyped, Versions
  <2> QED
    BY <2>1, <2>2 DEF PkgInv, PkgTyped, UpToDate
<1>2. CASE NextDay
  <2>1. UNCHANGED <<pypi, sidecar, updater, behind>> /\ today' \in 1 .. MaxDay
    BY <1>2, PkgCacheAssumption DEF NextDay, PkgInv, PkgTyped
  <2> QED
    BY <2>1 DEF PkgInv, PkgTyped, UpToDate
<1>3. CASE UNCHANGED pkgVars
  BY <1>3 DEF pkgVars, PkgInv, PkgTyped, UpToDate
<1> QED
  BY <1>1, <1>2, <1>3, RefreshPkgs, ChangePkgs, SavePkgs DEF PkgCacheNext

-----------------------------------------------------------------------------
LEMMA OnlyReplaced ==
  ASSUME PkgInv, PkgCacheNext, sidecar' # sidecar
  PROVE  \E u \in Updaters : ReplaceSidecar(u)
BY DEF PkgCacheNext, CheckAtStart, CheckAtEnd, RefreshLoads, FetchOne, RefreshEnds, Snooze,
       ClearCache, RunAudit, AuditEnds, Loads, WriteSidecar, ProgramEnds, Publish, NextDay, FileStays

\* However refreshes, snoozes, audits and clearings of several programs cross
\* and wherever they are stopped, a save whose copy was not overtaken makes its
\* own change to the file as it is, and no other (refresh_pypi, Cache.save).
THEOREM ChangesKept == PkgCacheSpec => ChangesStand
<1>1. ASSUME PkgInv, PkgCacheNext, sidecar' # sidecar
      PROVE  \E u \in Updaters : /\ updater[u].pc = "written" /\ updater'[u].pc = "idle"
                                 /\ u \notin behind => sidecar' = Applied(updater[u], sidecar)
  <2>1. PICK u \in Updaters : ReplaceSidecar(u)
    BY <1>1, OnlyReplaced
  <2>2. updater[u].pc = "written" /\ sidecar' = updater[u].copy /\ updater'[u] = Resting
    BY <1>1, <2>1 DEF ReplaceSidecar, Does, PkgInv, PkgTyped
  <2>3. u \notin behind => updater[u].copy = Applied(updater[u], sidecar)
    BY <1>1, <2>2 DEF PkgInv, UpToDate, HasCopy
  <2>4. updater'[u].pc = "idle"
    BY <2>2 DEF Resting
  <2> QED
    BY <2>2, <2>3, <2>4
<1>2. PkgInv /\ [PkgCacheNext]_pkgVars =>
        [ sidecar' # sidecar =>
            \E u \in Updaters : updater[u].pc = "written" /\ updater'[u].pc = "idle"
                               /\ (u \notin behind => sidecar' = Applied(updater[u], sidecar)) ]_pkgVars
  BY <1>1 DEF pkgVars
<1> QED
  BY <1>2, InitPkgs, NextPkgs, PTL DEF PkgCacheSpec, ChangesStand

-----------------------------------------------------------------------------
(* The sandbox: what the caller is told is what happened.                  *)

SandboxSpec == SandboxInit /\ [][SandboxNext]_sandboxVars

Lists == UNION { [1 .. n -> Outputs] : n \in {0, 1} }

\* A reply that tells of success is of code that has ended, and so stands.
RepliesTruly == reply # << >> /\ reply[1].ok => code = "ended" /\ reply[1] = Finished
\* What is in the pipe is the reply of a worker that is gone.
PipeHasReply ==
  pipe # << >> => pipe = reply /\ host = "worker" /\ child \in {"ended", "dead"}
AnswersTruly ==
  answer # << >> =>
    \/ host = "inline" /\ answer = reply
    \/ host = "worker" /\ pipe # << >> /\ answer = pipe
    \/ host = "worker" /\ pipe = << >> /\ ~answer[1].ok

SandboxInv == SandboxTypeOK /\ RepliesTruly /\ PipeHasReply /\ AnswersTruly

LEMMA OneOutput ==
  ASSUME NEW o \in Outputs
  PROVE  << >> \in Lists /\ <<o>> \in Lists /\ <<o>> # << >> /\ <<o>>[1] = o
<1>1. << >> \in [1 .. 0 -> Outputs] /\ <<o>> \in [1 .. 1 -> Outputs]
  OBVIOUS
<1> QED
  BY <1>1 DEF Lists

LEMMA BadIsOutput ==
  ASSUME NEW error \in Errors, NEW n \in 0 .. MaxPrinted
  PROVE  Bad(error, n) \in Outputs /\ Bad(error, n).ok = FALSE
BY SandboxAssumption DEF Bad, Outputs, Kept

LEMMA FinishedIsOutput ==
  ASSUME SandboxTypeOK
  PROVE  Finished \in Outputs
BY SandboxAssumption DEF SandboxTypeOK, Values, Finished, Good, Bad, Outputs, Kept, Errors

\* Nothing is printed or emitted of code that has ended.
LEMMA InitSandbox == SandboxInit => SandboxInv
<1> SUFFICES ASSUME SandboxInit PROVE SandboxInv
  OBVIOUS
<1>1. << >> \in Lists
  <2>1. << >> \in [1 .. 0 -> Outputs]
    OBVIOUS
  <2> QED
    BY <2>1 DEF Lists
<1> QED
  BY <1>1, SandboxAssumption DEF SandboxInit, SandboxInv, SandboxTypeOK, Lists, Values,
     RepliesTruly, PipeHasReply, AnswersTruly

\* The adapter replies, with an error or with what code that has ended left.
LEMMA RepliesKeeps ==
  ASSUME SandboxInv, NEW o \in Outputs, Replies(o), code' \in {code, "stopped"},
         o.ok => code = "ended" /\ code' = code /\ o = Finished
  PROVE  SandboxInv'
<1>1. reply = << >> /\ reply' = <<o>> /\ child = "alive"
      /\ UNCHANGED <<host, engine, printed, emitted, child, pipe, answer>>
  BY DEF Replies
<1>2. reply' \in Lists /\ reply' # << >> /\ reply'[1] = o
  BY <1>1, OneOutput
<1>3. SandboxTypeOK'
  BY <1>1, <1>2 DEF SandboxInv, SandboxTypeOK, Lists
<1>4. RepliesTruly'
  BY <1>1, <1>2 DEF RepliesTruly, Finished, Good, Bad
<1>5. pipe = << >>
  BY <1>1 DEF SandboxInv, PipeHasReply
<1>6. answer # << >> => answer # reply
  BY <1>1
<1> QED
  BY <1>1, <1>3, <1>4, <1>5, <1>6 DEF SandboxInv, PipeHasReply, AnswersTruly

LEMMA NextSandbox == SandboxInv /\ [SandboxNext]_sandboxVars => SandboxInv'
<1> SUFFICES ASSUME SandboxInv, [SandboxNext]_sandboxVars PROVE SandboxInv'
  OBVIOUS
<1>0. SandboxTypeOK /\ RepliesTruly /\ PipeHasReply /\ AnswersTruly
  BY DEF SandboxInv
<1>z. 0 \in 0 .. MaxPrinted /\ printed \in 0 .. MaxPrinted
  BY <1>0, SandboxAssumption DEF SandboxTypeOK
<1>1. CASE Line
  <2>1. printed' \in 0 .. MaxPrinted /\ code = "running"
        /\ UNCHANGED <<host, engine, code, emitted, reply, child, pipe, answer>>
    BY <1>0, <1>1, SandboxAssumption DEF Line, Runs, SandboxTypeOK
  <2> QED
    BY <1>0, <2>1 DEF SandboxInv, SandboxTypeOK, RepliesTruly, PipeHasReply, AnswersTruly
<1>2. ASSUME NEW v \in Values \ {0}, EmitValue(v) PROVE SandboxInv'
  <2>1. emitted' \in Values /\ code = "running"
        /\ UNCHANGED <<host, engine, code, printed, reply, child, pipe, answer>>
    BY <1>2 DEF EmitValue, Runs
  <2> QED
    BY <1>0, <2>1 DEF SandboxInv, SandboxTypeOK, RepliesTruly, PipeHasReply, AnswersTruly
<1>3. ASSUME NEW how \in {"ended", "raised"}, CodeEnds(how) PROVE SandboxInv'
  <2>1. code = "running" /\ code' = how
        /\ UNCHANGED <<host, engine, printed, emitted, reply, child, pipe, answer>>
    BY <1>3 DEF CodeEnds, Runs
  <2> QED
    BY <1>0, <2>1 DEF SandboxInv, SandboxTypeOK, RepliesTruly, PipeHasReply, AnswersTruly
<1>4. ASSUME NEW error \in Errors, RefuseRun(error) PROVE SandboxInv'
  <2>1. Bad(error, 0) \in Outputs /\ Bad(error, 0).ok = FALSE
    BY <1>z, BadIsOutput
  <2> QED
    BY <1>4, <2>1, RepliesKeeps DEF RefuseRun
<1>5. CASE StartCode
  <2>1. code = "asked" /\ code' = "running"
        /\ UNCHANGED <<host, engine, printed, emitted, reply, child, pipe, answer>>
    BY <1>5 DEF StartCode
  <2> QED
    BY <1>0, <2>1 DEF SandboxInv, SandboxTypeOK, RepliesTruly, PipeHasReply, AnswersTruly
<1>6. CASE OverranLua \/ OverranDukpy \/ OverranV8
  <2>1. PICK n \in 0 .. MaxPrinted : Replies(Bad("TimeoutError", n)) /\ code' \in {code, "stopped"}
    BY <1>z, <1>6 DEF OverranLua, OverranDukpy, OverranV8
  <2>2. Bad("TimeoutError", n) \in Outputs /\ Bad("TimeoutError", n).ok = FALSE
    BY BadIsOutput DEF Errors
  <2> QED
    BY <2>1, <2>2, RepliesKeeps
<1>7. CASE Collect
  <2>1. CASE code = "ended" /\ Replies(Finished) /\ UNCHANGED code
    BY <1>0, <2>1, FinishedIsOutput, RepliesKeeps
  <2>2. CASE code = "raised"
    <3>1. PICK n \in 0 .. MaxPrinted : Replies(Bad("RuntimeError", n)) /\ code' = code
      BY <1>z, <1>7, <2>2 DEF Collect
    <3>2. Bad("RuntimeError", n) \in Outputs /\ Bad("RuntimeError", n).ok = FALSE
      BY BadIsOutput DEF Errors
    <3> QED
      BY <3>1, <3>2, RepliesKeeps
  <2> QED
    BY <1>7, <2>1, <2>2 DEF Collect
<1>8. CASE Hand
  BY <1>0, <1>8 DEF Hand, SandboxInv, SandboxTypeOK, RepliesTruly, PipeHasReply, AnswersTruly,
     Finished, Good, Bad
<1>9. CASE Put \/ Crash
  <2>1. /\ UNCHANGED <<host, engine, code, printed, emitted, reply, pipe, answer>>
        /\ child \in {"alive", "put"} /\ child' \in {"put", "dead"} /\ host = "worker"
    BY <1>9 DEF Put, Crash, Rest, ParentWaits
  <2> QED
    BY <1>0, <2>1 DEF SandboxInv, SandboxTypeOK, RepliesTruly, PipeHasReply, AnswersTruly,
       Finished, Good, Bad
<1>10. ASSUME NEW how \in {"ended", "dead"}, ChildEnds(how) PROVE SandboxInv'
  <2>1. /\ UNCHANGED <<host, engine, code, printed, emitted, reply, answer>>
        /\ child' = how /\ pipe' = reply /\ host = "worker" /\ answer = << >>
    BY <1>10 DEF ChildEnds, Rest, ParentWaits
  <2> QED
    BY <1>0, <2>1 DEF SandboxInv, SandboxTypeOK, RepliesTruly, PipeHasReply, AnswersTruly,
       Finished, Good, Bad
<1>11. CASE Joined \/ Killed
  <2>1. /\ UNCHANGED <<host, engine, code, printed, emitted, reply, pipe>>
        /\ host = "worker" /\ child' \in {child, "dead"}
    BY <1>11 DEF Joined, Killed, Rest, ParentWaits
  <2>2. PICK error \in Errors : IF pipe = << >> THEN answer' = <<Bad(error, 0)>> ELSE answer' = pipe
    <3>1. CASE Joined
      <4>1. PICK error \in {"MemoryLimitError", "RuntimeError"} :
              answer' = IF pipe = << >> THEN <<Bad(error, 0)>> ELSE pipe
        BY <3>1 DEF Joined
      <4>2. error \in Errors
        BY DEF Errors
      <4>3. CASE pipe = << >>
        BY <4>1, <4>2, <4>3
      <4>4. CASE pipe # << >>
        BY <4>1, <4>2, <4>4
      <4> QED
        BY <4>3, <4>4
    <3>2. CASE Killed
      BY <1>0, <3>2 DEF Killed, Errors, PipeHasReply
    <3> QED
      BY <1>11, <3>1, <3>2
  <2>3. <<Bad(error, 0)>> \in Lists /\ ~<<Bad(error, 0)>>[1].ok
    BY <1>z, BadIsOutput, OneOutput
  <2>4. answer' \in Lists /\ AnswersTruly'
    BY <1>0, <2>1, <2>2, <2>3 DEF AnswersTruly, SandboxTypeOK, Lists
  <2>5. RepliesTruly' /\ PipeHasReply'
    BY <1>0, <2>1 DEF RepliesTruly, PipeHasReply, Finished, Good, Bad
  <2> QED
    BY <1>0, <2>1, <2>4, <2>5 DEF SandboxInv, SandboxTypeOK, Lists
<1>12. CASE UNCHANGED sandboxVars
  BY <1>0, <1>12 DEF sandboxVars, SandboxInv, SandboxTypeOK, RepliesTruly, PipeHasReply,
     AnswersTruly, Finished, Good, Bad, Kept
<1>13. \A error \in {"SandboxViolation", "SerializationError", "ImportError"} : error \in Errors
  BY DEF Errors
<1> QED
  BY <1>1, <1>2, <1>3, <1>4, <1>5, <1>6, <1>7, <1>8, <1>9, <1>10, <1>11, <1>12, <1>13
     DEF SandboxNext

\* Whatever the code does and whenever the worker dies, a success told to the
\* caller is the whole output of code that has ended, and an output the worker
\* handed over is what the caller gets (run_in_worker, the adapters).
THEOREM TellsWhatHappened == SandboxSpec => [](SandboxTypeOK /\ ToldWhatHappened)
<1>1. SandboxInv => SandboxTypeOK /\ ToldWhatHappened
  BY DEF SandboxInv, RepliesTruly, PipeHasReply, AnswersTruly, ToldWhatHappened
<1> QED
  BY <1>1, InitSandbox, NextSandbox, PTL DEF SandboxSpec

-----------------------------------------------------------------------------
(* The Context Browser: a button acts on the item shown.                   *)

BrowserSpec == BrowserInit /\ [][BrowserNext]_browserVars

\* An artifact or a recipe is selected, never both, and what is shown is it.
OneSelected == artifact = NoView \/ recipe = NoView
SelectedShown == preview = artifact \/ preview = recipe

BrowserInv == BrowserTypeOK /\ OneSelected /\ SelectedShown /\ ActsOnShown

LEMMA Viewing ==
  /\ NoView \in View
  /\ \A i \in Items, v \in 0 .. MaxEdition : Shows(i, v) \in View
  /\ \A i \in Items, v \in 0 .. MaxEdition : Shows(i, v).of = i
BY BrowserAssumption DEF NoView, View, Shows

LEMMA DiscoverTyped == BrowserTypeOK => Discover \in [Items -> 0 .. MaxEdition]
BY BrowserAssumption DEF BrowserTypeOK, Discover

LEMMA UseKeeps ==
  ASSUME BrowserTypeOK, ActsOnShown, NEW used \in View, NEW seen \in View, NEW fixed \in BOOLEAN,
         Use(used, seen, fixed), used.of = seen.of, fixed => used.version = seen.version
  PROVE  /\ uses' \subseteq [used : View, seen : View, fixed : BOOLEAN]
         /\ ActsOnShown'
<1>1. CASE inTurn
  BY <1>1 DEF Use, BrowserTypeOK, ActsOnShown
<1>2. CASE ~inTurn
  <2> DEFINE new == [used |-> used, seen |-> seen, fixed |-> fixed]
  <2>1. new \in [used : View, seen : View, fixed : BOOLEAN]
        /\ new.used = used /\ new.seen = seen /\ new.fixed = fixed
    OBVIOUS
  <2>2. uses' = {new}
    BY <1>2 DEF Use
  <2> HIDE DEF new
  <2> QED
    BY <2>1, <2>2 DEF ActsOnShown
<1> QED
  BY <1>1, <1>2

LEMMA InitBrowser == BrowserInit => BrowserInv
<1> SUFFICES ASSUME BrowserInit PROVE BrowserInv
  OBVIOUS
<1>1. disk \in [Items -> 0 .. MaxEdition] /\ listed \in [Items -> 0 .. MaxEdition]
  BY BrowserAssumption DEF BrowserInit, Discover
<1> QED
  BY <1>1, Viewing DEF BrowserInit, BrowserInv, BrowserTypeOK, OneSelected, SelectedShown, ActsOnShown

LEMMA NextBrowser == BrowserInv /\ [BrowserNext]_browserVars => BrowserInv'
<1> SUFFICES ASSUME BrowserInv, [BrowserNext]_browserVars PROVE BrowserInv'
  OBVIOUS
<1>0. BrowserTypeOK /\ OneSelected /\ SelectedShown /\ ActsOnShown
  BY DEF BrowserInv
<1>t. /\ disk \in [Items -> 0 .. MaxEdition] /\ listed \in [Items -> 0 .. MaxEdition]
      /\ artifact \in View /\ recipe \in View /\ preview \in View /\ dialog \in View
  BY <1>0 DEF BrowserTypeOK
<1>1. CASE Reload
  BY <1>0, <1>1, DiscoverTyped DEF Reload, Undisturbed, BrowserInv, BrowserTypeOK, OneSelected,
     SelectedShown, ActsOnShown
<1>2. CASE SelectHeading \/ SwitchView
  BY <1>0, <1>2, Viewing DEF SelectHeading, SwitchView, Show, Undisturbed, BrowserInv, BrowserTypeOK,
     OneSelected, SelectedShown, ActsOnShown
<1>3. ASSUME NEW i \in Items, Select(i) PROVE BrowserInv'
  <2> DEFINE view == Shows(i, listed[i])
  <2>1. view \in View
    BY <1>t, Viewing
  <2>2. /\ preview' = view /\ artifact' \in {NoView, view} /\ recipe' \in {NoView, view}
        /\ OneSelected' /\ SelectedShown' /\ UNCHANGED <<disk, listed, dialog, inTurn, uses>>
    BY <1>3 DEF Select, Show, Undisturbed, OneSelected, SelectedShown
  <2> HIDE DEF view
  <2> QED
    BY <1>0, <2>1, <2>2, Viewing DEF BrowserInv, BrowserTypeOK, ActsOnShown
<1>4. CASE AttachArtifact
  <2>1. preview = artifact
    BY <1>0, <1>4, BrowserAssumption DEF AttachArtifact, Attachable, SelectedShown, NoView, Items, Sources
  <2> QED
    BY <1>0, <1>t, <1>4, <2>1, UseKeeps DEF AttachArtifact, BrowserInv, BrowserTypeOK, OneSelected,
       SelectedShown
<1>5. ASSUME NEW large \in BOOLEAN, AttachRecipe(large) PROVE BrowserInv'
  <2>1. preview = recipe /\ recipe.of \in Items
    BY <1>0, <1>5, BrowserAssumption DEF AttachRecipe, Attachable, OneSelected, SelectedShown, NoView,
       Items, Sources
  <2> DEFINE match == Shows(recipe.of, disk[recipe.of])
  <2>2. match \in View /\ match.of = preview.of
    BY <1>t, <2>1, Viewing
  <2>3. IF large THEN dialog' = match /\ UNCHANGED uses
        ELSE Use(match, preview, FALSE) /\ UNCHANGED dialog
    BY <1>5 DEF AttachRecipe
  <2>4. UNCHANGED <<disk, listed, artifact, recipe, preview, inTurn>>
    BY <1>5 DEF AttachRecipe
  <2> HIDE DEF match
  <2>5. CASE large
    BY <1>0, <2>2, <2>3, <2>4, <2>5 DEF BrowserInv, BrowserTypeOK, OneSelected, SelectedShown, ActsOnShown
  <2>6. CASE ~large
    <3>1. uses' \subseteq [used : View, seen : View, fixed : BOOLEAN] /\ ActsOnShown'
      BY <1>0, <1>t, <2>2, <2>3, <2>6, UseKeeps
    <3> QED
      BY <1>0, <2>3, <2>4, <2>6, <3>1 DEF BrowserInv, BrowserTypeOK, OneSelected, SelectedShown
  <2> QED
    BY <2>5, <2>6
<1>6. ASSUME NEW attach \in BOOLEAN, Confirm(attach) PROVE BrowserInv'
  <2>1. UNCHANGED <<disk, listed, artifact, recipe, preview, inTurn>> /\ dialog' = NoView
    BY <1>6 DEF Confirm
  <2>2. uses' \subseteq [used : View, seen : View, fixed : BOOLEAN] /\ ActsOnShown'
    <3>1. CASE attach
      BY <1>0, <1>t, <1>6, <3>1, UseKeeps DEF Confirm
    <3>2. CASE ~attach
      BY <1>0, <1>6, <3>2 DEF Confirm, BrowserTypeOK, ActsOnShown
    <3> QED
      BY <3>1, <3>2
  <2> QED
    BY <1>0, <2>1, <2>2, Viewing DEF BrowserInv, BrowserTypeOK, OneSelected, SelectedShown
<1>7. CASE SetAgentPrompt
  <2>1. preview = artifact /\ artifact.of \in Items
    BY <1>0, <1>7, BrowserAssumption DEF SetAgentPrompt, Settable, OneSelected, SelectedShown, NoView,
       Items, Sources
  <2> DEFINE read == Shows(artifact.of, disk[artifact.of])
  <2>2. read \in View /\ read.of = preview.of
    BY <1>t, <2>1, Viewing
  <2>3. Use(read, preview, FALSE) /\ UNCHANGED <<disk, listed, artifact, recipe, preview, dialog, inTurn>>
    BY <1>7 DEF SetAgentPrompt
  <2> HIDE DEF read
  <2>4. uses' \subseteq [used : View, seen : View, fixed : BOOLEAN] /\ ActsOnShown'
    BY <1>0, <1>t, <2>2, <2>3, UseKeeps
  <2> QED
    BY <1>0, <2>3, <2>4 DEF BrowserInv, BrowserTypeOK, OneSelected, SelectedShown
<1>8. ASSUME NEW i \in Items, ChangeFile(i) PROVE BrowserInv'
  <2>1. disk' \in [Items -> 0 .. MaxEdition]
    BY <1>t, <1>8, BrowserAssumption DEF ChangeFile
  <2> QED
    BY <1>0, <1>8, <2>1 DEF ChangeFile, BrowserInv, BrowserTypeOK, OneSelected, SelectedShown, ActsOnShown
<1>9. CASE TurnRuns
  BY <1>0, <1>9 DEF TurnRuns, BrowserInv, BrowserTypeOK, OneSelected, SelectedShown, ActsOnShown
<1>10. CASE UNCHANGED browserVars
  BY <1>0, <1>10 DEF browserVars, BrowserInv, BrowserTypeOK, OneSelected, SelectedShown, ActsOnShown
<1> QED
  BY <1>1, <1>2, <1>3, <1>4, <1>5, <1>6, <1>7, <1>8, <1>9, <1>10 DEF BrowserNext

-----------------------------------------------------------------------------
(* The GitLab and Jira tabs: what is shown is of what was chosen.          *)

TabsNext == (LabNext /\ UNCHANGED jiraVars) \/ (JiraNext /\ UNCHANGED labVars)
TabsSpec == TabsInit /\ [][TabsNext]_tabsVars

LabType == [project : Some, loading : BOOLEAN, held : [Lists3 -> Some], shown : [Lists3 -> Some]]
FetchType == [pc : {"none", "asking", "posted"}, of : Some, done : SUBSET Lists3]
SentType == [shown : Some, from : Some, quiet : BOOLEAN]
LabTyped == lab \in LabType /\ fetch \in FetchType /\ posts \in Nat /\ sent \in SentType

\* One thread at a time, which ends with all lists or with none.
OneFetch ==
  /\ lab.loading <=> fetch.pc # "none"
  /\ fetch.pc = "none" => fetch.done = {}
  /\ fetch.pc = "posted" => fetch.done \in {{}, Lists3}
  /\ fetch.of = None => fetch.done = {}
\* The lists held are of one project, but while the thread puts them there.
HeldAgree ==
  /\ \A l \in fetch.done : lab.held[l] = fetch.of
  /\ fetch.done \in {{}, Lists3} => \A l, m \in Lists3 : lab.held[l] = lab.held[m]
\* What is held is shown, or will be when the callback runs that is posted or
\* that the thread has yet to post.
Promised == posts > 0 \/ (fetch.pc = "asking" /\ fetch.done # {})
HeldShown == ~Promised => lab.shown = lab.held
AttachedShown == sent.quiet => sent.shown = sent.from

LabInv == LabTyped /\ OneFetch /\ HeldAgree /\ HeldShown /\ AttachedShown

LEMMA InitLab == TabsInit => LabInv
<1>1. None \in Some /\ Nothing \in [Lists3 -> Some]
  BY DEF Some, Nothing
<1> QED
  BY <1>1 DEF TabsInit, LabInv, LabTyped, LabType, FetchType, SentType, OneFetch, HeldAgree, HeldShown,
     AttachedShown, Nothing

LEMMA RefreshedKeeps ==
  ASSUME LabInv, NEW p \in Some, Refreshed(p), UNCHANGED <<posts, sent>>
  PROVE  LabInv'
<1>1. CASE lab.loading
  BY <1>1 DEF Refreshed, LabInv, LabTyped, LabType, OneFetch, HeldAgree, Promised, HeldShown, AttachedShown
<1>2. CASE ~lab.loading
  <2>1. /\ lab' = [lab EXCEPT !.project = p, !.loading = TRUE]
        /\ fetch' = [pc |-> "asking", of |-> None, done |-> {}]
    BY <1>2 DEF Refreshed
  <2>2. lab' \in LabType /\ lab'.loading /\ lab'.held = lab.held /\ lab'.shown = lab.shown
    BY <2>1 DEF LabInv, LabTyped, LabType
  <2>3. fetch' \in FetchType /\ fetch'.pc = "asking" /\ fetch'.done = {}
    BY <2>1 DEF FetchType, Some
  <2>4. fetch.pc = "none" /\ fetch.done = {}
    BY <1>2 DEF LabInv, LabTyped, OneFetch
  <2> QED
    BY <2>2, <2>3, <2>4 DEF LabInv, LabTyped, OneFetch, HeldAgree, Promised, HeldShown, AttachedShown
<1> QED
  BY <1>1, <1>2

LEMMA NextLab == LabInv /\ [TabsNext]_tabsVars => LabInv'
<1> SUFFICES ASSUME LabInv, [TabsNext]_tabsVars PROVE LabInv'
  OBVIOUS
<1>0. /\ lab \in LabType /\ fetch \in FetchType /\ posts \in Nat /\ sent \in SentType
      /\ OneFetch /\ HeldAgree /\ HeldShown /\ AttachedShown
  BY DEF LabInv, LabTyped
<1>1. CASE \E p \in Projects : LoadProject(p)
  BY <1>1, RefreshedKeeps DEF LoadProject, Some
<1>2. CASE RefreshTab
  BY <1>0, <1>2, RefreshedKeeps DEF RefreshTab, LabType
<1>3. CASE ReadProject
  <2>1. fetch' = [fetch EXCEPT !.of = lab.project] /\ UNCHANGED <<lab, posts, sent>>
        /\ fetch.pc = "asking" /\ fetch.of = None
    BY <1>3 DEF ReadProject
  <2>2. fetch' \in FetchType /\ fetch'.pc = fetch.pc /\ fetch'.done = fetch.done
        /\ fetch'.of = lab.project
    BY <1>0, <2>1 DEF FetchType, LabType
  <2>3. fetch.done = {}
    BY <1>0, <2>1 DEF OneFetch
  <2>4. LabTyped' /\ OneFetch' /\ AttachedShown'
    BY <1>0, <2>1, <2>2, <2>3 DEF LabTyped, OneFetch, AttachedShown
  <2>5. HeldAgree' /\ HeldShown'
    BY <1>0, <2>1, <2>2, <2>3 DEF HeldAgree, HeldShown, Promised
  <2> QED
    BY <2>4, <2>5 DEF LabInv
<1>4. ASSUME NEW l \in Lists3, Hold(l) PROVE LabInv'
  <2>1. /\ fetch.pc = "asking" /\ fetch.of # None /\ l \notin fetch.done
        /\ fetch' = [fetch EXCEPT !.done = @ \cup {l}] /\ lab' = [lab EXCEPT !.held[l] = fetch.of]
        /\ UNCHANGED <<posts, sent>>
    BY <1>4 DEF Hold
  <2>2. fetch' \in FetchType /\ fetch'.pc = "asking" /\ fetch'.done = fetch.done \cup {l}
        /\ fetch'.of = fetch.of
    BY <1>0, <2>1 DEF FetchType
  <2>3. lab' \in LabType /\ lab'.loading = lab.loading /\ lab'.held = [lab.held EXCEPT ![l] = fetch.of]
    BY <1>0, <2>1 DEF LabType, FetchType
  <2>4. \A m \in fetch'.done : lab'.held[m] = fetch'.of
    BY <1>0, <2>2, <2>3 DEF HeldAgree, LabType, FetchType
  <2>5. fetch'.done # {} /\ Promised'
    BY <2>2 DEF Promised
  <2>6. HeldAgree'
    BY <2>4, <2>5 DEF HeldAgree
  <2>7. LabTyped'
    BY <1>0, <2>1, <2>2, <2>3 DEF LabTyped
  <2>8. OneFetch'
    BY <1>0, <2>1, <2>2, <2>3 DEF OneFetch
  <2>9. HeldShown' /\ AttachedShown'
    BY <1>0, <2>1, <2>5 DEF HeldShown, AttachedShown
  <2> QED
    BY <2>6, <2>7, <2>8, <2>9 DEF LabInv
<1>5. CASE PostLists \/ FetchFails
  <2>1. /\ fetch.pc = "asking" /\ fetch.done \in {{}, Lists3} /\ fetch' = [fetch EXCEPT !.pc = "posted"]
        /\ posts' \in Nat /\ ((fetch.done = Lists3 /\ posts' > 0) \/ (fetch.done = {} /\ posts' = posts))
        /\ UNCHANGED <<lab, sent>>
    BY <1>0, <1>5 DEF PostLists, FetchFails
  <2>2. fetch' \in FetchType /\ fetch'.pc = "posted" /\ fetch'.done = fetch.done /\ fetch'.of = fetch.of
    BY <1>0, <2>1 DEF FetchType
  <2> QED
    BY <1>0, <2>1, <2>2 DEF LabInv, LabTyped, OneFetch, HeldAgree, Promised, HeldShown, AttachedShown
<1>6. CASE FetchEnds
  <2>1. /\ fetch.pc = "posted" /\ fetch' = [pc |-> "none", of |-> None, done |-> {}]
        /\ lab' = [lab EXCEPT !.loading = FALSE] /\ UNCHANGED <<posts, sent>>
    BY <1>6 DEF FetchEnds
  <2>2. fetch' \in FetchType /\ fetch'.pc = "none" /\ fetch'.done = {}
    BY <2>1 DEF FetchType, Some
  <2>3. lab' \in LabType /\ ~lab'.loading /\ lab'.held = lab.held /\ lab'.shown = lab.shown
    BY <1>0, <2>1 DEF LabType
  <2> QED
    BY <1>0, <2>1, <2>2, <2>3 DEF LabInv, LabTyped, OneFetch, HeldAgree, Promised, HeldShown, AttachedShown
<1>7. CASE Populate
  <2>1. posts' \in Nat /\ lab' = [lab EXCEPT !.shown = lab.held] /\ UNCHANGED <<fetch, sent>>
    BY <1>0, <1>7 DEF Populate
  <2>2. lab' \in LabType /\ lab'.loading = lab.loading /\ lab'.held = lab.held /\ lab'.shown = lab.held
    BY <1>0, <2>1 DEF LabType
  <2> QED
    BY <1>0, <2>1, <2>2 DEF LabInv, LabTyped, OneFetch, HeldAgree, HeldShown, AttachedShown
<1>8. CASE AttachMr
  <2>1. sent' = [shown |-> lab.shown["mrs"], from |-> lab.held["mrs"], quiet |-> LabIdle]
        /\ UNCHANGED <<lab, fetch, posts>>
    BY <1>8 DEF AttachMr
  <2>2. LabIdle => lab.shown = lab.held
    BY <1>0 DEF LabIdle, HeldShown, Promised
  <2>3. LabIdle \in BOOLEAN
    BY DEF LabIdle
  <2>4. sent' \in SentType /\ AttachedShown'
    BY <1>0, <2>1, <2>2, <2>3 DEF LabType, SentType, Lists3, AttachedShown
  <2> QED
    BY <1>0, <2>1, <2>4 DEF LabInv, LabTyped, OneFetch, HeldAgree, Promised, HeldShown
<1>9. CASE UNCHANGED labVars
  BY <1>0, <1>9 DEF labVars, LabInv, LabTyped, OneFetch, HeldAgree, Promised, HeldShown, AttachedShown
<1> QED
  BY <1>1, <1>2, <1>3, <1>4, <1>5, <1>6, <1>7, <1>8, <1>9 DEF TabsNext, LabNext, tabsVars

-----------------------------------------------------------------------------
(* Jira.                                                                   *)

JobType == [kind : JobKinds, of : Some, posted : BOOLEAN, ok : BOOLEAN]
JiraType == [client : BOOLEAN, listed : BOOLEAN, loading : BOOLEAN, picked : Some, held : Some,
             shown : Some, chosen : Some, preview : Some]

\* Unless a project was picked while issues were on their way, all issues held,
\* shown and on their way are of the project picked.
OfPicked ==
  ~crossed =>
    /\ jira.held \in {None, jira.picked} /\ jira.shown \in {None, jira.picked}
    /\ \A i \in DOMAIN jobs : jobs[i].kind = "issues" => jobs[i].of = jira.picked

JiraInv == jira \in JiraType /\ jobs \in Seq(JobType) /\ crossed \in BOOLEAN /\ OfPicked

LEMMA DroppedJobs ==
  ASSUME jobs \in Seq(JobType), NEW i \in DOMAIN jobs
  PROVE  /\ Dropped(i) \in Seq(JobType)
         /\ \A k \in DOMAIN Dropped(i) : \E j \in DOMAIN jobs : Dropped(i)[k] = jobs[j]
<1> DEFINE from(k) == IF k < i THEN k ELSE k + 1
<1>1. Len(jobs) \in Nat /\ DOMAIN jobs = 1 .. Len(jobs) /\ Len(jobs) - 1 \in Nat
  OBVIOUS
<1>2. \A k \in 1 .. Len(jobs) - 1 : from(k) \in DOMAIN jobs
  BY <1>1
<1>3. Dropped(i) = [k \in 1 .. Len(jobs) - 1 |-> jobs[from(k)]]
  BY DEF Dropped
<1>4. \A j \in DOMAIN jobs : jobs[j] \in JobType
  BY <1>1
<1> HIDE DEF from
<1>5. \A k \in 1 .. Len(jobs) - 1 : jobs[from(k)] \in JobType
  BY <1>2, <1>4
<1>6. DOMAIN Dropped(i) = 1 .. Len(jobs) - 1 /\ Dropped(i) \in [1 .. Len(jobs) - 1 -> JobType]
  BY <1>3, <1>5
<1>7. Dropped(i) \in Seq(JobType)
  BY <1>1, <1>6
<1> QED
  BY <1>2, <1>3, <1>6, <1>7

LEMMA StartedJobs ==
  ASSUME NEW s \in Seq(JobType), NEW kind \in JobKinds, NEW p \in Some
  PROVE  /\ Append(s, Job(kind, p)) \in Seq(JobType)
         /\ \A k \in DOMAIN Append(s, Job(kind, p)) :
              \/ k \in DOMAIN s /\ Append(s, Job(kind, p))[k] = s[k]
              \/ Append(s, Job(kind, p))[k].kind = kind /\ Append(s, Job(kind, p))[k].of = p
<1>1. Job(kind, p) \in JobType /\ Job(kind, p).kind = kind /\ Job(kind, p).of = p
  BY DEF Job, JobType
<1> HIDE DEF JobType
<1> QED
  BY <1>1

LEMMA InitJira == TabsInit => JiraInv
<1> SUFFICES ASSUME TabsInit PROVE JiraInv
  OBVIOUS
<1>1. jira \in JiraType /\ jira.held = None /\ jira.shown = None
  BY DEF TabsInit, JiraType, Some
<1>2. jobs \in Seq(JobType) /\ DOMAIN jobs = {} /\ crossed = FALSE
  <2> HIDE DEF JobType
  <2> QED
    BY DEF TabsInit
<1> QED
  BY <1>1, <1>2 DEF JiraInv, OfPicked

\* The jobs left are of those there were and at most one more, not for issues.
LEMMA JobsKeep ==
  ASSUME JiraInv, jobs' \in Seq(JobType),
         \A k \in DOMAIN jobs' : \/ \E j \in DOMAIN jobs : jobs'[k].kind = jobs[j].kind /\ jobs'[k].of = jobs[j].of
                                 \/ jobs'[k].kind # "issues",
         jira' \in JiraType, jira'.picked = jira.picked, UNCHANGED crossed,
         ~crossed => jira'.held \in {None, jira.picked} /\ jira'.shown \in {None, jira.picked}
  PROVE  JiraInv'
<1> HIDE DEF JiraType, JobType
<1> QED
  BY DEF JiraInv, OfPicked

LEMMA NextJira == JiraInv /\ [TabsNext]_tabsVars => JiraInv'
<1> SUFFICES ASSUME JiraInv, [TabsNext]_tabsVars PROVE JiraInv'
  OBVIOUS
<1>0. jira \in JiraType /\ jobs \in Seq(JobType) /\ crossed \in BOOLEAN /\ OfPicked
  BY DEF JiraInv
<1>k. {"connect", "projects", "issues", "preview", "attach"} \subseteq JobKinds /\ None \in Some
  BY DEF JobKinds, Some
<1>p. Projects \subseteq Some
  BY DEF Some
<1>1. CASE Connect
  <2>1. jobs' = Append(jobs, Job("connect", None)) /\ jira' = [jira EXCEPT !.loading = TRUE] /\ UNCHANGED crossed
    BY <1>1 DEF Connect, Started
  <2>2. jira' \in JiraType /\ jira'.picked = jira.picked /\ jira'.held = jira.held /\ jira'.shown = jira.shown
    BY <1>0, <2>1 DEF JiraType
  <2>3. jobs' \in Seq(JobType) /\ \A k \in DOMAIN jobs' : (k \in DOMAIN jobs /\ jobs'[k] = jobs[k])
                                                          \/ jobs'[k].kind = "connect"
    BY <1>0, <1>k, <2>1, StartedJobs
  <2> QED
    BY <1>0, <2>1, <2>2, <2>3, JobsKeep DEF OfPicked
<1>2. ASSUME NEW p \in Projects, PickProject(p) PROVE JiraInv'
  <2>1. /\ jira' = [jira EXCEPT !.picked = p, !.held = None, !.shown = None, !.chosen = None,
                                !.preview = None, !.loading = jira.client \/ @]
        /\ crossed' = Underway("issues") /\ IssuesAsked(p)
    BY <1>2 DEF PickProject
  <2>2. jira' \in JiraType /\ jira'.picked = p /\ jira'.held = None /\ jira'.shown = None
    BY <1>0, <1>k, <1>p, <2>1 DEF JiraType
  <2>3. crossed' \in BOOLEAN
    BY <2>1 DEF Underway
  <2>4. \/ jobs' = jobs
        \/ /\ jobs' \in Seq(JobType)
           /\ \A k \in DOMAIN jobs' : (k \in DOMAIN jobs /\ jobs'[k] = jobs[k]) \/ jobs'[k].of = p
    <3> HIDE DEF JobType
    <3>1. "issues" \in JobKinds /\ p \in Some
      BY <1>k, <1>p
    <3>2. jobs' = jobs \/ jobs' = Append(jobs, Job("issues", p))
      BY <2>1 DEF IssuesAsked, Started
    <3> QED
      BY <1>0, <3>1, <3>2, StartedJobs
  <2>5. ~crossed' => \A k \in DOMAIN jobs : jobs[k].kind # "issues"
    BY <2>1 DEF Underway
  <2> QED
    BY <1>0, <2>2, <2>3, <2>4, <2>5 DEF JiraInv, OfPicked
<1>3. CASE FilterIssues
  <2>1. jira' = [jira EXCEPT !.shown = jira.held, !.chosen = None] /\ UNCHANGED <<jobs, crossed>>
    BY <1>3 DEF FilterIssues
  <2>2. jira' \in JiraType /\ jira'.picked = jira.picked /\ jira'.held = jira.held /\ jira'.shown = jira.held
    BY <1>0, <1>k, <2>1 DEF JiraType
  <2> QED
    BY <1>0, <2>1, <2>2 DEF JiraInv, OfPicked
<1>4. CASE PickIssue
  <2>1. /\ jobs' = Append(jobs, Job("preview", jira.shown)) /\ UNCHANGED crossed
        /\ jira' = [jira EXCEPT !.chosen = jira.shown, !.preview = None]
    BY <1>4 DEF PickIssue, Started
  <2>2. jira' \in JiraType /\ jira'.picked = jira.picked /\ jira'.held = jira.held /\ jira'.shown = jira.shown
    BY <1>0, <1>k, <2>1 DEF JiraType
  <2>3. jira.shown \in Some
    BY <1>0 DEF JiraType
  <2>4. jobs' \in Seq(JobType) /\ \A k \in DOMAIN jobs' : (k \in DOMAIN jobs /\ jobs'[k] = jobs[k])
                                                          \/ jobs'[k].kind = "preview"
    BY <1>0, <1>k, <2>1, <2>3, StartedJobs
  <2> QED
    BY <1>0, <2>1, <2>2, <2>4, JobsKeep DEF OfPicked
<1>5. CASE AttachIssue
  <2>1. jobs' = Append(jobs, Job("attach", jira.chosen)) /\ UNCHANGED <<jira, crossed>>
    BY <1>5 DEF AttachIssue, Started
  <2>2. jira.chosen \in Some
    BY <1>0 DEF JiraType
  <2>3. jobs' \in Seq(JobType) /\ \A k \in DOMAIN jobs' : (k \in DOMAIN jobs /\ jobs'[k] = jobs[k])
                                                          \/ jobs'[k].kind = "attach"
    BY <1>0, <1>k, <2>1, <2>2, StartedJobs
  <2> QED
    BY <1>0, <2>1, <2>3, JobsKeep DEF OfPicked
<1>6. ASSUME NEW i \in DOMAIN jobs, OnConnected(i) PROVE JiraInv'
  <2>1. Dropped(i) \in Seq(JobType) /\ \A k \in DOMAIN Dropped(i) : \E j \in DOMAIN jobs : Dropped(i)[k] = jobs[j]
    BY <1>0, DroppedJobs
  <2>2. UNCHANGED crossed
    BY <1>6 DEF OnConnected, Called
  <2>3. CASE jobs[i].ok
    <3>1. jobs' = Append(Dropped(i), Job("projects", None)) /\ jira' = [jira EXCEPT !.loading = TRUE]
      BY <1>6, <2>3 DEF OnConnected
    <3>2. jira' \in JiraType /\ jira'.picked = jira.picked /\ jira'.held = jira.held /\ jira'.shown = jira.shown
      BY <1>0, <3>1 DEF JiraType
    <3>3. jobs' \in Seq(JobType) /\ \A k \in DOMAIN jobs' : (k \in DOMAIN Dropped(i) /\ jobs'[k] = Dropped(i)[k])
                                                            \/ jobs'[k].kind = "projects"
      BY <1>k, <2>1, <3>1, StartedJobs
    <3>4. \A k \in DOMAIN jobs' : (\E j \in DOMAIN jobs : jobs'[k] = jobs[j]) \/ jobs'[k].kind = "projects"
      BY <2>1, <3>3
    <3> QED
      BY <1>0, <2>2, <3>2, <3>3, <3>4, JobsKeep DEF OfPicked
  <2>4. CASE ~jobs[i].ok
    <3>1. jobs' = Dropped(i) /\ UNCHANGED jira
      BY <1>6, <2>4 DEF OnConnected
    <3> QED
      BY <1>0, <2>1, <2>2, <3>1, JobsKeep DEF OfPicked
  <2> QED
    BY <2>3, <2>4
<1>7. ASSUME NEW i \in DOMAIN jobs,
             PopulateProjects(i) \/ PopulateIssues(i) \/ SetPreview(i) \/ FinishAttach(i)
      PROVE  JiraInv'
  <2>1. Dropped(i) \in Seq(JobType) /\ \A k \in DOMAIN Dropped(i) : \E j \in DOMAIN jobs : Dropped(i)[k] = jobs[j]
    BY <1>0, DroppedJobs
  <2>2. UNCHANGED crossed /\ jobs' = Dropped(i)
    BY <1>7 DEF PopulateProjects, PopulateIssues, SetPreview, FinishAttach, Called
  <2>3. jobs[i].of \in Some /\ jobs[i].ok \in BOOLEAN
    <3>1. jobs[i] \in JobType
      BY <1>0
    <3> QED
      BY <3>1 DEF JobType
  <2>4. jira' \in JiraType /\ jira'.picked = jira.picked /\ jira'.held = jira.held
        /\ jira'.shown \in {jira.shown, jira.held}
    <3>1. CASE PopulateProjects(i)
      BY <1>0, <2>3, <3>1 DEF PopulateProjects, JiraType
    <3>2. CASE PopulateIssues(i)
      BY <1>0, <1>k, <3>2 DEF PopulateIssues, JiraType
    <3>3. CASE SetPreview(i)
      BY <1>0, <1>k, <2>3, <3>3 DEF SetPreview, JiraType
    <3>4. CASE FinishAttach(i)
      BY <1>0, <3>4 DEF FinishAttach
    <3> QED
      BY <1>7, <3>1, <3>2, <3>3, <3>4
  <2> QED
    BY <1>0, <2>1, <2>2, <2>4, JobsKeep DEF OfPicked
<1>8. ASSUME NEW i \in DOMAIN jobs, NEW ok \in BOOLEAN,
             \/ DoConnect(i, ok) \/ DoFetchProjects(i, ok) \/ DoFetchIssues(i, ok)
             \/ DoLoadPreview(i, ok) \/ DoAttach(i, ok)
      PROVE  JiraInv'
  <2>1. UNCHANGED crossed /\ jobs' = [jobs EXCEPT ![i].posted = TRUE, ![i].ok = ok]
    BY <1>8 DEF DoConnect, DoFetchProjects, DoFetchIssues, DoLoadPreview, DoAttach, JobAnswered
  <2>2. jobs[i] \in JobType
    BY <1>0
  <2> DEFINE job == [jobs[i] EXCEPT !.posted = TRUE, !.ok = ok]
  <2>3. job \in JobType /\ job.kind = jobs[i].kind /\ job.of = jobs[i].of
    BY <2>2 DEF JobType
  <2>4. jobs' = [jobs EXCEPT ![i] = job]
    BY <2>1
  <2> HIDE DEF job
  <2>5. jobs' \in Seq(JobType) /\ \A k \in DOMAIN jobs' : k \in DOMAIN jobs /\ jobs'[k].kind = jobs[k].kind
                                                          /\ jobs'[k].of = jobs[k].of
    BY <1>0, <2>3, <2>4
  <2>6. jobs[i].of \in Some
    BY <2>2 DEF JobType
  <2>7. jira' \in JiraType /\ jira'.picked = jira.picked /\ jira'.shown = jira.shown
        /\ (jira'.held = jira.held \/ (jobs[i].kind = "issues" /\ jira'.held = jobs[i].of))
    <3>1. CASE DoConnect(i, ok)
      BY <1>0, <3>1 DEF DoConnect, JiraType
    <3>2. CASE DoFetchProjects(i, ok)
      BY <1>0, <3>2 DEF DoFetchProjects, JiraType
    <3>3. CASE DoFetchIssues(i, ok)
      BY <1>0, <2>6, <3>3 DEF DoFetchIssues, JobAnswered, JiraType
    <3>4. CASE DoLoadPreview(i, ok) \/ DoAttach(i, ok)
      BY <1>0, <3>4 DEF DoLoadPreview, DoAttach
    <3> QED
      BY <1>8, <3>1, <3>2, <3>3, <3>4
  <2> QED
    BY <1>0, <2>1, <2>5, <2>7, JobsKeep DEF OfPicked
<1>9. CASE UNCHANGED jiraVars
  BY <1>0, <1>9 DEF jiraVars, JiraInv, OfPicked
<1> QED
  BY <1>1, <1>2, <1>3, <1>4, <1>5, <1>6, <1>7, <1>8, <1>9 DEF TabsNext, JiraNext, tabsVars

\* The lists of a quiet tab are of one project, what is attached is what is
\* shown, and no issues are shown but those of the project picked, however
\* threads, callbacks and choices interleave; and what the Context Browser
\* attaches is the item it shows (GitLabTab, JiraTab, ContextBrowserTab).
THEOREM WhatIsShown == TabsSpec /\ BrowserSpec => []TabsTell
<1>1. LabInv /\ JiraInv => TabsAgree
  <2> SUFFICES ASSUME LabInv, JiraInv PROVE TabsAgree
    OBVIOUS
  <2>1. LabIdle => \A l, m \in Lists3 : lab.shown[l] = lab.shown[m]
    BY DEF LabInv, OneFetch, HeldAgree, HeldShown, Promised, LabIdle
  <2> QED
    BY <2>1 DEF LabInv, AttachedShown, JiraInv, OfPicked, TabsAgree
<1>2. TabsSpec => []TabsAgree
  BY <1>1, InitLab, NextLab, InitJira, NextJira, PTL DEF TabsSpec
<1>3. BrowserInv => ActsOnShown
  BY DEF BrowserInv
<1>4. BrowserSpec => []ActsOnShown
  BY <1>3, InitBrowser, NextBrowser, PTL DEF BrowserSpec
<1> QED
  BY <1>2, <1>4, PTL DEF TabsTell

-----------------------------------------------------------------------------
(* Induction: the library's theorems take a predicate, which the provers   *)
(* cannot instantiate; a set does as well.                                 *)

\* A set of numbers has a least one: induction, for a set in place of a
\* predicate.
LEMMA LeastNumber ==
  ASSUME NEW T \in SUBSET Nat, T # {}
  PROVE  \E x \in T : \A y \in T : x <= y
<1> DEFINE R == OpToRel(<, Nat)
<1>1. IsWellFoundedOn(R, Nat)
  BY NatLessThanWellFounded
<1>2. \A y, x \in Nat : y < x => <<y, x>> \in R
  BY DEF OpToRel
<1> HIDE DEF R
<1>3. PICK x \in T : \A y \in T : ~ (<<y, x>> \in R)
  BY <1>1, WFMin
<1>4. ASSUME NEW y \in T PROVE x <= y
  <2>1. x \in Nat /\ y \in Nat
    OBVIOUS
  <2>2. ~(y < x)
    BY <1>2, <1>3, <2>1
  <2> QED
    BY <2>1, <2>2
<1> QED
  BY <1>4

\* What holds of 0 and, with a number, of the next, holds of all up to n.
LEMMA AllUpTo ==
  ASSUME NEW n \in Nat, NEW S, 0 \in S, \A i \in 1 .. n : i - 1 \in S => i \in S
  PROVE  0 .. n \subseteq S
<1> SUFFICES ASSUME ~(0 .. n \subseteq S) PROVE FALSE
  OBVIOUS
<1> DEFINE T == { i \in 0 .. n : i \notin S }
<1>1. T \in SUBSET Nat /\ T # {}
  OBVIOUS
<1>2. PICK x \in T : \A y \in T : x <= y
  BY <1>1, LeastNumber
<1>3. x # 0 /\ x \in 1 .. n
  BY <1>2
<1>4. x - 1 \notin T
  BY <1>2, <1>3
<1>5. x - 1 \in S
  BY <1>3, <1>4
<1> QED
  BY <1>2, <1>3, <1>5

-----------------------------------------------------------------------------
(* Commands of one turn: what their exit code tells.                       *)

HeadlessSpec == HeadlessInit /\ [][HeadlessNext]_headlessVars

TurnPcs == {"start", "opened", "ready", "asked", "row", "user", "assistant", "archive", "output", "end"}
TurnType == [pc : TurnPcs, command : Commands, conv : Convs, archived : BOOLEAN, exit : {-1, 0, 1}]
HeadlessTyped ==
  /\ row \in [Convs -> [there : BOOLEAN, archived : BOOLEAN]]
  /\ stored \in [Convs -> SUBSET (Turns \X {"user", "assistant"})]
  /\ turn \in [Turns -> TurnType]

Left(t, c) == { m \in stored[c] : m[1] = t }
\* What a command has stored, step by step.
StoredSoFar(t) ==
  LET left == Left(t, turn[t].conv) IN
  /\ turn[t].pc \in {"start", "opened", "ready", "asked", "row", "user"} => \A c \in Convs : Left(t, c) = {}
  /\ At(t, "assistant") => left = {Question(t)}
  /\ turn[t].pc \in {"archive", "output"} => left = {Question(t), ReplyTo(t)}
  /\ ~At(t, "end") => turn[t].exit = -1
  /\ turn[t].exit = 0 /\ turn[t].command # "empty" => left = {Question(t), ReplyTo(t)}
  /\ turn[t].exit = 1 /\ t \notin late => left = {}
  /\ ReplyTo(t) \in left => Question(t) \in left

HeadlessInv == HeadlessTyped /\ \A t \in Turns \ erased : StoredSoFar(t)

LEMMA InitHeadless == HeadlessInit => HeadlessInv
<1> SUFFICES ASSUME HeadlessInit PROVE HeadlessInv
  OBVIOUS
<1>1. Unstarted \in TurnType /\ Unstarted.pc = "start" /\ Unstarted.exit = -1
  BY HeadlessAssumption DEF Unstarted, TurnType, TurnPcs, Commands
<1>2. row \in [Convs -> [there : BOOLEAN, archived : BOOLEAN]]
  <2>1. PICK c \in Convs \ {Ongoing} : row = [d \in Convs |-> [NoRow EXCEPT !.there = d = c]]
    BY DEF HeadlessInit
  <2>2. \A d \in Convs : [NoRow EXCEPT !.there = d = c] \in [there : BOOLEAN, archived : BOOLEAN]
    BY DEF NoRow
  <2> QED
    BY <2>1, <2>2
<1>3. stored = [c \in Convs |-> {}] /\ turn = [t \in Turns |-> Unstarted]
  BY DEF HeadlessInit
<1>4. \A t \in Turns, c \in Convs : Left(t, c) = {}
  BY <1>3 DEF Left
<1>5. \A t \in Turns : turn[t] = Unstarted /\ turn[t].conv \in Convs
  BY <1>1, <1>3 DEF TurnType
<1> QED
  BY <1>1, <1>2, <1>3, <1>4, <1>5 DEF HeadlessInv, HeadlessTyped, StoredSoFar, At

\* A step of one command leaves what the others have stored.
LEMMA OneTurnKeeps ==
  ASSUME HeadlessInv, NEW t \in Turns, HeadlessTyped', late \subseteq late', erased' = erased,
         \A u \in Turns : u # t => turn'[u] = turn[u] /\ \A c \in Convs : Left(u, c)' = Left(u, c),
         t \notin erased => StoredSoFar(t)'
  PROVE  HeadlessInv'
<1> SUFFICES ASSUME NEW u \in Turns, u \notin erased PROVE StoredSoFar(u)'
  BY DEF HeadlessInv
<1>1. CASE u = t
  BY <1>1
<1>2. CASE u # t
  <2>1. StoredSoFar(u) /\ turn[u] \in TurnType
    BY DEF HeadlessInv, HeadlessTyped
  <2>2. turn[u].conv \in Convs
    BY <2>1 DEF TurnType
  <2> QED
    BY <1>2, <2>1, <2>2 DEF StoredSoFar, At
<1> QED
  BY <1>1, <1>2

\* A step that stores no message.
LEMMA TurnKeeps ==
  ASSUME HeadlessInv, NEW t \in Turns, UNCHANGED <<stored, erased>>, late \subseteq late',
         row' \in [Convs -> [there : BOOLEAN, archived : BOOLEAN]],
         NEW next \in TurnType, turn' = [turn EXCEPT ![t] = next],
         t \notin erased => StoredSoFar(t)'
  PROVE  HeadlessInv'
<1>1. HeadlessTyped'
  BY DEF HeadlessInv, HeadlessTyped
<1>2. \A u \in Turns : u # t => turn'[u] = turn[u] /\ \A c \in Convs : Left(u, c)' = Left(u, c)
  BY DEF HeadlessInv, HeadlessTyped, Left
<1> QED
  BY <1>1, <1>2, OneTurnKeeps

\* A command that goes on with nothing stored yet, or whatever its place is.
LEMMA EarlyKeeps ==
  ASSUME HeadlessInv, NEW t \in Turns, UNCHANGED <<stored, erased, late>>,
         row' \in [Convs -> [there : BOOLEAN, archived : BOOLEAN]],
         NEW next \in TurnType, turn' = [turn EXCEPT ![t] = next],
         turn[t].pc \in {"start", "opened", "ready", "asked", "row"},
         \/ next.pc \in {"opened", "ready", "asked", "row", "user"} /\ next.exit = turn[t].exit
         \/ next.pc = "end" /\ (next.exit = 1 \/ (next.exit = 0 /\ next.command = "empty"))
  PROVE  HeadlessInv'
<1>1. ASSUME t \notin erased PROVE StoredSoFar(t)'
  <2>1. StoredSoFar(t) /\ turn'[t] = next /\ next.conv \in Convs /\ next.pc \in TurnPcs
    BY <1>1 DEF HeadlessInv, HeadlessTyped, TurnType
  <2>2. \A c \in Convs : Left(t, c) = {} /\ Left(t, c)' = {}
    BY <2>1 DEF StoredSoFar, Left
  <2>3. turn[t].exit = -1
    BY <2>1 DEF StoredSoFar, At
  <2> QED
    BY <2>1, <2>2, <2>3 DEF StoredSoFar, At
<1> QED
  BY <1>1, TurnKeeps

LEMMA TurnSteps ==
  ASSUME HeadlessTyped, NEW t \in Turns
  PROVE  /\ turn[t] \in TurnType /\ turn[t].conv \in Convs
         /\ \A pc \in TurnPcs : LET next == [turn[t] EXCEPT !.pc = pc]
              IN  /\ next \in TurnType /\ next.pc = pc /\ next.exit = turn[t].exit
                  /\ next.conv = turn[t].conv /\ next.command = turn[t].command
                  /\ GoesTo(t, pc) => turn' = [turn EXCEPT ![t] = next]
         /\ \A x \in {0, 1} : LET next == [turn[t] EXCEPT !.pc = "end", !.archived = FALSE, !.exit = x]
              IN  /\ next \in TurnType /\ next.pc = "end" /\ next.exit = x
                  /\ next.conv = turn[t].conv /\ next.command = turn[t].command
                  /\ Exits(t, x) => turn' = [turn EXCEPT ![t] = next]
<1>1. turn[t] \in TurnType
  BY DEF HeadlessTyped
<1>2. turn[t].conv \in Convs
  BY <1>1 DEF TurnType
<1>3. ASSUME NEW pc \in TurnPcs
      PROVE  LET next == [turn[t] EXCEPT !.pc = pc]
             IN  /\ next \in TurnType /\ next.pc = pc /\ next.exit = turn[t].exit
                 /\ next.conv = turn[t].conv /\ next.command = turn[t].command
                 /\ GoesTo(t, pc) => turn' = [turn EXCEPT ![t] = next]
  BY <1>1 DEF TurnType, GoesTo
<1>4. ASSUME NEW x \in {0, 1}
      PROVE  LET next == [turn[t] EXCEPT !.pc = "end", !.archived = FALSE, !.exit = x]
             IN  /\ next \in TurnType /\ next.pc = "end" /\ next.exit = x
                 /\ next.conv = turn[t].conv /\ next.command = turn[t].command
                 /\ Exits(t, x) => turn' = [turn EXCEPT ![t] = next]
  BY <1>1 DEF TurnType, TurnPcs, Exits
<1> QED
  BY <1>1, <1>2, <1>3, <1>4

\* A command that ends with an error after the reply tells nothing.
LEMMA LateKeeps ==
  ASSUME HeadlessInv, NEW t \in Turns, Exits(t, 1), late' = late \cup {t}, UNCHANGED <<row, stored, erased>>,
         turn[t].pc \in {"row", "user", "assistant", "archive", "output"}
  PROVE  HeadlessInv'
<1> DEFINE next == [turn[t] EXCEPT !.pc = "end", !.archived = FALSE, !.exit = 1]
<1>1. /\ next \in TurnType /\ next.pc = "end" /\ next.exit = 1 /\ next.conv = turn[t].conv
      /\ turn' = [turn EXCEPT ![t] = next] /\ turn[t].conv \in Convs
  BY TurnSteps DEF HeadlessInv
<1> HIDE DEF next
<1>2. row' \in [Convs -> [there : BOOLEAN, archived : BOOLEAN]] /\ turn'[t] = next
  BY <1>1 DEF HeadlessInv, HeadlessTyped
<1>3. ASSUME t \notin erased PROVE StoredSoFar(t)'
  <2>1. ReplyTo(t) \in Left(t, turn[t].conv) => Question(t) \in Left(t, turn[t].conv)
    BY <1>3 DEF HeadlessInv, StoredSoFar
  <2>2. Left(t, turn[t].conv)' = Left(t, turn[t].conv)
    BY <1>1, <1>2 DEF Left
  <2> QED
    BY <1>1, <1>2, <2>1, <2>2 DEF StoredSoFar, At
<1> QED
  BY <1>1, <1>2, <1>3, TurnKeeps

LEMMA SaveMessageKeeps ==
  ASSUME HeadlessInv, NEW t \in Turns,
         SaveQuestion(t) \/ SaveReply(t)
  PROVE  HeadlessInv'
<1> DEFINE c == turn[t].conv
<1>1. turn[t] \in TurnType /\ c \in Convs
  BY TurnSteps DEF HeadlessInv
<1>2. PICK message \in {Question(t), ReplyTo(t)}, to \in {"assistant", "archive"} :
        /\ message = Question(t) => At(t, "user") /\ to = "assistant"
        /\ message = ReplyTo(t) => At(t, "assistant") /\ to = "archive"
        /\ GoesTo(t, to) /\ stored' = [stored EXCEPT ![c] = @ \cup {message}] /\ UNCHANGED <<row, erased, late>>
  <2>1. Question(t) # ReplyTo(t)
    BY DEF Question, ReplyTo
  <2> QED
    BY <2>1 DEF SaveQuestion, SaveReply, SaveMessage
<1> DEFINE next == [turn[t] EXCEPT !.pc = to]
<1>3. /\ next \in TurnType /\ next.pc = to /\ next.exit = turn[t].exit /\ next.conv = c
      /\ next.command = turn[t].command /\ turn' = [turn EXCEPT ![t] = next]
  <2>1. to \in TurnPcs /\ HeadlessTyped /\ GoesTo(t, to)
    BY <1>2 DEF HeadlessInv, TurnPcs
  <2> QED
    BY <2>1, TurnSteps
<1> HIDE DEF next
<1>4. message \in Turns \X {"user", "assistant"} /\ message[1] = t
  BY <1>2 DEF Question, ReplyTo
<1>5. HeadlessTyped' /\ stored'[c] = stored[c] \cup {message} /\ turn'[t] = next
      /\ \A d \in Convs : d # c => stored'[d] = stored[d]
  BY <1>1, <1>2, <1>3, <1>4 DEF HeadlessInv, HeadlessTyped
<1>6. \A u \in Turns : u # t => turn'[u] = turn[u] /\ \A d \in Convs : Left(u, d)' = Left(u, d)
  <2>1. ASSUME NEW u \in Turns, u # t, NEW d \in Convs PROVE Left(u, d)' = Left(u, d)
    BY <1>4, <1>5, <2>1 DEF Left
  <2> QED
    BY <1>3, <2>1 DEF HeadlessInv, HeadlessTyped
<1>7. Left(t, c)' = Left(t, c) \cup {message}
  <2>1. { m \in stored'[c] : m[1] = t } = { m \in stored[c] : m[1] = t } \cup {message}
    BY <1>4, <1>5
  <2>2. Left(t, c)' = { m \in stored'[c] : m[1] = t }
    BY <1>3, <1>5 DEF Left
  <2> QED
    BY <2>1, <2>2 DEF Left
<1>8. ASSUME t \notin erased PROVE StoredSoFar(t)'
  <2>1. StoredSoFar(t) /\ Left(t, turn[t].conv)' = Left(t, c) \cup {message}
    BY <1>3, <1>5, <1>7, <1>8 DEF HeadlessInv
  <2>2. turn[t].exit = -1
    BY <1>2, <2>1 DEF StoredSoFar, At
  <2>3. CASE message = Question(t)
    <3>1. Left(t, turn[t].conv)' = {Question(t)} /\ turn'[t].pc = "assistant" /\ turn'[t].exit = -1
      BY <1>1, <1>2, <1>3, <1>5, <2>1, <2>2, <2>3 DEF StoredSoFar, At
    <3>2. Question(t) # ReplyTo(t)
      BY DEF Question, ReplyTo
    <3> QED
      BY <3>1, <3>2 DEF StoredSoFar, At
  <2>4. CASE message = ReplyTo(t)
    <3>1. Left(t, turn[t].conv)' = {Question(t), ReplyTo(t)} /\ turn'[t].pc = "archive" /\ turn'[t].exit = -1
      BY <1>1, <1>2, <1>3, <1>5, <2>1, <2>2, <2>4 DEF StoredSoFar, At
    <3> QED
      BY <3>1 DEF StoredSoFar, At
  <2> QED
    BY <1>2, <2>3, <2>4
<1> QED
  BY <1>2, <1>5, <1>6, <1>8, OneTurnKeeps

\* What others archive and delete: a deletion takes all of a conversation.
LEMMA OtherKeeps ==
  ASSUME HeadlessInv, NEW c \in Convs, ArchiveOther(c) \/ UnarchiveOther(c) \/ DeleteOther(c)
  PROVE  HeadlessInv'
<1>1. row' \in [Convs -> [there : BOOLEAN, archived : BOOLEAN]] /\ turn' = turn /\ late' = late
  <2>1. row \in [Convs -> [there : BOOLEAN, archived : BOOLEAN]]
    BY DEF HeadlessInv, HeadlessTyped
  <2>2. CASE DeleteOther(c)
    BY <2>1, <2>2 DEF DeleteOther, NoRow
  <2>3. ASSUME NEW b \in BOOLEAN, row' = [row EXCEPT ![c].archived = b]
        PROVE  row' \in [Convs -> [there : BOOLEAN, archived : BOOLEAN]]
    BY <2>1, <2>3
  <2> QED
    BY <2>2, <2>3 DEF ArchiveOther, UnarchiveOther, DeleteOther
<1>2. CASE ArchiveOther(c) \/ UnarchiveOther(c)
  <2>1. UNCHANGED <<stored, turn, erased, late>>
    BY <1>2 DEF ArchiveOther, UnarchiveOther
  <2>2. \A t \in Turns : StoredSoFar(t) => StoredSoFar(t)'
    BY <2>1 DEF StoredSoFar, Left, At
  <2> QED
    BY <1>1, <2>1, <2>2 DEF HeadlessInv, HeadlessTyped
<1>3. CASE DeleteOther(c)
  <2>1. /\ stored' = [stored EXCEPT ![c] = {}]
        /\ erased' = erased \cup { t \in Turns : Question(t) \in stored[c] \/ ReplyTo(t) \in stored[c] }
    BY <1>3 DEF DeleteOther
  <2>2. HeadlessTyped'
    BY <1>1, <2>1 DEF HeadlessInv, HeadlessTyped
  <2>3. ASSUME NEW t \in Turns, t \notin erased' PROVE StoredSoFar(t)'
    <3>1. StoredSoFar(t) /\ Question(t) \notin stored[c] /\ ReplyTo(t) \notin stored[c]
      BY <2>1, <2>3 DEF HeadlessInv
    <3>2. \A m \in stored[c] : m[1] = t => m \in {Question(t), ReplyTo(t)}
      BY DEF HeadlessInv, HeadlessTyped, Question, ReplyTo
    <3>3. Left(t, c) = {}
      BY <3>1, <3>2 DEF Left
    <3>4. \A d \in Convs : Left(t, d)' = Left(t, d)
      BY <2>1, <3>3 DEF Left, HeadlessInv, HeadlessTyped
    <3>5. turn[t].conv \in Convs
      BY TurnSteps DEF HeadlessInv
    <3> QED
      BY <1>1, <3>1, <3>4, <3>5 DEF StoredSoFar, At
  <2> QED
    BY <2>2, <2>3 DEF HeadlessInv
<1> QED
  BY <1>2, <1>3

LEMMA NextHeadless == HeadlessInv /\ [HeadlessNext]_headlessVars => HeadlessInv'
<1> SUFFICES ASSUME HeadlessInv, [HeadlessNext]_headlessVars PROVE HeadlessInv'
  OBVIOUS
<1>0. HeadlessTyped /\ row \in [Convs -> [there : BOOLEAN, archived : BOOLEAN]]
  BY DEF HeadlessInv, HeadlessTyped
<1>1. ASSUME NEW t \in Turns, NEW command \in Commands, Prepare(t, command) PROVE HeadlessInv'
  <2> DEFINE next == [turn[t] EXCEPT !.pc = "opened", !.command = command]
  <2>1. next \in TurnType /\ next.pc = "opened" /\ next.exit = turn[t].exit
    BY <1>0, TurnSteps, ZenonT(60) DEF TurnType, TurnPcs
  <2>2. At(t, "start") /\ turn' = [turn EXCEPT ![t] = next] /\ UNCHANGED <<row, stored, erased, late>>
    BY <1>1 DEF Prepare, StoreStays
  <2> HIDE DEF next
  <2> QED
    BY <1>0, <2>1, <2>2, EarlyKeeps DEF At
<1>2. ASSUME NEW t \in Turns, NEW c \in Convs, NEW b \in BOOLEAN, At(t, "opened"),
             Opens(t, c, b), StoreStays, UNCHANGED late
      PROVE  HeadlessInv'
  <2> DEFINE next == [turn[t] EXCEPT !.pc = "ready", !.conv = c, !.archived = b]
  <2>3. turn[t] \in TurnType
    BY <1>0, TurnSteps
  <2>1. next \in TurnType /\ next.pc = "ready" /\ next.exit = turn[t].exit
    BY <2>3 DEF TurnType, TurnPcs
  <2>2. At(t, "opened") /\ turn' = [turn EXCEPT ![t] = next] /\ UNCHANGED <<row, stored, erased, late>>
    BY <1>2 DEF Opens, StoreStays
  <2> HIDE DEF next
  <2> QED
    BY <1>0, <2>1, <2>2, EarlyKeeps DEF At
<1>3. ASSUME NEW t \in Turns, NEW c \in Convs, NEW b \in BOOLEAN,
             \/ RunHeadlessAsk(t, c) \/ RunChatNew(t, c) \/ RunHeadlessContinue(t, c)
             \/ RunChatSend(t, c, b) \/ OpenOngoing(t)
      PROVE  HeadlessInv'
  <2>1. row[c].archived \in BOOLEAN /\ (row[Ongoing].there /\ row[Ongoing].archived) \in BOOLEAN
        /\ FALSE \in BOOLEAN /\ Ongoing \in Convs
    BY <1>0, HeadlessAssumption
  <2>2. CASE RunHeadlessAsk(t, c) \/ RunChatNew(t, c)
    BY <1>2, <2>1, <2>2 DEF RunHeadlessAsk, RunChatNew
  <2>3. CASE RunHeadlessContinue(t, c) \/ RunChatSend(t, c, b)
    BY <1>2, <2>1, <2>3 DEF RunHeadlessContinue, RunChatSend
  <2>4. CASE OpenOngoing(t)
    BY <1>2, <2>1, <2>4 DEF OpenOngoing
  <2> QED
    BY <1>3, <2>2, <2>3, <2>4
\* An end before anything is stored.
<1>4. ASSUME NEW t \in Turns, NEW x \in {0, 1}, Exits(t, x), x = 1 \/ turn[t].command = "empty",
             turn[t].pc \in {"start", "opened", "ready", "asked"}, UNCHANGED <<stored, erased, late>>,
             row' \in [Convs -> [there : BOOLEAN, archived : BOOLEAN]]
      PROVE  HeadlessInv'
  <2> DEFINE next == [turn[t] EXCEPT !.pc = "end", !.archived = FALSE, !.exit = x]
  <2>1. next \in TurnType /\ next.pc = "end" /\ next.exit = x /\ next.command = turn[t].command
        /\ turn' = [turn EXCEPT ![t] = next]
    BY <1>0, <1>4, TurnSteps, ZenonT(60)
  <2> HIDE DEF next
  <2> QED
    BY <1>4, <2>1, EarlyKeeps
<1>5. ASSUME NEW t \in Turns, BadArguments(t) \/ FailsBefore(t) \/ CreateEmpty(t) PROVE HeadlessInv'
  <2>1. CASE BadArguments(t) \/ FailsBefore(t)
    BY <1>0, <1>4, <2>1 DEF BadArguments, FailsBefore, StoreStays, At
  <2>2. CASE CreateEmpty(t)
    <3>1. row' \in [Convs -> [there : BOOLEAN, archived : BOOLEAN]]
      BY <1>0, <2>2 DEF CreateEmpty, NoRow
    <3> QED
      BY <1>4, <2>2, <3>1 DEF CreateEmpty, At
  <2> QED
    BY <1>5, <2>1, <2>2
<1>6. ASSUME NEW t \in Turns, NEW failIfMissing \in BOOLEAN, NoneFound(t, failIfMissing) PROVE HeadlessInv'
  <2>1. CASE Exits(t, 1)
    BY <1>0, <1>4, <1>6, <2>1 DEF NoneFound, StoreStays, At
  <2>2. CASE turn' = [turn EXCEPT ![t].command = "new"]
    <3> DEFINE next == [turn[t] EXCEPT !.command = "new"]
    <3>1. next \in TurnType /\ next.pc = turn[t].pc /\ next.exit = turn[t].exit
      BY <1>0, TurnSteps DEF TurnType, Commands
    <3>2. At(t, "opened") /\ turn' = [turn EXCEPT ![t] = next] /\ UNCHANGED <<row, stored, erased, late>>
      BY <1>6, <2>2 DEF NoneFound, StoreStays
    <3> HIDE DEF next
    <3> QED
      BY <1>0, <3>1, <3>2, EarlyKeeps DEF At
  <2> QED
    BY <1>6, <2>1, <2>2 DEF NoneFound
\* A step forward with nothing stored.
<1>7. ASSUME NEW t \in Turns, Ask(t) \/ Answered(t) \/ SaveRow(t) PROVE HeadlessInv'
  <2>1. PICK pc \in {"asked", "row", "user"} :
          GoesTo(t, pc) /\ turn[t].pc \in {"ready", "asked", "row"} /\ UNCHANGED <<stored, erased, late>>
    BY <1>7 DEF Ask, Answered, SaveRow, StoreStays, At
  <2>2. row' \in [Convs -> [there : BOOLEAN, archived : BOOLEAN]]
    <3>1. CASE SaveRow(t)
      <4>1. turn[t].archived \in BOOLEAN
        BY <1>0, TurnSteps DEF TurnType
      <4> QED
        BY <1>0, <3>1, <4>1 DEF SaveRow
    <3>2. CASE Ask(t) \/ Answered(t)
      BY <1>0, <3>2 DEF Ask, Answered, StoreStays
    <3> QED
      BY <1>7, <3>1, <3>2
  <2> DEFINE next == [turn[t] EXCEPT !.pc = pc]
  <2>3. pc \in TurnPcs
    BY DEF TurnPcs
  <2>4. next \in TurnType /\ next.pc = pc /\ next.exit = turn[t].exit /\ turn' = [turn EXCEPT ![t] = next]
    BY <1>0, <2>1, <2>3, TurnSteps
  <2> HIDE DEF next
  <2> QED
    BY <2>1, <2>2, <2>4, EarlyKeeps
<1>8. ASSUME NEW t \in Turns, SaveQuestion(t) \/ SaveReply(t) PROVE HeadlessInv'
  BY <1>8, SaveMessageKeeps
<1>9. ASSUME NEW t \in Turns, SaveFails(t) PROVE HeadlessInv'
  BY <1>9, LateKeeps DEF SaveFails, StoreStays
\* The end of a command that has stored both.
<1>10. ASSUME NEW t \in Turns, NEW next \in TurnType, turn' = [turn EXCEPT ![t] = next], next.conv = turn[t].conv,
              turn[t].pc \in {"archive", "output"}, UNCHANGED <<row, stored, erased, late>>,
              (next.pc = "output" /\ next.exit = turn[t].exit) \/ (next.pc = "end" /\ next.exit = 0)
       PROVE  HeadlessInv'
  <2>1. ASSUME t \notin erased PROVE StoredSoFar(t)'
    <3>1. StoredSoFar(t) /\ turn'[t] = next /\ turn[t].exit = -1
      BY <1>0, <1>10, <2>1 DEF HeadlessInv, HeadlessTyped, StoredSoFar, At
    <3>2. Left(t, turn[t].conv) = {Question(t), ReplyTo(t)}
      BY <1>10, <3>1 DEF StoredSoFar, At
    <3>3. Left(t, turn[t].conv)' = {Question(t), ReplyTo(t)}
      BY <1>10, <3>1, <3>2 DEF Left
    <3> QED
      BY <1>10, <3>1, <3>3 DEF StoredSoFar, At
  <2> QED
    BY <1>0, <1>10, <2>1, TurnKeeps
<1>11. ASSUME NEW t \in Turns, NEW approval \in BOOLEAN, ArchiveTurn(t, approval) PROVE HeadlessInv'
  <2>1. CASE approval
    BY <1>11, <2>1, LateKeeps DEF ArchiveTurn, StoreStays, At
  <2>2. CASE ~approval
    <3> DEFINE next == [turn[t] EXCEPT !.pc = "output"]
    <3>1. "output" \in TurnPcs /\ GoesTo(t, "output") /\ At(t, "archive") /\ UNCHANGED <<row, stored, erased, late>>
      BY <1>11, <2>2 DEF ArchiveTurn, StoreStays, TurnPcs
    <3>2. next \in TurnType /\ next.pc = "output" /\ next.exit = turn[t].exit /\ next.conv = turn[t].conv
          /\ turn' = [turn EXCEPT ![t] = next]
      BY <1>0, <3>1, TurnSteps
    <3> HIDE DEF next
    <3> QED
      BY <1>10, <3>1, <3>2 DEF At
  <2> QED
    BY <2>1, <2>2
<1>12. ASSUME NEW t \in Turns, NEW fails \in BOOLEAN, WriteOutput(t, fails) PROVE HeadlessInv'
  <2>1. CASE fails
    BY <1>12, <2>1, LateKeeps DEF WriteOutput, StoreStays, At
  <2>2. CASE ~fails
    <3> DEFINE next == [turn[t] EXCEPT !.pc = "end", !.archived = FALSE, !.exit = 0]
    <3>1. Exits(t, 0) /\ At(t, "output") /\ UNCHANGED <<row, stored, erased, late>>
      BY <1>12, <2>2 DEF WriteOutput, StoreStays
    <3>2. next \in TurnType /\ next.pc = "end" /\ next.exit = 0 /\ next.conv = turn[t].conv
          /\ turn' = [turn EXCEPT ![t] = next]
      BY <1>0, <3>1, TurnSteps
    <3> HIDE DEF next
    <3> QED
      BY <1>10, <3>1, <3>2 DEF At
  <2> QED
    BY <2>1, <2>2
<1>13. CASE UNCHANGED headlessVars
  <2>1. row' = row /\ stored' = stored /\ turn' = turn /\ erased' = erased /\ late' = late
    BY <1>13 DEF headlessVars
  <2>2. \A t \in Turns : StoredSoFar(t) => StoredSoFar(t)'
    BY <2>1 DEF StoredSoFar, Left, At
  <2> QED
    BY <2>1, <2>2 DEF HeadlessInv, HeadlessTyped
<1> QED
  BY <1>1, <1>3, <1>5, <1>6, <1>7, <1>8, <1>9, <1>11, <1>12, <1>13, OtherKeeps, HeadlessAssumption DEF HeadlessNext

\* Whatever other commands, archiving and deletions come between its steps, and
\* wherever it fails: exit code 0 says that both messages are in the store, 1
\* before the reply that none is, and a reply never stands without its question
\* (run_headless_ask, run_headless_continue, persist_turn).
THEOREM ExitCodesTell == HeadlessSpec => []ExitTells
<1>1. HeadlessInv => ExitTells
  BY DEF HeadlessInv, StoredSoFar, Left, ExitTells
<1> QED
  BY <1>1, InitHeadless, NextHeadless, PTL DEF HeadlessSpec

\* The first occurrence is put in front: nothing is lost.
LEMMA ToTheFront ==
  ASSUME NEW S, NEW s \in Seq(S), NEW e \in S, e \in ToSet(s)
  PROVE  /\ <<e>> \o RemoveFirst(s, e) \in Seq(S) /\ Len(<<e>> \o RemoveFirst(s, e)) = Len(s)
         /\ ToSet(<<e>> \o RemoveFirst(s, e)) = ToSet(s)
<1> DEFINE I == { i \in 1 .. Len(s) : s[i] = e }
           k == Min(I)
           a == SubSeq(s, 1, k - 1)
           b == SubSeq(s, k + 1, Len(s))
<1>1. Len(s) \in Nat /\ \E i \in 1 .. Len(s) : s[i] = e
  BY DEF ToSet
<1>2. k \in 1 .. Len(s) /\ s[k] = e
  <2>1. I \in SUBSET Nat /\ I # {}
    BY <1>1
  <2>2. PICK x \in I : \A y \in I : x <= y
    BY <2>1, LeastNumber
  <2>3. k = CHOOSE z \in I : \A y \in I : z <= y
    BY DEF Min
  <2> HIDE DEF I, k
  <2>4. k \in I
    BY <2>2, <2>3
  <2> QED
    BY <2>4 DEF I
<1>3. RemoveFirst(s, e) = a \o b
  BY <1>1 DEF RemoveFirst, RemoveAt, SelectInSeq
<1> HIDE DEF k
<1>4. a \in Seq(S) /\ Len(a) = k - 1 /\ \A i \in 1 .. k - 1 : a[i] = s[i]
  BY <1>1, <1>2
<1>5. b \in Seq(S) /\ Len(b) = Len(s) - k /\ \A i \in 1 .. Len(s) - k : b[i] = s[k + i]
  BY <1>1, <1>2
<1> DEFINE c == a \o b
           d == <<e>> \o c
<1> HIDE DEF a, b
<1>6. c \in Seq(S) /\ Len(c) = Len(s) - 1
      /\ \A i \in 1 .. Len(s) - 1 : c[i] = IF i < k THEN s[i] ELSE s[i + 1]
  <2>1. c \in Seq(S) /\ Len(c) = Len(a) + Len(b)
    BY <1>4, <1>5
  <2>2. ASSUME NEW i \in 1 .. Len(s) - 1 PROVE c[i] = IF i < k THEN s[i] ELSE s[i + 1]
    <3>1. CASE i < k
      BY <1>1, <1>2, <1>4, <1>5, <3>1
    <3>2. CASE ~(i < k)
      <4>0. Len(a) \in Nat /\ Len(b) \in Nat /\ i \in 1 .. Len(a) + Len(b) /\ i > Len(a)
        BY <1>1, <1>2, <1>4, <1>5, <3>2
      <4>1. c[i] = b[i - Len(a)]
        BY <1>4, <1>5, <4>0
      <4>2. i - (k - 1) \in 1 .. Len(s) - k /\ k + (i - (k - 1)) = i + 1
        BY <1>1, <1>2, <3>2
      <4> QED
        BY <1>4, <1>5, <3>2, <4>1, <4>2
    <3> QED
      BY <3>1, <3>2
  <2> QED
    BY <1>1, <1>2, <1>4, <1>5, <2>1, <2>2
<1> HIDE DEF c
<1>7. d \in Seq(S) /\ Len(d) = Len(s) /\ d[1] = e /\ \A i \in 2 .. Len(s) : d[i] = c[i - 1]
  BY <1>1, <1>2, <1>6
<1> HIDE DEF d
<1>8. ToSet(d) = ToSet(s)
  <2>1. ToSet(d) = { d[i] : i \in 1 .. Len(s) } /\ ToSet(s) = { s[i] : i \in 1 .. Len(s) }
    BY <1>7 DEF ToSet
  <2>2. ASSUME NEW i \in 1 .. Len(s) PROVE \E j \in 1 .. Len(s) : d[i] = s[j]
    <3>1. CASE i = 1
      BY <1>2, <1>7, <3>1
    <3>2. CASE i # 1
      <4>1. i \in 2 .. Len(s) /\ i - 1 \in 1 .. Len(s) - 1
        BY <1>1, <3>2
      <4>2. d[i] = s[i - 1] \/ d[i] = s[(i - 1) + 1]
        BY <1>6, <1>7, <4>1
      <4> QED
        BY <1>1, <4>1, <4>2
    <3> QED
      BY <3>1, <3>2
  <2>3. ASSUME NEW i \in 1 .. Len(s) PROVE \E j \in 1 .. Len(s) : s[i] = d[j]
    <3>1. CASE i = k
      BY <1>1, <1>2, <1>7, <3>1
    <3>2. CASE i < k
      <4>1. i \in 1 .. Len(s) - 1 /\ i + 1 \in 2 .. Len(s) /\ (i + 1) - 1 = i
        BY <1>1, <1>2, <3>2
      <4>2. d[i + 1] = s[i]
        BY <1>6, <1>7, <3>2, <4>1
      <4> QED
        BY <1>1, <4>1, <4>2
    <3>3. CASE i > k
      <4>1. i - 1 \in 1 .. Len(s) - 1 /\ i \in 2 .. Len(s) /\ (i - 1) + 1 = i /\ ~(i - 1 < k)
        BY <1>1, <1>2, <3>3
      <4>2. d[i] = s[i]
        BY <1>6, <1>7, <4>1
      <4> QED
        BY <4>2
    <3> QED
      BY <1>1, <1>2, <3>1, <3>2, <3>3
  <2> QED
    BY <2>1, <2>2, <2>3, ZenonT(60)
<1> QED
  BY <1>3, <1>7, <1>8 DEF c, d

\* A finite set can be listed.
LEMMA Listed ==
  ASSUME NEW S, IsFiniteSet(S)
  PROVE  /\ SetToSeq(S) \in Seq(S) /\ Len(SetToSeq(S)) = Cardinality(S)
         /\ ToSet(SetToSeq(S)) = S
<1> DEFINE n == Cardinality(S)
           f == SetToSeq(S)
<1>1. n \in Nat
  BY FS_CardinalityType
<1>2. IsFiniteSet(1 .. n) /\ Cardinality(1 .. n) = n
  BY <1>1, FS_Interval
<1>3. ExistsBijection(1 .. n, S)
  BY <1>2, FS_SameCardinalityBij
<1>4. \E g \in [1 .. n -> S] : IsInjective(g)
  BY <1>3 DEF ExistsBijection, Bijection, Injection
<1>5. f \in [1 .. n -> S] /\ IsInjective(f)
  BY <1>4 DEF SetToSeq
<1> HIDE DEF f
<1>6. f \in Injection(1 .. n, S)
  BY <1>5 DEF Injection
<1>7. f \in Surjection(1 .. n, S)
  BY <1>2, <1>6, FS_Injection
<1>8. f \in Seq(S) /\ Len(f) = n
  BY <1>1, <1>5
<1>9. DOMAIN f = 1 .. n /\ \A x \in S : \E i \in 1 .. n : f[i] = x
  BY <1>5, <1>7 DEF Surjection
<1>10. ToSet(f) = S
  BY <1>5, <1>9 DEF ToSet
<1> QED
  BY <1>8, <1>10 DEF f

\* What the turns have stored says nothing of these.
RecentTyped == recent \in Seq(Convs) /\ ToSet(recent) = Convs /\ Len(recent) = Cardinality(Convs)
HeadlessTypes == HeadlessInv /\ RecentTyped /\ erased \subseteq Turns /\ late \subseteq Turns

LEMMA HeadlessBegins == HeadlessInit => HeadlessTypes
BY InitHeadless, Listed, HeadlessAssumption DEF HeadlessTypes, RecentTyped, HeadlessInit

LEMMA HeadlessKeepTypes == HeadlessTypes /\ [HeadlessNext]_headlessVars => HeadlessTypes'
<1> SUFFICES ASSUME HeadlessTypes, [HeadlessNext]_headlessVars PROVE HeadlessTypes'
  OBVIOUS
<1>1. HeadlessInv /\ recent \in Seq(Convs) /\ ToSet(recent) = Convs /\ Len(recent) = Cardinality(Convs)
      /\ erased \subseteq Turns /\ late \subseteq Turns
  BY DEF HeadlessTypes, RecentTyped
<1>2. HeadlessInv'
  BY <1>1, NextHeadless
<1>3. ASSUME NEW t \in Turns
      PROVE  turn[t].conv \in Convs
  BY <1>1 DEF HeadlessInv, HeadlessTyped, TurnType
<1>4. recent' = recent \/ \E t \in Turns : recent' = <<turn[t].conv>> \o RemoveFirst(recent, turn[t].conv)
  BY DEF HeadlessNext, headlessVars, Prepare, BadArguments, RunHeadlessAsk, RunChatNew, RunHeadlessContinue,
         RunChatSend, OpenOngoing, NoneFound, CreateEmpty, Ask, FailsBefore, Answered, SaveRow, SaveQuestion,
         SaveReply, SaveMessage, SaveFails, ArchiveTurn, WriteOutput, ArchiveOther, UnarchiveOther,
         DeleteOther, StoreStays
<1>5. RecentTyped'
  <2>1. CASE recent' = recent
    BY <1>1, <2>1 DEF RecentTyped
  <2>2. ASSUME NEW t \in Turns, recent' = <<turn[t].conv>> \o RemoveFirst(recent, turn[t].conv)
        PROVE  RecentTyped'
    <3> DEFINE c == turn[t].conv
    <3>1. c \in Convs /\ c \in ToSet(recent) /\ recent' = <<c>> \o RemoveFirst(recent, c)
      BY <1>1, <1>3, <2>2
    <3> HIDE DEF c
    <3>2. recent' \in Seq(Convs) /\ Len(recent') = Len(recent) /\ ToSet(recent') = ToSet(recent)
      BY <1>1, <3>1, ToTheFront
    <3> QED
      BY <1>1, <3>2 DEF RecentTyped
  <2> QED
    BY <1>4, <2>1, <2>2
<1>6. erased' = erased \/ \E S \in SUBSET Turns : erased' = erased \cup S
  <2>1. CASE \E c \in Convs : DeleteOther(c)
    BY <2>1 DEF DeleteOther
  <2>2. CASE ~\E c \in Convs : DeleteOther(c)
    BY <2>2 DEF HeadlessNext, headlessVars, Prepare, BadArguments, RunHeadlessAsk, RunChatNew, RunHeadlessContinue,
         RunChatSend, OpenOngoing, NoneFound, CreateEmpty, Ask, FailsBefore, Answered, SaveRow, SaveQuestion,
         SaveReply, SaveMessage, SaveFails, ArchiveTurn, WriteOutput, ArchiveOther, UnarchiveOther, StoreStays
  <2> QED
    BY <2>1, <2>2
<1>7. late' = late \/ \E t \in Turns : late' = late \cup {t}
  BY DEF HeadlessNext, headlessVars, Prepare, BadArguments, RunHeadlessAsk, RunChatNew, RunHeadlessContinue,
         RunChatSend, OpenOngoing, NoneFound, CreateEmpty, Ask, FailsBefore, Answered, SaveRow, SaveQuestion,
         SaveReply, SaveMessage, SaveFails, ArchiveTurn, WriteOutput, ArchiveOther, UnarchiveOther,
         DeleteOther, StoreStays
<1> QED
  BY <1>1, <1>2, <1>5, <1>6, <1>7 DEF HeadlessTypes

LEMMA HeadlessTypesHold == HeadlessTypes => HeadlessTypeOK
BY DEF HeadlessTypes, RecentTyped, HeadlessInv, HeadlessTyped, HeadlessTypeOK, TurnType, TurnPcs

-----------------------------------------------------------------------------
(* A web page: no visible text is lost between the tags.                   *)

WebPageSpec == WebPageInit /\ [][WebPageNext]_pageVars

OpenElements == Seq(Tags)
TextSeq == Seq(Nat)
DocumentType == [open : OpenElements, tags : Nat, texts : Nat, visible : SUBSET Nat, over : BOOLEAN]
ExtractorType == [skip : Nat, head : BOOLEAN, title : BOOLEAN, pre : BOOLEAN, anchor : BOOLEAN,
                  parts : TextSeq, chunks : TextSeq]
PageTyped == document \in DocumentType /\ extractor \in ExtractorType /\ markdown \in TextSeq

Skips(s) == { i \in 1 .. Len(s) : s[i] = "skip" }
TextsOf(s) == { s[i] : i \in 1 .. Len(s) }
\* An open element of the kind, in none that is skipped.
Noticed(tag, s) == \E i \in 1 .. Len(s) : s[i] = tag /\ \A j \in 1 .. i - 1 : s[j] # "skip"

Nesting(s) ==
  /\ \A i \in 1 .. Len(s) : s[i] = "head" => i = 1
  /\ \A i \in 1 .. Len(s) : s[i] = "title" => s[1] = "head"
  /\ \A i, j \in 1 .. Len(s) : s[i] = "a" /\ s[j] = "a" => i = j
\* The extractor's fields tell where in the document it is.
Follows(e, s) ==
  /\ e.skip = Cardinality(Skips(s))
  /\ e.head <=> \E i \in 1 .. Len(s) : s[i] = "head"
  /\ e.title => Noticed("title", s)
  /\ e.anchor => Noticed("a", s)
  /\ ~e.anchor => e.parts = << >>
\* Every visible text is in the page or in the link that is open, once.
AllThere ==
  /\ document.visible \subseteq 1 .. document.texts
  /\ TextsOf(extractor.chunks) \cup TextsOf(extractor.parts) = document.visible
  /\ Len(extractor.chunks) + Len(extractor.parts) = Cardinality(document.visible)
ParseHolds ==
  /\ document.tags = 0 => document.open = << >>
  /\ Nesting(document.open) /\ Follows(extractor, document.open) /\ AllThere

\* The markdown is what the built-in converter found, when it was the one.
MarkdownHolds ==
  /\ visit \in {"asked", "request", "read", "convert", "parse"} => markdown = << >>
  /\ visit \in {"asked", "request", "read", "convert"} /\ document.over => extractor.chunks = << >>
  /\ visit = "render" /\ converter = "stdlib" => markdown = extractor.chunks
  /\ visit \in {"preview", "attached"} /\ converter = "stdlib" /\ "chars" \notin warnings =>
       markdown = extractor.chunks

PageInv == PageTyped /\ ParseHolds /\ MarkdownHolds

LEMMA TextsAre ==
  ASSUME NEW s \in Seq(Nat), NEW t \in Seq(Nat), NEW n \in Nat
  PROVE  /\ TextsOf(<< >>) = {} /\ Append(s, n) \in Seq(Nat) /\ s \o t \in Seq(Nat)
         /\ TextsOf(Append(s, n)) = TextsOf(s) \cup {n} /\ Len(Append(s, n)) = Len(s) + 1
         /\ TextsOf(s \o t) = TextsOf(s) \cup TextsOf(t) /\ Len(s \o t) = Len(s) + Len(t)
         /\ s \o << >> = s
<1>1. TextsOf(<< >>) = {}
  BY DEF TextsOf
<1>2. Len(Append(s, n)) = Len(s) + 1 /\ Append(s, n) \in Seq(Nat)
      /\ (\A i \in 1 .. Len(s) : Append(s, n)[i] = s[i]) /\ Append(s, n)[Len(s) + 1] = n
  OBVIOUS
<1>3. TextsOf(Append(s, n)) = TextsOf(s) \cup {n}
  <2>1. \A x \in TextsOf(Append(s, n)) : x \in TextsOf(s) \cup {n}
    BY <1>2 DEF TextsOf
  <2>2. \A i \in 1 .. Len(s) : s[i] \in TextsOf(Append(s, n))
    BY <1>2 DEF TextsOf
  <2>3. n \in TextsOf(Append(s, n))
    BY <1>2 DEF TextsOf
  <2> QED
    BY <2>1, <2>2, <2>3 DEF TextsOf
<1>4. s \o t \in Seq(Nat) /\ Len(s \o t) = Len(s) + Len(t)
      /\ (\A i \in 1 .. Len(s) : (s \o t)[i] = s[i])
      /\ (\A i \in 1 .. Len(t) : (s \o t)[Len(s) + i] = t[i])
  OBVIOUS
<1>5. TextsOf(s \o t) = TextsOf(s) \cup TextsOf(t)
  <2>1. ASSUME NEW i \in 1 .. Len(s \o t) PROVE (s \o t)[i] \in TextsOf(s) \cup TextsOf(t)
    <3>1. CASE i \in 1 .. Len(s)
      BY <1>4, <3>1 DEF TextsOf
    <3>2. CASE i \notin 1 .. Len(s)
      <4>1. i - Len(s) \in 1 .. Len(t) /\ Len(s) + (i - Len(s)) = i
        BY <1>4, <2>1, <3>2
      <4> QED
        BY <1>4, <4>1 DEF TextsOf
    <3> QED
      BY <3>1, <3>2
  <2>2. \A i \in 1 .. Len(s) : s[i] \in TextsOf(s \o t)
    BY <1>4 DEF TextsOf
  <2>3. ASSUME NEW i \in 1 .. Len(t) PROVE t[i] \in TextsOf(s \o t)
    <3>1. Len(s) + i \in 1 .. Len(s \o t) /\ (s \o t)[Len(s) + i] = t[i]
      BY <1>4, <2>3
    <3> QED
      BY <3>1 DEF TextsOf
  <2> QED
    BY <2>1, <2>2, <2>3 DEF TextsOf
<1> QED
  BY <1>1, <1>2, <1>3, <1>4, <1>5

\* The elements skipped, as one is opened or closed.
LEMMA SkipsAre ==
  ASSUME NEW s \in Seq(Tags)
  PROVE  /\ Cardinality(Skips(s)) \in Nat /\ Cardinality(Skips(<< >>)) = 0
         /\ Cardinality(Skips(s)) = 0 <=> \A i \in 1 .. Len(s) : s[i] # "skip"
         /\ \A tag \in Tags :
              Cardinality(Skips(Append(s, tag))) = Cardinality(Skips(s)) + IF tag = "skip" THEN 1 ELSE 0
<1>1. IsFiniteSet(1 .. Len(s)) /\ Skips(s) \subseteq 1 .. Len(s)
  BY FS_Interval DEF Skips
<1>2. IsFiniteSet(Skips(s))
  BY <1>1, FS_Subset
<1>3. Skips(<< >>) = {}
  BY DEF Skips
<1>4. Cardinality(Skips(<< >>)) = 0
  BY <1>3, FS_EmptySet
<1>5. Cardinality(Skips(s)) = 0 <=> Skips(s) = {}
  BY <1>2, FS_EmptySet
<1>6. ASSUME NEW tag \in Tags
      PROVE  Cardinality(Skips(Append(s, tag))) = Cardinality(Skips(s)) + IF tag = "skip" THEN 1 ELSE 0
  <2>1. Len(Append(s, tag)) = Len(s) + 1 /\ (\A i \in 1 .. Len(s) : Append(s, tag)[i] = s[i])
        /\ Append(s, tag)[Len(s) + 1] = tag
    OBVIOUS
  <2>2. CASE tag = "skip"
    <3>1. Skips(Append(s, tag)) = Skips(s) \cup {Len(s) + 1} /\ Len(s) + 1 \notin Skips(s)
      BY <2>1, <2>2 DEF Skips
    <3> QED
      BY <1>2, <2>2, <3>1, FS_AddElement
  <2>3. CASE tag # "skip"
    <3>1. Skips(Append(s, tag)) = Skips(s)
      BY <2>1, <2>3 DEF Skips
    <3> QED
      BY <1>2, <2>3, <3>1, FS_CardinalityType
  <2> QED
    BY <2>2, <2>3
<1>7. Skips(s) = {} <=> \A i \in 1 .. Len(s) : s[i] # "skip"
  BY DEF Skips
<1> QED
  BY <1>2, <1>4, <1>5, <1>6, <1>7, FS_CardinalityType

\* A sequence of open elements and the one opened last.
LEMMA LastOpen ==
  ASSUME NEW s \in Seq(Tags), s # << >>
  PROVE  LET t == SubSeq(s, 1, Len(s) - 1)
         IN  /\ t \in Seq(Tags) /\ Len(t) = Len(s) - 1 /\ s[Len(s)] \in Tags
             /\ \A i \in 1 .. Len(t) : t[i] = s[i]
             /\ s = Append(t, s[Len(s)])
<1> DEFINE t == SubSeq(s, 1, Len(s) - 1)
<1>1. Len(s) \in Nat /\ Len(s) > 0 /\ s[Len(s)] \in Tags
  OBVIOUS
<1>2. t \in Seq(Tags) /\ Len(t) = Len(s) - 1 /\ \A i \in 1 .. Len(t) : t[i] = s[i]
  <2>1. 1 \in 1 .. Len(s) + 1 /\ Len(s) - 1 \in 1 - 1 .. Len(s) /\ (Len(s) - 1) - 1 + 1 = Len(s) - 1
    BY <1>1
  <2> QED
    BY <1>1, <2>1, SubSeqProperties
<1> HIDE DEF t
<1>3. /\ Append(t, s[Len(s)]) \in Seq(Tags) /\ Len(Append(t, s[Len(s)])) = Len(s)
      /\ \A i \in 1 .. Len(t) : Append(t, s[Len(s)])[i] = t[i]
      /\ Append(t, s[Len(s)])[Len(s)] = s[Len(s)]
  BY <1>1, <1>2
<1>4. \A i \in 1 .. Len(s) : s[i] = Append(t, s[Len(s)])[i]
  BY <1>1, <1>2, <1>3
<1>5. s = Append(t, s[Len(s)])
  BY <1>3, <1>4, SeqEqual
<1> QED
  BY <1>1, <1>2, <1>5 DEF t

LEMMA Appended ==
  ASSUME NEW s \in Seq(Tags), NEW tag \in Tags
  PROVE  /\ Append(s, tag) \in Seq(Tags) /\ Len(Append(s, tag)) = Len(s) + 1 /\ Len(s) \in Nat
         /\ \A i \in 1 .. Len(s) : Append(s, tag)[i] = s[i]
         /\ Append(s, tag)[Len(s) + 1] = tag
OBVIOUS

\* An element that is opened.
LEMMA OpenedFollows ==
  ASSUME NEW s \in Seq(Tags), NEW tag \in Tags, NEW e \in ExtractorType, NEW f \in ExtractorType,
         Nesting(s), Follows(e, s), tag = "head" => s = << >>,
         tag = "title" => \E i \in 1 .. Len(s) : s[i] = "head",
         tag = "a" => \A i \in 1 .. Len(s) : s[i] # "a",
         f.skip = e.skip + (IF tag = "skip" THEN 1 ELSE 0),
         f.head <=> e.head \/ (tag = "head" /\ e.skip = 0),
         f.title <=> e.title \/ (tag = "title" /\ e.skip = 0),
         f.anchor <=> e.anchor \/ (tag = "a" /\ e.skip = 0),
         f.parts = IF tag = "a" /\ e.skip = 0 THEN << >> ELSE e.parts
  PROVE  Nesting(Append(s, tag)) /\ Follows(f, Append(s, tag))
<1> DEFINE t == Append(s, tag)
<1>1. t \in Seq(Tags) /\ Len(t) = Len(s) + 1 /\ Len(s) \in Nat /\ (\A i \in 1 .. Len(s) : t[i] = s[i])
      /\ t[Len(s) + 1] = tag
  BY Appended
<1>2. f.skip = Cardinality(Skips(t))
  BY SkipsAre DEF Follows
<1>3. e.skip = 0 <=> \A i \in 1 .. Len(s) : s[i] # "skip"
  BY SkipsAre DEF Follows
<1> HIDE DEF t
<1>4. Nesting(t)
  <2>1. \A i \in 1 .. Len(t) : t[i] = "head" => i = 1
    <3>1. tag = "head" => Len(s) = 0
      OBVIOUS
    <3> QED
      BY <1>1, <3>1 DEF Nesting
  <2>2. \A i \in 1 .. Len(t) : t[i] = "title" => t[1] = "head"
    <3>1. \A i \in 1 .. Len(s) : s[i] = "title" => t[1] = "head"
      BY <1>1 DEF Nesting
    <3>2. tag = "title" => t[1] = "head"
      <4>1. SUFFICES ASSUME NEW i \in 1 .. Len(s), s[i] = "head" PROVE t[1] = "head"
        OBVIOUS
      <4> QED
        BY <1>1, <4>1 DEF Nesting
    <3> QED
      BY <1>1, <3>1, <3>2
  <2>3. \A i, j \in 1 .. Len(t) : t[i] = "a" /\ t[j] = "a" => i = j
    BY <1>1 DEF Nesting
  <2> QED
    BY <2>1, <2>2, <2>3 DEF Nesting
<1>5. f.head <=> \E i \in 1 .. Len(t) : t[i] = "head"
  <2>1. tag = "head" => e.skip = 0
    BY <1>3
  <2>2. (\E i \in 1 .. Len(t) : t[i] = "head") <=> (\E i \in 1 .. Len(s) : s[i] = "head") \/ tag = "head"
    BY <1>1
  <2> QED
    BY <2>1, <2>2 DEF Follows
<1>6. ASSUME NEW x PROVE (Noticed(x, s) => Noticed(x, t)) /\ (tag = x /\ e.skip = 0 => Noticed(x, t))
  <2>1. ASSUME NEW i \in 1 .. Len(s), s[i] = x, \A j \in 1 .. i - 1 : s[j] # "skip" PROVE Noticed(x, t)
    BY <1>1, <2>1 DEF Noticed
  <2>2. ASSUME tag = x, e.skip = 0 PROVE Noticed(x, t)
    <3>1. Len(s) + 1 \in 1 .. Len(t) /\ \A j \in 1 .. (Len(s) + 1) - 1 : t[j] # "skip"
      BY <1>1, <1>3, <2>2
    <3> QED
      BY <1>1, <2>2, <3>1 DEF Noticed
  <2> QED
    BY <2>1, <2>2 DEF Noticed
<1>7. ~f.anchor => f.parts = << >>
  BY DEF Follows
<1>8. (f.title => Noticed("title", t)) /\ (f.anchor => Noticed("a", t))
  BY <1>6 DEF Follows
<1> QED
  BY <1>2, <1>4, <1>5, <1>7, <1>8 DEF Follows, t

\* The element opened last is closed.
LEMMA ClosedFollows ==
  ASSUME NEW s \in Seq(Tags), NEW tag \in Tags, NEW e \in ExtractorType, NEW f \in ExtractorType,
         Nesting(Append(s, tag)), Follows(e, Append(s, tag)),
         f.skip = e.skip - (IF tag = "skip" THEN 1 ELSE 0),
         f.head <=> e.head /\ ~(tag = "head" /\ e.skip = 0),
         f.title <=> e.title /\ ~(tag = "title" /\ e.skip = 0),
         f.anchor <=> e.anchor /\ ~(tag = "a" /\ e.skip = 0),
         f.parts = IF tag = "a" /\ e.skip = 0 THEN << >> ELSE e.parts
  PROVE  Nesting(s) /\ Follows(f, s)
<1> DEFINE t == Append(s, tag)
<1>1. t \in Seq(Tags) /\ Len(t) = Len(s) + 1 /\ Len(s) \in Nat /\ (\A i \in 1 .. Len(s) : t[i] = s[i])
      /\ t[Len(s) + 1] = tag
  BY Appended
<1>2. f.skip = Cardinality(Skips(s)) /\ (e.skip = 0 <=> \A i \in 1 .. Len(t) : t[i] # "skip")
  <2>1. e.skip = Cardinality(Skips(t)) /\ (e.skip = 0 <=> \A i \in 1 .. Len(t) : t[i] # "skip")
    BY <1>1, SkipsAre DEF Follows
  <2>2. Cardinality(Skips(t)) = Cardinality(Skips(s)) + (IF tag = "skip" THEN 1 ELSE 0) /\ Cardinality(Skips(s)) \in Nat
    BY SkipsAre
  <2> QED
    BY <2>1, <2>2
<1>3. Nesting(t) /\ Follows(e, t)
  OBVIOUS
<1> HIDE DEF t
<1>4. Nesting(s)
  BY <1>1, <1>3 DEF Nesting
<1>5. f.head <=> \E i \in 1 .. Len(s) : s[i] = "head"
  <2>1. ASSUME tag = "head" PROVE e.skip = 0 /\ ~\E i \in 1 .. Len(s) : s[i] = "head"
    <3>1. Len(s) + 1 \in 1 .. Len(t) /\ t[Len(s) + 1] = "head"
      BY <1>1, <2>1
    <3>2. Len(s) + 1 = 1
      BY <1>3, <3>1 DEF Nesting
    <3> QED
      BY <1>1, <1>2, <2>1, <3>2
  <2>2. (\E i \in 1 .. Len(t) : t[i] = "head") <=> (\E i \in 1 .. Len(s) : s[i] = "head") \/ tag = "head"
    BY <1>1
  <2> QED
    BY <1>3, <2>1, <2>2 DEF Follows
<1>6. ASSUME NEW x, x # "skip", Noticed(x, t), ~(tag = x /\ e.skip = 0) PROVE Noticed(x, s)
  <2>1. PICK i \in 1 .. Len(t) : t[i] = x /\ \A j \in 1 .. i - 1 : t[j] # "skip"
    BY <1>6 DEF Noticed
  <2>2. i # Len(s) + 1
    <3>1. SUFFICES ASSUME i = Len(s) + 1 PROVE FALSE
      OBVIOUS
    <3>2. tag = x /\ \A j \in 1 .. Len(t) : t[j] # "skip"
      BY <1>1, <1>6, <2>1, <3>1
    <3> QED
      BY <1>2, <1>6, <3>2
  <2>3. i \in 1 .. Len(s) /\ s[i] = x /\ \A j \in 1 .. i - 1 : s[j] # "skip"
    BY <1>1, <2>1, <2>2
  <2> QED
    BY <2>3 DEF Noticed
<1>7. (f.title => Noticed("title", s)) /\ (f.anchor => Noticed("a", s))
  BY <1>3, <1>6 DEF Follows
<1>8. ~f.anchor => f.parts = << >>
  BY <1>3 DEF Follows
<1> QED
  BY <1>2, <1>4, <1>5, <1>7, <1>8 DEF Follows

\* What is changed of the extractor, and the rest.
Has(f, skip, head, title, anchor, parts, chunks) ==
  /\ f \in ExtractorType /\ f.skip = skip /\ f.head = head /\ f.title = title
  /\ f.anchor = anchor /\ f.parts = parts /\ f.chunks = chunks

LEMMA ExtractorWith ==
  ASSUME NEW e \in ExtractorType
  PROVE  /\ e.skip \in Nat /\ {e.head, e.title, e.pre, e.anchor} \subseteq BOOLEAN /\ {e.parts, e.chunks} \subseteq TextSeq
         /\ Has(e, e.skip, e.head, e.title, e.anchor, e.parts, e.chunks)
         /\ \A n \in Nat : Has([e EXCEPT !.skip = n], n, e.head, e.title, e.anchor, e.parts, e.chunks)
         /\ \A b \in BOOLEAN :
              /\ Has([e EXCEPT !.head = b], e.skip, b, e.title, e.anchor, e.parts, e.chunks)
              /\ Has([e EXCEPT !.title = b], e.skip, e.head, b, e.anchor, e.parts, e.chunks)
              /\ Has([e EXCEPT !.pre = b], e.skip, e.head, e.title, e.anchor, e.parts, e.chunks)
         /\ \A c \in TextSeq :
              /\ Has([e EXCEPT !.parts = c], e.skip, e.head, e.title, e.anchor, c, e.chunks)
              /\ Has([e EXCEPT !.chunks = c], e.skip, e.head, e.title, e.anchor, e.parts, c)
         /\ Has([e EXCEPT !.anchor = TRUE, !.parts = << >>], e.skip, e.head, e.title, TRUE, << >>, e.chunks)
         /\ Has([e EXCEPT !.chunks = @ \o e.parts, !.parts = << >>, !.anchor = FALSE],
                e.skip, e.head, e.title, FALSE, << >>, e.chunks \o e.parts)
<1>1. e.skip \in Nat /\ {e.head, e.title, e.pre, e.anchor} \subseteq BOOLEAN /\ {e.parts, e.chunks} \subseteq TextSeq
  BY DEF ExtractorType
<1>2. << >> \in TextSeq /\ e.chunks \o e.parts \in TextSeq
  BY <1>1 DEF TextSeq
<1>3. Has(e, e.skip, e.head, e.title, e.anchor, e.parts, e.chunks)
  BY DEF Has
<1>4. \A n \in Nat : Has([e EXCEPT !.skip = n], n, e.head, e.title, e.anchor, e.parts, e.chunks)
  BY DEF Has, ExtractorType
<1>5. \A b \in BOOLEAN :
        /\ Has([e EXCEPT !.head = b], e.skip, b, e.title, e.anchor, e.parts, e.chunks)
        /\ Has([e EXCEPT !.title = b], e.skip, e.head, b, e.anchor, e.parts, e.chunks)
        /\ Has([e EXCEPT !.pre = b], e.skip, e.head, e.title, e.anchor, e.parts, e.chunks)
  BY DEF Has, ExtractorType
<1>6. \A c \in TextSeq :
        /\ Has([e EXCEPT !.parts = c], e.skip, e.head, e.title, e.anchor, c, e.chunks)
        /\ Has([e EXCEPT !.chunks = c], e.skip, e.head, e.title, e.anchor, e.parts, c)
  BY DEF Has, ExtractorType
<1>7. Has([e EXCEPT !.anchor = TRUE, !.parts = << >>], e.skip, e.head, e.title, TRUE, << >>, e.chunks)
  BY <1>2 DEF Has, ExtractorType
<1>8. Has([e EXCEPT !.chunks = @ \o e.parts, !.parts = << >>, !.anchor = FALSE],
          e.skip, e.head, e.title, FALSE, << >>, e.chunks \o e.parts)
  BY <1>2 DEF Has, ExtractorType
<1> QED
  BY <1>1, <1>3, <1>4, <1>5, <1>6, <1>7, <1>8

\* What is changed of the document.
LEMMA DocumentWith ==
  ASSUME NEW d \in DocumentType
  PROVE  /\ \A s \in OpenElements : LET c == [d EXCEPT !.open = s, !.tags = @ + 1]
              IN  /\ c \in DocumentType /\ c.open = s /\ c.tags = d.tags + 1 /\ c.texts = d.texts
                  /\ c.visible = d.visible /\ c.over = d.over
         /\ \A s \in OpenElements : LET c == [d EXCEPT !.open = s]
              IN  /\ c \in DocumentType /\ c.open = s /\ c.tags = d.tags /\ c.texts = d.texts
                  /\ c.visible = d.visible /\ c.over = d.over
<1>1. d.tags + 1 \in Nat
  BY DEF DocumentType
<1>2. ASSUME NEW s \in OpenElements
      PROVE  LET c == [d EXCEPT !.open = s, !.tags = @ + 1]
             IN  /\ c \in DocumentType /\ c.open = s /\ c.tags = d.tags + 1 /\ c.texts = d.texts
                 /\ c.visible = d.visible /\ c.over = d.over
  BY <1>1 DEF DocumentType
<1>3. ASSUME NEW s \in OpenElements
      PROVE  LET c == [d EXCEPT !.open = s]
             IN  /\ c \in DocumentType /\ c.open = s /\ c.tags = d.tags /\ c.texts = d.texts
                 /\ c.visible = d.visible /\ c.over = d.over
  BY DEF DocumentType
<1> QED
  BY <1>2, <1>3

LEMMA DocumentText ==
  ASSUME NEW d \in DocumentType, NEW k \in Nat, NEW seen \in SUBSET Nat, NEW c,
         c = [d EXCEPT !.texts = k, !.tags = @ + 1, !.visible = seen]
  PROVE  /\ c \in DocumentType /\ c.open = d.open /\ c.tags = d.tags + 1 /\ c.texts = k
         /\ c.visible = seen /\ c.over = d.over
<1>1. d.tags + 1 \in Nat
  BY DEF DocumentType
<1> QED
  BY <1>1 DEF DocumentType

LEMMA InitPage == WebPageInit => PageInv
<1> SUFFICES ASSUME WebPageInit PROVE PageInv
  OBVIOUS
<1>1. document \in DocumentType /\ extractor \in ExtractorType /\ markdown \in TextSeq
  <2>1. << >> \in TextSeq /\ << >> \in OpenElements
    BY DEF TextSeq, OpenElements
  <2> QED
    BY <2>1 DEF WebPageInit, Unparsed, NewExtractor, DocumentType, ExtractorType
<1>2. /\ document.open = << >> /\ document.visible = {} /\ document.over = FALSE
      /\ extractor.skip = 0 /\ ~extractor.head /\ ~extractor.title /\ ~extractor.anchor
      /\ extractor.parts = << >> /\ extractor.chunks = << >>
  BY DEF WebPageInit, Unparsed, NewExtractor
<1>3. TextsOf(<< >>) = {} /\ Cardinality(Skips(<< >>)) = 0 /\ Cardinality({}) = 0 /\ Len(<< >>) = 0
  <2>1. << >> \in Seq(Nat) /\ << >> \in Seq(Tags) /\ 0 \in Nat
    OBVIOUS
  <2> QED
    BY <2>1, TextsAre, SkipsAre, FS_EmptySet
<1>4. Nesting(<< >>) /\ Follows(extractor, << >>)
  BY <1>2, <1>3 DEF Nesting, Follows
<1> QED
  BY <1>1, <1>2, <1>3, <1>4 DEF WebPageInit, PageInv, PageTyped, ParseHolds, MarkdownHolds, AllThere

\* handle_starttag.
LEMMA StartTagKeeps == ASSUME PageInv, NEW tag \in Tags, StartTag(tag) PROVE PageInv'
<1> DEFINE e == extractor
           s == document.open
<1>0. e \in ExtractorType /\ document \in DocumentType /\ e.skip \in Nat /\ s \in Seq(Tags)
      /\ Nesting(s) /\ Follows(e, s) /\ AllThere /\ (document.tags = 0 => s = << >>)
  BY DEF PageInv, PageTyped, ParseHolds, ExtractorType, DocumentType, OpenElements
<1>1. /\ UNCHANGED <<visit, order, converter, markdown, warnings>> /\ visit = "parse"
      /\ document' = [document EXCEPT !.open = Append(@, tag), !.tags = @ + 1]
      /\ tag = "head" => document.tags = 0
      /\ tag = "title" => Within({"head"})
      /\ tag = "a" => ~ Within({"a", "head"})
  BY DEF StartTag, Parsing
<1>2. /\ document' \in DocumentType /\ document'.open = Append(s, tag) /\ document'.tags = document.tags + 1
      /\ document'.texts = document.texts /\ document'.visible = document.visible
      /\ document'.over = document.over
  <2>1. Append(s, tag) \in OpenElements
    BY <1>0, Appended DEF OpenElements
  <2> QED
    BY <1>0, <1>1, <2>1, DocumentWith
<1>3. /\ extractor' \in ExtractorType /\ extractor'.chunks = e.chunks
      /\ extractor'.skip = e.skip + (IF tag = "skip" THEN 1 ELSE 0)
      /\ extractor'.head <=> e.head \/ (tag = "head" /\ e.skip = 0)
      /\ extractor'.title <=> e.title \/ (tag = "title" /\ e.skip = 0)
      /\ extractor'.anchor <=> e.anchor \/ (tag = "a" /\ e.skip = 0)
      /\ extractor'.parts = IF tag = "a" /\ e.skip = 0 THEN << >> ELSE e.parts
  <2>01. {e.head, e.title, e.pre, e.anchor} \subseteq BOOLEAN
    BY <1>0, ExtractorWith
  <2>0. {e.head, e.title, e.anchor} \subseteq BOOLEAN /\ 1 \in Nat /\ e.skip + 1 \in Nat /\ TRUE \in BOOLEAN
    BY <1>0, <2>01
  <2>1. CASE e.skip > 0
    <3>1. extractor' = [e EXCEPT !.skip = IF tag = "skip" THEN e.skip + 1 ELSE e.skip]
      BY <2>1 DEF StartTag
    <3>2. Has(extractor', IF tag = "skip" THEN e.skip + 1 ELSE e.skip, e.head, e.title, e.anchor, e.parts, e.chunks)
      BY <1>0, <2>0, <3>1, ExtractorWith
    <3> QED
      BY <1>0, <2>0, <2>1, <3>2 DEF Has
  <2>2. CASE ~(e.skip > 0)
    <3>1. (extractor' = CASE tag = "skip" -> [e EXCEPT !.skip = 1]
                          [] tag = "head" -> [e EXCEPT !.head = TRUE]
                          [] tag = "title" -> [e EXCEPT !.title = TRUE]
                          [] tag = "a" -> [e EXCEPT !.anchor = TRUE, !.parts = << >>]
                          [] tag = "pre" -> [e EXCEPT !.pre = TRUE]
                          [] OTHER -> e)
      BY <2>2 DEF StartTag
    <3>2. e.skip = 0
      BY <1>0, <2>2
    <3>3. CASE tag = "skip"
      <4>1. extractor' = [e EXCEPT !.skip = 1]
        BY <3>1, <3>3
      <4>2. Has(extractor', 1, e.head, e.title, e.anchor, e.parts, e.chunks)
        BY <1>0, <2>0, <4>1, ExtractorWith
      <4> QED
        BY <1>0, <2>0, <3>2, <3>3, <4>2 DEF Has
    <3>4. CASE tag = "head"
      <4>1. extractor' = [e EXCEPT !.head = TRUE]
        BY <3>1, <3>4
      <4>2. Has(extractor', e.skip, TRUE, e.title, e.anchor, e.parts, e.chunks)
        BY <1>0, <2>0, <4>1, ExtractorWith
      <4> QED
        BY <1>0, <2>0, <3>2, <3>4, <4>2 DEF Has
    <3>5. CASE tag = "title"
      <4>1. extractor' = [e EXCEPT !.title = TRUE]
        BY <3>1, <3>5
      <4>2. Has(extractor', e.skip, e.head, TRUE, e.anchor, e.parts, e.chunks)
        BY <1>0, <2>0, <4>1, ExtractorWith
      <4> QED
        BY <1>0, <2>0, <3>2, <3>5, <4>2 DEF Has
    <3>6. CASE tag = "a"
      <4>1. extractor' = [e EXCEPT !.anchor = TRUE, !.parts = << >>]
        BY <3>1, <3>6
      <4>2. Has(extractor', e.skip, e.head, e.title, TRUE, << >>, e.chunks)
        BY <1>0, <2>0, <4>1, ExtractorWith
      <4> QED
        BY <1>0, <2>0, <3>2, <3>6, <4>2 DEF Has
    <3>7. CASE tag = "pre"
      <4>1. extractor' = [e EXCEPT !.pre = TRUE]
        BY <3>1, <3>7
      <4>2. Has(extractor', e.skip, e.head, e.title, e.anchor, e.parts, e.chunks)
        BY <1>0, <2>0, <4>1, ExtractorWith
      <4> QED
        BY <1>0, <2>0, <3>2, <3>7, <4>2 DEF Has
    <3>8. CASE tag = "block"
      <4>1. extractor' = e
        BY <3>1, <3>8
      <4>2. Has(extractor', e.skip, e.head, e.title, e.anchor, e.parts, e.chunks)
        BY <1>0, <2>0, <4>1, ExtractorWith
      <4> QED
        BY <1>0, <2>0, <3>2, <3>8, <4>2 DEF Has
    <3> QED
      BY <3>3, <3>4, <3>5, <3>6, <3>7, <3>8 DEF Tags
  <2> QED
    BY <2>1, <2>2
<1>4. Nesting(document'.open) /\ Follows(extractor', document'.open)
  <2>1. /\ tag = "title" => \E i \in 1 .. Len(s) : s[i] = "head"
        /\ tag = "a" => \A i \in 1 .. Len(s) : s[i] # "a"
        /\ tag = "head" => s = << >>
    BY <1>0, <1>1 DEF Within
  <2> HIDE DEF e, s
  <2> QED
    BY <1>0, <1>2, <1>3, <2>1, OpenedFollows
<1>5. AllThere'
  <2>1. extractor'.parts = e.parts
    <3>1. SUFFICES ASSUME tag = "a" PROVE e.parts = << >>
      BY <1>3
    <3>2. \A i \in 1 .. Len(s) : s[i] # "a"
      BY <1>1, <3>1 DEF Within
    <3> QED
      BY <1>0, <3>2 DEF Follows, Noticed
  <2> QED
    BY <1>0, <1>2, <1>3, <2>1 DEF AllThere
<1>6. document'.tags # 0
  BY <1>0, <1>2 DEF DocumentType
<1> QED
  BY <1>1, <1>2, <1>3, <1>4, <1>5, <1>6 DEF PageInv, PageTyped, ParseHolds, MarkdownHolds

\* handle_endtag.
LEMMA EndTagKeeps == ASSUME PageInv, NEW tag \in Tags, EndTag(tag) PROVE PageInv'
<1> DEFINE e == extractor
           s == document.open
           t == SubSeq(s, 1, Len(s) - 1)
<1>0. e \in ExtractorType /\ document \in DocumentType /\ e.skip \in Nat /\ s \in Seq(Tags) /\ s # << >>
      /\ Nesting(s) /\ Follows(e, s) /\ AllThere /\ document.tags \in Nat
  BY DEF PageInv, PageTyped, ParseHolds, ExtractorType, DocumentType, OpenElements, EndTag
<1>1. /\ UNCHANGED <<visit, order, converter, markdown, warnings>> /\ visit = "parse"
      /\ document' = [document EXCEPT !.open = t]
      /\ tag = s[Len(s)]
  BY DEF EndTag, Parsing
<1>t. t \in Seq(Tags) /\ s = Append(t, tag)
  BY <1>0, <1>1, LastOpen
<1> HIDE DEF t
<1>2. /\ document' \in DocumentType /\ document'.open = t /\ document'.tags = document.tags
      /\ document'.texts = document.texts /\ document'.visible = document.visible
      /\ document'.over = document.over
  <2>1. t \in OpenElements
    BY <1>t DEF OpenElements
  <2> QED
    BY <1>0, <1>1, <2>1, DocumentWith
<1>s. tag = "skip" => e.skip > 0
  <2>1. e.skip = 0 <=> \A i \in 1 .. Len(s) : s[i] # "skip"
    BY <1>0, SkipsAre DEF Follows
  <2>2. Len(s) \in 1 .. Len(s)
    BY <1>0
  <2>3. tag = "skip" => e.skip # 0
    <3> HIDE DEF s, e
    <3> QED
      BY <1>1, <2>1, <2>2
  <2> QED
    BY <1>0, <2>3
<1>3. /\ extractor' \in ExtractorType
      /\ extractor'.chunks = IF tag = "a" /\ e.skip = 0 THEN e.chunks \o e.parts ELSE e.chunks
      /\ extractor'.skip = e.skip - (IF tag = "skip" THEN 1 ELSE 0)
      /\ extractor'.head <=> e.head /\ ~(tag = "head" /\ e.skip = 0)
      /\ extractor'.title <=> e.title /\ ~(tag = "title" /\ e.skip = 0)
      /\ extractor'.anchor <=> e.anchor /\ ~(tag = "a" /\ e.skip = 0)
      /\ extractor'.parts = IF tag = "a" /\ e.skip = 0 THEN << >> ELSE e.parts
  <2>01. {e.head, e.title, e.pre, e.anchor} \subseteq BOOLEAN
    BY <1>0, ExtractorWith
  <2>0. {e.head, e.title, e.anchor} \subseteq BOOLEAN /\ FALSE \in BOOLEAN /\ (e.skip > 0 => e.skip - 1 \in Nat)
    BY <1>0, <2>01
  <2>1. CASE e.skip > 0
    <3>1. extractor' = [e EXCEPT !.skip = IF tag = "skip" THEN e.skip - 1 ELSE e.skip]
      BY <2>1 DEF EndTag
    <3>2. Has(extractor', IF tag = "skip" THEN e.skip - 1 ELSE e.skip, e.head, e.title, e.anchor, e.parts, e.chunks)
      BY <1>0, <2>0, <2>1, <3>1, ExtractorWith
    <3> QED
      BY <1>0, <2>0, <2>1, <3>2 DEF Has
  <2>2. CASE ~(e.skip > 0)
    <3>1. (extractor' = CASE tag = "head" -> [e EXCEPT !.head = FALSE]
                          [] tag = "title" -> [e EXCEPT !.title = FALSE]
                          [] tag = "a" -> [e EXCEPT !.chunks = @ \o e.parts, !.parts = << >>, !.anchor = FALSE]
                          [] OTHER -> e)
      BY <2>2 DEF EndTag
    <3>2. e.skip = 0 /\ tag # "skip"
      BY <1>0, <1>s, <2>2
    <3>4. CASE tag = "head"
      <4>1. extractor' = [e EXCEPT !.head = FALSE]
        BY <3>1, <3>4
      <4>2. Has(extractor', e.skip, FALSE, e.title, e.anchor, e.parts, e.chunks)
        BY <1>0, <2>0, <4>1, ExtractorWith
      <4> QED
        BY <1>0, <2>0, <3>2, <3>4, <4>2 DEF Has
    <3>5. CASE tag = "title"
      <4>1. extractor' = [e EXCEPT !.title = FALSE]
        BY <3>1, <3>5
      <4>2. Has(extractor', e.skip, e.head, FALSE, e.anchor, e.parts, e.chunks)
        BY <1>0, <2>0, <4>1, ExtractorWith
      <4> QED
        BY <1>0, <2>0, <3>2, <3>5, <4>2 DEF Has
    <3>6. CASE tag = "a"
      <4>1. extractor' = [e EXCEPT !.chunks = @ \o e.parts, !.parts = << >>, !.anchor = FALSE]
        BY <3>1, <3>6
      <4>2. Has(extractor', e.skip, e.head, e.title, FALSE, << >>, e.chunks \o e.parts)
        BY <1>0, <4>1, ExtractorWith
      <4> QED
        BY <1>0, <2>0, <3>2, <3>6, <4>2 DEF Has
    <3>7. CASE tag = "pre"
      <4>1. extractor' = e
        BY <3>1, <3>7
      <4>2. Has(extractor', e.skip, e.head, e.title, e.anchor, e.parts, e.chunks)
        BY <1>0, <2>0, <4>1, ExtractorWith
      <4> QED
        BY <1>0, <2>0, <3>2, <3>7, <4>2 DEF Has
    <3>8. CASE tag = "block"
      <4>1. extractor' = e
        BY <3>1, <3>8
      <4>2. Has(extractor', e.skip, e.head, e.title, e.anchor, e.parts, e.chunks)
        BY <1>0, <2>0, <4>1, ExtractorWith
      <4> QED
        BY <1>0, <2>0, <3>2, <3>8, <4>2 DEF Has
    <3> QED
      BY <3>2, <3>4, <3>5, <3>6, <3>7, <3>8 DEF Tags
  <2> QED
    BY <2>1, <2>2
<1>4. Nesting(document'.open) /\ Follows(extractor', document'.open)
  <2> HIDE DEF e, s
  <2> QED
    BY <1>0, <1>t, <1>2, <1>3, ClosedFollows
<1>5. AllThere'
  <2>00. {e.parts, e.chunks} \subseteq TextSeq
    BY <1>0, ExtractorWith
  <2>0. e.chunks \in Seq(Nat) /\ e.parts \in Seq(Nat)
    BY <2>00 DEF TextSeq
  <2>1. TextsOf(extractor'.chunks) \cup TextsOf(extractor'.parts) = TextsOf(e.chunks) \cup TextsOf(e.parts)
    <3>0. 0 \in Nat
      OBVIOUS
    <3>1. TextsOf(e.chunks \o e.parts) = TextsOf(e.chunks) \cup TextsOf(e.parts) /\ TextsOf(<< >>) = {}
      BY <2>0, <3>0, TextsAre
    <3> QED
      BY <1>3, <3>1
  <2>2. Len(extractor'.chunks) + Len(extractor'.parts) = Len(e.chunks) + Len(e.parts)
    <3>1. Len(e.chunks \o e.parts) = Len(e.chunks) + Len(e.parts) /\ Len(<< >>) = 0
          /\ Len(e.chunks) \in Nat /\ Len(e.parts) \in Nat
      BY <2>0
    <3> QED
      BY <1>3, <3>1
  <2> QED
    BY <1>0, <1>2, <2>1, <2>2 DEF AllThere
<1>6. document'.tags = 0 => document'.open = << >>
  <2>1. document.tags # 0
    BY <1>0 DEF PageInv, ParseHolds
  <2> QED
    BY <1>2, <2>1
<1> QED
  BY <1>1, <1>2, <1>3, <1>4, <1>5, <1>6 DEF PageInv, PageTyped, ParseHolds, MarkdownHolds

\* Where a text is not visible, the extractor is in one of the three.
LEMMA SeenAlike ==
  ASSUME PageInv
  PROVE  Within({"skip", "head", "title"}) <=> extractor.skip > 0 \/ extractor.title \/ extractor.head
<1> DEFINE e == extractor
           s == document.open
<1>0. e \in ExtractorType /\ s \in Seq(Tags) /\ e.skip \in Nat /\ Nesting(s) /\ Follows(e, s)
  BY DEF PageInv, PageTyped, ParseHolds, ExtractorType, DocumentType, OpenElements
<1>1. e.skip = 0 <=> \A i \in 1 .. Len(s) : s[i] # "skip"
  BY <1>0, SkipsAre DEF Follows
<1>2. e.head <=> \E i \in 1 .. Len(s) : s[i] = "head"
  BY <1>0 DEF Follows
<1>3. e.title => \E i \in 1 .. Len(s) : s[i] = "title"
  BY <1>0 DEF Follows, Noticed
<1>4. ASSUME NEW i \in 1 .. Len(s), s[i] = "title" PROVE \E j \in 1 .. Len(s) : s[j] = "head"
  <2>1. s[1] = "head" /\ 1 \in 1 .. Len(s)
    BY <1>0, <1>4 DEF Nesting
  <2> QED
    BY <2>1
<1>5. Within({"skip", "head", "title"}) <=>
        \/ \E i \in 1 .. Len(s) : s[i] = "skip"
        \/ \E i \in 1 .. Len(s) : s[i] = "head"
        \/ \E i \in 1 .. Len(s) : s[i] = "title"
  BY DEF Within
<1> HIDE DEF e, s
<1>6. e.skip > 0 <=> e.skip # 0
  BY <1>0
<1>7. Within({"skip", "head", "title"}) <=> e.skip > 0 \/ e.title \/ e.head
  BY <1>1, <1>2, <1>3, <1>4, <1>5, <1>6
<1> QED
  BY <1>7 DEF e

\* handle_data.
LEMMA TextKeeps == ASSUME PageInv, Text PROVE PageInv'
<1> DEFINE e == extractor
           s == document.open
           n == document.texts + 1
           hidden == Within({"skip", "head", "title"})
           v == IF hidden THEN document.visible ELSE document.visible \cup {n}
<1>0. e \in ExtractorType /\ document \in DocumentType /\ Nesting(s) /\ Follows(e, s) /\ AllThere
      /\ n \in Nat /\ document.texts \in Nat /\ document.visible \in SUBSET Nat /\ document.tags \in Nat
      /\ v \in SUBSET Nat
  BY DEF PageInv, PageTyped, ParseHolds, DocumentType
<1>1. /\ UNCHANGED <<visit, order, converter, markdown, warnings>> /\ visit = "parse"
      /\ document' = [document EXCEPT !.texts = n, !.tags = @ + 1, !.visible = v]
      /\ extractor' = IF e.skip > 0 \/ e.title \/ e.head THEN e
                      ELSE IF e.anchor /\ ~e.pre THEN [e EXCEPT !.parts = Append(e.parts, n)]
                           ELSE [e EXCEPT !.chunks = Append(e.chunks, n)]
  BY DEF Text, Parsing
<1>2. hidden <=> e.skip > 0 \/ e.title \/ e.head
  BY SeenAlike
<1>3. /\ document' \in DocumentType /\ document'.open = s /\ document'.tags = document.tags + 1
      /\ document'.texts = n /\ document'.visible = v /\ document'.over = document.over
  <2>1. document \in DocumentType /\ n \in Nat /\ v \in SUBSET Nat
    BY <1>0
  <2>2. document' = [document EXCEPT !.texts = n, !.tags = @ + 1, !.visible = v]
    BY <1>1
  <2> HIDE DEF n, v, hidden
  <2>3. /\ document' \in DocumentType /\ document'.open = document.open /\ document'.tags = document.tags + 1
        /\ document'.texts = n /\ document'.visible = v /\ document'.over = document.over
    <3>1. document.tags + 1 \in Nat
      BY <1>0
    <3> QED
      BY <2>1, <2>2, <3>1 DEF DocumentType
  <2> QED
    BY <2>3
<1>a. /\ document.visible \subseteq 1 .. document.texts
      /\ TextsOf(e.chunks) \cup TextsOf(e.parts) = document.visible
      /\ Len(e.chunks) + Len(e.parts) = Cardinality(document.visible)
  BY <1>0 DEF AllThere
<1>b. ASSUME document'.visible \subseteq 1 .. document'.texts,
             TextsOf(extractor'.chunks) \cup TextsOf(extractor'.parts) = document'.visible,
             Len(extractor'.chunks) + Len(extractor'.parts) = Cardinality(document'.visible)
      PROVE  AllThere'
  BY <1>b DEF AllThere
<1>4. /\ IsFiniteSet(document.visible) /\ Cardinality(document.visible) \in Nat /\ n \notin document.visible
      /\ document.visible \subseteq 1 .. document.texts
  <2>0. 1 \in Int /\ document.texts \in Int /\ n \notin 1 .. document.texts
    BY <1>0
  <2>1. document.visible \subseteq 1 .. document.texts /\ IsFiniteSet(1 .. document.texts)
    BY <1>a, <2>0, FS_Interval
  <2>2. IsFiniteSet(document.visible)
    BY <2>1, FS_Subset
  <2>3. n \notin document.visible
    BY <2>0, <2>1
  <2> QED
    BY <2>1, <2>2, <2>3, FS_CardinalityType
<1>5. Cardinality(document.visible \cup {n}) = Cardinality(document.visible) + 1
  BY <1>4, FS_AddElement
<1>6. e.chunks \in Seq(Nat) /\ e.parts \in Seq(Nat)
  BY <1>0, ExtractorWith DEF TextSeq
<1>7. \A q \in Seq(Nat) : /\ Append(q, n) \in TextSeq /\ Len(q) \in Nat
                          /\ TextsOf(Append(q, n)) = TextsOf(q) \cup {n} /\ Len(Append(q, n)) = Len(q) + 1
  <2>1. SUFFICES ASSUME NEW q \in Seq(Nat)
                 PROVE  /\ Append(q, n) \in TextSeq /\ Len(q) \in Nat
                        /\ TextsOf(Append(q, n)) = TextsOf(q) \cup {n} /\ Len(Append(q, n)) = Len(q) + 1
    OBVIOUS
  <2>2. << >> \in Seq(Nat)
    OBVIOUS
  <2> HIDE DEF n
  <2> QED
    BY <1>0, <2>1, <2>2, TextsAre DEF TextSeq
<1>8. CASE hidden
  <2>1. extractor' = e /\ v = document.visible
    BY <1>1, <1>2, <1>8
  <2>2. AllThere'
    <3>1. document'.visible \subseteq 1 .. document'.texts
      BY <1>0, <1>3, <1>a, <2>1
    <3> QED
      BY <1>3, <1>a, <1>b, <2>1, <3>1
  <2>3. Follows(extractor', document'.open) /\ Nesting(document'.open)
    BY <1>0, <1>3, <2>1
  <2>4. extractor' \in ExtractorType /\ document'.tags # 0
    BY <1>0, <1>3, <2>1
  <2> QED
    BY <1>1, <1>3, <2>2, <2>3, <2>4 DEF PageInv, PageTyped, ParseHolds, MarkdownHolds
<1>9. CASE ~hidden
  <2>1. v = document.visible \cup {n} /\ ~(e.skip > 0 \/ e.title \/ e.head)
    BY <1>2, <1>9
  <2>2. CASE e.anchor /\ ~e.pre
    <3>1. extractor' = [e EXCEPT !.parts = Append(e.parts, n)]
      BY <1>1, <2>1, <2>2
    <3>2. Has(extractor', e.skip, e.head, e.title, e.anchor, Append(e.parts, n), e.chunks)
      BY <1>0, <1>6, <1>7, <3>1, ExtractorWith
    <3>3. AllThere'
      <4>1. /\ extractor'.chunks = e.chunks /\ TextsOf(extractor'.parts) = TextsOf(e.parts) \cup {n}
            /\ Len(extractor'.parts) = Len(e.parts) + 1 /\ Len(e.chunks) \in Nat /\ Len(e.parts) \in Nat
        BY <1>6, <1>7, <3>2 DEF Has
      <4>2. TextsOf(extractor'.chunks) \cup TextsOf(extractor'.parts) = document'.visible
        BY <1>3, <1>a, <2>1, <4>1
      <4>3. Len(extractor'.chunks) + Len(extractor'.parts) = Cardinality(document'.visible)
        <5>1. document'.visible = document.visible \cup {n}
          BY <1>3, <2>1
        <5>2. Cardinality(document'.visible) = Cardinality(document.visible) + 1
          BY <1>5, <5>1
        <5>5. Len(extractor'.chunks) = Len(e.chunks) /\ Len(extractor'.parts) = Len(e.parts) + 1
          BY <4>1
        <5>6. Len(e.chunks) \in Nat /\ Len(e.parts) \in Nat
          BY <4>1
        <5>3. Len(extractor'.chunks) + Len(extractor'.parts) = (Len(e.chunks) + Len(e.parts)) + 1
          <6> DEFINE kc == Len(extractor'.chunks)
                     kp == Len(extractor'.parts)
                     jc == Len(e.chunks)
                     jp == Len(e.parts)
          <6>1. jc \in Nat /\ jp \in Nat /\ ((kc = jc /\ kp = jp + 1) \/ (kc = jc + 1 /\ kp = jp))
            BY <5>5, <5>6
          <6> HIDE DEF kc, kp, jc, jp
          <6>2. kc + kp = (jc + jp) + 1
            BY <6>1
          <6> QED
            BY <6>2 DEF kc, kp, jc, jp
        <5>4. Len(e.chunks) + Len(e.parts) = Cardinality(document.visible)
          BY <1>a
        <5> QED
          BY <5>2, <5>3, <5>4
      <4>4. document'.visible \subseteq 1 .. document'.texts
        BY <1>0, <1>3, <1>4, <2>1
      <4> QED
        BY <1>b, <4>2, <4>3, <4>4
    <3>4. Follows(extractor', document'.open) /\ Nesting(document'.open)
      BY <1>0, <1>3, <2>2, <3>2 DEF Follows, Has
    <3>5. extractor' \in ExtractorType /\ document'.tags # 0
      BY <1>0, <1>3, <3>2 DEF Has
    <3> QED
      BY <1>1, <1>3, <3>3, <3>4, <3>5 DEF PageInv, PageTyped, ParseHolds, MarkdownHolds
  <2>3. CASE ~(e.anchor /\ ~e.pre)
    <3>1. extractor' = [e EXCEPT !.chunks = Append(e.chunks, n)]
      BY <1>1, <2>1, <2>3
    <3>2. Has(extractor', e.skip, e.head, e.title, e.anchor, e.parts, Append(e.chunks, n))
      BY <1>0, <1>6, <1>7, <3>1, ExtractorWith
    <3>3. AllThere'
      <4>1. /\ extractor'.parts = e.parts /\ TextsOf(extractor'.chunks) = TextsOf(e.chunks) \cup {n}
            /\ Len(extractor'.chunks) = Len(e.chunks) + 1 /\ Len(e.chunks) \in Nat /\ Len(e.parts) \in Nat
        BY <1>6, <1>7, <3>2 DEF Has
      <4>2. TextsOf(extractor'.chunks) \cup TextsOf(extractor'.parts) = document'.visible
        BY <1>3, <1>a, <2>1, <4>1
      <4>3. Len(extractor'.chunks) + Len(extractor'.parts) = Cardinality(document'.visible)
        <5>1. document'.visible = document.visible \cup {n}
          BY <1>3, <2>1
        <5>2. Cardinality(document'.visible) = Cardinality(document.visible) + 1
          BY <1>5, <5>1
        <5>5. Len(extractor'.parts) = Len(e.parts) /\ Len(extractor'.chunks) = Len(e.chunks) + 1
          BY <4>1
        <5>6. Len(e.chunks) \in Nat /\ Len(e.parts) \in Nat
          BY <4>1
        <5>3. Len(extractor'.chunks) + Len(extractor'.parts) = (Len(e.chunks) + Len(e.parts)) + 1
          <6> DEFINE kc == Len(extractor'.chunks)
                     kp == Len(extractor'.parts)
                     jc == Len(e.chunks)
                     jp == Len(e.parts)
          <6>1. jc \in Nat /\ jp \in Nat /\ ((kc = jc /\ kp = jp + 1) \/ (kc = jc + 1 /\ kp = jp))
            BY <5>5, <5>6
          <6> HIDE DEF kc, kp, jc, jp
          <6>2. kc + kp = (jc + jp) + 1
            BY <6>1
          <6> QED
            BY <6>2 DEF kc, kp, jc, jp
        <5>4. Len(e.chunks) + Len(e.parts) = Cardinality(document.visible)
          BY <1>a
        <5> QED
          BY <5>2, <5>3, <5>4
      <4>4. document'.visible \subseteq 1 .. document'.texts
        BY <1>0, <1>3, <1>4, <2>1
      <4> QED
        BY <1>b, <4>2, <4>3, <4>4
    <3>4. Follows(extractor', document'.open) /\ Nesting(document'.open)
      BY <1>0, <1>3, <3>2 DEF Follows, Has
    <3>5. extractor' \in ExtractorType /\ document'.tags # 0
      BY <1>0, <1>3, <3>2 DEF Has
    <3> QED
      BY <1>1, <1>3, <3>3, <3>4, <3>5 DEF PageInv, PageTyped, ParseHolds, MarkdownHolds
  <2> QED
    BY <2>2, <2>3
<1> QED
  BY <1>8, <1>9

\* The request, and the converters that leave the document alone.
LEMMA UnparsedKeeps ==
  ASSUME PageInv, UNCHANGED <<document, extractor>>,
         \/ RefuseAddress \/ AllowAddress \/ FollowRedirect \/ FetchRefused
         \/ \E size \in Sizes, html \in BOOLEAN : FetchPage(size, html)
         \/ ReadPlain \/ ReadHtml \/ SkipConverter \/ ForeignConverter \/ BuiltIn \/ Attach \/ Decline
  PROVE  PageInv'
<1>1. ParseHolds'
  BY DEF PageInv, ParseHolds, AllThere
<1>2. document' \in DocumentType /\ extractor' \in ExtractorType
  BY DEF PageInv, PageTyped
<1>3. <<1>> \in TextSeq /\ <<1, 2>> \in TextSeq
  BY DEF TextSeq
<1>4. CASE RefuseAddress \/ AllowAddress \/ FollowRedirect \/ FetchRefused
  BY <1>1, <1>2, <1>4 DEF PageInv, PageTyped, MarkdownHolds, RefuseAddress, AllowAddress, FollowRedirect,
     FetchRefused, NothingRead
<1>5. CASE \E size \in Sizes, html \in BOOLEAN : FetchPage(size, html)
  BY <1>1, <1>2, <1>5 DEF PageInv, PageTyped, MarkdownHolds, FetchPage
<1>6. CASE ReadPlain \/ ForeignConverter
  <2>1. visit' = "render" /\ converter' # "stdlib" /\ markdown' \in TextSeq
    BY <1>3, <1>6 DEF ReadPlain, ForeignConverter
  <2> QED
    BY <1>1, <1>2, <2>1 DEF PageInv, PageTyped, MarkdownHolds
<1>7. CASE ReadHtml \/ SkipConverter
  BY <1>1, <1>2, <1>7 DEF PageInv, PageTyped, MarkdownHolds, ReadHtml, SkipConverter
<1>8. CASE BuiltIn
  BY <1>1, <1>2, <1>8 DEF PageInv, PageTyped, MarkdownHolds, BuiltIn
<1>9. CASE Attach \/ Decline
  BY <1>1, <1>2, <1>9 DEF PageInv, PageTyped, MarkdownHolds, Attach, Decline
<1> QED
  BY <1>4, <1>5, <1>6, <1>7, <1>8, <1>9

LEMMA BuiltInEndsKeeps == ASSUME PageInv, BuiltInEnds PROVE PageInv'
<1>0. extractor' = extractor /\ converter' = converter /\ visit = "parse"
  BY DEF BuiltInEnds
<1>1. document \in DocumentType /\ document' = [document EXCEPT !.over = TRUE]
  BY DEF PageInv, PageTyped, BuiltInEnds
<1>2. document' \in DocumentType /\ document'.open = document.open /\ document'.tags = document.tags
      /\ document'.texts = document.texts /\ document'.visible = document.visible
  BY <1>1 DEF DocumentType
<1>3. ParseHolds'
  BY <1>0, <1>2 DEF PageInv, ParseHolds, AllThere
<1>4. CASE extractor.chunks = << >> /\ order # << >>
  <2>1. visit' = "convert" /\ markdown' = markdown
    BY <1>4 DEF BuiltInEnds
  <2> QED
    BY <1>0, <1>2, <1>3, <1>4, <2>1 DEF PageInv, PageTyped, MarkdownHolds
<1>5. CASE ~(extractor.chunks = << >> /\ order # << >>)
  <2>1. visit' = "render" /\ markdown' = extractor.chunks
    BY <1>5 DEF BuiltInEnds
  <2>2. markdown' \in TextSeq
    BY <2>1, ExtractorWith DEF PageInv, PageTyped
  <2> QED
    BY <1>0, <1>2, <1>3, <2>1, <2>2 DEF PageInv, PageTyped, MarkdownHolds
<1> QED
  BY <1>4, <1>5

LEMMA RenderKeeps == ASSUME PageInv, Render PROVE PageInv'
<1>0. /\ UNCHANGED <<document, extractor, converter>> /\ visit = "render" /\ visit' = "preview"
      /\ markdown' = Cut(markdown) /\ (Len(markdown) > MaxTexts => "chars" \in warnings')
  BY DEF Render
<1>1. ParseHolds'
  BY <1>0 DEF PageInv, ParseHolds, AllThere
<1>2. markdown \in Seq(Nat) /\ MaxTexts \in Nat
  BY WebPageAssumption DEF PageInv, PageTyped, TextSeq
<1>3. Cut(markdown) \in Seq(Nat)
  <2> DEFINE m == IF Len(markdown) > MaxTexts THEN MaxTexts ELSE Len(markdown)
  <2>1. m \in 0 .. Len(markdown) /\ 1 \in 1 .. Len(markdown) + 1
    BY <1>2
  <2> HIDE DEF m
  <2>2. SubSeq(markdown, 1, m) \in Seq(Nat)
    BY <1>2, <2>1, SubSeqProperties
  <2> QED
    BY <2>2 DEF Cut, m
<1>4. Len(markdown) <= MaxTexts => Cut(markdown) = markdown
  <2>1. SubSeq(markdown, 1, Len(markdown)) = markdown
    BY <1>2, SubSeqFull
  <2>2. Len(markdown) <= MaxTexts => ~(Len(markdown) > MaxTexts)
    BY <1>2
  <2> QED
    BY <2>1, <2>2 DEF Cut
<1>5. "chars" \notin warnings' => markdown' = markdown
  BY <1>0, <1>2, <1>4
<1>6. MarkdownHolds'
  BY <1>0, <1>5 DEF PageInv, MarkdownHolds
<1> QED
  BY <1>0, <1>1, <1>3, <1>6 DEF PageInv, PageTyped, TextSeq

LEMMA NextPage == PageInv /\ [WebPageNext]_pageVars => PageInv'
<1> SUFFICES ASSUME PageInv, [WebPageNext]_pageVars PROVE PageInv'
  OBVIOUS
<1>1. CASE \/ RefuseAddress \/ AllowAddress \/ FollowRedirect \/ FetchRefused
           \/ \E size \in Sizes, html \in BOOLEAN : FetchPage(size, html)
           \/ ReadPlain \/ ReadHtml \/ SkipConverter \/ ForeignConverter \/ BuiltIn \/ Attach \/ Decline
  <2>1. UNCHANGED <<document, extractor>>
    BY <1>1 DEF RefuseAddress, AllowAddress, FollowRedirect, FetchRefused, NothingRead, FetchPage, ReadPlain, ReadHtml,
       SkipConverter, ForeignConverter, BuiltIn, Attach, Decline
  <2> QED
    BY <1>1, <2>1, UnparsedKeeps
<1>2. CASE \E tag \in Tags : StartTag(tag) \/ EndTag(tag)
  BY <1>2, StartTagKeeps, EndTagKeeps
<1>3. CASE Text
  BY <1>3, TextKeeps
<1>4. CASE BuiltInEnds
  BY <1>4, BuiltInEndsKeeps
<1>5. CASE Render
  BY <1>5, RenderKeeps
<1>6. CASE UNCHANGED pageVars
  BY <1>6 DEF pageVars, PageInv, PageTyped, ParseHolds, AllThere, MarkdownHolds
<1> QED
  BY <1>1, <1>2, <1>3, <1>4, <1>5, <1>6 DEF WebPageNext

LEMMA PageHolds == WebPageSpec => []PageInv
<1> QED
  BY InitPage, NextPage, PTL DEF WebPageSpec

\* Every visible text of a page whose elements are closed and that is attached
\* uncut is in the attachment, once and with no other.
THEOREM PageKeepsTexts == WebPageSpec => []TextKept
<1>1. PageInv => TextKept
  <2>1. SUFFICES ASSUME PageInv, visit = "attached", converter = "stdlib", document.open = << >>,
                        warnings \cap {"bytes", "chars"} = {}
                 PROVE  /\ {markdown[i] : i \in 1 .. Len(markdown)} = document.visible
                        /\ Len(markdown) = Cardinality(document.visible)
    BY DEF TextKept
  <2>2. markdown = extractor.chunks
    BY <2>1 DEF PageInv, MarkdownHolds
  <2>3. extractor.parts = << >>
    BY <2>1 DEF PageInv, ParseHolds, Follows, Noticed
  <2>4. TextsOf(<< >>) = {} /\ Len(<< >>) = 0
    BY DEF TextsOf
  <2>5. Len(extractor.chunks) \in Nat
    <3>1. extractor \in ExtractorType
      BY <2>1 DEF PageInv, PageTyped
    <3>2. {extractor.parts, extractor.chunks} \subseteq TextSeq
      BY <3>1, ExtractorWith
    <3>3. extractor.chunks \in Seq(Nat)
      BY <3>2 DEF TextSeq
    <3> QED
      BY <3>3
  <2> QED
    BY <2>1, <2>2, <2>3, <2>4, <2>5 DEF PageInv, ParseHolds, AllThere, TextsOf
<1> QED
  BY <1>1, PageHolds, PTL

\* Nothing is open that was not begun, and no more is begun than the bound.
DocumentBounded == /\ document.texts <= document.tags /\ Len(document.open) <= document.tags
                   /\ document.tags <= MaxTags
VisitTyped ==
  /\ visit \in {"asked", "request", "read", "convert", "parse", "render", "preview",
                "attached", "refused"}
  /\ redirects \in 0 .. MaxRedirects
  /\ body \in [size : Sizes, html : BOOLEAN]
  /\ order \in Seq(Converters) /\ Len(order) <= 2
  /\ converter \in Converters \cup {"none", "plain"} /\ warnings \subseteq Warned
\* The texts of the other converters are two at most.
PageTypes == PageInv /\ DocumentBounded /\ VisitTyped /\ (MaxTags > 1 => markdown \in TextLists)

LEMMA TextListed ==
  ASSUME NEW s \in Seq(Nat), Len(s) <= MaxTags, TextsOf(s) \subseteq TextSet
  PROVE  s \in TextLists
<1>1. Len(s) \in 0 .. MaxTags
  BY WebPageAssumption
<1>2. s \in [1 .. Len(s) -> TextSet]
  BY DEF TextsOf
<1> QED
  BY <1>1, <1>2 DEF TextLists

LEMMA TextsAreNumbers == ASSUME NEW s \in Seq(TextSet) PROVE s \in Seq(Nat)
<1>1. Len(s) \in Nat /\ s \in [1 .. Len(s) -> TextSet] /\ TextSet \subseteq Nat
  BY WebPageAssumption DEF TextSet
<1>2. s \in [1 .. Len(s) -> Nat]
  BY <1>1
<1> QED
  BY <1>1, <1>2

LEMMA ListedTexts ==
  ASSUME NEW s \in TextLists
  PROVE  s \in Seq(TextSet) /\ s \in Seq(Nat) /\ Len(s) \in Nat /\ Len(s) <= MaxTags
<1>1. PICK n \in 0 .. MaxTags : s \in [1 .. n -> TextSet]
  BY DEF TextLists
<1>2. n \in Nat /\ MaxTags \in Nat /\ n <= MaxTags /\ TextSet \subseteq Nat
  BY <1>1, WebPageAssumption DEF TextSet
<1>3. s \in Seq(TextSet) /\ Len(s) = n
  BY <1>1, <1>2
<1>4. s \in Seq(Nat)
  BY <1>3, TextsAreNumbers
<1> QED
  BY <1>2, <1>3, <1>4

LEMMA NoMoreThan ==
  ASSUME NEW n \in Nat, NEW S \in SUBSET (1 .. n)
  PROVE  Cardinality(S) \in Nat /\ Cardinality(S) <= n
<1>1. IsFiniteSet(1 .. n) /\ Cardinality(1 .. n) = n
  BY FS_Interval
<1>2. IsFiniteSet(S) /\ Cardinality(S) <= Cardinality(1 .. n)
  BY <1>1, FS_Subset
<1> QED
  BY <1>1, <1>2, FS_CardinalityType

\* What the extractor has gathered and how deep it is.
LEMMA ExtractorBounded ==
  ASSUME PageInv, DocumentBounded
  PROVE  /\ extractor.skip \in 0 .. MaxTags
         /\ {extractor.head, extractor.title, extractor.pre, extractor.anchor} \subseteq BOOLEAN
         /\ extractor.parts \in TextLists /\ extractor.chunks \in TextLists
<1> DEFINE parts == extractor.parts
           chunks == extractor.chunks
           visibleTexts == document.visible
           elements == document.open
<1>1. extractor \in ExtractorType /\ document \in DocumentType /\ Follows(extractor, elements) /\ AllThere
  BY DEF PageInv, PageTyped, ParseHolds
<1>2. /\ parts \in Seq(Nat) /\ chunks \in Seq(Nat) /\ extractor.skip \in Nat
      /\ {extractor.head, extractor.title, extractor.pre, extractor.anchor} \subseteq BOOLEAN
  <2>1. {parts, chunks} \subseteq TextSeq /\ extractor.skip \in Nat
        /\ {extractor.head, extractor.title, extractor.pre, extractor.anchor} \subseteq BOOLEAN
    BY <1>1, ExtractorWith
  <2> QED
    BY <2>1 DEF TextSeq
<1>3. elements \in Seq(Tags) /\ document.tags \in Nat /\ document.texts \in Nat
  BY <1>1 DEF DocumentType, OpenElements
<1>4. /\ visibleTexts \subseteq 1 .. document.texts /\ TextsOf(chunks) \cup TextsOf(parts) = visibleTexts
      /\ Len(chunks) + Len(parts) = Cardinality(visibleTexts)
  BY <1>1 DEF AllThere
<1>5. document.texts <= document.tags /\ Len(elements) <= document.tags /\ document.tags <= MaxTags
  BY DEF DocumentBounded
<1>m. MaxTags \in Nat
  BY WebPageAssumption
<1> HIDE DEF parts, chunks, visibleTexts, elements
<1>6. Cardinality(visibleTexts) \in Nat /\ Cardinality(visibleTexts) <= document.texts
  BY <1>3, <1>4, NoMoreThan
<1>7. Len(chunks) <= MaxTags /\ Len(parts) <= MaxTags
  <2>1. Len(chunks) \in Nat /\ Len(parts) \in Nat
    BY <1>2
  <2> QED
    BY <1>3, <1>4, <1>5, <1>6, <1>m, <2>1
<1>8. TextsOf(chunks) \subseteq TextSet /\ TextsOf(parts) \subseteq TextSet
  <2>1. 1 .. document.texts \subseteq TextSet
    BY <1>3, <1>5, <1>m DEF TextSet
  <2> QED
    BY <1>4, <2>1
<1>9. extractor.skip <= MaxTags
  <2>1. extractor.skip = Cardinality(Skips(elements))
    BY <1>1 DEF Follows
  <2>2. Skips(elements) \subseteq 1 .. Len(elements) /\ Len(elements) \in Nat
    BY <1>3 DEF Skips
  <2>3. Cardinality(Skips(elements)) <= Len(elements)
    BY <2>2, NoMoreThan
  <2> QED
    BY <1>2, <1>3, <1>5, <1>m, <2>1, <2>2, <2>3
<1>10. parts \in TextLists /\ chunks \in TextLists
  BY <1>2, <1>7, <1>8, TextListed
<1> QED
  BY <1>2, <1>9, <1>10, <1>m DEF parts, chunks

LEMMA PageTypesHold == PageTypes /\ MaxTags > 1 => WebPageTypeOK
<1> SUFFICES ASSUME PageTypes, MaxTags > 1 PROVE WebPageTypeOK
  OBVIOUS
<1>1. PageInv /\ DocumentBounded /\ VisitTyped /\ markdown \in TextLists
  BY DEF PageTypes
<1>2. document.visible \subseteq 1 .. document.texts
  BY <1>1 DEF PageInv, ParseHolds, AllThere
<1> QED
  BY <1>1, <1>2, ExtractorBounded DEF WebPageTypeOK, VisitTyped

LEMMA PageBegins == WebPageInit => PageTypes
<1> SUFFICES ASSUME WebPageInit PROVE PageTypes
  OBVIOUS
<1>1. {MaxRedirects, MaxTags, MaxTexts} \subseteq Nat
  BY WebPageAssumption
<1>2. DocumentBounded
  <2>1. document.texts = 0 /\ document.tags = 0 /\ Len(document.open) = 0
    BY DEF WebPageInit, Unparsed
  <2> QED
    BY <1>1, <2>1 DEF DocumentBounded
<1>3. order \in Seq(Converters) /\ Len(order) <= 2
  <2>1. "readability" \in Converters /\ "html2text" \in Converters /\ "stdlib" \in Converters
    BY DEF Converters
  <2>2. order \in {<<"readability", "html2text">>, <<"stdlib", "html2text">>, <<"html2text">>}
    BY DEF WebPageInit, Orders
  <2>3. CASE order = <<"readability", "html2text">>
    BY <2>1, <2>3
  <2>4. CASE order = <<"stdlib", "html2text">>
    BY <2>1, <2>4
  <2>5. CASE order = <<"html2text">>
    BY <2>1, <2>5
  <2> QED
    BY <2>2, <2>3, <2>4, <2>5
<1>4. VisitTyped
  BY <1>1, <1>3 DEF WebPageInit, VisitTyped, Sizes
<1>5. markdown \in TextLists
  <2>1. markdown \in Seq(Nat) /\ Len(markdown) = 0 /\ TextsOf(markdown) = {}
    BY DEF WebPageInit, TextsOf
  <2>2. Len(markdown) <= MaxTags
    BY <1>1, <2>1
  <2> QED
    BY <2>1, <2>2, TextListed
<1> QED
  BY <1>2, <1>4, <1>5, InitPage DEF PageTypes

LEMMA VisitKept == VisitTyped /\ [WebPageNext]_pageVars => VisitTyped'
<1> SUFFICES ASSUME VisitTyped, [WebPageNext]_pageVars PROVE VisitTyped'
  OBVIOUS
<1>0. {MaxRedirects, MaxTags, MaxTexts} \subseteq Nat
  BY WebPageAssumption
<1>1. CASE \/ RefuseAddress \/ AllowAddress \/ FetchRefused \/ Attach \/ Decline \/ ReadHtml
           \/ (\E tag \in Tags : StartTag(tag) \/ EndTag(tag)) \/ Text \/ UNCHANGED pageVars
  <2>1. UNCHANGED <<redirects, body, order, converter, warnings>>
        /\ (visit' = visit \/ visit' \in {"request", "convert", "attached", "refused"})
    BY <1>1 DEF RefuseAddress, AllowAddress, FetchRefused, NothingRead, Attach, Decline, ReadHtml, Fetched,
       StartTag, EndTag, Text, Parsing, pageVars
  <2> QED
    BY <2>1 DEF VisitTyped
<1>2. CASE FollowRedirect
  <2>1. redirects' \in 0 .. MaxRedirects
    BY <1>0, <1>2 DEF FollowRedirect, VisitTyped
  <2> QED
    BY <1>2, <2>1 DEF FollowRedirect, NothingRead, VisitTyped
<1>3. ASSUME NEW size \in Sizes, NEW html \in BOOLEAN, FetchPage(size, html) PROVE VisitTyped'
  BY <1>3 DEF FetchPage, VisitTyped, Warned
<1>4. CASE ReadPlain
  BY <1>4 DEF ReadPlain, Fetched, VisitTyped
<1>5. order # << >> => /\ Head(order) \in Converters /\ Tail(order) \in Seq(Converters)
                       /\ Len(Tail(order)) <= 2
  <2>1. order \in Seq(Converters) /\ Len(order) <= 2 /\ Len(order) \in Nat
    BY DEF VisitTyped
  <2> QED
    BY <2>1
<1>6. CASE SkipConverter
  BY <1>5, <1>6 DEF SkipConverter, Fetched, VisitTyped
<1>7. CASE ForeignConverter
  <2>1. converter' \in Converters /\ visit' = "render" /\ UNCHANGED <<redirects, body, order, warnings>>
    BY <1>5, <1>7 DEF ForeignConverter, Fetched
  <2> QED
    BY <2>1 DEF VisitTyped
<1>8. CASE BuiltIn
  <2>1. converter' \in Converters /\ visit' \in {"render", "parse"} /\ UNCHANGED <<redirects, body, order, warnings>>
    BY <1>8 DEF BuiltIn, Fetched, Converters
  <2> QED
    BY <2>1 DEF VisitTyped
<1>9. CASE BuiltInEnds
  <2>1. visit' \in {"render", "convert"} /\ UNCHANGED <<redirects, body, converter, warnings>>
        /\ (order' = order \/ (order # << >> /\ order' = Tail(order)))
    BY <1>9 DEF BuiltInEnds, Fetched
  <2> QED
    BY <1>5, <2>1 DEF VisitTyped
<1>10. CASE Render
  BY <1>10 DEF Render, Fetched, VisitTyped, Warned
<1> QED
  BY <1>1, <1>2, <1>3, <1>4, <1>6, <1>7, <1>8, <1>9, <1>10 DEF WebPageNext

LEMMA DocumentKept == PageInv /\ DocumentBounded /\ [WebPageNext]_pageVars => DocumentBounded'
<1> SUFFICES ASSUME PageInv, DocumentBounded, [WebPageNext]_pageVars PROVE DocumentBounded'
  OBVIOUS
<1>1. document \in DocumentType
  BY DEF PageInv, PageTyped
<1>2. /\ document.open \in Seq(Tags) /\ document.tags \in Nat /\ document.texts \in Nat /\ MaxTags \in Nat
      /\ document.texts <= document.tags /\ Len(document.open) <= document.tags /\ document.tags <= MaxTags
  BY <1>1, WebPageAssumption DEF DocumentType, OpenElements, DocumentBounded
<1>3. Len(document.open) \in Nat
  BY <1>2
<1>4. ASSUME NEW tag \in Tags, StartTag(tag) PROVE DocumentBounded'
  <2>1. document.tags < MaxTags /\ document' = [document EXCEPT !.open = Append(@, tag), !.tags = @ + 1]
    BY <1>4 DEF StartTag, Growing
  <2>2. document'.open = Append(document.open, tag) /\ document'.tags = document.tags + 1
        /\ document'.texts = document.texts
    BY <1>1, <2>1 DEF DocumentType
  <2>3. Len(document'.open) = Len(document.open) + 1
    BY <1>2, <2>2
  <2> QED
    BY <1>2, <1>3, <2>1, <2>2, <2>3 DEF DocumentBounded
<1>5. ASSUME NEW tag \in Tags, EndTag(tag) PROVE DocumentBounded'
  <2>1. document.open # << >> /\ document' = [document EXCEPT !.open = SubSeq(@, 1, Len(@) - 1)]
    BY <1>5 DEF EndTag
  <2>2. document'.open = SubSeq(document.open, 1, Len(document.open) - 1) /\ document'.tags = document.tags
        /\ document'.texts = document.texts
    BY <1>1, <2>1 DEF DocumentType
  <2>3. Len(document'.open) = Len(document.open) - 1
    BY <1>2, <2>1, <2>2, LastOpen
  <2> QED
    BY <1>2, <1>3, <2>2, <2>3 DEF DocumentBounded
<1>6. CASE Text
  <2>1. document.tags < MaxTags /\ document'.open = document.open /\ document'.tags = document.tags + 1
        /\ document'.texts = document.texts + 1
    BY <1>1, <1>6 DEF Text, Growing, DocumentType
  <2> QED
    BY <1>2, <2>1 DEF DocumentBounded
<1>7. CASE BuiltInEnds
  <2>1. document'.open = document.open /\ document'.tags = document.tags /\ document'.texts = document.texts
    BY <1>1, <1>7 DEF BuiltInEnds, DocumentType
  <2> QED
    BY <2>1 DEF DocumentBounded
<1>8. CASE \/ RefuseAddress \/ AllowAddress \/ FollowRedirect \/ FetchRefused
           \/ \E size \in Sizes, html \in BOOLEAN : FetchPage(size, html)
           \/ ReadPlain \/ ReadHtml \/ SkipConverter \/ ForeignConverter \/ BuiltIn \/ Attach \/ Decline
           \/ Render \/ UNCHANGED pageVars
  <2>1. document' = document
    BY <1>8 DEF RefuseAddress, AllowAddress, FollowRedirect, FetchRefused, NothingRead, FetchPage, ReadPlain, ReadHtml,
       SkipConverter, ForeignConverter, BuiltIn, Attach, Decline, Render, pageVars
  <2> QED
    BY <2>1 DEF DocumentBounded
<1> QED
  BY <1>4, <1>5, <1>6, <1>7, <1>8 DEF WebPageNext

LEMMA MarkdownKept ==
  ASSUME PageInv, DocumentBounded, [WebPageNext]_pageVars, MaxTags > 1, markdown \in TextLists
  PROVE  markdown' \in TextLists
<1>0. MaxTags \in Nat /\ MaxTexts \in Nat
  BY WebPageAssumption
<1>1. <<1>> \in TextLists /\ <<1, 2>> \in TextLists
  <2>1. 1 \in TextSet /\ 2 \in TextSet
    BY <1>0 DEF TextSet
  <2>2. <<1>> \in Seq(Nat) /\ Len(<<1>>) = 1 /\ TextsOf(<<1>>) \subseteq TextSet
    BY <2>1 DEF TextsOf
  <2>3. <<1, 2>> \in Seq(Nat) /\ Len(<<1, 2>>) = 2 /\ TextsOf(<<1, 2>>) \subseteq TextSet
    BY <2>1 DEF TextsOf
  <2>4. 1 <= MaxTags /\ 2 <= MaxTags
    BY <1>0
  <2>5. <<1>> \in TextLists
    BY <2>2, <2>4, TextListed
  <2>6. <<1, 2>> \in TextLists
    BY <2>3, <2>4, TextListed
  <2> QED
    BY <2>5, <2>6
<1>2. CASE ReadPlain \/ ForeignConverter
  BY <1>1, <1>2 DEF ReadPlain, ForeignConverter
<1>3. CASE BuiltInEnds
  BY <1>3, ExtractorBounded DEF BuiltInEnds
<1>4. CASE Render
  <2> DEFINE n == IF Len(markdown) > MaxTexts THEN MaxTexts ELSE Len(markdown)
  <2>1. markdown' = SubSeq(markdown, 1, n)
    BY <1>4 DEF Render, Cut
  <2>2. markdown \in Seq(TextSet) /\ Len(markdown) \in Nat /\ Len(markdown) <= MaxTags
    BY ListedTexts
  <2>3. n \in 0 .. Len(markdown)
    BY <1>0, <2>2
  <2> HIDE DEF n
  <2>4. markdown' \in Seq(TextSet) /\ Len(markdown') = n
    BY <2>1, <2>2, <2>3
  <2>5. TextsOf(markdown') \subseteq TextSet /\ TextSet \subseteq Nat
    BY <1>0, <2>4 DEF TextsOf, TextSet
  <2>6. Len(markdown') <= MaxTags
    BY <1>0, <2>2, <2>3, <2>4
  <2>7. markdown' \in Seq(Nat)
    BY <2>4, TextsAreNumbers
  <2> QED
    BY <2>5, <2>6, <2>7, TextListed
<1>5. CASE \/ RefuseAddress \/ AllowAddress \/ FollowRedirect \/ FetchRefused
           \/ \E size \in Sizes, html \in BOOLEAN : FetchPage(size, html)
           \/ ReadHtml \/ SkipConverter \/ BuiltIn \/ Attach \/ Decline
           \/ (\E tag \in Tags : StartTag(tag) \/ EndTag(tag)) \/ Text \/ UNCHANGED pageVars
  <2>1. markdown' = markdown
    BY <1>5 DEF RefuseAddress, AllowAddress, FollowRedirect, FetchRefused, NothingRead, FetchPage, ReadHtml,
       SkipConverter, BuiltIn, Attach, Decline, StartTag, EndTag, Text, Parsing, pageVars
  <2> QED
    BY <2>1
<1> QED
  BY <1>2, <1>3, <1>4, <1>5 DEF WebPageNext

LEMMA PageKeepsTypes == PageTypes /\ [WebPageNext]_pageVars => PageTypes'
BY NextPage, VisitKept, DocumentKept, MarkdownKept DEF PageTypes

-----------------------------------------------------------------------------
(* Models: what OpenRouter is told.                                        *)

ModelsSpec == ModelsInit /\ [][ModelsNext]_modelsVars

\* A conversation: its questions in the order they were asked, none empty,
\* each answer behind its question.
InTurns(s) ==
  /\ \A i \in Asked(s) : ~ s[i].empty
  /\ \A i, j \in Asked(s) : i < j => s[i].question < s[j].question
  /\ \A i \in DOMAIN s : s[i].role = "assistant" =>
       i > 1 /\ s[i-1].role = "user" /\ s[i-1].question = s[i].question

\* The question in hand, and one that may be asked again, is not in it yet.
DialogueInv ==
  /\ dialogue \in Seq(Messages) /\ InTurns(dialogue)
  /\ question \in Nat /\ failed \in Nat
  /\ \A i \in DOMAIN dialogue : dialogue[i].question <= question
  /\ (stage # "idle" \/ failed = question) =>
       \A i \in DOMAIN dialogue : dialogue[i].question < question
  /\ stage # "idle" => question \in Numbers /\ failed = 0
  /\ stage \in {"idle", "asked", "waiting"}

ModelsInv == DialogueInv /\ QuestionsOnce

\* Places taken in their order from a finite set of numbers are all of them.
LEMMA PlacesInOrder ==
  ASSUME NEW n \in Nat, NEW S \in SUBSET (1 .. n), NEW p \in InOrder(S)
  PROVE  /\ Cardinality(S) \in Nat /\ p \in [1 .. Cardinality(S) -> S]
         /\ \A i, j \in 1 .. Cardinality(S) : i < j => p[i] < p[j]
         /\ \A k \in S : \E i \in 1 .. Cardinality(S) : p[i] = k
<1> DEFINE m == Cardinality(S)
<1>0. S \subseteq 1 .. n /\ S \subseteq Nat
  OBVIOUS
<1>1. IsFiniteSet(S)
  <2>1. IsFiniteSet(1 .. n)
    BY FS_Interval
  <2> QED
    BY <1>0, <2>1, FS_Subset
<1>2. m \in Nat
  BY <1>1, FS_CardinalityType
<1>3. p \in [1 .. m -> S] /\ \A i, j \in 1 .. m : i < j => p[i] < p[j]
  BY DEF InOrder
<1>4. IsFiniteSet(1 .. m) /\ Cardinality(1 .. m) = m
  BY <1>2, FS_Interval
<1> HIDE DEF m
<1>5. \A i, j \in 1 .. m : i # j => p[i] # p[j]
  <2> SUFFICES ASSUME NEW i \in 1 .. m, NEW j \in 1 .. m, i # j PROVE p[i] # p[j]
    OBVIOUS
  <2>1. p[i] \in S /\ p[j] \in S
    BY <1>3
  <2>3. p[i] \in Nat /\ p[j] \in Nat
    BY <1>0, <2>1
  <2>2. i < j \/ j < i
    BY <1>2
  <2> QED
    BY <1>3, <2>3, <2>2
<1>6. p \in Injection(1 .. m, S)
  BY <1>3, <1>5 DEF Injection, IsInjective
<1>7. Cardinality(1 .. m) = Cardinality(S) <=> p \in Surjection(1 .. m, S)
  BY <1>1, <1>6, FS_Injection
<1>8. p \in Surjection(1 .. m, S)
  BY <1>4, <1>7 DEF m
<1> QED
  BY <1>2, <1>3, <1>8 DEF Surjection, m

LEMMA DialogueNumbers ==
  ASSUME DialogueInv
  PROVE  \A i \in DOMAIN dialogue : dialogue[i].question \in Nat
<1> SUFFICES ASSUME NEW i \in DOMAIN dialogue PROVE dialogue[i].question \in Nat
  OBVIOUS
<1>1. dialogue[i] \in Messages
  BY DEF DialogueInv
<1>2. dialogue[i].question \in Numbers
  BY <1>1 DEF Messages
<1> QED
  BY <1>2, ModelsAssumption DEF Numbers

LEMMA ModelsInitInv == ModelsInit => ModelsInv
<1> SUFFICES ASSUME ModelsInit PROVE ModelsInv
  OBVIOUS
<1>1. dialogue = << >> /\ stage = "idle" /\ question = 0 /\ failed = 0
  BY DEF ModelsInit
<1>2. << >> \in Seq(Messages) /\ DOMAIN << >> = {}
  OBVIOUS
<1> QED
  BY <1>1, <1>2 DEF ModelsInv, DialogueInv, InTurns, Asked, QuestionsOnce

\* What is told of a conversation keeps its questions, their order and
\* the places of the answers.
LEMMA ToldInTurns ==
  ASSUME DialogueInv, NEW told \in Told
  PROVE  /\ told \in Seq(Messages) /\ InTurns(told)
         /\ { told[i].question : i \in Asked(told) }
              = { dialogue[i].question : i \in Asked(dialogue) }
<1> DEFINE n == Len(dialogue)
           k == Cardinality(NotEmpty)
<1>1. dialogue \in Seq(Messages) /\ InTurns(dialogue) /\ n \in Nat /\ DOMAIN dialogue = 1 .. n
  BY DEF DialogueInv
<1>2. NotEmpty \in SUBSET (1 .. n)
  BY <1>1 DEF NotEmpty
<1>3. PICK p \in InOrder(NotEmpty) : told = [i \in DOMAIN p |-> dialogue[p[i]]]
  BY DEF Told
<1> HIDE DEF n
<1>4. /\ k \in Nat /\ p \in [1 .. k -> NotEmpty]
      /\ \A i, j \in 1 .. k : i < j => p[i] < p[j]
      /\ \A x \in NotEmpty : \E i \in 1 .. k : p[i] = x
  BY <1>1, <1>2, <1>3, PlacesInOrder
<1> HIDE DEF k
<1>5. /\ told = [i \in 1 .. k |-> dialogue[p[i]]]
      /\ \A i \in 1 .. k : p[i] \in 1 .. n /\ told[i] = dialogue[p[i]] /\ dialogue[p[i]] \in Messages
  <2>1. told = [i \in 1 .. k |-> dialogue[p[i]]]
    BY <1>3, <1>4
  <2>2. \A i \in 1 .. k : p[i] \in 1 .. n
    BY <1>2, <1>4
  <2>3. \A x \in 1 .. n : dialogue[x] \in Messages
    BY <1>1
  <2> QED
    BY <2>1, <2>2, <2>3
<1>6. told \in Seq(Messages) /\ DOMAIN told = 1 .. k
  BY <1>4, <1>5
<1>7. \A i \in 1 .. k : i \in Asked(told) <=> p[i] \in Asked(dialogue)
  BY <1>1, <1>5, <1>6 DEF Asked
<1>8. Asked(told) \subseteq 1 .. k /\ Asked(dialogue) \subseteq NotEmpty
  BY <1>1, <1>6 DEF Asked, NotEmpty, InTurns
<1>9. \A i \in Asked(told) : ~ told[i].empty
  BY <1>1, <1>5, <1>7, <1>8 DEF InTurns
<1>10. \A i, j \in Asked(told) : i < j => told[i].question < told[j].question
  <2> SUFFICES ASSUME NEW i \in Asked(told), NEW j \in Asked(told), i < j
               PROVE  told[i].question < told[j].question
    OBVIOUS
  <2>1. /\ i \in 1 .. k /\ j \in 1 .. k /\ p[i] < p[j]
        /\ p[i] \in Asked(dialogue) /\ p[j] \in Asked(dialogue)
    BY <1>4, <1>7, <1>8
  <2>2. dialogue[p[i]].question < dialogue[p[j]].question
    BY <1>1, <2>1 DEF InTurns
  <2> QED
    BY <1>5, <2>1, <2>2
<1>11. ASSUME NEW i \in DOMAIN told, told[i].role = "assistant"
       PROVE  i > 1 /\ told[i-1].role = "user" /\ told[i-1].question = told[i].question
  <2>1. i \in 1 .. k /\ p[i] \in 1 .. n /\ told[i] = dialogue[p[i]]
    BY <1>5, <1>6
  <2>2. /\ p[i] > 1 /\ dialogue[p[i] - 1].role = "user"
        /\ dialogue[p[i] - 1].question = dialogue[p[i]].question
    BY <1>1, <1>11, <2>1 DEF InTurns
  <2> DEFINE q == p[i] - 1
  <2>3. q \in 1 .. n /\ p[i] = q + 1 /\ q \in Nat
    BY <1>1, <2>1, <2>2
  <2>4. q \in Asked(dialogue)
    BY <1>1, <2>2, <2>3 DEF Asked
  <2> HIDE DEF q
  <2>5. PICK j \in 1 .. k : p[j] = q
    BY <1>4, <1>8, <2>4
  <2>6. j < i
    <3>1. ~ (i < j)
      BY <1>4, <2>1, <2>3, <2>5
    <3>2. i # j
      BY <2>3, <2>5
    <3> QED
      BY <1>4, <2>1, <3>1, <3>2
  <2>7. j = i - 1
    <3>1. CASE j < i - 1
      <4>1. i - 1 \in 1 .. k /\ j < i - 1 /\ i - 1 < i
        BY <1>4, <2>1, <2>5, <3>1
      <4>2. p[j] < p[i - 1] /\ p[i - 1] < p[i] /\ p[i - 1] \in Nat
        BY <1>2, <1>4, <2>1, <4>1
      <4> QED
        BY <2>3, <2>5, <4>2
    <3> QED
      BY <1>4, <2>1, <2>6, <3>1
  <2>8. told[i - 1] = dialogue[q] /\ i > 1
    BY <1>5, <2>1, <2>5, <2>7
  <2> QED
    BY <2>1, <2>2, <2>8 DEF q
<1>12. { told[i].question : i \in Asked(told) } = { dialogue[i].question : i \in Asked(dialogue) }
  <2>1. ASSUME NEW i \in Asked(told)
        PROVE  \E x \in Asked(dialogue) : dialogue[x].question = told[i].question
    BY <1>5, <1>7, <1>8
  <2>2. ASSUME NEW x \in Asked(dialogue)
        PROVE  \E i \in Asked(told) : told[i].question = dialogue[x].question
    <3>1. PICK i \in 1 .. k : p[i] = x
      BY <1>4, <1>8
    <3> QED
      BY <1>5, <1>7, <3>1
  <2> QED
    BY <2>1, <2>2
<1> QED
  BY <1>6, <1>9, <1>10, <1>11, <1>12 DEF InTurns

\* The call: the new question behind all the others.
LEMMA SendCallOnce ==
  ASSUME DialogueInv, SendCall
  PROVE  ModelsInv'
<1>1. /\ stage = "asked" /\ stage' = "waiting" /\ request' \in Call
      /\ dialogue' = dialogue /\ question' = question /\ failed' = failed
  BY DEF SendCall, ToOpenRouter
<1>2. PICK told \in Told : request'.messages = Append(told, UserMessage)
  BY <1>1 DEF Call
<1>3. /\ told \in Seq(Messages) /\ InTurns(told)
      /\ { told[i].question : i \in Asked(told) }
           = { dialogue[i].question : i \in Asked(dialogue) }
  BY ToldInTurns
<1>4. /\ question \in Numbers /\ question \in Nat
      /\ \A i \in DOMAIN dialogue : dialogue[i].question < question
      /\ \A i \in DOMAIN dialogue : dialogue[i].question \in Nat
  <2>1. question \in Numbers /\ \A i \in DOMAIN dialogue : dialogue[i].question < question
    BY <1>1 DEF DialogueInv
  <2>2. \A i \in DOMAIN dialogue : dialogue[i].question \in Nat
    BY DialogueNumbers
  <2> QED
    BY <2>1, <2>2 DEF DialogueInv
<1>5. DialogueInv'
  BY <1>1, <1>4 DEF DialogueInv, InTurns, Asked
<1> DEFINE callTexts == Append(told, UserMessage)
           k == Len(told)
<1>6. /\ k \in Nat /\ Len(callTexts) = k + 1 /\ DOMAIN callTexts = 1 .. k + 1 /\ DOMAIN told = 1 .. k
      /\ callTexts[k + 1] = UserMessage /\ \A i \in 1 .. k : callTexts[i] = told[i]
  BY <1>3
<1>7. UserMessage.role = "user" /\ UserMessage.question = question
  BY DEF UserMessage
<1> HIDE DEF callTexts, k
<1>8. Asked(callTexts) = Asked(told) \cup {k + 1} /\ Asked(told) \subseteq 1 .. k
  BY <1>6, <1>7 DEF Asked
<1>9. Last(callTexts) = UserMessage
  BY <1>6 DEF Last
<1>10. ASSUME NEW i \in Asked(told)
       PROVE  told[i].question \in Nat /\ told[i].question < question
  <2>1. PICK x \in Asked(dialogue) : dialogue[x].question = told[i].question
    BY <1>3
  <2> QED
    BY <1>4, <2>1 DEF Asked
<1>11. \A i, j \in Asked(callTexts) : i < j => callTexts[i].question < callTexts[j].question
  <2> SUFFICES ASSUME NEW i \in Asked(callTexts), NEW j \in Asked(callTexts), i < j
               PROVE  callTexts[i].question < callTexts[j].question
    OBVIOUS
  <2>1. i \in Asked(told) /\ i \in 1 .. k /\ callTexts[i] = told[i]
    BY <1>6, <1>8
  <2>2. CASE j = k + 1
    BY <1>6, <1>7, <1>10, <2>1, <2>2
  <2>3. CASE j # k + 1
    <3>1. j \in Asked(told) /\ callTexts[j] = told[j]
      BY <1>6, <1>8, <2>3
    <3> QED
      BY <1>3, <2>1, <3>1 DEF InTurns
  <2> QED
    BY <2>2, <2>3
<1>12. { callTexts[i].question : i \in Asked(callTexts) }
         = { dialogue[i].question : i \in Asked(dialogue) } \cup {question}
  <2>1. { callTexts[i].question : i \in Asked(callTexts) }
          = { told[i].question : i \in Asked(told) } \cup {question}
    BY <1>6, <1>7, <1>8
  <2> QED
    BY <1>3, <2>1
<1>13. \A i \in DOMAIN callTexts : callTexts[i].role = "assistant" =>
         i > 1 /\ callTexts[i-1].role = "user" /\ callTexts[i-1].question = callTexts[i].question
  <2> SUFFICES ASSUME NEW i \in DOMAIN callTexts, callTexts[i].role = "assistant"
               PROVE  i > 1 /\ callTexts[i-1].role = "user" /\ callTexts[i-1].question = callTexts[i].question
    OBVIOUS
  <2>1. i \in 1 .. k /\ callTexts[i] = told[i] /\ told[i].role = "assistant"
    BY <1>6, <1>7
  <2>2. i > 1 /\ told[i-1].role = "user" /\ told[i-1].question = told[i].question
    BY <1>3, <1>6, <2>1 DEF InTurns
  <2>3. i - 1 \in 1 .. k
    BY <1>6, <2>1, <2>2
  <2> QED
    BY <1>6, <2>1, <2>2, <2>3
<1>14. \A i \in Asked(dialogue) : dialogue[i].question # question
  BY <1>4 DEF Asked
<1>15. request'.messages = callTexts
  BY <1>2 DEF callTexts
<1>16. QuestionsOnce'
  <2>1. Asked(dialogue)' = Asked(dialogue)
    BY <1>1 DEF Asked
  <2>2. Asked(request.messages)' = Asked(callTexts)
    BY <1>15 DEF Asked
  <2> QED
    BY <1>1, <1>7, <1>9, <1>11, <1>12, <1>13, <1>14, <1>15, <2>1, <2>2 DEF QuestionsOnce
<1> QED
  BY <1>5, <1>16 DEF ModelsInv

\* A turn is recorded behind the others.
LEMMA RecordTurns ==
  ASSUME DialogueInv, NEW empty \in BOOLEAN, stage # "idle", Record(empty)
  PROVE  ModelsInv'
<1> DEFINE responded == [role |-> "assistant", question |-> question, empty |-> empty]
           n == Len(dialogue)
<1>1. /\ dialogue' = dialogue \o <<UserMessage, responded>> /\ stage' = "idle"
      /\ question' = question /\ failed' = failed
  BY DEF Record, EndTurn
<1>2. /\ dialogue \in Seq(Messages) /\ n \in Nat /\ DOMAIN dialogue = 1 .. n
      /\ question \in Numbers /\ failed = 0 /\ InTurns(dialogue)
      /\ \A i \in 1 .. n : dialogue[i].question < question
  BY DEF DialogueInv
<1>3. /\ UserMessage \in Messages /\ UserMessage.role = "user" /\ ~ UserMessage.empty
      /\ UserMessage.question = question
  BY <1>2 DEF UserMessage, Messages, Roles
<1>4. responded \in Messages /\ responded.role = "assistant" /\ responded.question = question
  BY <1>2 DEF Messages, Roles
<1> HIDE DEF responded
<1>5. /\ dialogue' \in Seq(Messages) /\ DOMAIN dialogue' = 1 .. n + 2
      /\ dialogue'[n + 1] = UserMessage /\ dialogue'[n + 2] = responded
      /\ \A i \in 1 .. n : dialogue'[i] = dialogue[i]
  BY <1>1, <1>2, <1>3, <1>4
<1> HIDE DEF n
<1>6. Asked(dialogue') = Asked(dialogue) \cup {n + 1} /\ Asked(dialogue) \subseteq 1 .. n
  <2>1. \A i \in 1 .. n + 2 : i \in 1 .. n \/ i = n + 1 \/ i = n + 2
    BY <1>2
  <2>2. n + 1 \in 1 .. n + 2 /\ 1 .. n \subseteq 1 .. n + 2
    BY <1>2
  <2> QED
    BY <1>2, <1>3, <1>4, <1>5, <2>1, <2>2 DEF Asked
<1>7. \A i \in Asked(dialogue') : ~ dialogue'[i].empty
  BY <1>2, <1>3, <1>5, <1>6 DEF InTurns
<1>8. \A i, j \in Asked(dialogue') : i < j => dialogue'[i].question < dialogue'[j].question
  <2> SUFFICES ASSUME NEW i \in Asked(dialogue'), NEW j \in Asked(dialogue'), i < j
               PROVE  dialogue'[i].question < dialogue'[j].question
    OBVIOUS
  <2>1. i \in Asked(dialogue) /\ i \in 1 .. n
    BY <1>2, <1>6
  <2>2. CASE j = n + 1
    BY <1>2, <1>3, <1>5, <2>1, <2>2
  <2>3. CASE j \in Asked(dialogue)
    BY <1>2, <1>5, <1>6, <2>1, <2>3 DEF InTurns
  <2> QED
    BY <1>6, <2>2, <2>3
<1>9. ASSUME NEW i \in DOMAIN dialogue', dialogue'[i].role = "assistant"
      PROVE  i > 1 /\ dialogue'[i-1].role = "user" /\ dialogue'[i-1].question = dialogue'[i].question
  <2>1. CASE i \in 1 .. n
    <3>1. dialogue'[i] = dialogue[i] /\ dialogue[i].role = "assistant"
      BY <1>5, <1>9, <2>1
    <3>2. i > 1 /\ dialogue[i-1].role = "user" /\ dialogue[i-1].question = dialogue[i].question
      BY <1>2, <2>1, <3>1 DEF InTurns
    <3>3. i - 1 \in 1 .. n
      BY <1>2, <2>1, <3>2
    <3> QED
      BY <1>5, <3>1, <3>2, <3>3
  <2>2. CASE i = n + 2
    <3>1. i - 1 = n + 1 /\ i > 1
      BY <1>2, <2>2
    <3> QED
      BY <1>3, <1>4, <1>5, <2>2, <3>1
  <2>3. CASE i = n + 1
    BY <1>3, <1>5, <1>9, <2>3
  <2> QED
    BY <1>2, <1>5, <2>1, <2>2, <2>3
<1>10. InTurns(dialogue)'
  BY <1>7, <1>8, <1>9 DEF InTurns, Asked
<1>11. \A i \in DOMAIN dialogue' : dialogue'[i].question <= question
  <2>1. \A i \in 1 .. n : dialogue[i].question \in Nat
    BY <1>2, DialogueNumbers
  <2> QED
    BY <1>2, <1>3, <1>4, <1>5, <2>1 DEF Numbers
<1>12. question # 0 /\ question \in Nat
  BY <1>2, ModelsAssumption DEF Numbers
<1> QED
  BY <1>1, <1>2, <1>5, <1>10, <1>11, <1>12 DEF ModelsInv, DialogueInv, QuestionsOnce

\* Nothing is recorded of a turn that failed.
LEMMA ForgetTurns ==
  ASSUME DialogueInv, stage # "idle", Forget
  PROVE  ModelsInv'
<1>1. /\ failed' = question /\ question' = question /\ dialogue' = dialogue /\ stage' = "idle"
  BY DEF Forget, EndTurn
<1> QED
  BY <1>1 DEF ModelsInv, DialogueInv, InTurns, Asked, QuestionsOnce

LEMMA AskTurns ==
  ASSUME DialogueInv, NEW n \in Nat, AskQuestion(n), n >= 1,
         \A i \in DOMAIN dialogue : dialogue[i].question < n
  PROVE  ModelsInv'
<1>1. /\ stage' = "asked" /\ question' = n /\ failed' = 0 /\ dialogue' = dialogue
      /\ n <= MaxQuestions
  BY DEF AskQuestion
<1>2. n \in Numbers
  BY <1>1, ModelsAssumption DEF Numbers
<1>3. \A i \in DOMAIN dialogue : dialogue[i].question \in Nat
  BY DialogueNumbers
<1> QED
  BY <1>1, <1>2, <1>3 DEF ModelsInv, DialogueInv, InTurns, Asked, QuestionsOnce

LEMMA SameTurns ==
  ASSUME ModelsInv, UNCHANGED <<dialogue, stage, question, failed, request>>
  PROVE  ModelsInv'
<1>1. /\ dialogue' = dialogue /\ stage' = stage /\ question' = question
      /\ failed' = failed /\ request' = request
  OBVIOUS
<1>2. DialogueInv'
  BY <1>1 DEF ModelsInv, DialogueInv, InTurns, Asked
<1>3. QuestionsOnce'
  BY <1>1 DEF ModelsInv, QuestionsOnce, Asked
<1> QED
  BY <1>2, <1>3 DEF ModelsInv

LEMMA ModelsNextInv == ModelsInv /\ [ModelsNext]_modelsVars => ModelsInv'
<1> SUFFICES ASSUME ModelsInv, [ModelsNext]_modelsVars PROVE ModelsInv'
  OBVIOUS
<1>0. DialogueInv
  BY DEF ModelsInv
<1>1. CASE Choosing
  <2>1. UNCHANGED <<dialogue, stage, question, failed, request>>
    BY <1>1 DEF Choosing
  <2> QED
    BY <2>1, SameTurns
<1>2. CASE NewDialogue
  <2>1. /\ stage = "idle" /\ stage' = "idle" /\ dialogue' = << >> /\ failed' = 0
        /\ question' = question
    BY <1>2 DEF NewDialogue
  <2>2. << >> \in Seq(Messages) /\ DOMAIN << >> = {}
    OBVIOUS
  <2> QED
    BY <1>0, <2>1, <2>2 DEF ModelsInv, DialogueInv, InTurns, Asked, QuestionsOnce
<1>3. CASE AskNew
  <2>1. /\ question + 1 \in Nat /\ question + 1 >= 1 /\ AskQuestion(question + 1)
        /\ \A i \in DOMAIN dialogue : dialogue[i].question < question + 1
    <3>1. \A i \in DOMAIN dialogue : dialogue[i].question \in Nat
      BY <1>0, DialogueNumbers
    <3> QED
      BY <1>0, <1>3, <3>1 DEF DialogueInv, AskNew, NewQuestion
  <2> QED
    BY <1>0, <2>1, AskTurns
<1>4. CASE AskAgain
  <2>1. /\ failed \in Nat /\ failed >= 1 /\ AskQuestion(failed)
        /\ \A i \in DOMAIN dialogue : dialogue[i].question < failed
    BY <1>0, <1>4 DEF DialogueInv, AskAgain
  <2> QED
    BY <1>0, <2>1, AskTurns
<1>5. CASE RefuseTurn \/ CallFails \/ DuoFails
  BY <1>0, <1>5, ForgetTurns DEF RefuseTurn, CallFails, DuoFails
<1>6. CASE SendCall
  BY <1>0, <1>6, SendCallOnce
<1>7. CASE ElizaAnswers \/ \E empty \in BOOLEAN : CallAnswered(empty) \/ DuoAnswers(empty)
  BY <1>0, <1>7, RecordTurns DEF ElizaAnswers, CallAnswered, DuoAnswers
<1>8. CASE UNCHANGED modelsVars
  <2>1. UNCHANGED <<dialogue, stage, question, failed, request>>
    BY <1>8 DEF modelsVars
  <2> QED
    BY <2>1, SameTurns
<1>9. ASSUME \/ \E m \in ModelNames : ChooseModel(m)
             \/ \E on \in BOOLEAN : PinModel(on) \/ ProbeField(on)
             \/ ToggleRotation \/ SetDuoModel \/ ClearDuoModel \/ MakeProvider
      PROVE  Choosing
  BY <1>9 DEF ChooseModel, PinModel, ProbeField, ToggleRotation, SetDuoModel, ClearDuoModel,
              MakeProvider
<1> QED
  BY <1>1, <1>2, <1>3, <1>4, <1>5, <1>6, <1>7, <1>8, <1>9 DEF ModelsNext

\* For any number of questions, attempts and changes of the model, OpenRouter
\* is told every question of the conversation once, in order and with its
\* answer, and the new one last (conversation_history_for_openrouter,
\* send_chat_turn).
THEOREM ToldOnce == ModelsSpec => []QuestionsOnce
<1>1. ModelsInv => QuestionsOnce
  BY DEF ModelsInv
<1> QED
  BY <1>1, ModelsInitInv, ModelsNextInv, PTL DEF ModelsSpec

ModelsTypes == ModelsInv /\ ModelsTypeOK

SettingsTyped ==
  /\ active \in ModelNames
  /\ router \in [key : BOOLEAN, models : 0 .. 2, rotate : BOOLEAN, pinned : BOOLEAN]
  /\ modelField \in {"unknown", "accepted", "rejected"} /\ duoModel \in BOOLEAN
  /\ network \in Networks /\ route \in Routes \cup {"none"}
TurnTyped ==
  /\ failed \in 0 .. MaxQuestions /\ question \in 0 .. MaxQuestions /\ tries \in 0 .. MaxTries
RequestTyped ==
  /\ \A i \in DOMAIN request.messages : request.messages[i] \in Messages
  /\ request.model \in 0 .. 2

LEMMA TypesOfModels ==
  ModelsTypes <=> ModelsInv /\ SettingsTyped /\ TurnTyped /\ RequestTyped
BY DEF ModelsTypes, ModelsTypeOK, SettingsTyped, TurnTyped, RequestTyped, ModelsInv, DialogueInv

LEMMA ModelsBegin == ModelsInit => ModelsTypes
<1> SUFFICES ASSUME ModelsInit PROVE ModelsTypes
  OBVIOUS
<1>1. PICK r \in Routers : router = [key |-> r.key, models |-> r.models, rotate |-> FALSE, pinned |-> FALSE]
  BY DEF ModelsInit
<1>2. router \in [key : BOOLEAN, models : 0 .. 2, rotate : BOOLEAN, pinned : BOOLEAN]
  <2>1. r.key \in BOOLEAN /\ r.models \in 0 .. 2
    BY ModelsAssumption
  <2> QED
    BY <1>1, <2>1
<1>3. 0 \in 0 .. MaxQuestions /\ 0 \in 0 .. MaxTries
  BY ModelsAssumption
<1>4. request.messages = << >> /\ request.model = 0 /\ DOMAIN << >> = {}
  BY DEF ModelsInit, NoCall
<1>6. SettingsTyped
  BY <1>2 DEF ModelsInit, SettingsTyped, ModelNames
<1>7. TurnTyped
  BY <1>3 DEF ModelsInit, TurnTyped
<1>8. RequestTyped
  BY <1>4 DEF RequestTyped
<1> QED
  BY <1>6, <1>7, <1>8, ModelsInitInv, TypesOfModels

LEMMA ModelsKeepTypes == ModelsTypes /\ [ModelsNext]_modelsVars => ModelsTypes'
<1> SUFFICES ASSUME ModelsTypes, [ModelsNext]_modelsVars PROVE ModelsTypes'
  OBVIOUS
<1>1. ModelsInv /\ SettingsTyped /\ TurnTyped /\ RequestTyped
  BY TypesOfModels
<1>2. ModelsInv'
  BY <1>1, ModelsNextInv
<1>3. SettingsTyped'
  <2>1. ASSUME UNCHANGED settingVars PROVE SettingsTyped'
    BY <1>1, <2>1 DEF settingVars, SettingsTyped
  <2>2. ASSUME NEW m \in ModelNames, ChooseModel(m) PROVE SettingsTyped'
    BY <1>1, <2>2 DEF ChooseModel, Choosing, SettingsTyped
  <2>3. ASSUME NEW on \in BOOLEAN, PinModel(on) \/ ToggleRotation PROVE SettingsTyped'
    BY <1>1, <2>3 DEF PinModel, ToggleRotation, Choosing, SettingsTyped
  <2>4. ASSUME NEW again \in BOOLEAN, ProbeField(again) PROVE SettingsTyped'
    BY <1>1, <2>4 DEF ProbeField, Choosing, SettingsTyped
  <2>5. CASE SetDuoModel \/ ClearDuoModel
    BY <1>1, <2>5 DEF SetDuoModel, ClearDuoModel, Choosing, SettingsTyped
  <2>6. CASE MakeProvider
    <3>1. BestRoute \in Routes
      BY DEF BestRoute, Routes
    <3> QED
      BY <1>1, <2>6, <3>1 DEF MakeProvider, Choosing, SettingsTyped
  <2>7. ASSUME ModelsNext, ~\E m \in ModelNames : ChooseModel(m), ~\E on \in BOOLEAN : PinModel(on) \/ ProbeField(on),
               ~ToggleRotation, ~SetDuoModel, ~ClearDuoModel, ~MakeProvider
        PROVE  UNCHANGED settingVars
    BY <2>7 DEF ModelsNext, NewDialogue, AskNew, AskAgain, AskQuestion, RefuseTurn, Forget, EndTurn, SendCall,
                CallFails, ElizaAnswers, DuoFails, CallAnswered, DuoAnswers, Record
  <2>8. CASE UNCHANGED modelsVars
    BY <2>1, <2>8 DEF modelsVars, settingVars
  <2> QED
    BY <2>1, <2>2, <2>3, <2>4, <2>5, <2>6, <2>7, <2>8
<1>4. TurnTyped'
  <2>0. failed \in 0 .. MaxQuestions /\ question \in 0 .. MaxQuestions /\ tries \in 0 .. MaxTries
        /\ MaxQuestions \in Nat /\ MaxTries \in Nat
    BY <1>1, ModelsAssumption DEF TurnTyped
  <2>1. ASSUME NEW n \in Nat, AskQuestion(n) PROVE TurnTyped'
    BY <2>0, <2>1 DEF AskQuestion, TurnTyped
  <2>2. CASE AskNew \/ AskAgain
    <3>1. NewQuestion \in Nat /\ failed \in Nat
      BY <2>0 DEF NewQuestion
    <3> QED
      BY <2>1, <2>2, <3>1 DEF AskNew, AskAgain
  <2>3. ASSUME ~AskNew, ~AskAgain, ModelsNext
        PROVE  tries' = tries /\ question' = question /\ failed' \in {0, failed, question}
    BY <2>3 DEF ModelsNext, ChooseModel, PinModel, ProbeField, ToggleRotation, SetDuoModel, ClearDuoModel,
                MakeProvider, Choosing, NewDialogue, RefuseTurn, Forget, EndTurn, SendCall,
                CallFails, ElizaAnswers, DuoFails, CallAnswered, DuoAnswers, Record
  <2>4. CASE UNCHANGED modelsVars
    BY <2>0, <2>4 DEF modelsVars, TurnTyped
  <2> QED
    BY <2>0, <2>2, <2>3, <2>4 DEF TurnTyped
<1>5. RequestTyped'
  <2>1. CASE SendCall
    <3>1. stage = "asked" /\ ~Unavailable /\ request' \in Call
      BY <2>1 DEF SendCall, ToOpenRouter
    <3>2. PICK told \in Told : request' = [messages |-> Append(told, UserMessage), model |-> SelectModel(0)]
      BY <3>1 DEF Call
    <3>3. DialogueInv
      BY <1>1 DEF ModelsInv
    <3>4. told \in Seq(Messages)
      BY <3>3, ToldInTurns
    <3>5. UserMessage \in Messages
      BY <3>1, <3>3 DEF DialogueInv, UserMessage, Messages, Roles
    <3>6. SelectModel(0) \in 0 .. 2
      <4>1. router.models \in 0 .. 2
        BY <1>1 DEF SettingsTyped
      <4>2. CASE router.rotate /\ ~router.pinned
        <5>1. router.models # 0
          BY <3>1, <4>2 DEF Unavailable
        <5>2. 0 % 1 = 0 /\ 0 % 2 = 0
          OBVIOUS
        <5>3. router.models = 1 \/ router.models = 2
          BY <4>1, <5>1
        <5>4. 0 % router.models = 0
          BY <5>2, <5>3
        <5> QED
          BY <4>2, <5>4 DEF SelectModel
      <4>3. CASE ~(router.rotate /\ ~router.pinned)
        BY <4>3 DEF SelectModel
      <4> QED
        BY <4>2, <4>3
    <3> DEFINE callSent == Append(told, UserMessage)
    <3>7. callSent \in Seq(Messages)
      BY <3>4, <3>5
    <3> HIDE DEF callSent
    <3>8. \A i \in DOMAIN callSent : callSent[i] \in Messages
      BY <3>7
    <3>9. request'.messages = callSent /\ request'.model = SelectModel(0)
      BY <3>2 DEF callSent
    <3> QED
      BY <3>6, <3>8, <3>9 DEF RequestTyped
  <2>2. ASSUME ModelsNext, ~SendCall PROVE request' = request
    BY <2>2 DEF ModelsNext, ChooseModel, PinModel, ProbeField, ToggleRotation, SetDuoModel, ClearDuoModel,
                MakeProvider, Choosing, NewDialogue, AskNew, AskAgain, AskQuestion, RefuseTurn, Forget,
                CallFails, ElizaAnswers, DuoFails, CallAnswered, DuoAnswers, Record
  <2>3. CASE request' = request
    BY <1>1, <2>3 DEF RequestTyped
  <2> QED
    BY <2>1, <2>2, <2>3 DEF modelsVars
<1> QED
  BY <1>2, <1>3, <1>4, <1>5, TypesOfModels DEF ModelsTypes, ModelsTypeOK, SettingsTyped, TurnTyped, RequestTyped, ModelsInv, DialogueInv

-----------------------------------------------------------------------------
(* WebSocket frames: where each begins, and what is returned of them.      *)

\* The positions satisfy the equation that defines them.
EndAt(e, i) == IF i = 0 THEN 0 ELSE e[i - 1] + Size(frames[i])

LEMMA EndDefined ==
  ASSUME frames \in Seq(Headers)
  PROVE  End = [i \in 0 .. Len(frames) |-> EndAt(End, i)]
<1> DEFINE N == Len(frames)
           S == { n \in 0 .. N : \E e : e = [i \in 0 .. n |-> EndAt(e, i)] }
<1>1. N \in Nat
  OBVIOUS
<1>2. 0 \in S
  <2> DEFINE e == [i \in 0 .. 0 |-> 0]
  <2>1. e = [i \in 0 .. 0 |-> EndAt(e, i)]
    BY DEF EndAt
  <2> QED
    BY <1>1, <2>1
<1>3. ASSUME NEW n \in 1 .. N, n - 1 \in S PROVE n \in S
  <2>1. PICK e : e = [i \in 0 .. n - 1 |-> EndAt(e, i)]
    BY <1>3
  <2> DEFINE g == [i \in 0 .. n |-> IF i = n THEN e[n - 1] + Size(frames[n]) ELSE e[i]]
  <2>2. ASSUME NEW i \in 0 .. n PROVE g[i] = EndAt(g, i)
    <3>1. CASE i = n
      <4>1. n - 1 \in 0 .. n /\ n - 1 # n /\ n # 0
        BY <1>1
      <4>2. g[n - 1] = e[n - 1]
        BY <4>1
      <4> QED
        BY <3>1, <4>1, <4>2 DEF EndAt
    <3>2. CASE i # n
      <4>1. i \in 0 .. n - 1 /\ g[i] = e[i]
        BY <1>1, <3>2
      <4>2. e[i] = EndAt(e, i)
        BY <2>1, <4>1
      <4>3. CASE i = 0
        BY <4>1, <4>2, <4>3 DEF EndAt
      <4>4. CASE i # 0
        <5>1. i - 1 \in 0 .. n /\ i - 1 # n
          BY <4>1, <4>4
        <5>2. g[i - 1] = e[i - 1]
          BY <5>1
        <5> QED
          BY <4>1, <4>2, <4>4, <5>2 DEF EndAt
      <4> QED
        BY <4>3, <4>4
    <3> QED
      BY <3>1, <3>2
  <2>3. g = [i \in 0 .. n |-> g[i]]
    OBVIOUS
  <2> HIDE DEF g
  <2>4. g = [i \in 0 .. n |-> EndAt(g, i)]
    BY <2>2, <2>3
  <2> QED
    BY <2>4
<1> HIDE DEF S
<1>4. N \in S
  <2>1. 0 .. N \subseteq S
    <3> HIDE DEF N
    <3> QED
      BY <1>1, <1>2, <1>3, AllUpTo
  <2>2. N \in 0 .. N
    BY <1>1
  <2> QED
    BY <2>1, <2>2, Zenon
<1>5. \E e : e = [i \in 0 .. N |-> EndAt(e, i)]
  BY <1>4 DEF S
<1> QED
  BY <1>5 DEF End, EndAt

LEMMA HeaderSizes ==
  ASSUME NEW h \in Headers
  PROVE  /\ h.op \in Ops /\ h.ext \in Nat /\ h.mask \in Nat /\ h.len \in Nat
         /\ Size(h) = 2 + h.ext + h.mask + h.len
         /\ Size(h) \in Nat /\ Size(h) >= 2
<1>2. h.op \in Ops /\ h.ext \in {0, 2, 8} /\ h.mask \in {0, 4} /\ h.len \in 0 .. MaxLen
  BY DEF Headers
<1> DEFINE a == h.ext
           b == h.mask
           c == h.len
<1>3. a \in Nat /\ b \in Nat /\ c \in Nat
  BY <1>2, FramesAssumption
<1>4. Size(h) = 2 + a + b + c
  BY DEF Size
<1> HIDE DEF a, b, c
<1>5. Size(h) \in Nat /\ Size(h) >= 2
  BY <1>3, <1>4
<1> QED
  BY <1>2, <1>3, <1>4, <1>5 DEF a, b, c

LEMMA FrameSize ==
  ASSUME frames \in Seq(Headers), NEW i \in 1 .. Len(frames)
  PROVE  /\ frames[i] \in Headers /\ frames[i].op \in Ops
         /\ frames[i].ext \in Nat /\ frames[i].mask \in Nat /\ frames[i].len \in Nat
         /\ Size(frames[i]) = 2 + frames[i].ext + frames[i].mask + frames[i].len
         /\ Size(frames[i]) \in Nat /\ Size(frames[i]) >= 2
<1>1. frames[i] \in Headers
  OBVIOUS
<1> QED
  BY <1>1, HeaderSizes

LEMMA EndOf ==
  ASSUME frames \in Seq(Headers)
  PROVE  /\ End[0] = 0
         /\ \A i \in 1 .. Len(frames) : End[i] = End[i - 1] + Size(frames[i])
         /\ \A i \in 0 .. Len(frames) : End[i] \in Nat
<1> DEFINE N == Len(frames)
           S == { i \in 0 .. N : End[i] \in Nat }
<1>1. N \in Nat
  OBVIOUS
<1>2. ASSUME NEW i \in 0 .. N PROVE End[i] = EndAt(End, i)
  BY EndDefined
<1>3. End[0] = 0
  BY <1>1, <1>2 DEF EndAt
<1>4. ASSUME NEW i \in 1 .. N PROVE End[i] = End[i - 1] + Size(frames[i])
  BY <1>2 DEF EndAt
<1>5. 0 \in S
  BY <1>1, <1>3
<1>6. ASSUME NEW i \in 1 .. N, i - 1 \in S PROVE i \in S
  <2>1. Size(frames[i]) \in Nat
    BY FrameSize
  <2> QED
    BY <1>4, <1>6, <2>1
<1>7. 0 .. N \subseteq S
  <2> HIDE DEF S
  <2> QED
    BY <1>1, <1>5, <1>6, AllUpTo
<1> QED
  BY <1>3, <1>4, <1>7

\* Frames follow one another.
LEMMA EndGrows ==
  ASSUME frames \in Seq(Headers),
         NEW i \in 0 .. Len(frames), NEW j \in 0 .. Len(frames), i < j
  PROVE  End[i] + 2 <= End[j]
<1> DEFINE N == Len(frames)
           S == { k \in 0 .. N : k > i => End[i] + 2 <= End[k] }
<1>1. N \in Nat /\ i \in Nat /\ End[i] \in Nat
  BY EndOf
<1>2. 0 \in S
  BY <1>1
<1>3. ASSUME NEW k \in 1 .. N, k - 1 \in S PROVE k \in S
  <2>1. k \in 0 .. N /\ k - 1 \in 0 .. N
    OBVIOUS
  <2>2. End[k] = End[k - 1] + Size(frames[k]) /\ End[k] \in Nat /\ End[k - 1] \in Nat
    BY <2>1, EndOf
  <2>3. Size(frames[k]) \in Nat /\ Size(frames[k]) >= 2
    BY FrameSize
  <2>4. CASE k > i /\ k - 1 = i
    BY <1>1, <2>1, <2>2, <2>3, <2>4
  <2>5. CASE k > i /\ k - 1 > i
    <3>1. End[i] + 2 <= End[k - 1]
      BY <1>3, <2>5
    <3> QED
      BY <1>1, <2>1, <2>2, <2>3, <3>1
  <2>6. CASE ~(k > i)
    BY <2>1, <2>6
  <2> QED
    BY <1>1, <2>1, <2>4, <2>5, <2>6
<1>4. j \in S
  <2>1. 0 .. N \subseteq S
    <3> HIDE DEF S
    <3> QED
      BY <1>1, <1>2, <1>3, AllUpTo
  <2> QED
    BY <2>1
<1> QED
  BY <1>4

LEMMA EndOrder ==
  ASSUME frames \in Seq(Headers),
         NEW i \in 0 .. Len(frames), NEW j \in 0 .. Len(frames)
  PROVE  /\ End[i] \in Nat /\ End[j] \in Nat
         /\ i <= j => End[i] <= End[j]
         /\ End[i] = End[j] => i = j
<1>1. End[i] \in Nat /\ End[j] \in Nat /\ i \in Nat /\ j \in Nat
  BY EndOf
<1>2. i < j => End[i] + 2 <= End[j]
  BY EndGrows
<1>3. j < i => End[j] + 2 <= End[i]
  BY EndGrows
<1> QED
  BY <1>1, <1>2, <1>3

\* A frame is known by where it begins.
LEMMA FrameAt ==
  ASSUME frames \in Seq(Headers), NEW n \in 0 .. Len(frames)
  PROVE  StartsAt(End[n]) = IF n < Len(frames) THEN {n + 1} ELSE {}
<1>1. ASSUME NEW i \in StartsAt(End[n]) PROVE i = n + 1 /\ n < Len(frames)
  <2>1. i \in 1 .. Len(frames) /\ End[n] = End[i - 1] /\ i - 1 \in 0 .. Len(frames)
    BY DEF StartsAt
  <2>2. n = i - 1
    BY <2>1, EndOrder
  <2> QED
    BY <2>1, <2>2
<1>2. ASSUME n < Len(frames) PROVE n + 1 \in StartsAt(End[n])
  <2>1. n + 1 \in 1 .. Len(frames) /\ (n + 1) - 1 = n
    BY <1>2
  <2> QED
    BY <2>1 DEF StartsAt
<1> QED
  BY <1>1, <1>2

\* The reader has left n frames behind; where it is in the next one.
Behind(n) ==
  /\ field = "idle" => at = End[n]
  /\ field # "idle" => start = End[n]
  /\ field = "header" => at = End[n] + got /\ got <= 2
  /\ field \in {"ext", "mask", "payload"} => n < Len(frames) /\ header = frames[n + 1]
  /\ field = "ext" => at = End[n] + 2 + got /\ got <= header.ext
  /\ field = "mask" => at = End[n] + 2 + header.ext + got /\ got <= header.mask
  /\ field = "payload" =>
       at = End[n] + 2 + header.ext + header.mask + got /\ got <= header.len

\* What n frames say is returned and answered, in their order.
ReturnedOf(n) ==
  /\ \A k \in 1 .. Len(out) : \E i \in Readable : i <= n /\ out[k] = Event(i)
  /\ \A k, l \in 1 .. Len(out) : k < l => out[k][2] < out[l][2]
  /\ \A i \in Readable : i <= n => \E k \in 1 .. Len(out) : out[k] = Event(i)

Taken(n) ==
  /\ ReturnedOf(n)
  /\ \A j \in 1 .. n : frames[j].op # "close"
  /\ status = "open" => Behind(n)

FramesTyped ==
  /\ frames \in Seq(Headers)
  /\ status \in {"open", "none", "broken"}
  /\ field \in {"idle", "header", "ext", "mask", "payload"}
  /\ arrived \in Nat /\ Early <= arrived /\ arrived <= Total
  /\ at \in Nat /\ at <= arrived
  /\ got \in Nat
  /\ header \in Headers
  /\ out = [k \in 1 .. Len(out) |-> out[k]] /\ Len(out) \in Nat

FramesInv == FramesTyped /\ \E n \in 0 .. Len(frames) : Taken(n)

LEMMA FramesInitInv == Init => FramesInv
<1> SUFFICES ASSUME Init PROVE FramesInv
  OBVIOUS
<1>1. frames \in Seq(Headers) /\ Len(frames) \in Nat
  BY FramesAssumption DEF Init
<1>2. NoHeader \in Headers
  BY FramesAssumption DEF NoHeader, Headers, Ops
<1>3. FramesTyped
  BY <1>1, <1>2, FramesAssumption DEF Init, FramesTyped
<1>4. End[0] = 0
  BY <1>1, EndOf
<1>5. Behind(0)
  BY <1>1, <1>4 DEF Init, Behind
<1>6. ReturnedOf(0)
  BY <1>1 DEF Init, ReturnedOf, Readable
<1>7. 0 \in 0 .. Len(frames) /\ 1 .. 0 = {}
  BY <1>1
<1> QED
  BY <1>3, <1>5, <1>6, <1>7 DEF FramesInv, Taken

\* Nothing else depends on the frames.
LEMMA FramesStay ==
  ASSUME frames' = frames
  PROVE  /\ End' = End /\ Total' = Total /\ Readable' = Readable
         /\ \A i : Event(i)' = Event(i)
BY DEF End, Total, Readable, Event, PayloadOf

LEMMA SameFrames ==
  ASSUME FramesInv, frames' = frames, FramesTyped',
         NEW n \in 0 .. Len(frames), Taken(n), out' = out,
         status' = "open" => Behind(n)'
  PROVE  FramesInv'
<1>1. End' = End /\ Readable' = Readable /\ \A i : Event(i)' = Event(i)
  BY FramesStay
<1>2. ReturnedOf(n)'
  BY <1>1 DEF Taken, ReturnedOf
<1>3. Taken(n)'
  BY <1>1, <1>2 DEF Taken
<1> QED
  BY <1>3 DEF FramesInv

LEMMA ArriveFrames ==
  ASSUME FramesInv, Arrive
  PROVE  FramesInv'
<1>1. /\ arrived' \in arrived + 1 .. Total
      /\ frames' = frames /\ at' = at /\ status' = status /\ field' = field
      /\ start' = start /\ header' = header /\ got' = got /\ out' = out
  BY DEF Arrive, readVars
<1>2. End' = End /\ Total' = Total
  BY <1>1, FramesStay
<1>3. Total \in Nat
  BY EndOf DEF FramesInv, FramesTyped, Total
<1>4. FramesTyped'
  BY <1>1, <1>2, <1>3, FramesAssumption DEF FramesInv, FramesTyped
<1>5. PICK n \in 0 .. Len(frames) : Taken(n)
  BY DEF FramesInv
<1>6. status' = "open" => Behind(n)'
  BY <1>1, <1>2, <1>5 DEF Taken, Behind
<1> QED
  BY <1>1, <1>4, <1>5, <1>6, SameFrames

LEMMA RecvFrames ==
  ASSUME FramesInv, Recv
  PROVE  FramesInv'
<1>1. /\ status = "open" /\ field = "idle" /\ field' = "header" /\ got' = 0 /\ start' = at
      /\ frames' = frames /\ arrived' = arrived /\ at' = at /\ status' = status
      /\ header' = header /\ out' = out
  BY DEF Recv
<1>2. End' = End /\ Total' = Total
  BY <1>1, FramesStay
<1>4. FramesTyped'
  BY <1>1, <1>2 DEF FramesInv, FramesTyped
<1>5. PICK n \in 0 .. Len(frames) : Taken(n)
  BY DEF FramesInv
<1>6. at = End[n] /\ at \in Nat
  BY <1>1, <1>5 DEF Taken, Behind, FramesInv, FramesTyped
<1>7. Behind(n)'
  BY <1>1, <1>2, <1>6 DEF Behind
<1> QED
  BY <1>1, <1>4, <1>5, <1>7, SameFrames

LEMMA ReadMore ==
  ASSUME NEW b \in Nat, NEW g \in Nat, NEW size \in Nat, NEW n \in Nat,
         NEW g1, NEW p, NEW p1, p = b + g, n <= size - g, p1 = p + n, g1 = g + n
  PROVE  p1 = b + g1 /\ g1 <= size
OBVIOUS

\* What a part still needs is taken from what has arrived.
LEMMA TakeFrames ==
  ASSUME FramesInv, Reading, NEW n \in Nat, Take(n), n <= Need - got, n <= arrived - at
  PROVE  FramesInv'
<1>1. /\ status = "open" /\ field # "idle" /\ at' = at + n /\ got' = got + n
      /\ frames' = frames /\ arrived' = arrived /\ status' = status /\ field' = field
      /\ start' = start /\ header' = header /\ out' = out
  BY DEF Take, Reading
<1>2. End' = End /\ Total' = Total
  BY <1>1, FramesStay
<1>3. at \in Nat /\ got \in Nat /\ arrived \in Nat
  BY DEF FramesInv, FramesTyped
<1>4. FramesTyped'
  BY <1>1, <1>2, <1>3 DEF FramesInv, FramesTyped
<1>5. PICK k \in 0 .. Len(frames) : Taken(k)
  BY DEF FramesInv
<1>6. header.ext \in Nat /\ header.mask \in Nat /\ header.len \in Nat
  BY HeaderSizes DEF FramesInv, FramesTyped
<1>7. Behind(k) /\ End[k] \in Nat
  BY <1>1, <1>5, EndOf DEF Taken, FramesInv, FramesTyped
<1>8. CASE field = "header"
  <2> DEFINE b == End[k]
  <2>1. Need = 2 /\ 2 \in Nat /\ b \in Nat
    BY <1>6, <1>7, <1>8 DEF Need, SizeOf
  <2>3. at = b + got
    BY <1>7, <1>8 DEF Behind
  <2>4. at' = b + got' /\ got' <= 2
    <3> HIDE DEF b
    <3> QED
      BY <1>1, <1>3, <2>1, <2>3, ReadMore
  <2>2. Behind(k)'
    BY <1>1, <1>2, <1>7, <1>8, <2>4 DEF Behind
  <2> QED
    BY <1>1, <1>4, <1>5, <2>2, SameFrames
<1>9. CASE field = "ext"
  <2> DEFINE b == End[k] + 2
  <2>1. Need = header.ext /\ header.ext \in Nat /\ b \in Nat
    BY <1>6, <1>7, <1>9 DEF Need, SizeOf
  <2>3. at = b + got
    BY <1>7, <1>9 DEF Behind
  <2>4. at' = b + got' /\ got' <= header.ext
    <3> HIDE DEF b
    <3> QED
      BY <1>1, <1>3, <2>1, <2>3, ReadMore
  <2>2. Behind(k)'
    BY <1>1, <1>2, <1>7, <1>9, <2>4 DEF Behind
  <2> QED
    BY <1>1, <1>4, <1>5, <2>2, SameFrames
<1>10. CASE field = "mask"
  <2> DEFINE b == End[k] + 2 + header.ext
  <2>1. Need = header.mask /\ header.mask \in Nat /\ b \in Nat
    BY <1>6, <1>7, <1>10 DEF Need, SizeOf
  <2>3. at = b + got
    BY <1>7, <1>10 DEF Behind
  <2>4. at' = b + got' /\ got' <= header.mask
    <3> HIDE DEF b
    <3> QED
      BY <1>1, <1>3, <2>1, <2>3, ReadMore
  <2>2. Behind(k)'
    BY <1>1, <1>2, <1>7, <1>10, <2>4 DEF Behind
  <2> QED
    BY <1>1, <1>4, <1>5, <2>2, SameFrames
<1>11. CASE field = "payload"
  <2> DEFINE b == End[k] + 2 + header.ext + header.mask
  <2>1. Need = header.len /\ header.len \in Nat /\ b \in Nat
    BY <1>6, <1>7, <1>11 DEF Need, SizeOf
  <2>3. at = b + got
    BY <1>7, <1>11 DEF Behind
  <2>4. at' = b + got' /\ got' <= header.len
    <3> HIDE DEF b
    <3> QED
      BY <1>1, <1>3, <2>1, <2>3, ReadMore
  <2>2. Behind(k)'
    BY <1>1, <1>2, <1>7, <1>11, <2>4 DEF Behind
  <2> QED
    BY <1>1, <1>4, <1>5, <2>2, SameFrames
<1> QED
  BY <1>1, <1>8, <1>9, <1>10, <1>11 DEF FramesInv, FramesTyped

LEMMA NeedIsNat ==
  ASSUME FramesInv, Reading
  PROVE  Need \in Nat
<1>1. header.ext \in Nat /\ header.mask \in Nat /\ header.len \in Nat
  BY HeaderSizes DEF FramesInv, FramesTyped
<1>2. field \in {"header", "ext", "mask", "payload"}
  BY DEF Reading, FramesInv, FramesTyped
<1> QED
  BY <1>1, <1>2 DEF Need, SizeOf

LEMMA ReadFrames ==
  ASSUME FramesInv, DrainBuffer \/ SockRecv
  PROVE  FramesInv'
<1>1. /\ Reading /\ got < Need /\ got \in Nat /\ at \in Nat /\ arrived \in Nat
      /\ at <= arrived /\ Early <= arrived /\ Need \in Nat /\ Early \in Nat
  BY NeedIsNat, FramesAssumption DEF DrainBuffer, SockRecv, FramesInv, FramesTyped
<1>2. CASE DrainBuffer
  <2>1. at < Early /\ Take(Lesser(Need - got, Early - at))
    BY <1>2 DEF DrainBuffer
  <2> DEFINE n == Lesser(Need - got, Early - at)
  <2>2. n \in Nat /\ n <= Need - got /\ n <= arrived - at
    BY <1>1, <2>1 DEF Lesser
  <2> QED
    BY <1>1, <2>1, <2>2, TakeFrames
<1>3. CASE SockRecv
  <2>1. PICK n \in 1 .. Lesser(Need - got, arrived - at) : Take(n)
    BY <1>3 DEF SockRecv
  <2>2. n \in Nat /\ n <= Need - got /\ n <= arrived - at
    BY <1>1, <2>1 DEF Lesser
  <2> QED
    BY <1>1, <2>1, <2>2, TakeFrames
<1> QED
  BY <1>2, <1>3

\* A timeout between two frames changes nothing; inside one it would.
LEMMA RecvTimeoutFrames ==
  ASSUME FramesInv, RecvTimeout, "cut" \notin Faults
  PROVE  FramesInv'
<1>1. /\ status = "open" /\ field = "header" /\ got = 0 /\ field' = "idle"
      /\ frames' = frames /\ arrived' = arrived /\ at' = at /\ status' = status
      /\ start' = start /\ header' = header /\ got' = got /\ out' = out
  BY DEF RecvTimeout, Reading
<1>2. End' = End /\ Total' = Total
  BY <1>1, FramesStay
<1>3. FramesTyped'
  BY <1>1, <1>2 DEF FramesInv, FramesTyped
<1>4. PICK n \in 0 .. Len(frames) : Taken(n)
  BY DEF FramesInv
<1>5. at = End[n] + 0 /\ End[n] \in Nat
  BY <1>1, <1>4, EndOf DEF Taken, Behind, FramesInv, FramesTyped
<1>6. Behind(n)'
  BY <1>1, <1>2, <1>5 DEF Behind
<1> QED
  BY <1>1, <1>3, <1>4, <1>6, SameFrames

\* recv() ends: nothing is read any more.
LEMMA EndedFrames ==
  ASSUME FramesInv, RecvEof \/ ReturnNone
  PROVE  FramesInv'
<1>1. /\ status' \in {"none", "broken"} /\ field' = field
      /\ frames' = frames /\ arrived' = arrived /\ at' = at
      /\ start' = start /\ header' = header /\ got' = got /\ out' = out
  BY DEF RecvEof, ReturnNone
<1>2. FramesTyped'
  BY <1>1, FramesStay DEF FramesInv, FramesTyped
<1>3. PICK n \in 0 .. Len(frames) : Taken(n)
  BY DEF FramesInv
<1> QED
  BY <1>1, <1>2, <1>3, SameFrames

\* The two bytes behind a frame are the header of the next one.
LEMMA HeaderReadFrames ==
  ASSUME FramesInv, HeaderRead
  PROVE  FramesInv'
<1>1. /\ status = "open" /\ field = "header" /\ got = Need /\ header' \in HeaderAt(start)
      /\ field' = "ext" /\ got' = 0
      /\ frames' = frames /\ arrived' = arrived /\ at' = at /\ status' = status
      /\ start' = start /\ out' = out
  BY DEF HeaderRead, Reading
<1>2. End' = End /\ Total' = Total
  BY <1>1, FramesStay
<1>3. PICK n \in 0 .. Len(frames) : Taken(n)
  BY DEF FramesInv
<1>4. Need = 2
  BY <1>1 DEF Need, SizeOf
<1>5. frames \in Seq(Headers) /\ Len(frames) \in Nat
  BY DEF FramesInv, FramesTyped
<1>6. start = End[n] /\ at = End[n] + 2
  BY <1>1, <1>3, <1>4 DEF Taken, Behind
<1>7. n < Len(frames)
  <2>1. End[n] \in Nat /\ Total \in Nat /\ Total = End[Len(frames)]
    BY <1>5, EndOf DEF Total
  <2>2. at <= Total
    BY <2>1 DEF FramesInv, FramesTyped
  <2>3. n # Len(frames)
    BY <1>6, <2>1, <2>2
  <2> QED
    BY <1>5, <2>3
<1>8. StartsAt(start) = {n + 1}
  BY <1>5, <1>6, <1>7, FrameAt
<1>9. header' = frames[n + 1]
  BY <1>1, <1>8 DEF HeaderAt
<1>10. header' \in Headers
  BY <1>5, <1>7, <1>9
<1>11. FramesTyped'
  BY <1>1, <1>2, <1>10 DEF FramesInv, FramesTyped
<1>12. End[n] \in Nat /\ header'.ext \in Nat
  BY <1>5, <1>10, EndOf, HeaderSizes
<1>13. Behind(n)'
  BY <1>1, <1>2, <1>6, <1>7, <1>9, <1>12 DEF Behind
<1> QED
  BY <1>1, <1>3, <1>11, <1>13, SameFrames

LEMMA PartReadFrames ==
  ASSUME FramesInv, ExtRead \/ MaskRead
  PROVE  FramesInv'
<1>1. /\ status = "open" /\ got = Need /\ got' = 0
      /\ frames' = frames /\ arrived' = arrived /\ at' = at /\ status' = status
      /\ start' = start /\ header' = header /\ out' = out
      /\ field' \in {"mask", "payload"}
  BY DEF ExtRead, MaskRead, Reading
<1>2. End' = End /\ Total' = Total
  BY <1>1, FramesStay
<1>3. FramesTyped'
  BY <1>1, <1>2 DEF FramesInv, FramesTyped
<1>4. PICK n \in 0 .. Len(frames) : Taken(n)
  BY DEF FramesInv
<1>5. /\ header.ext \in Nat /\ header.mask \in Nat /\ header.len \in Nat
      /\ End[n] \in Nat
  BY HeaderSizes, EndOf DEF FramesInv, FramesTyped
<1>6. Behind(n)
  BY <1>1, <1>4 DEF Taken
<1>7. CASE ExtRead
  <2>1. field = "ext" /\ field' = "mask" /\ Need = header.ext
    BY <1>7 DEF ExtRead, Need, SizeOf
  <2>2. at' = End[n] + 2 + header.ext + 0 /\ 0 <= header.mask
    BY <1>1, <1>5, <1>6, <2>1 DEF Behind
  <2>3. Behind(n)'
    BY <1>1, <1>2, <1>6, <2>1, <2>2 DEF Behind
  <2> QED
    BY <1>1, <1>3, <1>4, <2>3, SameFrames
<1>8. CASE MaskRead
  <2>1. field = "mask" /\ field' = "payload" /\ Need = header.mask
    BY <1>8 DEF MaskRead, Need, SizeOf
  <2>2. at' = End[n] + 2 + header.ext + header.mask + 0 /\ 0 <= header.len
    BY <1>1, <1>5, <1>6, <2>1 DEF Behind
  <2>3. Behind(n)'
    BY <1>1, <1>2, <1>6, <2>1, <2>2 DEF Behind
  <2> QED
    BY <1>1, <1>3, <1>4, <2>3, SameFrames
<1> QED
  BY <1>7, <1>8

LEMMA FrameEnds ==
  ASSUME FramesInv, FrameRead, NEW n \in 0 .. Len(frames), Taken(n)
  PROVE  /\ n + 1 \in 1 .. Len(frames) /\ header = frames[n + 1]
         /\ at = End[n + 1] /\ at - header.len = PayloadOf(n + 1)
         /\ End[n] < PayloadOf(n + 1) /\ PayloadOf(n + 1) <= End[n + 1]
         /\ PayloadOf(n + 1) \in Nat
<1>1. status = "open" /\ field = "payload" /\ got = Need /\ Need = header.len
  BY DEF FrameRead, Reading, Need, SizeOf
<1>2. /\ n < Len(frames) /\ header = frames[n + 1]
      /\ at = End[n] + 2 + header.ext + header.mask + header.len
  BY <1>1 DEF Taken, Behind
<1>3. /\ header.ext \in Nat /\ header.mask \in Nat /\ header.len \in Nat
      /\ Size(header) = 2 + header.ext + header.mask + header.len
  BY HeaderSizes DEF FramesInv, FramesTyped
<1>4. frames \in Seq(Headers) /\ Len(frames) \in Nat
  BY DEF FramesInv, FramesTyped
<1>5. n + 1 \in 1 .. Len(frames) /\ (n + 1) - 1 = n
  BY <1>2, <1>4
<1>6. End[n] \in Nat /\ End[n + 1] = End[n] + Size(header)
  BY <1>2, <1>4, <1>5, EndOf
<1> DEFINE a == header.ext
           b == header.mask
           c == header.len
<1>7. a \in Nat /\ b \in Nat /\ c \in Nat /\ at = End[n] + 2 + a + b + c
  BY <1>2, <1>3
<1>8. End[n + 1] = End[n] + (2 + a + b + c) /\ PayloadOf(n + 1) = End[n + 1] - c
  BY <1>2, <1>3, <1>6 DEF PayloadOf
<1>9. /\ at = End[n + 1] /\ at - c = PayloadOf(n + 1)
      /\ End[n] < PayloadOf(n + 1) /\ PayloadOf(n + 1) <= End[n + 1]
      /\ PayloadOf(n + 1) \in Nat
  <2> HIDE DEF a, b, c
  <2> QED
    BY <1>6, <1>7, <1>8
<1> QED
  BY <1>2, <1>5, <1>9

\* What is returned of a frame lies behind what was returned of those before it.
LEMMA EventsAhead ==
  ASSUME FramesTyped, NEW n \in 0 .. Len(frames), ReturnedOf(n)
  PROVE  \A k \in 1 .. Len(out) : out[k][2] \in Int /\ out[k][2] <= End[n]
<1> SUFFICES ASSUME NEW k \in 1 .. Len(out)
             PROVE  out[k][2] \in Int /\ out[k][2] <= End[n]
  OBVIOUS
<1>1. PICK i \in Readable : i <= n /\ out[k] = Event(i)
  BY DEF ReturnedOf
<1>2. i \in 1 .. Len(frames) /\ i \in 0 .. Len(frames) /\ frames \in Seq(Headers)
  BY DEF Readable, FramesTyped
<1>3. out[k][2] = End[i] - frames[i].len
  BY <1>1 DEF Event, PayloadOf
<1>4. frames[i].len \in Nat
  BY <1>2, FrameSize
<1>5. End[i] \in Nat /\ End[n] \in Nat /\ End[i] <= End[n]
  BY <1>1, <1>2, EndOrder
<1> DEFINE c == frames[i].len
<1> QED
  <2> HIDE DEF c
  <2>1. c \in Nat /\ out[k][2] = End[i] - c
    BY <1>3, <1>4 DEF c
  <2> QED
    BY <1>5, <2>1

\* A frame that is returned or answered is added behind the others,
LEMMA OneReturned ==
  ASSUME FramesInv, FrameRead, NEW n \in 0 .. Len(frames), Taken(n), frames' = frames,
         header.op \in {"text", "ping"}, out' = Append(out, Payload(header.op))
  PROVE  /\ ReturnedOf(n + 1)' /\ \A j \in 1 .. n + 1 : frames[j].op # "close"
         /\ out' = [k \in 1 .. Len(out') |-> out'[k]] /\ Len(out') \in Nat
<1>1. /\ n + 1 \in 1 .. Len(frames) /\ header = frames[n + 1]
      /\ at - header.len = PayloadOf(n + 1) /\ End[n] < PayloadOf(n + 1)
      /\ PayloadOf(n + 1) \in Nat
  BY FrameEnds
<1>2. FramesTyped /\ ReturnedOf(n) /\ \A j \in 1 .. n : frames[j].op # "close"
  BY DEF FramesInv, Taken
<1>3. \A j \in 1 .. n + 1 : frames[j].op # "close"
  BY <1>1, <1>2
<1>4. n + 1 \in Readable
  BY <1>1, <1>3 DEF Readable
<1>5. Payload(header.op) = Event(n + 1)
  BY <1>1 DEF Payload, Event
<1> DEFINE N == Len(out)
<1>6. /\ N \in Nat /\ Len(out') = N + 1 /\ out'[N + 1] = Event(n + 1)
      /\ \A k \in 1 .. N : out'[k] = out[k]
      /\ out' = [k \in 1 .. Len(out') |-> out'[k]]
  BY <1>2, <1>5 DEF FramesTyped
<1>7. /\ Readable' = Readable /\ \A i : Event(i)' = Event(i)
  BY FramesStay
<1>8. \A k \in 1 .. N : out[k][2] \in Int /\ out[k][2] <= End[n]
  BY <1>2, EventsAhead
<1>9. frames \in Seq(Headers) /\ End[n] \in Nat /\ out'[N + 1][2] = PayloadOf(n + 1)
  BY <1>2, <1>6, EndOf DEF FramesTyped, Event
<1> HIDE DEF N
<1>10. \A k \in 1 .. N + 1 : \E i \in Readable : i <= n + 1 /\ out'[k] = Event(i)
  <2> SUFFICES ASSUME NEW k \in 1 .. N + 1
               PROVE  \E i \in Readable : i <= n + 1 /\ out'[k] = Event(i)
    OBVIOUS
  <2>1. CASE k = N + 1
    BY <1>4, <1>6, <2>1
  <2>2. CASE k # N + 1
    <3>1. k \in 1 .. N
      BY <1>6, <2>2
    <3>2. PICK i \in Readable : i <= n /\ out[k] = Event(i)
      BY <1>2, <3>1 DEF ReturnedOf, N
    <3>3. i \in Nat /\ i <= n + 1
      BY <3>2 DEF Readable
    <3> QED
      BY <1>6, <3>1, <3>2, <3>3
  <2> QED
    BY <2>1, <2>2
<1>11. \A k, l \in 1 .. N + 1 : k < l => out'[k][2] < out'[l][2]
  <2> SUFFICES ASSUME NEW k \in 1 .. N + 1, NEW l \in 1 .. N + 1, k < l
               PROVE  out'[k][2] < out'[l][2]
    OBVIOUS
  <2>1. k \in 1 .. N /\ out'[k] = out[k]
    BY <1>6
  <2>2. CASE l = N + 1
    <3>1. out[k][2] \in Int /\ out[k][2] <= End[n]
      BY <1>8, <2>1
    <3>2. out'[l][2] = PayloadOf(n + 1) /\ out'[k][2] = out[k][2]
      BY <1>9, <2>1, <2>2
    <3>3. out[k][2] < PayloadOf(n + 1)
      BY <1>1, <1>9, <3>1
    <3> QED
      BY <3>2, <3>3
  <2>3. CASE l # N + 1
    <3>1. l \in 1 .. N /\ out'[l] = out[l]
      BY <1>6, <2>3
    <3> QED
      BY <1>2, <2>1, <3>1 DEF ReturnedOf, N
  <2> QED
    BY <2>2, <2>3
<1>12. \A i \in Readable : i <= n + 1 => \E k \in 1 .. N + 1 : out'[k] = Event(i)
  <2> SUFFICES ASSUME NEW i \in Readable, i <= n + 1
               PROVE  \E k \in 1 .. N + 1 : out'[k] = Event(i)
    OBVIOUS
  <2>1. CASE i = n + 1
    BY <1>6, <2>1
  <2>2. CASE i # n + 1
    <3>1. i \in Nat /\ i <= n
      BY <2>2 DEF Readable
    <3>2. PICK k \in 1 .. N : out[k] = Event(i)
      BY <1>2, <3>1 DEF ReturnedOf, N
    <3> QED
      BY <1>6, <3>2
  <2> QED
    BY <2>1, <2>2
<1>13. ReturnedOf(n + 1)'
  BY <1>6, <1>7, <1>10, <1>11, <1>12 DEF ReturnedOf
<1> QED
  BY <1>3, <1>6, <1>13

\* and any other is skipped.
LEMMA NoneReturned ==
  ASSUME FramesInv, FrameRead, NEW n \in 0 .. Len(frames), Taken(n), frames' = frames,
         header.op \in {"pong", "other"}, out' = out
  PROVE  /\ ReturnedOf(n + 1)' /\ \A j \in 1 .. n + 1 : frames[j].op # "close"
<1>1. n + 1 \in 1 .. Len(frames) /\ header = frames[n + 1]
  BY FrameEnds
<1>2. ReturnedOf(n) /\ \A j \in 1 .. n : frames[j].op # "close"
  BY DEF Taken
<1>3. \A j \in 1 .. n + 1 : frames[j].op # "close"
  BY <1>1, <1>2
<1>4. Readable' = Readable /\ \A i : Event(i)' = Event(i)
  BY FramesStay
<1>5. \A i \in Readable : i <= n + 1 <=> i <= n
  <2> SUFFICES ASSUME NEW i \in Readable PROVE i <= n + 1 <=> i <= n
    OBVIOUS
  <2>1. i \in Nat /\ i # n + 1
    BY <1>1 DEF Readable
  <2> QED
    BY <2>1
<1>6. ReturnedOf(n + 1)'
  BY <1>2, <1>4, <1>5 DEF ReturnedOf
<1> QED
  BY <1>3, <1>6

\* A whole frame has been read.
LEMMA FrameReadFrames ==
  ASSUME FramesInv, ReturnText \/ ReadOn
  PROVE  FramesInv'
<1>1. /\ FrameRead /\ header.op \in {"text", "ping", "pong", "other"}
      /\ frames' = frames /\ arrived' = arrived /\ at' = at /\ header' = header
  BY DEF ReturnText, ReadOn
<1>2. PICK n \in 0 .. Len(frames) : Taken(n)
  BY DEF FramesInv
<1>3. n + 1 \in 1 .. Len(frames) /\ n + 1 \in 0 .. Len(frames) /\ at = End[n + 1]
  BY <1>1, <1>2, FrameEnds
<1>4. End' = End /\ Total' = Total
  BY <1>1, FramesStay
<1>5. at \in Nat /\ End[n] \in Nat
  BY EndOf DEF FramesInv, FramesTyped
<1>6. /\ status = "open" /\ field = "payload"
      /\ Aligned
  <2>1. status = "open" /\ field = "payload"
    BY <1>1 DEF FrameRead, Reading
  <2>2. start = End[n] /\ n < Len(frames)
    BY <1>2, <2>1 DEF Taken, Behind
  <2>3. StartsAt(start) = {n + 1}
    BY <2>2, FrameAt DEF FramesInv, FramesTyped
  <2> QED
    BY <2>1, <2>3 DEF Aligned
<1>7. CASE ReturnText
  <2>1. /\ header.op = "text" /\ out' = Append(out, Payload(header.op))
        /\ field' = "idle" /\ status' = status /\ start' = start /\ got' = got
    BY <1>6, <1>7 DEF ReturnText
  <2>2. /\ ReturnedOf(n + 1)' /\ \A j \in 1 .. n + 1 : frames[j].op # "close"
        /\ out' = [k \in 1 .. Len(out') |-> out'[k]] /\ Len(out') \in Nat
    BY <1>1, <1>2, <2>1, OneReturned
  <2>3. FramesTyped'
    BY <1>1, <1>4, <2>1, <2>2 DEF FramesInv, FramesTyped
  <2>4. Behind(n + 1)'
    BY <1>1, <1>3, <1>4, <2>1 DEF Behind
  <2>5. Taken(n + 1)'
    BY <1>1, <2>2, <2>4 DEF Taken
  <2> QED
    BY <1>1, <1>3, <2>3, <2>5 DEF FramesInv
<1>8. CASE ReadOn
  <2>1. /\ header.op \in {"ping", "pong", "other"}
        /\ out' = IF header.op = "ping" THEN Append(out, Payload("ping")) ELSE out
        /\ field' = "header" /\ got' = 0 /\ start' = at /\ status' = status
    BY <1>8 DEF ReadOn
  <2>2. /\ ReturnedOf(n + 1)' /\ \A j \in 1 .. n + 1 : frames[j].op # "close"
        /\ out' = [k \in 1 .. Len(out') |-> out'[k]] /\ Len(out') \in Nat
    <3>1. CASE header.op = "ping"
      <4>1. out' = Append(out, Payload(header.op))
        BY <2>1, <3>1
      <4> QED
        BY <1>1, <1>2, <3>1, <4>1, OneReturned
    <3>2. CASE header.op # "ping"
      <4>1. out' = out /\ header.op \in {"pong", "other"}
        BY <2>1, <3>2
      <4>2. out = [k \in 1 .. Len(out) |-> out[k]] /\ Len(out) \in Nat
        BY DEF FramesInv, FramesTyped
      <4>3. ReturnedOf(n + 1)' /\ \A j \in 1 .. n + 1 : frames[j].op # "close"
        BY <1>1, <1>2, <4>1, NoneReturned
      <4> QED
        BY <4>1, <4>2, <4>3
    <3> QED
      BY <3>1, <3>2
  <2>3. FramesTyped'
    BY <1>1, <1>4, <2>1, <2>2 DEF FramesInv, FramesTyped
  <2>4. at' = End[n + 1] + got' /\ got' <= 2
    BY <1>1, <1>3, <1>5, <2>1
  <2>5. Behind(n + 1)'
    BY <1>1, <1>3, <1>4, <2>1, <2>4 DEF Behind
  <2>6. Taken(n + 1)'
    BY <1>1, <2>2, <2>5 DEF Taken
  <2> QED
    BY <1>1, <1>3, <2>3, <2>6 DEF FramesInv
<1> QED
  BY <1>7, <1>8

LEMMA FramesStep ==
  ASSUME "cut" \notin Faults
  PROVE  FramesInv /\ [Next]_vars => FramesInv'
<1> SUFFICES ASSUME FramesInv, [Next]_vars PROVE FramesInv'
  OBVIOUS
<1>1. CASE UNCHANGED vars
  <2>1. /\ frames' = frames /\ arrived' = arrived /\ at' = at /\ status' = status
        /\ field' = field /\ start' = start /\ header' = header /\ got' = got /\ out' = out
    BY <1>1 DEF vars, readVars
  <2>2. End' = End /\ Total' = Total
    BY <2>1, FramesStay
  <2>3. FramesTyped'
    BY <2>1, <2>2 DEF FramesInv, FramesTyped
  <2>4. PICK n \in 0 .. Len(frames) : Taken(n)
    BY DEF FramesInv
  <2>5. status' = "open" => Behind(n)'
    BY <2>1, <2>2, <2>4 DEF Taken, Behind
  <2> QED
    BY <2>1, <2>3, <2>4, <2>5, SameFrames
<1>2. CASE Arrive
  BY <1>2, ArriveFrames
<1>3. CASE Client
  BY <1>3, RecvFrames, ReadFrames, HeaderReadFrames, PartReadFrames, EndedFrames,
     FrameReadFrames DEF Client
<1>4. CASE RecvTimeout
  BY <1>4, RecvTimeoutFrames
<1>5. CASE RecvEof
  BY <1>5, EndedFrames
<1> QED
  BY <1>1, <1>2, <1>3, <1>4, <1>5 DEF Next, Quiet

LEMMA FramesHold == FramesInv => FramesIntact
<1> SUFFICES ASSUME FramesInv PROVE FramesIntact
  OBVIOUS
<1>1. PICK n \in 0 .. Len(frames) : ReturnedOf(n)
  BY DEF FramesInv, Taken
<1>2. frames \in Seq(Headers)
  BY DEF FramesInv, FramesTyped
<1>3. ASSUME NEW k \in 1 .. Len(out), NEW i \in Readable, PayloadOf(i) < out[k][2]
      PROVE  \E l \in 1 .. Len(out) : out[l] = Event(i)
  <2>1. out[k][2] \in Int /\ out[k][2] <= End[n] /\ End[n] \in Nat
    BY <1>1, <1>2, EventsAhead, EndOf DEF FramesInv
  <2>2. i \in 1 .. Len(frames) /\ i - 1 \in 0 .. Len(frames)
    BY DEF Readable
  <2>3. End[i - 1] \in Nat /\ PayloadOf(i) \in Int /\ End[i - 1] < PayloadOf(i)
    <3>1. End[i] = End[i - 1] + Size(frames[i]) /\ End[i - 1] \in Nat
      BY <1>2, <2>2, EndOf
    <3> DEFINE a == frames[i].ext
               b == frames[i].mask
               c == frames[i].len
    <3>2. a \in Nat /\ b \in Nat /\ c \in Nat /\ Size(frames[i]) = 2 + a + b + c
      BY <1>2, <2>2, FrameSize
    <3>3. PayloadOf(i) = End[i] - c
      BY DEF PayloadOf
    <3> HIDE DEF a, b, c
    <3> QED
      BY <3>1, <3>2, <3>3
  <2>4. ~(n <= i - 1)
    <3>1. n <= i - 1 => End[n] <= End[i - 1]
      BY <1>2, <2>2, EndOrder
    <3> QED
      BY <1>3, <2>1, <2>3, <3>1
  <2>5. i <= n
    BY <2>2, <2>4
  <2> QED
    BY <1>1, <2>5 DEF ReturnedOf
<1> QED
  BY <1>1, <1>3 DEF ReturnedOf, FramesIntact

\* The messages returned and the pongs sent are the server's, in order and
\* whole, whatever the layouts of the frames and however the stream is cut
\* into reads, unless a timeout expires inside a frame (recv, recv_exact, and
\* the read-ahead buffer of connect).
THEOREM FramesAreWhole == "cut" \notin Faults => (Spec => []FramesIntact)
<1> SUFFICES ASSUME "cut" \notin Faults PROVE Spec => []FramesIntact
  OBVIOUS
<1>1. FramesInv /\ [Next]_vars => FramesInv'
  BY FramesStep
<1> QED
  BY <1>1, FramesInitInv, FramesHold, PTL DEF Spec

\* What recv_exact gathered has been taken from the stream.
FramesTypes == TypeOK /\ got <= at

LEMMA FramesBegin == Init => FramesTypes
<1> SUFFICES ASSUME Init PROVE FramesTypes
  OBVIOUS
<1>1. frames \in Seq(Headers) /\ Len(frames) \in 0 .. Len(frames)
  BY FramesAssumption DEF Init
<1>2. Total \in Nat
  BY <1>1, EndOf DEF Total
<1>3. NoHeader \in Headers
  BY FramesAssumption DEF NoHeader, Headers, Ops
<1>4. arrived \in Early .. Total /\ at \in 0 .. arrived /\ start \in 0 .. Total /\ got \in 0 .. Total
  BY <1>2, FramesAssumption DEF Init
<1> QED
  BY <1>3, <1>4 DEF Init, FramesTypes, TypeOK, Reading

LEMMA FramesKeepTypes == FramesTypes /\ [Next]_vars => FramesTypes'
<1> SUFFICES ASSUME FramesTypes, [Next]_vars PROVE FramesTypes'
  OBVIOUS
<1>1. /\ frames \in Streams /\ arrived \in Early .. Total /\ at \in 0 .. arrived
      /\ status \in {"open", "none", "broken"} /\ field \in {"idle", "header", "ext", "mask", "payload"}
      /\ start \in 0 .. Total /\ header \in Headers /\ got \in 0 .. Total /\ got <= at
      /\ out \in Seq({"text", "ping"} \X (0 .. Total) \X (0 .. MaxLen))
      /\ Reading => got <= Need
  <2>1. ToSet(Parts) = {"header", "ext", "mask", "payload"}
    <3>1. DOMAIN Parts = {1, 2, 3, 4}
      BY DEF Parts
    <3> QED
      BY <3>1 DEF Parts, ToSet
  <2> QED
    BY <2>1 DEF FramesTypes, TypeOK
<1>2. frames \in Seq(Headers) /\ Len(frames) \in 0 .. Len(frames)
  BY <1>1, FramesAssumption
<1>3. Total \in Nat
  BY <1>2, EndOf DEF Total
<1>4. Early \in Nat /\ MaxLen \in Nat
  BY FramesAssumption
<1> DEFINE T == Total
           Events == {"text", "ping"} \X (0 .. T) \X (0 .. MaxLen)
<1>5. frames' = frames
  BY DEF Next, Client, vars, Arrive, Recv, DrainBuffer, SockRecv, Take, HeaderRead, ExtRead, MaskRead,
         ReturnText, ReturnNone, ReadOn, RecvTimeout, RecvEof, Quiet
<1>6. Total' = T
  BY <1>5, FramesStay
<1>7. \A h \in Headers : h.ext \in Nat /\ h.mask \in Nat /\ h.len \in Nat /\ h.len \in 0 .. MaxLen
  <2>1. \A h \in Headers : h.len \in 0 .. MaxLen
    BY DEF Headers
  <2> QED
    BY <2>1, HeaderSizes
\* What a next state must be for its variables to have their types.
<1>s. ASSUME /\ arrived' \in Early .. T /\ at' \in 0 .. arrived' /\ got' \in 0 .. T /\ got' <= at'
             /\ status' \in {"open", "none", "broken"} /\ field' \in {"idle", "header", "ext", "mask", "payload"}
             /\ start' \in 0 .. T /\ header' \in Headers /\ out' \in Seq(Events)
             /\ Reading' => got' <= Need'
      PROVE  FramesTypes'
  <2>1. ToSet(Parts) = {"header", "ext", "mask", "payload"}
    <3>1. DOMAIN Parts = {1, 2, 3, 4}
      BY DEF Parts
    <3> QED
      BY <3>1 DEF Parts, ToSet
  <2>2. frames' \in Streams
    BY <1>1, <1>5
  <2> QED
    BY <1>s, <1>6, <2>1, <2>2 DEF FramesTypes, TypeOK
<1>t. T \in Nat /\ arrived \in Early .. T /\ start \in 0 .. T /\ got \in 0 .. T /\ out \in Seq(Events)
  BY <1>1, <1>3
<1> HIDE DEF T
<1>8. CASE Arrive
  <2>1. arrived' \in arrived + 1 .. T /\ arrived' \in Early .. T /\ at \in 0 .. arrived'
    <3>1. arrived' \in arrived + 1 .. T
      BY <1>8 DEF Arrive, T
    <3> QED
      BY <1>1, <1>4, <1>t, <3>1
  <2>2. UNCHANGED <<at, status, field, start, header, got, out>>
    BY <1>8 DEF Arrive, readVars
  <2>3. Reading' = Reading /\ Need' = Need
    BY <2>2 DEF Reading, Need
  <2> HIDE DEF Events
  <2> QED
    BY <1>1, <1>s, <1>t, <2>1, <2>2, <2>3
<1>9. ASSUME UNCHANGED <<arrived, at, status, out>>, field' \in {"header", "ext", "mask", "payload"},
             got' = 0, start' \in 0 .. T, header' \in Headers
      PROVE  FramesTypes'
  <2>1. Need' \in Nat
    BY <1>7, <1>9 DEF Need, SizeOf
  <2>2. got' <= Need' /\ got' \in 0 .. T /\ got' <= at'
    BY <1>1, <1>4, <1>9, <1>t, <2>1
  <2> HIDE DEF Events
  <2> QED
    BY <1>1, <1>9, <1>s, <1>t, <2>2
<1>10. CASE Recv
  <2>1. at \in 0 .. T
    BY <1>1, <1>4, <1>t
  <2> QED
    BY <1>1, <1>9, <1>10, <2>1 DEF Recv
<1>11. ASSUME NEW n \in Nat, Reading, got + n <= Need, at + n <= arrived, Take(n) PROVE FramesTypes'
  <2>1. at' \in 0 .. arrived' /\ got' \in 0 .. T /\ got' <= at'
    BY <1>1, <1>4, <1>11, <1>t DEF Take
  <2>2. Need' = Need /\ got' <= Need'
    BY <1>11 DEF Take, Need
  <2>3. UNCHANGED <<arrived, status, field, start, header, out>>
    BY <1>11 DEF Take
  <2> HIDE DEF Events
  <2> QED
    BY <1>1, <1>s, <1>t, <2>1, <2>2, <2>3
<1>12. Need \in Nat \/ field = "idle"
  BY <1>1, <1>7 DEF Need, SizeOf
<1>13. CASE DrainBuffer
  <2> DEFINE n == Lesser(Need - got, Early - at)
  <2>0. Reading /\ got < Need /\ at < Early /\ Take(n)
    BY <1>13 DEF DrainBuffer
  <2>1. Need \in Nat /\ got \in Nat /\ at \in Nat /\ arrived \in Nat /\ Early <= arrived
    BY <1>1, <1>4, <1>12, <1>t, <2>0 DEF Reading
  <2>2. n \in Nat /\ got + n <= Need /\ at + n <= arrived
    <3> DEFINE N == Need
    <3> HIDE DEF N
    <3>1. N \in Nat /\ got < N
      BY <2>0, <2>1 DEF N
    <3>2. Lesser(N - got, Early - at) \in Nat /\ got + Lesser(N - got, Early - at) <= N
          /\ at + Lesser(N - got, Early - at) <= arrived
      BY <1>4, <2>0, <2>1, <3>1 DEF Lesser
    <3> QED
      BY <3>2 DEF N
  <2> HIDE DEF n
  <2> QED
    BY <1>11, <2>0, <2>2
<1>14. CASE SockRecv
  <2>1. Reading /\ got < Need
    BY <1>14 DEF SockRecv
  <2>2. PICK n \in 1 .. Lesser(Need - got, arrived - at) : Take(n)
    BY <1>14 DEF SockRecv
  <2>3. Need \in Nat /\ got \in Nat /\ at \in Nat /\ arrived \in Nat /\ at <= arrived
    BY <1>1, <1>4, <1>12, <1>t, <2>1 DEF Reading
  <2>4. n \in Nat /\ got + n <= Need /\ at + n <= arrived
    <3> DEFINE N == Need
    <3>1. N \in Nat /\ got < N /\ n \in 1 .. Lesser(N - got, arrived - at)
      BY <2>1, <2>2, <2>3
    <3> HIDE DEF N
    <3>2. n \in Nat /\ got + n <= N /\ at + n <= arrived
      BY <2>3, <3>1 DEF Lesser
    <3> QED
      BY <3>2 DEF N
  <2> QED
    BY <1>11, <2>1, <2>2, <2>4
<1>15. CASE HeaderRead
  <2>1. HeaderAt(start) \subseteq Headers
    <3>1. \A i \in 1 .. Len(frames) : frames[i] \in Headers
      BY <1>2
    <3> QED
      BY <3>1 DEF HeaderAt, StartsAt
  <2> QED
    BY <1>9, <1>15, <1>t, <2>1 DEF HeaderRead
<1>16. CASE ExtRead \/ MaskRead
  BY <1>1, <1>9, <1>16, <1>t DEF ExtRead, MaskRead
<1>17. ASSUME NEW op \in {"text", "ping"}, FrameRead PROVE Payload(op) \in Events
  <2>1. got = header.len
    BY <1>17 DEF FrameRead, Need, SizeOf
  <2>2. at \in Nat /\ at <= T /\ header.len \in 0 .. MaxLen /\ at - header.len \in 0 .. T
    BY <1>1, <1>4, <1>7, <1>t, <2>1
  <2> QED
    BY <2>2 DEF Payload
<1>18. ASSUME NEW op \in {"text", "ping"}, FrameRead PROVE Append(out, Payload(op)) \in Seq(Events)
  <2> HIDE DEF Events
  <2> QED
    BY <1>17, <1>18, <1>t
<1>19. ASSUME UNCHANGED <<arrived, at, start, header, got>>, out' \in Seq(Events),
              status' \in {"open", "none", "broken"}, field' \in {"idle", "header", "ext", "mask", "payload"},
              field' = "idle" \/ status' # "open"
       PROVE  FramesTypes'
  <2>1. ~Reading'
    BY <1>19 DEF Reading
  <2> HIDE DEF Events
  <2> QED
    BY <1>1, <1>19, <1>s, <1>t, <2>1
<1>20. CASE ReturnText
  <2>1. out' \in Seq(Events)
    BY <1>18, <1>20, <1>t DEF ReturnText
  <2> HIDE DEF Events
  <2> QED
    BY <1>1, <1>19, <1>20, <2>1 DEF ReturnText
<1>21. CASE ReturnNone \/ RecvTimeout \/ RecvEof
  <2> HIDE DEF Events
  <2> QED
    BY <1>1, <1>19, <1>21, <1>t DEF ReturnNone, RecvTimeout, RecvEof
<1>22. CASE ReadOn
  <2>1. out' \in Seq(Events)
    BY <1>18, <1>22, <1>t DEF ReadOn
  <2>2. field' = "header" /\ got' = 0 /\ start' = at /\ UNCHANGED <<arrived, at, status, header>>
    BY <1>22 DEF ReadOn
  <2>3. Need' = 2
    BY <2>2 DEF Need, SizeOf
  <2>4. got' <= Need' /\ got' \in 0 .. T /\ got' <= at' /\ start' \in 0 .. T
    BY <1>1, <1>4, <1>t, <2>2, <2>3
  <2> HIDE DEF Events
  <2> QED
    BY <1>1, <1>s, <1>t, <2>1, <2>2, <2>4
<1>23. CASE Quiet \/ UNCHANGED vars
  <2>1. UNCHANGED <<arrived, at, status, field, start, header, got, out>>
    BY <1>23 DEF Quiet, vars, readVars
  <2>2. Reading' = Reading /\ Need' = Need
    BY <2>1 DEF Reading, Need
  <2> HIDE DEF Events
  <2> QED
    BY <1>1, <1>s, <1>t, <2>1, <2>2
<1> QED
  BY <1>8, <1>10, <1>13, <1>14, <1>15, <1>16, <1>20, <1>21, <1>22, <1>23 DEF Next, Client
=============================================================================

------------------------------- MODULE SignIn -------------------------------
(***************************************************************************)
(* Signing in: a secret is kept in the keyring or in the configuration     *)
(* file, and may be given by the environment.  tuochat auth gets a token   *)
(* by hand or from GitLab's OAuth pages, whose answer comes back through a *)
(* small HTTP server; a session that is open meanwhile has a copy.         *)
(*                                                                         *)
(* Tokens are numbered in the order they are obtained; 0 is none.          *)
(***************************************************************************)
EXTENDS Integers

CONSTANTS
  MaxTokens,   \* bound: tokens obtained
  MaxAttempts  \* bound: pages opened in the browser

ASSUME SignInAssumption == MaxTokens \in Nat /\ MaxAttempts \in Nat

Given == MaxTokens + 1  \* the token of the environment
Tokens == 0 .. Given
NoEntry == [token |-> 0, oauth |-> FALSE]

VARIABLES
  secret,  \* "gitlab" or "openrouter"
  given,   \* the environment has a token
  ring,    \* the keyring can be reached
  entry,   \* what the keyring holds
  kept,    \* the token in the configuration file
  copy,    \* the token of the session that is open
  flow,    \* the OAuth attempt under way: [pc, n, from, code]
  minted,  \* tokens obtained
  latest,  \* history: the token last obtained, 0 after a logout
  astray   \* history: something else was left behind or written since

signInVars == <<secret, given, ring, entry, kept, copy, flow, minted, latest, astray>>

SignInTypeOK ==
  /\ secret \in {"gitlab", "openrouter"} /\ {given, ring, astray} \subseteq BOOLEAN
  /\ entry \in [token : Tokens, oauth : BOOLEAN] /\ {kept, copy, latest} \subseteq Tokens
  /\ flow \in [pc : {"idle", "listening", "called", "exchanging"}, n : 0 .. MaxAttempts,
               from : 0 .. MaxAttempts, code : BOOLEAN]
  /\ minted \in 0 .. MaxTokens

SignInInit ==
  /\ secret \in {"gitlab", "openrouter"} /\ given \in BOOLEAN /\ ring \in BOOLEAN
  /\ entry = NoEntry /\ kept = 0 /\ copy = 0 /\ minted = 0 /\ latest = 0 /\ astray = FALSE
  /\ flow = [pc |-> "idle", n |-> 0, from |-> 0, code |-> FALSE]

-----------------------------------------------------------------------------
(* The keyring.  Writing to it may fail though it can be reached.          *)

InRing == {FALSE, ring}
FromRing == IF ring THEN entry.token ELSE 0
Deleted == IF ring THEN NoEntry ELSE entry

\* load_credentials asks the keyring first; the file has no refresh token.
Refreshable == FromRing # 0 /\ entry.oauth

\* load_config: the environment, then the file, then the keyring.
Effective == IF given THEN Given ELSE IF kept # 0 THEN kept ELSE FromRing

Same == UNCHANGED <<secret, given, flow>>

-----------------------------------------------------------------------------
(* Storing.                                                                *)

\* Changed: the token in the file is left when the keyring has the new one.
StoreBoth(t, oauth, inRing) ==
  IF inRing THEN entry' = [token |-> t, oauth |-> oauth] /\ UNCHANGED kept
  ELSE kept' = t /\ UNCHANGED entry

\* store_credentials, run_login of the OpenRouter key: in the keyring, and
\* then not in the file; or in the file.
StoreSecret(t, oauth, inRing) ==
  IF inRing THEN entry' = [token |-> t, oauth |-> oauth] /\ kept' = 0
  ELSE kept' = t /\ UNCHANGED entry

\* The user may not want the keyring, and writing to it may fail.
SignedIn(oauth) ==
  /\ minted < MaxTokens /\ minted' = minted + 1
  /\ \E inRing \in InRing : StoreSecret(minted + 1, oauth, inRing)
  /\ latest' = minted + 1 /\ astray' = FALSE
  /\ UNCHANGED <<secret, given, ring, copy>>

\* A token or a key typed in.
TypeToken == secret = "gitlab" /\ flow.pc = "idle" /\ SignedIn(FALSE) /\ UNCHANGED flow
TypeKey == secret = "openrouter" /\ SignedIn(FALSE) /\ UNCHANGED flow

\* run_refresh works on the keyring's entry, and leaves the file's token when
\* the new one goes to the keyring.  GitLab may refuse.
RefreshToken ==
  /\ secret = "gitlab" /\ flow.pc = "idle" /\ Refreshable
  /\ minted < MaxTokens /\ minted' = minted + 1 /\ latest' = minted + 1
  /\ \E inRing \in BOOLEAN :
       /\ entry' = IF inRing THEN [token |-> minted + 1, oauth |-> TRUE] ELSE entry
       /\ kept' = IF inRing THEN kept ELSE minted + 1
       /\ astray' = (inRing /\ kept # 0)
  /\ UNCHANGED <<ring, copy>> /\ Same

\* run_logout: an entry that cannot be reached stays.
Logout ==
  /\ flow.pc = "idle" /\ kept' = 0 /\ latest' = 0
  /\ entry' = Deleted
  /\ astray' = (entry'.token # 0)
  /\ UNCHANGED <<ring, copy, minted>> /\ Same

RingComesAndGoes == ring' = ~ring /\ UNCHANGED <<entry, kept, copy, minted, latest, astray>> /\ Same

-----------------------------------------------------------------------------
(* A session: it loads the settings, and any of them it saves is saved     *)
(* with the token it has.                                                  *)

OpenSession == copy' = Effective /\ UNCHANGED <<ring, entry, kept, minted, latest, astray>> /\ Same
SaveSession ==
  /\ copy # 0 /\ kept' = copy /\ astray' = (astray \/ copy # latest)
  /\ UNCHANGED <<ring, entry, copy, minted, latest>> /\ Same

-----------------------------------------------------------------------------
(* run_authorization_flow.                                                 *)

FlowOnly == UNCHANGED <<secret, given, ring, entry, kept, copy, minted, latest, astray>>

OpenPage ==
  /\ secret = "gitlab" /\ flow.pc = "idle" /\ flow.n < MaxAttempts
  /\ flow' = [pc |-> "listening", n |-> flow.n + 1, from |-> 0, code |-> FALSE]
  /\ FlowOnly

\* A page calls back, of this attempt or of an earlier one, with a code or an
\* error; until the server is shut down another call replaces the first.
Callback(n, code) ==
  /\ flow.pc \in {"listening", "called"} /\ n <= flow.n
  /\ flow' = [flow EXCEPT !.pc = "called", !.from = n, !.code = code]
  /\ FlowOnly

\* No call in time, or Ctrl+C.
GiveUp == flow.pc = "listening" /\ flow' = [flow EXCEPT !.pc = "idle"] /\ FlowOnly

CheckCallback ==
  /\ flow.pc = "called"
  /\ flow' = [flow EXCEPT !.pc = IF flow.code /\ flow.from = flow.n THEN "exchanging" ELSE "idle"]
  /\ FlowOnly

\* post_token_request fails or brings the token.
ExchangeFails == flow.pc = "exchanging" /\ flow' = [flow EXCEPT !.pc = "idle"] /\ FlowOnly
Exchange ==
  /\ flow.pc = "exchanging" /\ flow' = [flow EXCEPT !.pc = "idle"]
  /\ SignedIn(TRUE)

-----------------------------------------------------------------------------
SignInNext ==
  \/ TypeToken \/ TypeKey \/ RefreshToken \/ Logout \/ RingComesAndGoes
  \/ OpenSession \/ SaveSession
  \/ OpenPage \/ (\E n \in 0 .. MaxAttempts, code \in BOOLEAN : Callback(n, code))
  \/ GiveUp \/ CheckCallback \/ ExchangeFails \/ Exchange

-----------------------------------------------------------------------------
(* Properties.                                                             *)

\* The token the next session finds is the one obtained last, wherever it was
\* kept and whatever older ones are about, and none after a logout; unless a
\* session saved an older copy over it, a refresh found another token in the
\* file, or the keyring could not be reached.
\* store_credentials, load_config (src/tuochat/security/credentials.py,
\* src/tuochat/config.py).
SignedInIsUsed == (~given /\ ring /\ ~astray) => Effective = latest
=============================================================================

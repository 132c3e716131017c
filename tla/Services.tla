------------------------------ MODULE Services ------------------------------
(***************************************************************************)
(* The parts of the program that share no state with a chat, side by side, *)
(* and what several of them promise together.                              *)
(***************************************************************************)
EXTENDS Sandbox, SignIn, Tabs, PkgCache, Headless, WebPage, Models,
        BagIt, Schema, ErrorLog, WriteHere, Browser

\* A list in the window is of what is chosen above it, and a button acts on
\* what the user has before him (GitLabTab, JiraTab, ContextBrowserTab).
TabsTell == TabsAgree /\ ActsOnShown
\* What is kept on disk can be relied on later: the checksums of an archive,
\* the schema and the search index of the database, the log of errors, and the
\* files of a conversation wherever the working directory is.
RecordsHold == BagTells /\ OpensWhole /\ RowsStandForOne /\ HereIsSafe
=============================================================================

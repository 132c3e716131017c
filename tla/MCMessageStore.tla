--------------------------- MODULE MCMessageStore ---------------------------
(* Values for the constants of MessageStore.                                *)
EXTENDS MessageStore, TLC

CONSTANTS c1, c2, s1, s2

MCConv == {c1, c2}
MCSession == {s1, s2}
OneSession == {s1}
CrashOnly == {"crash"}
ResaveOnly == {"resave"}
\* Without the fault "resave" no message is saved a second time, and only then
\* is lastRow read: states that differ in lastRow alone are one state.
StoreView == <<tables, memory, saving, made, gone>>
Symmetry == Permutations(MCConv) \cup Permutations(MCSession)
=============================================================================

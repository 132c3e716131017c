----------------------------- MODULE MCArchive -----------------------------
(* Values for the constants of Archive.                                     *)
EXTENDS Archive, TLC

CONSTANTS p1, p2, c1, c2, code, notes, b1, b2

OneProc == {p1}
TwoProcs == {p1, p2}
MCConv == {c1, c2}
MCName == {code, notes}
MCHinted == {code}
MCHeaded == {code}
OneOld == {code}
TwoOld == {code, notes}
MCBody == {b1, b2}
NoFaults == {}
Overlap == {"overlap"}
Migration == {"migration"}
Symmetry == Permutations(MCConv) \cup Permutations(MCBody)
=============================================================================

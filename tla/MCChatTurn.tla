----------------------------- MODULE MCChatTurn -----------------------------
(* Values for the constants of ChatTurn.                                    *)
EXTENDS ChatTurn, TLC

CONSTANTS c1, c2

MCConv == {c1, c2}
NoFault == {}
DroppedOnly == {"dropped"}
Symmetry == Permutations(MCConv)
=============================================================================

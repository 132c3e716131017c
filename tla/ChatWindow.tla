----------------------------- MODULE ChatWindow -----------------------------
(***************************************************************************)
(* What the desktop window promises its user, of all its threads, queues   *)
(* and flags: a conversation told one submission at a time.  The texts of  *)
(* one are shown behind those of the one before, in their order, and none  *)
(* once it has ended; the window closes when none is under way.            *)
(***************************************************************************)
EXTENDS Integers, Sequences

CONSTANT Line    \* the texts of a submission, by number

VARIABLES
  turn,      \* submissions so far
  working,   \* the last of them is under way
  closed,    \* the window was finalized
  shown      \* the texts shown, each with its submission

vars == <<turn, working, closed, shown>>

Init == turn = 0 /\ working = FALSE /\ closed = FALSE /\ shown = << >>

\* A submission may still be made in the moment before the window is gone.
Ask ==
  /\ ~working
  /\ turn' = turn + 1 /\ working' = TRUE
  /\ UNCHANGED <<closed, shown>>

Show ==
  /\ working
  /\ \E k \in Line :
       /\ \A i \in DOMAIN shown : shown[i][1] = turn => shown[i][2] < k
       /\ shown' = Append(shown, <<turn, k>>)
  /\ UNCHANGED <<turn, working, closed>>

\* A submission may end by closing the window.
End ==
  /\ working
  /\ working' = FALSE /\ closed' \in {closed, TRUE}
  /\ UNCHANGED <<turn, shown>>

Close ==
  /\ ~working /\ ~closed
  /\ closed' = TRUE
  /\ UNCHANGED <<turn, working, shown>>

Next == Ask \/ Show \/ End \/ Close

Spec == Init /\ [][Next]_vars
=============================================================================

------------------------------ MODULE ChatReply ------------------------------
(***************************************************************************)
(* What one call of chat() promises the turn that consumes it: the reply   *)
(* grows along the answer, and the call ends with the whole answer, with   *)
(* what had been kept when the user interrupted it, or with an error.      *)
(***************************************************************************)
EXTENDS Integers, SequencesExt

CONSTANTS Token, Answer

VARIABLES
  text,     \* the reply kept by the turn
  status    \* "running" until the call ends

vars == <<text, status>>

TypeOK ==
  /\ text \in Seq(Token)
  /\ status \in {"running", "whole", "interrupted", "failed"}

Init == text = << >> /\ status = "running"

Grow ==
  /\ status = "running"
  /\ \E n \in 1 .. Len(Answer) :
       /\ text' = SubSeq(Answer, 1, n)
       /\ IsStrictPrefix(text, text')

\* The last delta may arrive together with the end of the call.
Finish == text' = Answer /\ status' = "whole"
Interrupt == text' = text /\ status' = "interrupted"
Break == text' = text /\ status' = "failed"

Next ==
  \/ Grow /\ UNCHANGED status
  \/ status = "running" /\ (Finish \/ Interrupt \/ Break)

Spec == Init /\ [][Next]_vars
=============================================================================

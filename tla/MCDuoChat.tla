------------------------------ MODULE MCDuoChat ------------------------------
(* Values for the constants of DuoChat: replies of three tokens.            *)
EXTENDS DuoChat

MCToken == {"a", "b"}
MCAnswer == <<"a", "b", "a">>

\* Cumulative replies, one with an empty and a repeated chunk.
CumulativeScripts ==
  { << <<"a">>, <<"a", "b">>, <<"a", "b", "a">> >>,
    << << >>, <<"a">>, <<"a">>, <<"a", "b">> >> }

\* Replies sent in fragments, the second one not an extension of the first.
FragmentScripts ==
  { << <<"a">>, <<"b">>, <<"a">> >>,
    << <<"a">>, << >>, <<"b", "a">> >> }

CumulativeFaults == AllFaults \ {"silent"}
\* Everything but a reply cut short, one asked again after a part of it was
\* kept, and a fragment without a number, taken for a cumulative chunk.
FragmentFaults == AllFaults \ {"close", "send", "odd"}
CloseFaults == {"close"}

\* The replies are what they are called.
ASSUME ScriptsAssumption ==
  /\ \A s \in CumulativeScripts : Cumulative(s)
  /\ \A s \in FragmentScripts : Fragmented(s)
=============================================================================

----------------------------- MODULE MCWsFrames -----------------------------
(* Values for the constants of WsFrames: streams of three or four frames.   *)
EXTENDS WsFrames

F(op, ext, mask, len) == [op |-> op, ext |-> ext, mask |-> mask, len |-> len]

\* Texts of every layout around a ping, a pong and an unknown frame; and a
\* close with something after it.
Mixed == { << F("text", 0, 0, 2), F("ping", 0, 0, 1), F("other", 0, 4, 0),
              F("text", 2, 4, 3), F("text", 0, 0, 0) >>,
           << F("text", 0, 0, 1), F("pong", 0, 0, 1), F("text", 8, 0, 2),
              F("close", 0, 0, 0), F("text", 0, 0, 1) >> }
\* Two short texts.
Short == { << F("text", 0, 0, 1), F("text", 0, 0, 2) >> }

EndAndIdle == {"eof", "idle"}
CutOnly == {"cut"}
=============================================================================

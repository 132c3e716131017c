------------------------------ MODULE Sandbox ------------------------------
(***************************************************************************)
(* Running a reply's code: the adapter that runs it under a deadline, in   *)
(* the session's own process or in a worker process that hands the output  *)
(* back through a queue.                                                   *)
(*                                                                         *)
(* The lines code prints are numbered, so a list of lines is how many      *)
(* there are; the value it emits is its size, in the units of the pipe.    *)
(***************************************************************************)
EXTENDS Integers, Sequences

CONSTANTS
  MaxPrinted, \* bound: lines the code prints
  LineLimit,  \* STDOUT_MAX_LINES
  ValueLimit, \* RESULT_MAX_BYTES
  Pipe        \* what a pipe holds before its writer waits

ASSUME SandboxAssumption ==
  {MaxPrinted, LineLimit, ValueLimit, Pipe} \subseteq Nat /\ LineLimit > 0

Engines == {"lua", "dukpy", "v8"}
Errors == {"none", "TimeoutError", "RuntimeError", "SerializationError", "ImportError",
           "SandboxViolation", "MemoryLimitError", "SandboxTimeoutError"}
Values == 0 .. ValueLimit + 1
\* What the caller may be handed: no more than the limits allow.
Outputs == [ok : BOOLEAN, error : Errors, lines : 0 .. LineLimit, cut : BOOLEAN,
            value : 0 .. ValueLimit]

VARIABLES
  host,    \* where the code runs: "inline" or "worker"
  engine,  \* the runtime that is installed, or "none"
  code,    \* "asked", "running", then "ended", "raised" or "stopped"
  printed, \* lines printed so far
  emitted, \* the value emitted, 0 before emit()
  reply,   \* the adapter's outputs, at most one
  child,   \* the worker: "alive", "put" (feeding the queue), "ended" or "dead"
  pipe,    \* the outputs in the queue
  answer   \* what the caller got, at most one

sandboxVars == <<host, engine, code, printed, emitted, reply, child, pipe, answer>>

SandboxTypeOK ==
  /\ host \in {"inline", "worker"} /\ engine \in Engines \cup {"none"}
  /\ code \in {"asked", "running", "ended", "raised", "stopped"}
  /\ printed \in 0 .. MaxPrinted /\ emitted \in Values
  /\ {reply, pipe, answer} \subseteq UNION { [1 .. n -> Outputs] : n \in {0, 1} }
  /\ child \in {"alive", "put", "ended", "dead"}

SandboxInit ==
  /\ host \in {"inline", "worker"} /\ engine \in Engines \cup {"none"}
  /\ code = "asked" /\ printed = 0 /\ emitted = 0
  /\ reply = << >> /\ child = "alive" /\ pipe = << >> /\ answer = << >>

-----------------------------------------------------------------------------
(* Outputs.                                                                *)

Kept(n) == IF n > LineLimit THEN LineLimit ELSE n        \* truncate_stdout
Bad(error, n) ==
  [ok |-> FALSE, error |-> error, lines |-> Kept(n), cut |-> n > LineLimit, value |-> 0]
Good == [ok |-> TRUE, error |-> "none", lines |-> Kept(printed), cut |-> printed > LineLimit,
         value |-> emitted]
\* A value that is too large is an error of its own.
Finished == IF emitted > ValueLimit THEN Bad("SerializationError", printed) ELSE Good

-----------------------------------------------------------------------------
(* The code.                                                               *)

Runs == code = "running" /\ child # "ended" /\ child # "dead"

Line == Runs /\ printed < MaxPrinted /\ printed' = printed + 1
        /\ UNCHANGED <<host, engine, code, emitted, reply, child, pipe, answer>>
\* A second emit() raises in the code, which may catch it.
EmitValue(v) ==
  /\ Runs /\ emitted = 0 /\ emitted' = v
  /\ UNCHANGED <<host, engine, code, printed, reply, child, pipe, answer>>
CodeEnds(how) ==
  /\ Runs /\ code' = how
  /\ UNCHANGED <<host, engine, printed, emitted, reply, child, pipe, answer>>

-----------------------------------------------------------------------------
(* run_code and the adapter.                                               *)

Replies(o) ==
  /\ reply = << >> /\ child = "alive" /\ reply' = <<o>>
  /\ UNCHANGED <<host, engine, printed, emitted, child, pipe, answer>>

\* The request is refused before anything runs.
RefuseRun(error) ==
  /\ code = "asked" /\ (error = "ImportError" => engine = "none")
  /\ code' = "stopped" /\ Replies(Bad(error, 0))

StartCode ==
  /\ code = "asked" /\ engine # "none" /\ child = "alive" /\ code' = "running"
  /\ UNCHANGED <<host, engine, printed, emitted, reply, child, pipe, answer>>

\* The deadline passes.  The thread of Lua cannot be stopped, and goes on.
OverranLua ==
  /\ engine = "lua" /\ code = "running"
  /\ Replies(Bad("TimeoutError", printed)) /\ UNCHANGED code

\* Nor can Duktape's, which cannot be asked for its lines meanwhile.
OverranDukpy ==
  /\ engine = "dukpy" /\ code = "running"
  /\ Replies(Bad("TimeoutError", 0)) /\ UNCHANGED code

\* V8 stops the code.
OverranV8 ==
  /\ engine = "v8" /\ code = "running" /\ code' = "stopped"
  /\ Replies(Bad("TimeoutError", printed))

Overran == OverranLua \/ OverranDukpy \/ OverranV8

\* Changed: the adapter does not ask whether its thread is still alive.
CollectAlive ==
  \/ code \in {"running", "ended"} /\ Replies(Finished) /\ UNCHANGED code
  \/ code = "raised" /\ Replies(Bad("RuntimeError", IF engine = "dukpy" THEN 0 ELSE printed))
     /\ UNCHANGED code

\* The code has ended within the deadline.
Collect ==
  \/ code = "ended" /\ Replies(Finished) /\ UNCHANGED code
  \/ code = "raised" /\ Replies(Bad("RuntimeError", IF engine = "dukpy" THEN 0 ELSE printed))
     /\ UNCHANGED code

\* In the session's own process the caller gets it as it is.
Hand ==
  /\ host = "inline" /\ reply # << >> /\ answer = << >> /\ answer' = reply
  /\ UNCHANGED <<host, engine, code, printed, emitted, reply, child, pipe>>

-----------------------------------------------------------------------------
(* The worker process.                                                     *)

ParentWaits == host = "worker" /\ answer = << >>
Rest == UNCHANGED <<host, engine, code, printed, emitted, reply>>

\* The output goes to the queue's feeder thread.
Put == ParentWaits /\ child = "alive" /\ reply # << >> /\ child' = "put"
       /\ UNCHANGED <<pipe, answer>> /\ Rest

\* The child ends once the feeder has written everything, for which the pipe
\* must hold it: the parent does not read before the child has ended.  Ending
\* with a thread still at work may fail after that.
ChildEnds(how) ==
  /\ ParentWaits /\ child = "put" /\ reply[1].value <= Pipe
  /\ (how = "dead" => code = "running")
  /\ child' = how /\ pipe' = reply /\ UNCHANGED answer /\ Rest

\* Memory limits and signals.
Crash == ParentWaits /\ child \in {"alive", "put"} /\ child' = "dead"
         /\ UNCHANGED <<pipe, answer>> /\ Rest

\* The child has ended: its output, or an error when there is none.
Joined ==
  /\ ParentWaits /\ child \in {"ended", "dead"}
  /\ \E error \in {"MemoryLimitError", "RuntimeError"} :
       answer' = IF pipe = << >> THEN <<Bad(error, 0)>> ELSE pipe
  /\ UNCHANGED <<child, pipe>> /\ Rest

\* Changed: the parent waits for the child without a limit.
WaitsForever == FALSE /\ UNCHANGED sandboxVars

\* The child is alive at the parent's deadline.
Killed ==
  /\ ParentWaits /\ child \in {"alive", "put"}
  /\ child' = "dead" /\ answer' = <<Bad("SandboxTimeoutError", 0)>>
  /\ UNCHANGED pipe /\ Rest

-----------------------------------------------------------------------------
SandboxNext ==
  \/ Line \/ \E v \in Values \ {0} : EmitValue(v)
  \/ \E how \in {"ended", "raised"} : CodeEnds(how)
  \/ \E error \in {"SandboxViolation", "SerializationError", "ImportError"} : RefuseRun(error)
  \/ StartCode \/ OverranLua \/ OverranDukpy \/ OverranV8 \/ Collect \/ Hand
  \/ Put \/ \E how \in {"ended", "dead"} : ChildEnds(how)
  \/ Crash \/ Joined \/ Killed

\* What the sandbox's own process and its parent do without the code, the
\* passing of a deadline included.
SandboxStep ==
  \/ \E error \in Errors : RefuseRun(error)
  \/ StartCode \/ Overran \/ Collect \/ Hand \/ Joined \/ Killed

-----------------------------------------------------------------------------
(* Properties.                                                             *)

\* What the caller is told is what happened: a successful output has every
\* line and the value of code that has ended, and the output of a worker that
\* handed one over is never replaced by an error, whatever became of the
\* worker afterwards.
\* run_in_worker (src/tuochat/sandbox/worker.py), LupaAdapter.run and
\* DukpyAdapter.run (src/tuochat/sandbox/adapters).
ToldWhatHappened ==
  answer # << >> =>
    /\ answer[1].ok => code = "ended" /\ answer[1] = Finished
    /\ pipe # << >> => answer = pipe
=============================================================================

-------------------------------- MODULE Gui --------------------------------
(***************************************************************************)
(* The desktop window: the main thread, which runs Tk's event loop and     *)
(* every 30 ms the pump process_gui_queues, and the daemon thread that     *)
(* start_submission gives each submission.  They share three queues, the   *)
(* busy flag and the process's own sys.stdout, which both of them redirect *)
(* and put back.                                                           *)
(*                                                                         *)
(* What a submission does to the session is the subject of ChatTurn; here  *)
(* it prints, may ask the user one question, and ends.                     *)
(***************************************************************************)
EXTENDS Integers, SequencesExt

CONSTANTS
  MaxSubmissions,  \* submissions in one run of the window (bound)
  MaxTexts         \* texts one of them prints (bound)

ASSUME GuiAssumption == MaxSubmissions \in Nat /\ MaxTexts \in Nat

Submission == 1 .. MaxSubmissions
Main == 0                                        \* the main thread
Text == Submission \X (1 .. MaxTexts + 1)        \* the last one reports an error
Stdout == {"real", "stream", "buffer"}           \* TranscriptStream, StringIO

VARIABLES
  busy,        \* self.busy
  closeWhenIdle, \* self.close_when_idle
  window,      \* "open", "summary" (its dialog is up), "closing" (destroy is
               \* due in 150 ms), "gone"; finalized once it is not "open"
  stale,       \* self.store is closed
  submitted,   \* submissions so far
  accepted,    \* those made before the window was finalized
  worker,      \* what the thread of each submission is doing
  printed,     \* texts it has printed
  stdout,      \* sys.stdout of the process
  kept,        \* what a thread's redirect_standard_io puts back
  rendering,   \* the main thread renders a tab into a buffer
  overlapped,  \* submissions during which it did
  output, prompts, events,  \* the three queues
  transcript,  \* what the transcript shows of the submissions
  pump         \* where process_gui_queues is

flags == <<busy, closeWhenIdle, window, stale, submitted, accepted>>
threads == <<worker, printed, stdout, kept, rendering, overlapped>>
queues == <<output, prompts, events, transcript>>
vars == <<flags, threads, queues, pump>>

Event == [kind : {"error", "complete"}, exit : BOOLEAN]
\* "started": not yet redirected; "left" and "exits": the redirection is
\* undone, and the submission asked to close the window in the second.
Phase == {"none", "started", "running", "asking", "answered",
          "failed", "left", "exits", "done"}
\* "due": an after() call is pending; "dialog" and "modal": it waits for a
\* dialog; "stopped": it raised, and nothing calls it again.
Pump == {"due", "prompts", "dialog", "events", "modal", "stopped"}

TypeOK ==
  /\ busy \in BOOLEAN /\ closeWhenIdle \in BOOLEAN /\ stale \in BOOLEAN
  /\ window \in {"open", "summary", "closing", "gone"}
  /\ submitted \in 0 .. MaxSubmissions /\ accepted \in 0 .. submitted
  /\ worker \in [Submission -> Phase]
  /\ printed \in [Submission -> 0 .. MaxTexts + 1]
  /\ stdout \in Stdout /\ kept \in [Submission \cup {Main} -> Stdout]
  /\ rendering \in BOOLEAN /\ overlapped \subseteq Submission
  /\ output \in Seq(Text) /\ transcript \in Seq(Text)
  /\ prompts \in Seq(Submission) /\ events \in Seq(Event)
  /\ pump \in Pump

-----------------------------------------------------------------------------
(* The user.                                                               *)

\* The event loop serves the window manager, timers and signals: also in the
\* loop a dialog runs, never while a callback does.
EventLoop == ~rendering /\ pump \notin {"prompts", "events"} /\ window # "gone"

\* It serves the window's own widgets: no dialog holds the grab.
Ungrabbed == EventLoop /\ pump \notin {"dialog", "modal"} /\ window # "summary"

\* submit_current_text, submit_command: start_submission
Submit ==
  /\ Ungrabbed /\ ~busy /\ submitted < MaxSubmissions
  /\ submitted' = submitted + 1
  /\ busy' = TRUE
  /\ worker' = [worker EXCEPT ![submitted + 1] = "started"]
  /\ UNCHANGED <<closeWhenIdle, window, stale, accepted, printed, stdout, kept,
                 rendering, overlapped, queues, pump>>

ShowFirst == output' = <<>> /\
  transcript' = IF output = <<>> THEN transcript ELSE Append(transcript, Head(output))
ShowAll == transcript' = transcript \o output /\ output' = <<>>

\* finalize_and_close: the store is closed and what was printed is shown.
\* After a nuke, or with nothing to say, there is no summary dialog.
Finalize ==
  /\ window' \in {"summary", "closing"}
  /\ stale' = TRUE
  /\ accepted' = submitted
  /\ ShowAll

QuitAtSecond == busy /\ ~closeWhenIdle
MustWait == busy

\* request_quit, request_nuke once confirmed, handle_keyboard_interrupt
Quit ==
  /\ EventLoop
  /\ \/ /\ MustWait
        /\ closeWhenIdle' = TRUE
        /\ UNCHANGED <<window, stale, accepted, output, transcript>>
     \/ /\ ~MustWait /\ window = "open"
        /\ Finalize
        /\ UNCHANGED closeWhenIdle
  /\ UNCHANGED <<busy, submitted, threads, prompts, events, pump>>

\* The summary dialog is dismissed: the window will be destroyed.
Dismiss ==
  /\ EventLoop /\ window = "summary"
  /\ window' = "closing"
  /\ pump' = IF pump = "modal" THEN "events" ELSE pump
  /\ UNCHANGED <<busy, closeWhenIdle, stale, submitted, accepted, threads, queues>>

Destroy ==
  /\ EventLoop /\ window = "closing"
  /\ window' = "gone"
  /\ UNCHANGED <<busy, closeWhenIdle, stale, submitted, accepted, threads, queues, pump>>

\* The "No Writes" button: the session gets another store, self.store is closed.
ToggleNoWrite ==
  /\ Ungrabbed /\ ~busy
  /\ stale' = TRUE
  /\ UNCHANGED <<busy, closeWhenIdle, window, submitted, accepted, threads, queues, pump>>

-----------------------------------------------------------------------------
(* sys.stdout, which is one for all threads.                               *)

KeepNew(t, to) == kept' = [kept EXCEPT ![t] = to] /\ stdout' = to
Redirect(t, to) == kept' = [kept EXCEPT ![t] = stdout] /\ stdout' = to
PutBack(t) == stdout' = kept[t] /\ UNCHANGED kept

\* The threads that are inside their redirection, or about to be.
Inside == {s \in Submission : worker[s] \in {"started", "running", "asking", "answered"}}

\* A tab is refreshed: archiving, unarchiving or deleting in a list, which
\* busy does not forbid, or /help without a submission.
Render ==
  /\ Ungrabbed /\ ~(busy /\ stale)
  /\ rendering' = TRUE
  /\ Redirect(Main, "buffer")
  /\ overlapped' = overlapped \cup Inside
  /\ UNCHANGED <<flags, worker, printed, queues, pump>>

Rendered ==
  /\ rendering
  /\ rendering' = FALSE
  /\ PutBack(Main)
  /\ UNCHANGED <<flags, worker, printed, overlapped, queues, pump>>

-----------------------------------------------------------------------------
(* process_submission, in a thread of its own.                             *)

Goto(s, phase) == worker' = [worker EXCEPT ![s] = phase]
Runs(s) == worker[s] \in {"running", "answered"}

Start(s) ==
  /\ worker[s] = "started"
  /\ Goto(s, "running")
  /\ Redirect(s, "stream")
  /\ UNCHANGED <<flags, printed, rendering, overlapped, queues, pump>>

NextText(s) == <<s, printed[s] + 1>>

\* print(): only what goes to the TranscriptStream comes to the window.
PrintText(s) ==
  /\ Runs(s) /\ printed[s] < MaxTexts
  /\ printed' = [printed EXCEPT ![s] = @ + 1]
  /\ output' = IF stdout = "stream" THEN Append(output, NextText(s)) ELSE output
  /\ UNCHANGED <<flags, worker, stdout, kept, rendering, overlapped,
                 prompts, events, transcript, pump>>

\* prompt_user: one question in a submission, answered before it goes on.
AskUser(s) ==
  /\ worker[s] = "running"
  /\ Goto(s, "asking")
  /\ prompts' = Append(prompts, s)
  /\ UNCHANGED <<flags, printed, stdout, kept, rendering, overlapped,
                 output, events, transcript, pump>>

\* "/no-write on": the session gets another store, self.store is closed.
NoWriteCommand(s) ==
  /\ Runs(s) /\ ~stale
  /\ stale' = TRUE
  /\ UNCHANGED <<busy, closeWhenIdle, window, submitted, accepted, threads, queues, pump>>

\* process_repl_submission returns, or raises.
Leave(s) ==
  /\ Runs(s)
  /\ \E how \in {"left", "exits", "failed"} : Goto(s, how)
  /\ PutBack(s)
  /\ UNCHANGED <<flags, printed, rendering, overlapped, queues, pump>>

Report(s) ==
  /\ worker[s] = "failed"
  /\ Goto(s, "left")
  /\ printed' = [printed EXCEPT ![s] = @ + 1]
  /\ output' = Append(output, NextText(s))
  /\ events' = Append(events, [kind |-> "error", exit |-> FALSE])
  /\ UNCHANGED <<flags, stdout, kept, rendering, overlapped, prompts, transcript, pump>>

Complete(s) ==
  /\ worker[s] \in {"left", "exits"}
  /\ Goto(s, "done")
  /\ events' = Append(events, [kind |-> "complete", exit |-> worker[s] = "exits"])
  /\ UNCHANGED <<flags, printed, stdout, kept, rendering, overlapped,
                 output, prompts, transcript, pump>>

Worker(s) ==
  \/ Start(s) \/ PrintText(s) \/ AskUser(s) \/ NoWriteCommand(s)
  \/ Leave(s) \/ Report(s) \/ Complete(s)

-----------------------------------------------------------------------------
(* process_gui_queues, in the main thread.                                 *)

DrainOutput ==
  /\ pump = "due" /\ EventLoop
  /\ ShowAll
  /\ pump' = "prompts"
  /\ UNCHANGED <<flags, threads, prompts, events>>

\* drain_prompt_queue: a dialog for each question.
DrainPrompt ==
  /\ pump = "prompts"
  /\ pump' = IF prompts = <<>> THEN "events" ELSE "dialog"
  /\ UNCHANGED <<flags, threads, queues>>

NotWoken(s) == UNCHANGED worker
Woken(s) == Goto(s, "answered")                  \* request.ready.set()

Answer ==
  /\ pump = "dialog" /\ window # "gone"
  /\ Woken(Head(prompts))
  /\ prompts' = Tail(prompts)
  /\ pump' = "prompts"
  /\ UNCHANGED <<flags, printed, stdout, kept, rendering, overlapped,
                 output, events, transcript>>

\* The refresh of the views reads self.store, and raises if it is closed:
\* process_gui_queues does not come to the call that schedules it again.
AfterRefresh == IF stale THEN "stopped" ELSE "events"

AnyFrees(event) == event.kind \in {"error", "complete"}
Frees(event) == event.kind = "complete"

DrainError ==
  /\ pump = "events" /\ events # <<>> /\ ~Frees(Head(events))
  /\ events' = Tail(events)
  /\ pump' = AfterRefresh
  /\ UNCHANGED <<flags, threads, output, prompts, transcript>>

OnlyIfExit(event) == event.exit
MustClose(event) == event.exit \/ closeWhenIdle

DrainComplete ==
  /\ pump = "events" /\ events # <<>> /\ Frees(Head(events))
  /\ events' = Tail(events)
  /\ busy' = FALSE
  /\ \/ /\ ~stale /\ MustClose(Head(events)) /\ window = "open"
        /\ Finalize
        /\ pump' = IF window' = "summary" THEN "modal" ELSE "events"
     \/ /\ stale \/ ~MustClose(Head(events)) \/ window # "open"
        /\ pump' = AfterRefresh
        /\ UNCHANGED <<window, stale, accepted, output, transcript>>
  /\ UNCHANGED <<closeWhenIdle, submitted, threads, prompts>>

Schedule ==
  /\ pump = "events" /\ events = <<>>
  /\ pump' = "due"
  /\ UNCHANGED <<flags, threads, queues>>

PumpStep == DrainOutput \/ DrainPrompt \/ DrainError \/ DrainComplete \/ Schedule

-----------------------------------------------------------------------------
Init ==
  /\ busy = FALSE /\ closeWhenIdle = FALSE /\ window = "open" /\ stale = FALSE
  /\ submitted = 0 /\ accepted = 0
  /\ worker = [s \in Submission |-> "none"]
  /\ printed = [s \in Submission |-> 0]
  /\ stdout = "real" /\ kept = [t \in Submission \cup {Main} |-> "real"]
  /\ rendering = FALSE /\ overlapped = {}
  /\ output = <<>> /\ prompts = <<>> /\ events = <<>> /\ transcript = <<>>
  /\ pump = "due"

Next ==
  \/ Submit \/ Quit \/ Dismiss \/ Destroy \/ ToggleNoWrite
  \/ Render \/ Rendered
  \/ \E s \in Submission : Worker(s)
  \/ PumpStep \/ Answer

Spec == Init /\ [][Next]_vars

\* A thread and a callback go on; Tk serves every timer that is due however
\* many events come (SF); the user closes the dialogs put to them.
FairSpec ==
  /\ Spec
  /\ \A s \in Submission : WF_vars(Worker(s) /\ window # "gone")
  /\ WF_vars(Rendered) /\ WF_vars(Answer) /\ WF_vars(Dismiss)
  /\ SF_vars(PumpStep) /\ SF_vars(Destroy)

-----------------------------------------------------------------------------
(* Correctness.                                                            *)

Alive(s) == worker[s] \notin {"none", "done"}

\* The busy flag keeps submissions apart: a second thread never runs beside
\* the first, with which it would share the conversation and sys.stdout.
OneAtATime == \A s, t \in Submission : Alive(s) /\ Alive(t) => s = t

\* The window is finalized (its store closed, and the data deleted by a nuke)
\* only when every submission made before has ended, with all that it printed
\* on the screen: quitting waits, and the last texts are shown first.
ClosesFinished ==
  window # "open" =>
    /\ \A s \in 1 .. accepted : worker[s] = "done"
    /\ \A i \in DOMAIN output : output[i][1] > accepted

\* Submissions and the end of the window come one after another.
OneAfterAnother == OneAtATime /\ ClosesFinished

\* The texts 1 to n of submission s, each of them there, in their order.
Whole(s, n, texts) ==
  /\ \A k \in 1 .. n : \E i \in DOMAIN texts : texts[i] = <<s, k>>
  /\ \A i \in DOMAIN texts : texts[i][1] = s => texts[i][2] <= n
  /\ \A i, j \in DOMAIN texts :
       i < j /\ texts[i][1] = s /\ texts[j][1] = s => texts[i][2] < texts[j][2]

\* All that a submission prints comes to the transcript, once and in its order,
\* unless a tab was refreshed while it ran: what overlaps harms no later one.
NothingLost ==
  \A s \in Submission \ overlapped : Whole(s, printed[s], transcript \o output)

\* When no thread redirects it, sys.stdout is the process's own again, unless
\* a refresh overlapped a submission, which may leave it redirected for good.
StdoutRestored ==
  overlapped = {} /\ ~rendering /\ (\A s \in Submission : ~Alive(s)) => stdout = "real"

\* The refinement: the threads, the three queues and the flags make up one
\* conversation, told one submission at a time.
Serial == INSTANCE ChatWindow WITH
  Line <- 1 .. MaxTexts + 1,
  turn <- submitted, working <- busy, closed <- window # "open",
  shown <- transcript \o output

\* The window implements the serial one: the user never sees texts of two
\* submissions mixed, a text of one that has ended, or a window that closes
\* while one is under way.
ImplementsWindow == Serial!Spec

\* Every submission gives the window back to the user, unless the pump stopped.
Freed == busy ~> (~busy \/ window = "gone" \/ pump = "stopped")

\* A window told to close while it is busy closes, unless the pump stopped.
QuitCloses == closeWhenIdle ~> (window = "gone" \/ pump = "stopped")

\* What the window says when it is told to close while it is busy: "[Closing
\* after the current response finishes.]".
ClosesAfterReply == closeWhenIdle ~> window = "gone"
=============================================================================

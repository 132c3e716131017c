----------------------------- MODULE Gui_proofs -----------------------------
(***************************************************************************)
(* Proofs about Gui for any number of submissions and texts.               *)
(***************************************************************************)
EXTENDS Gui, SequenceTheorems, TLAPS

-----------------------------------------------------------------------------
(* Types.                                                                  *)

\* The flags apart: they are for Zenon, the rest is for SMT.
Flags ==
  /\ busy \in BOOLEAN /\ closeWhenIdle \in BOOLEAN /\ stale \in BOOLEAN
  /\ rendering \in BOOLEAN
Counts ==
  /\ window \in {"open", "summary", "closing", "gone"}
  /\ submitted \in 0 .. MaxSubmissions /\ accepted \in 0 .. submitted
  /\ pump \in Pump
Threads ==
  /\ worker \in [Submission -> Phase]
  /\ printed \in [Submission -> 0 .. MaxTexts + 1]
  /\ stdout \in Stdout /\ kept \in [Submission \cup {Main} -> Stdout]
  /\ overlapped \subseteq Submission
Queues ==
  /\ output \in Seq(Text) /\ transcript \in Seq(Text)
  /\ prompts \in Seq(Submission) /\ events \in Seq(Event)

\* The threads are those of the submissions so far, and one that has not
\* reported an error may still do so.
Room ==
  /\ \A s \in Submission : worker[s] = "none" <=> s > submitted
  /\ \A s \in Submission : worker[s] \notin {"left", "done"} => printed[s] <= MaxTexts

\* The questions are those of threads that wait, one of each; a dialog answers
\* the first.
Asked ==
  /\ \A i \in 1 .. Len(prompts) : worker[prompts[i]] = "asking"
  /\ \A i, j \in 1 .. Len(prompts) : prompts[i] = prompts[j] => i = j
  /\ pump = "dialog" => prompts # <<>>

Typed == Flags /\ Counts /\ Threads /\ Queues /\ Room /\ Asked

LEMMA TypedParts == TypeOK <=> Flags /\ Counts /\ Threads /\ Queues
  BY Zenon DEF TypeOK, Flags, Counts, Threads, Queues

LEMMA InitTyped == Init => Typed
  <1> SUFFICES ASSUME Init PROVE Typed
    OBVIOUS
  <1>1. Flags
    BY Zenon DEF Init, Flags
  <1>2. Counts /\ Threads /\ Queues /\ Room
    BY GuiAssumption DEF Init, Counts, Threads, Queues, Room, Pump, Phase, Stdout, Submission, Main
  <1>3. Asked
    BY DEF Init, Asked
  <1> QED
    BY <1>1, <1>2, <1>3 DEF Typed

\* A step that asks nothing and wakes nobody that waits.
LEMMA AskedKept ==
  ASSUME Queues, Asked, UNCHANGED prompts,
         \A s \in Submission : worker[s] = "asking" => worker'[s] = "asking",
         pump' = "dialog" => prompts # <<>>
  PROVE  Asked'
  BY DEF Queues, Asked

LEMMA EventType ==
  ASSUME NEW k \in {"error", "complete"}, NEW e \in BOOLEAN
  PROVE  [kind |-> k, exit |-> e] \in Event
  BY Zenon DEF Event

LEMMA TailSeq ==
  ASSUME NEW S, NEW q \in Seq(S), q # <<>>
  PROVE  Tail(q) \in Seq(S) /\ Head(q) \in S
  BY HeadTailProperties

\* The main thread's redirection and the workers'.
LEMMA StdoutType ==
  ASSUME Threads, NEW t \in Submission \cup {Main}
  PROVE  /\ \A to \in Stdout : Redirect(t, to) =>
              stdout' \in Stdout /\ kept' \in [Submission \cup {Main} -> Stdout]
         /\ PutBack(t) => stdout' \in Stdout /\ kept' \in [Submission \cup {Main} -> Stdout]
  BY DEF Threads, Redirect, PutBack

LEMMA GotoType ==
  ASSUME Threads, NEW s \in Submission, NEW phase \in Phase, Goto(s, phase)
  PROVE  /\ worker' \in [Submission -> Phase]
         /\ worker'[s] = phase
         /\ \A t \in Submission \ {s} : worker'[t] = worker[t]
  BY DEF Threads, Goto

LEMMA ShowAllType ==
  ASSUME Queues, ShowAll
  PROVE  transcript' \in Seq(Text) /\ output' = <<>> /\ output' \in Seq(Text)
  <1>1. transcript' = transcript \o output /\ output' = <<>>
    BY DEF ShowAll
  <1>2. output \in Seq(Text) /\ transcript \in Seq(Text)
    BY DEF Queues
  <1> QED
    BY <1>1, <1>2, ConcatProperties, EmptySeq

LEMMA FinalizeType ==
  ASSUME Counts, Queues, Finalize
  PROVE  /\ window' \in {"summary", "closing"}
         /\ stale' = TRUE
         /\ accepted' = submitted
         /\ transcript' \in Seq(Text) /\ output' = <<>> /\ output' \in Seq(Text)
  <1>1. ShowAll /\ window' \in {"summary", "closing"} /\ stale' = TRUE /\ accepted' = submitted
    BY DEF Finalize
  <1> QED
    BY <1>1, ShowAllType

LEMMA UserTyped ==
  ASSUME Typed, Submit \/ Quit \/ Dismiss \/ Destroy \/ ToggleNoWrite
  PROVE  Typed'
  <1>0. Flags /\ Counts /\ Threads /\ Queues /\ Room /\ Asked
    BY DEF Typed
  <1>1. CASE Submit
    <2>1. submitted + 1 \in Submission /\ submitted \in Nat /\ submitted' = submitted + 1
      BY <1>0, <1>1, GuiAssumption DEF Counts, Submit, Submission
    <2>2. Goto(submitted + 1, "started")
      BY <1>1 DEF Submit, Goto
    <2>3. "started" \in Phase
      BY DEF Phase
    <2>4. /\ worker' \in [Submission -> Phase]
          /\ worker'[submitted + 1] = "started"
          /\ \A t \in Submission \ {submitted + 1} : worker'[t] = worker[t]
      BY <1>0, <2>1, <2>2, <2>3, GotoType
    <2>5. Flags'
      BY <1>0, <1>1, Zenon DEF Flags, Submit
    <2>6. Counts' /\ Threads' /\ Queues'
      BY <1>0, <1>1, <2>1, <2>4 DEF Counts, Threads, Queues, Submit, queues, Submission
    <2>7. worker[submitted + 1] = "none"
      BY <1>0, <2>1 DEF Room
    <2>8. Submission \subseteq Nat
      BY GuiAssumption DEF Submission
    <2>9. Room'
      BY <1>0, <1>1, <2>1, <2>4, <2>7, <2>8 DEF Room, Submit, queues
    <2>10. Asked'
      BY <1>0, <1>1, <2>4, <2>7, AskedKept DEF Submit, queues, Asked
    <2> QED
      BY <2>5, <2>6, <2>9, <2>10 DEF Typed
  <1>2. CASE Quit
    <2>1. /\ UNCHANGED <<busy, submitted, threads, prompts, events, pump>>
          /\ \/ closeWhenIdle' = TRUE
                /\ UNCHANGED <<window, stale, accepted, output, transcript>>
             \/ Finalize /\ UNCHANGED closeWhenIdle
      BY <1>2 DEF Quit
    <2>2. /\ closeWhenIdle' \in BOOLEAN /\ stale' \in BOOLEAN
          /\ accepted' \in {accepted, submitted}
          /\ window' \in {window, "summary", "closing"}
          /\ output' \in Seq(Text) /\ transcript' \in Seq(Text)
      <3>1. CASE Finalize /\ UNCHANGED closeWhenIdle
        <4>1. /\ window' \in {"summary", "closing"} /\ stale' = TRUE
              /\ accepted' = submitted /\ transcript' \in Seq(Text) /\ output' \in Seq(Text)
          BY <1>0, <3>1, FinalizeType
        <4> QED
          BY <1>0, <3>1, <4>1 DEF Flags
      <3>2. CASE closeWhenIdle' = TRUE /\ UNCHANGED <<window, stale, accepted, output, transcript>>
        BY <1>0, <3>2 DEF Flags, Queues
      <3> QED
        BY <2>1, <3>1, <3>2
    <2>3. Flags'
      BY <1>0, <2>1, <2>2, Zenon DEF Flags, threads
    <2>4. Counts'
      <3>1. submitted \in 0 .. MaxSubmissions /\ accepted \in 0 .. submitted
        BY <1>0 DEF Counts
      <3>2. accepted' \in 0 .. submitted'
        BY <2>1, <2>2, <3>1, GuiAssumption
      <3> QED
        BY <1>0, <2>1, <2>2, <3>2 DEF Counts
    <2>6. Threads' /\ Queues' /\ Room'
      BY <1>0, <2>1, <2>2 DEF Threads, Queues, Room, threads
    <2>7. Asked'
      BY <1>0, <2>1, AskedKept DEF threads, Asked
    <2> QED
      BY <2>3, <2>4, <2>6, <2>7 DEF Typed
  <1>3. CASE Dismiss \/ Destroy \/ ToggleNoWrite
    <2>1. /\ UNCHANGED <<busy, closeWhenIdle, submitted, accepted, threads, queues>>
          /\ stale' \in {stale, TRUE}
          /\ window' \in {window, "closing", "gone"}
          /\ pump' \in {pump, "events"}
      BY <1>3 DEF Dismiss, Destroy, ToggleNoWrite
    <2>2. Flags'
      BY <1>0, <2>1, Zenon DEF Flags, threads
    <2>3. Counts' /\ Threads' /\ Queues' /\ Room'
      BY <1>0, <2>1 DEF Counts, Threads, Queues, Room, threads, queues, Pump
    <2>4. Asked'
      BY <1>0, <2>1, AskedKept DEF threads, queues, Asked
    <2> QED
      BY <2>2, <2>3, <2>4 DEF Typed
  <1> QED
    BY <1>1, <1>2, <1>3

LEMMA RenderTyped ==
  ASSUME Typed, Render \/ Rendered
  PROVE  Typed'
  <1>0. Flags /\ Counts /\ Threads /\ Queues /\ Room /\ Asked
    BY DEF Typed
  <1>1. /\ UNCHANGED <<flags, worker, printed, queues, pump>>
        /\ rendering' \in BOOLEAN
        /\ overlapped' \in {overlapped, overlapped \cup Inside}
        /\ Redirect(Main, "buffer") \/ PutBack(Main)
    BY DEF Render, Rendered
  <1>2. stdout' \in Stdout /\ kept' \in [Submission \cup {Main} -> Stdout]
    BY <1>0, <1>1, StdoutType DEF Stdout
  <1>3. overlapped' \subseteq Submission
    BY <1>0, <1>1 DEF Threads, Inside
  <1>4. Flags'
    BY <1>0, <1>1, Zenon DEF Flags, flags
  <1>5. Counts' /\ Threads' /\ Queues' /\ Room'
    BY <1>0, <1>1, <1>2, <1>3 DEF Counts, Threads, Queues, Room, flags, queues
  <1>6. Asked'
    BY <1>0, <1>1, AskedKept DEF queues, Asked
  <1> QED
    BY <1>4, <1>5, <1>6 DEF Typed

LEMMA WorkerTyped ==
  ASSUME Typed, NEW s \in Submission, Worker(s)
  PROVE  Typed'
  <1>0. Flags /\ Counts /\ Threads /\ Queues /\ Room /\ Asked
    BY DEF Typed
  <1>1. CASE NoWriteCommand(s)
    <2>1. /\ UNCHANGED <<busy, closeWhenIdle, window, submitted, accepted, threads, queues, pump>>
          /\ stale' = TRUE
      BY <1>1 DEF NoWriteCommand
    <2>2. Flags'
      BY <1>0, <2>1, Zenon DEF Flags, threads
    <2>3. Counts' /\ Threads' /\ Queues' /\ Room'
      BY <1>0, <2>1 DEF Counts, Threads, Queues, Room, threads, queues
    <2>4. Asked'
      BY <1>0, <2>1, AskedKept DEF threads, queues, Asked
    <2> QED
      BY <2>2, <2>3, <2>4 DEF Typed
  <1>2. ASSUME UNCHANGED <<flags, rendering, overlapped, transcript, pump>>,
               Threads', Queues', Room', Asked'
        PROVE  Typed'
    <2>1. Flags'
      BY <1>0, <1>2, Zenon DEF Flags, flags
    <2>2. Counts'
      BY <1>0, <1>2 DEF Counts, flags
    <2> QED
      BY <1>2, <2>1, <2>2 DEF Typed
  <1>3. ASSUME NEW phase \in Phase \ {"none"}, worker[s] # "none", Goto(s, phase),
               phase \in {"left", "done"} \/ printed'[s] <= MaxTexts,
               printed' \in [Submission -> 0 .. MaxTexts + 1],
               \A t \in Submission \ {s} : printed'[t] = printed[t],
               UNCHANGED <<flags, pump>>
        PROVE  /\ worker' \in [Submission -> Phase] /\ Room'
               /\ worker[s] # "asking" /\ UNCHANGED prompts => Asked'
    <2>1. /\ worker' \in [Submission -> Phase]
          /\ worker'[s] = phase
          /\ \A t \in Submission \ {s} : worker'[t] = worker[t]
      BY <1>0, <1>3, GotoType
    <2>2. Room'
      BY <1>0, <1>3, <2>1 DEF Room, flags
    <2>3. ASSUME worker[s] # "asking", UNCHANGED prompts PROVE Asked'
      BY <1>0, <1>3, <2>1, <2>3, AskedKept DEF Asked
    <2> QED
      BY <2>1, <2>2, <2>3
  <1>4. CASE Start(s)
    <2>1. /\ worker[s] = "started" /\ Goto(s, "running") /\ Redirect(s, "stream")
          /\ UNCHANGED <<flags, printed, rendering, overlapped, queues, pump>>
      BY <1>4 DEF Start
    <2>2. worker' \in [Submission -> Phase] /\ Room' /\ Asked'
      BY <1>0, <1>3, <2>1 DEF Room, Threads, Phase, queues
    <2>3. stdout' \in Stdout /\ kept' \in [Submission \cup {Main} -> Stdout]
      BY <1>0, <2>1, StdoutType DEF Stdout
    <2> QED
      BY <1>0, <1>2, <2>1, <2>2, <2>3 DEF Threads, Queues, queues
  <1>5. CASE PrintText(s)
    <2>1. /\ Runs(s) /\ printed[s] < MaxTexts
          /\ printed' = [printed EXCEPT ![s] = @ + 1]
          /\ output' = IF stdout = "stream" THEN Append(output, NextText(s)) ELSE output
          /\ UNCHANGED <<flags, worker, stdout, kept, rendering, overlapped,
                         prompts, events, transcript, pump>>
      BY <1>5 DEF PrintText
    <2>2. /\ printed[s] + 1 \in 1 .. MaxTexts /\ printed' \in [Submission -> 0 .. MaxTexts + 1]
          /\ printed'[s] <= MaxTexts /\ \A t \in Submission \ {s} : printed'[t] = printed[t]
      BY <1>0, <2>1, GuiAssumption DEF Threads
    <2>3. NextText(s) \in Text
      BY <2>2, GuiAssumption DEF NextText, Text
    <2>4. output' \in Seq(Text)
      BY <1>0, <2>1, <2>3 DEF Queues
    <2>5. Room' /\ Asked'
      BY <1>0, <2>1, <2>2, AskedKept DEF Room, Asked, flags
    <2> QED
      BY <1>0, <1>2, <2>1, <2>2, <2>4, <2>5 DEF Threads, Queues
  <1>6. CASE AskUser(s)
    <2>1. /\ worker[s] = "running" /\ Goto(s, "asking") /\ prompts' = Append(prompts, s)
          /\ UNCHANGED <<flags, printed, stdout, kept, rendering, overlapped,
                         output, events, transcript, pump>>
      BY <1>6 DEF AskUser
    <2>2. prompts' \in Seq(Submission) /\ prompts \in Seq(Submission)
      BY <1>0, <2>1 DEF Queues
    <2>3. worker' \in [Submission -> Phase] /\ Room'
      BY <1>0, <1>3, <2>1, <2>2 DEF Room, Threads, Phase
    <2>4. /\ worker'[s] = "asking"
          /\ \A t \in Submission \ {s} : worker'[t] = worker[t]
      BY <1>0, <2>1, GotoType DEF Phase
    <2>5. /\ Len(prompts') = Len(prompts) + 1 /\ Len(prompts) \in Nat
          /\ prompts'[Len(prompts) + 1] = s
          /\ \A i \in 1 .. Len(prompts) : prompts'[i] = prompts[i] /\ prompts[i] \in Submission
      BY <2>1, <2>2, AppendProperties, LenProperties, ElementOfSeq
    <2>6. \A i \in 1 .. Len(prompts) : prompts[i] # s /\ worker[prompts[i]] = "asking"
      BY <1>0, <2>1 DEF Asked
    <2>7. Asked'
      BY <1>0, <2>1, <2>2, <2>4, <2>5, <2>6, EmptySeq DEF Asked
    <2> QED
      BY <1>0, <1>2, <2>1, <2>2, <2>3, <2>7 DEF Threads, Queues
  <1>7. CASE Leave(s)
    <2>1. PICK how \in {"left", "exits", "failed"} : Goto(s, how)
      BY <1>7 DEF Leave
    <2>2. /\ Runs(s) /\ PutBack(s)
          /\ UNCHANGED <<flags, printed, rendering, overlapped, queues, pump>>
      BY <1>7 DEF Leave
    <2>3. worker' \in [Submission -> Phase] /\ Room' /\ Asked'
      BY <1>0, <1>3, <2>1, <2>2 DEF Room, Threads, Phase, queues, Runs
    <2>4. stdout' \in Stdout /\ kept' \in [Submission \cup {Main} -> Stdout]
      BY <1>0, <2>2, StdoutType DEF Stdout
    <2> QED
      BY <1>0, <1>2, <2>2, <2>3, <2>4 DEF Threads, Queues, queues
  <1>8. CASE Report(s)
    <2>1. /\ worker[s] = "failed" /\ Goto(s, "left")
          /\ printed' = [printed EXCEPT ![s] = @ + 1]
          /\ output' = Append(output, NextText(s))
          /\ events' = Append(events, [kind |-> "error", exit |-> FALSE])
          /\ UNCHANGED <<flags, stdout, kept, rendering, overlapped, prompts, transcript, pump>>
      BY <1>8 DEF Report
    <2>2. printed[s] \in 0 .. MaxTexts
      <3>1. printed[s] <= MaxTexts
        BY <1>0, <2>1 DEF Room
      <3>2. printed[s] \in 0 .. MaxTexts + 1
        BY <1>0 DEF Threads
      <3> QED
        BY <3>1, <3>2, GuiAssumption
    <2>3. /\ printed[s] + 1 \in 1 .. MaxTexts + 1 /\ printed' \in [Submission -> 0 .. MaxTexts + 1]
          /\ \A t \in Submission \ {s} : printed'[t] = printed[t]
      BY <1>0, <2>1, <2>2, GuiAssumption DEF Threads
    <2>4. NextText(s) \in Text /\ [kind |-> "error", exit |-> FALSE] \in Event
      BY <2>3, EventType DEF NextText, Text
    <2>5. output' \in Seq(Text) /\ events' \in Seq(Event)
      <3> HIDE DEF NextText
      <3> QED
        BY <1>0, <2>1, <2>4 DEF Queues
    <2>6. worker' \in [Submission -> Phase] /\ Room' /\ Asked'
      BY <1>0, <1>3, <2>1, <2>3 DEF Room, Phase
    <2> QED
      BY <1>0, <1>2, <2>1, <2>3, <2>5, <2>6 DEF Threads, Queues
  <1>9. CASE Complete(s)
    <2> DEFINE e == [kind |-> "complete", exit |-> worker[s] = "exits"]
    <2>1. /\ worker[s] \in {"left", "exits"} /\ Goto(s, "done")
          /\ events' = Append(events, e)
          /\ UNCHANGED <<flags, printed, stdout, kept, rendering, overlapped,
                         output, prompts, transcript, pump>>
      BY <1>9 DEF Complete
    <2>2. e \in Event
      BY EventType
    <2>3. events' \in Seq(Event)
      <3> HIDE DEF e
      <3> QED
        BY <1>0, <2>1, <2>2 DEF Queues
    <2>4. worker' \in [Submission -> Phase] /\ Room' /\ Asked'
      BY <1>0, <1>3, <2>1 DEF Room, Threads, Phase
    <2> QED
      BY <1>0, <1>2, <2>1, <2>3, <2>4 DEF Threads, Queues
  <1> QED
    BY <1>1, <1>4, <1>5, <1>6, <1>7, <1>8, <1>9 DEF Worker

LEMMA PumpTyped ==
  ASSUME Typed, PumpStep \/ Answer
  PROVE  Typed'
  <1>0. Flags /\ Counts /\ Threads /\ Queues /\ Room /\ Asked
    BY DEF Typed
  <1>1. CASE DrainOutput
    <2>1. /\ ShowAll /\ pump' = "prompts"
          /\ UNCHANGED <<flags, threads, prompts, events>>
      BY <1>1 DEF DrainOutput
    <2>2. Flags'
      BY <1>0, <2>1, Zenon DEF Flags, flags, threads
    <2>3. transcript' \in Seq(Text) /\ output' \in Seq(Text)
      BY <1>0, <2>1, ShowAllType
    <2>4. Counts' /\ Threads' /\ Queues' /\ Room'
      BY <1>0, <2>1, <2>3 DEF Counts, Threads, Queues, Room, flags, threads, Pump
    <2>5. Asked'
      BY <1>0, <2>1, AskedKept DEF threads
    <2> QED
      BY <2>2, <2>4, <2>5 DEF Typed
  <1>2. CASE DrainPrompt \/ Schedule
    <2>1. /\ pump' \in {"events", "dialog", "due"}
          /\ pump' = "dialog" => prompts # <<>>
          /\ UNCHANGED <<flags, threads, queues>>
      BY <1>2 DEF DrainPrompt, Schedule
    <2>2. Flags'
      BY <1>0, <2>1, Zenon DEF Flags, flags, threads
    <2>3. Counts' /\ Threads' /\ Queues' /\ Room'
      BY <1>0, <2>1 DEF Counts, Threads, Queues, Room, flags, threads, queues, Pump
    <2>4. Asked'
      BY <1>0, <2>1, AskedKept DEF threads, queues
    <2> QED
      BY <2>2, <2>3, <2>4 DEF Typed
  <1>3. CASE Answer
    <2>1. /\ pump = "dialog" /\ Goto(Head(prompts), "answered")
          /\ prompts' = Tail(prompts) /\ pump' = "prompts"
          /\ UNCHANGED <<flags, printed, stdout, kept, rendering, overlapped,
                         output, events, transcript>>
      BY <1>3 DEF Answer, Woken
    <2>2. prompts \in Seq(Submission) /\ prompts # <<>>
      BY <1>0, <2>1 DEF Asked, Queues
    <2>3. Tail(prompts) \in Seq(Submission) /\ Head(prompts) \in Submission
      BY <2>2, TailSeq
    <2>4. Head(prompts) = prompts[1] /\ Len(prompts) \in Nat \ {0} /\ worker[prompts[1]] = "asking"
      BY <1>0, <2>2, HeadTailProperties, LenProperties, EmptySeq DEF Asked
    <2>9. /\ Len(prompts') = Len(prompts) - 1
          /\ \A i \in 1 .. Len(prompts) - 1 : prompts'[i] = prompts[i + 1]
      BY <2>1, <2>2, HeadTailProperties
    <2>10. \A i \in 1 .. Len(prompts) : prompts[i] \in Submission
      BY <2>2, ElementOfSeq
    <2>5. /\ worker' \in [Submission -> Phase]
          /\ worker'[Head(prompts)] = "answered"
          /\ \A t \in Submission \ {Head(prompts)} : worker'[t] = worker[t]
      BY <1>0, <2>1, <2>3, GotoType DEF Phase
    <2>6. Flags'
      BY <1>0, <2>1, Zenon DEF Flags, flags
    <2>7. Counts' /\ Threads' /\ Queues'
      BY <1>0, <2>1, <2>3, <2>5 DEF Counts, Threads, Queues, flags, Pump
    <2>8. Room'
      BY <1>0, <2>1, <2>3, <2>4, <2>5 DEF Room, flags
    <2>11. \A i \in 1 .. Len(prompts) - 1 :
             prompts[i + 1] # Head(prompts) /\ worker[prompts[i + 1]] = "asking"
      BY <1>0, <2>4 DEF Asked
    <2>12. Asked'
      BY <1>0, <2>1, <2>4, <2>5, <2>9, <2>10, <2>11 DEF Asked
    <2> QED
      BY <2>6, <2>7, <2>8, <2>12 DEF Typed
  <1>4. CASE DrainError
    <2>1. /\ events # <<>> /\ events' = Tail(events)
          /\ pump' \in {"stopped", "events"}
          /\ UNCHANGED <<flags, threads, output, prompts, transcript>>
      BY <1>4 DEF DrainError, AfterRefresh
    <2>2. events' \in Seq(Event)
      BY <1>0, <2>1, TailSeq DEF Queues
    <2>3. Flags'
      BY <1>0, <2>1, Zenon DEF Flags, flags, threads
    <2>4. Counts' /\ Threads' /\ Queues' /\ Room'
      BY <1>0, <2>1, <2>2 DEF Counts, Threads, Queues, Room, flags, threads, Pump
    <2>5. Asked'
      BY <1>0, <2>1, AskedKept DEF threads
    <2> QED
      BY <2>3, <2>4, <2>5 DEF Typed
  <1>5. CASE DrainComplete
    <2>1. /\ events # <<>> /\ events' = Tail(events) /\ busy' = FALSE
          /\ UNCHANGED <<closeWhenIdle, submitted, threads, prompts>>
          /\ \/ Finalize /\ pump' \in {"modal", "events"}
             \/ /\ pump' \in {"stopped", "events"}
                /\ UNCHANGED <<window, stale, accepted, output, transcript>>
      BY <1>5 DEF DrainComplete, AfterRefresh
    <2>2. events' \in Seq(Event)
      BY <1>0, <2>1, TailSeq DEF Queues
    <2>3. /\ stale' \in BOOLEAN /\ accepted' \in {accepted, submitted}
          /\ window' \in {window, "summary", "closing"}
          /\ output' \in Seq(Text) /\ transcript' \in Seq(Text)
          /\ pump' \in {"modal", "stopped", "events"}
      <3>1. CASE Finalize /\ pump' \in {"modal", "events"}
        <4>1. /\ window' \in {"summary", "closing"} /\ stale' = TRUE
              /\ accepted' = submitted /\ transcript' \in Seq(Text) /\ output' \in Seq(Text)
          BY <1>0, <3>1, FinalizeType
        <4> QED
          BY <3>1, <4>1
      <3>2. CASE /\ pump' \in {"stopped", "events"}
                 /\ UNCHANGED <<window, stale, accepted, output, transcript>>
        BY <1>0, <3>2 DEF Flags, Queues
      <3> QED
        BY <2>1, <3>1, <3>2
    <2>4. Flags'
      BY <1>0, <2>1, <2>3, Zenon DEF Flags, threads
    <2>5. Counts'
      <3>1. submitted \in 0 .. MaxSubmissions /\ accepted \in 0 .. submitted
        BY <1>0 DEF Counts
      <3>2. accepted' \in 0 .. submitted'
        BY <2>1, <2>3, <3>1, GuiAssumption
      <3> QED
        BY <1>0, <2>1, <2>3, <3>2 DEF Counts, Pump
    <2>6. Threads' /\ Queues' /\ Room'
      BY <1>0, <2>1, <2>2, <2>3 DEF Threads, Queues, Room, threads
    <2>7. Asked'
      BY <1>0, <2>1, <2>3, AskedKept DEF threads
    <2> QED
      BY <2>4, <2>5, <2>6, <2>7 DEF Typed
  <1> QED
    BY <1>1, <1>2, <1>3, <1>4, <1>5 DEF PumpStep

LEMMA StepTyped == Typed /\ [Next]_vars => Typed'
  <1> SUFFICES ASSUME Typed, [Next]_vars PROVE Typed'
    OBVIOUS
  <1>1. CASE UNCHANGED vars
    <2>1. Flags /\ Counts /\ Threads /\ Queues /\ Room /\ Asked
      BY DEF Typed
    <2>2. Flags'
      BY <1>1, <2>1, Zenon DEF Flags, vars, flags, threads
    <2>3. Counts' /\ Threads' /\ Queues' /\ Room'
      BY <1>1, <2>1 DEF Counts, Threads, Queues, Room, vars, flags, threads, queues
    <2>4. Asked'
      BY <1>1, <2>1, AskedKept DEF vars, threads, queues, Asked
    <2> QED
      BY <2>2, <2>3, <2>4 DEF Typed
  <1> QED
    BY <1>1, UserTyped, RenderTyped, WorkerTyped, PumpTyped DEF Next

\* The window, its threads and its queues keep their types (Gui!TypeOK), for
\* any number of submissions and texts.
THEOREM TypeCorrect == Spec => []TypeOK
  <1>1. Spec => []Typed
    BY InitTyped, StepTyped, PTL DEF Spec
  <1>2. Typed => TypeOK
    BY TypedParts DEF Typed
  <1> QED
    BY <1>1, <1>2, PTL
-----------------------------------------------------------------------------
(* One submission at a time.                                               *)

\* The flag is up while a thread is alive and until the event that frees the
\* window is taken from the queue; there is at most one of both together.
Occupied ==
  /\ OneAtATime
  /\ \A s \in Submission : Alive(s) => busy
  /\ \A i \in 1 .. Len(events) :
       Frees(events[i]) => busy /\ \A s \in Submission : ~Alive(s)
  /\ \A i, j \in 1 .. Len(events) : Frees(events[i]) /\ Frees(events[j]) => i = j

LEMMA InitOccupied == Init => Occupied
  BY DEF Init, Occupied, OneAtATime, Alive

\* A step in which no thread begins or ends, and no event comes or goes.
LEMMA OccupiedKept ==
  ASSUME Occupied, UNCHANGED <<busy, events>>,
         \A s \in Submission : Alive(s)' <=> Alive(s)
  PROVE  Occupied'
  BY DEF Occupied, OneAtATime, Frees

\* The first event is taken from the queue.
LEMMA TailOccupied ==
  ASSUME Queues, Occupied, events # <<>>, events' = Tail(events), UNCHANGED worker,
         busy' = busy \/ Frees(Head(events))
  PROVE  Occupied'
  <1>1. /\ Len(events) \in Nat \ {0} /\ Len(events') = Len(events) - 1
        /\ Head(events) = events[1]
        /\ \A i \in 1 .. Len(events) - 1 : events'[i] = events[i + 1]
    BY HeadTailProperties, LenProperties, EmptySeq DEF Queues
  <1>2. \A s \in Submission : Alive(s)' <=> Alive(s)
    BY DEF Alive
  <1>3. \A i \in 1 .. Len(events') :
          /\ i + 1 \in 1 .. Len(events) /\ i + 1 # 1
          /\ Frees(events[i + 1]) <=> Frees(events'[i])
    BY <1>1 DEF Frees
  <1>4. CASE busy' = busy
    BY <1>1, <1>2, <1>3, <1>4 DEF Occupied, OneAtATime, Frees
  <1>5. CASE Frees(Head(events))
    <2>1. 1 \in 1 .. Len(events) /\ Frees(events[1])
      BY <1>1, <1>5
    <2>2. \A i \in 1 .. Len(events') : ~Frees(events[i + 1])
      BY <1>3, <2>1 DEF Occupied
    <2>3. \A s \in Submission : ~Alive(s)
      BY <2>1 DEF Occupied
    <2> QED
      BY <1>2, <1>3, <2>2, <2>3 DEF Occupied, OneAtATime, Frees
  <1> QED
    BY <1>4, <1>5

LEMMA WorkerOccupied ==
  ASSUME Typed, Occupied, NEW s \in Submission, Worker(s)
  PROVE  Occupied'
  <1>0. Threads /\ Queues
    BY DEF Typed
  <1>1. CASE Start(s) \/ PrintText(s) \/ AskUser(s) \/ NoWriteCommand(s) \/ Leave(s)
    <2>1. UNCHANGED <<busy, events>>
      BY <1>1 DEF Start, PrintText, AskUser, NoWriteCommand, Leave, flags, queues
    <2>2. \/ UNCHANGED worker
          \/ /\ Alive(s)
             /\ \E phase \in {"running", "asking", "left", "exits", "failed"} : Goto(s, phase)
      BY <1>1 DEF Start, PrintText, AskUser, NoWriteCommand, Leave, threads, Alive, Runs
    <2>3. \A t \in Submission : Alive(t)' <=> Alive(t)
      BY <1>0, <2>2 DEF Alive, Goto, Threads
    <2> QED
      BY <2>1, <2>3, OccupiedKept
  <1>2. ASSUME NEW e \in Event, events' = Append(events, e), UNCHANGED busy,
               Alive(s), NEW phase \in Phase, Goto(s, phase),
               Frees(e) <=> phase = "done", phase \in {"left", "done"}
        PROVE  Occupied'
    <2>1. /\ Len(events') = Len(events) + 1 /\ Len(events) \in Nat
          /\ events'[Len(events) + 1] = e
          /\ \A i \in 1 .. Len(events) : events'[i] = events[i]
      BY <1>0, <1>2, AppendProperties, LenProperties DEF Queues
    <2>2. \A t \in Submission : t # s => ~Alive(t) /\ ~Alive(t)'
      BY <1>0, <1>2 DEF Occupied, OneAtATime, Alive, Goto, Threads
    <2>3. Alive(s)' <=> phase # "done"
      BY <1>0, <1>2 DEF Alive, Goto, Threads
    <2>4. busy' /\ \A i \in 1 .. Len(events) : ~Frees(events[i])
      BY <1>2 DEF Occupied
    <2>5. \A i \in 1 .. Len(events') :
            Frees(events'[i]) => i = Len(events) + 1 /\ Frees(e)
      BY <2>1, <2>4
    <2>6. \A i \in 1 .. Len(events') : Frees(events'[i]) => \A t \in Submission : ~Alive(t)'
      BY <1>2, <2>2, <2>3, <2>5
    <2> QED
      BY <2>2, <2>4, <2>5, <2>6 DEF Occupied, OneAtATime, Frees
  <1>3. CASE Report(s)
    <2>1. /\ Alive(s) /\ Goto(s, "left") /\ UNCHANGED busy
          /\ events' = Append(events, [kind |-> "error", exit |-> FALSE])
      BY <1>3 DEF Report, Alive, flags
    <2>2. [kind |-> "error", exit |-> FALSE] \in Event /\ "left" \in Phase
          /\ ~Frees([kind |-> "error", exit |-> FALSE])
      BY EventType DEF Phase, Frees
    <2> QED
      BY <2>1, <2>2, <1>2
  <1>4. CASE Complete(s)
    <2> DEFINE e == [kind |-> "complete", exit |-> worker[s] = "exits"]
    <2>1. /\ Alive(s) /\ Goto(s, "done") /\ UNCHANGED busy
          /\ events' = Append(events, e)
      BY <1>4 DEF Complete, Alive, flags
    <2>2. e \in Event /\ "done" \in Phase /\ Frees(e)
      BY EventType DEF Phase, Frees
    <2> HIDE DEF e
    <2> QED
      BY <2>1, <2>2, <1>2
  <1> QED
    BY <1>1, <1>3, <1>4 DEF Worker

LEMMA StepOccupied == Typed /\ Occupied /\ [Next]_vars => Occupied'
  <1> SUFFICES ASSUME Typed, Occupied, [Next]_vars PROVE Occupied'
    OBVIOUS
  <1>0. Threads /\ Queues /\ Counts
    BY DEF Typed
  <1>1. CASE \/ Quit \/ Dismiss \/ Destroy \/ ToggleNoWrite \/ Render \/ Rendered
             \/ DrainOutput \/ DrainPrompt \/ Schedule \/ UNCHANGED vars
    <2>1. UNCHANGED <<busy, events, worker>>
      BY <1>1 DEF Quit, Dismiss, Destroy, ToggleNoWrite, Render, Rendered, DrainOutput,
                  DrainPrompt, Schedule, vars, flags, threads, queues
    <2> QED
      BY <2>1, OccupiedKept DEF Alive
  <1>2. CASE Submit
    <2>1. /\ ~busy /\ busy' = TRUE /\ UNCHANGED events
          /\ worker' = [worker EXCEPT ![submitted + 1] = "started"]
      BY <1>2 DEF Submit, queues
    <2>2. \A s \in Submission : ~Alive(s)
      BY <2>1 DEF Occupied
    <2>3. \A i \in 1 .. Len(events) : ~Frees(events[i])
      BY <2>1 DEF Occupied
    <2>4. \A s \in Submission : Alive(s)' => s = submitted + 1
      BY <1>0, <2>1, <2>2 DEF Alive, Threads
    <2> QED
      BY <2>1, <2>3, <2>4 DEF Occupied, OneAtATime, Frees
  <1>3. CASE Answer
    <2>1. /\ UNCHANGED <<busy, events>> /\ Goto(Head(prompts), "answered")
          /\ worker[Head(prompts)] = "asking"
      <3>1. prompts \in Seq(Submission) /\ prompts # <<>>
            /\ \A i \in 1 .. Len(prompts) : worker[prompts[i]] = "asking"
        BY <1>3 DEF Answer, Typed, Asked, Queues
      <3>2. Head(prompts) = prompts[1] /\ 1 \in 1 .. Len(prompts)
        BY <3>1, HeadTailProperties, LenProperties, EmptySeq
      <3> QED
        BY <1>3, <3>1, <3>2 DEF Answer, Woken, flags
    <2>2. \A s \in Submission : Alive(s)' <=> Alive(s)
      BY <1>0, <2>1 DEF Alive, Goto, Threads
    <2> QED
      BY <2>1, <2>2, OccupiedKept
  <1>4. CASE DrainError
    BY <1>0, <1>4, TailOccupied DEF DrainError, flags, threads
  <1>5. CASE DrainComplete
    <2>1. /\ events # <<>> /\ events' = Tail(events) /\ UNCHANGED worker
          /\ Frees(Head(events))
      BY <1>5 DEF DrainComplete, threads
    <2> QED
      BY <1>0, <2>1, TailOccupied
  <1>6. ASSUME NEW s \in Submission, Worker(s) PROVE Occupied'
    BY <1>6, WorkerOccupied
  <1> QED
    BY <1>1, <1>2, <1>3, <1>4, <1>5, <1>6 DEF Next, PumpStep

\* However many submissions there are, no two threads run at once
\* (Gui!OneAtATime): the window is not given back before a thread has ended.
THEOREM OneThread == Spec => []OneAtATime
  <1>1. Spec => []Typed
    BY InitTyped, StepTyped, PTL DEF Spec
  <1>2. Spec => []Occupied
    BY <1>1, InitOccupied, StepOccupied, PTL DEF Spec
  <1>3. Occupied => OneAtATime
    BY DEF Occupied
  <1> QED
    BY <1>2, <1>3, PTL
-----------------------------------------------------------------------------
(* The window closes after what it accepted.                               *)

\* What is printed is added to the output by a thread that is alive.
LEMMA PrintedByAlive ==
  ASSUME Typed, NEW s \in Submission, Worker(s)
  PROVE  /\ UNCHANGED <<window, accepted, submitted>>
         /\ Alive(s)
         /\ \A t \in Submission \ {s} : worker'[t] = worker[t]
         /\ UNCHANGED output \/ (output' = Append(output, NextText(s)) /\ NextText(s) \in Text)
  <1>0. Threads /\ Room
    BY DEF Typed
  <1>1. UNCHANGED <<window, accepted, submitted>> /\ Alive(s)
    BY DEF Worker, Start, PrintText, AskUser, NoWriteCommand, Leave, Report, Complete,
           flags, Alive, Runs
  <1>2. \A t \in Submission \ {s} : worker'[t] = worker[t]
    BY <1>0 DEF Worker, Start, PrintText, AskUser, NoWriteCommand, Leave, Report, Complete,
           threads, Goto, Threads
  <1>3. UNCHANGED output \/ output' = Append(output, NextText(s))
    BY DEF Worker, Start, PrintText, AskUser, NoWriteCommand, Leave, Report, Complete, queues
  <1>4. NextText(s) \in Text \/ UNCHANGED output
    <2>1. CASE PrintText(s) \/ Report(s)
      <3>1. printed[s] <= MaxTexts /\ printed[s] \in 0 .. MaxTexts + 1
        BY <1>0, <2>1 DEF PrintText, Report, Room, Threads, Runs
      <3>2. printed[s] + 1 \in 1 .. MaxTexts + 1
        BY <3>1, GuiAssumption
      <3> QED
        BY <3>2 DEF NextText, Text
    <2>2. CASE ~(PrintText(s) \/ Report(s))
      BY <2>2 DEF Worker, Start, AskUser, NoWriteCommand, Leave, Complete, queues
    <2> QED
      BY <2>1, <2>2
  <1> QED
    BY <1>1, <1>2, <1>3, <1>4

LEMMA InitClosed == Init => ClosesFinished
  BY DEF Init, ClosesFinished

\* The window is finalized with no thread alive: all those there were are done.
LEMMA FinalizeCloses ==
  ASSUME Typed, Finalize, UNCHANGED worker, \A s \in Submission : ~Alive(s)
  PROVE  ClosesFinished'
  <1>1. output' = <<>> /\ accepted' = submitted
    BY FinalizeType DEF Typed
  <1>2. \A s \in 1 .. submitted : s \in Submission /\ ~(s > submitted)
    BY GuiAssumption DEF Typed, Counts, Submission
  <1>3. \A s \in 1 .. submitted : worker[s] = "done"
    BY <1>2 DEF Typed, Room, Alive
  <1> QED
    BY <1>1, <1>3 DEF ClosesFinished

LEMMA StepClosed == Typed /\ Occupied /\ ClosesFinished /\ [Next]_vars => ClosesFinished'
  <1> SUFFICES ASSUME Typed, Occupied, ClosesFinished, [Next]_vars PROVE ClosesFinished'
    OBVIOUS
  <1>0. Threads /\ Queues /\ Counts /\ Room
    BY DEF Typed
  <1>1. ASSUME UNCHANGED <<worker, accepted>>, output' \in {output, <<>>},
               window' # "open" => window # "open"
        PROVE  ClosesFinished'
    BY <1>1 DEF ClosesFinished
  <1>2. CASE \/ Dismiss \/ Destroy \/ ToggleNoWrite \/ Render \/ Rendered
             \/ DrainOutput \/ DrainPrompt \/ DrainError \/ Schedule \/ UNCHANGED vars
    <2>1. /\ UNCHANGED <<worker, accepted>> /\ output' \in {output, <<>>}
          /\ window' # "open" => window # "open"
      BY <1>2 DEF Dismiss, Destroy, ToggleNoWrite, Render, Rendered, DrainOutput, ShowAll,
                  DrainPrompt, DrainError, Schedule, vars, flags, threads, queues
    <2> QED
      BY <1>1, <2>1
  <1>3. CASE Quit
    <2>1. UNCHANGED worker
      BY <1>3 DEF Quit, threads
    <2>2. CASE ~MustWait /\ Finalize
      <3>1. \A s \in Submission : ~Alive(s)
        BY <2>2 DEF Occupied, MustWait
      <3> QED
        BY <2>1, <2>2, <3>1, FinalizeCloses
    <2>3. CASE UNCHANGED <<window, accepted, output>>
      BY <1>1, <2>1, <2>3
    <2> QED
      BY <1>3, <2>2, <2>3 DEF Quit
  <1>4. CASE DrainComplete
    <2>1. UNCHANGED worker /\ events # <<>> /\ Frees(Head(events))
      BY <1>4 DEF DrainComplete, threads
    <2>2. Head(events) = events[1] /\ 1 \in 1 .. Len(events)
      BY <1>0, <2>1, HeadTailProperties, LenProperties, EmptySeq DEF Queues
    <2>3. \A s \in Submission : ~Alive(s)
      BY <2>1, <2>2 DEF Occupied
    <2>4. CASE Finalize
      BY <2>1, <2>3, <2>4, FinalizeCloses
    <2>5. CASE UNCHANGED <<window, accepted, output>>
      BY <1>1, <2>1, <2>5
    <2> QED
      BY <1>4, <2>4, <2>5 DEF DrainComplete
  <1>5. CASE Submit
    <2>1. /\ UNCHANGED <<window, accepted, output>>
          /\ worker' = [worker EXCEPT ![submitted + 1] = "started"]
      BY <1>5 DEF Submit, queues
    <2>2. \A s \in 1 .. accepted : s \in Submission /\ s # submitted + 1
      BY <1>0, GuiAssumption DEF Counts, Submission
    <2>3. \A s \in 1 .. accepted : worker'[s] = worker[s]
      BY <1>0, <2>1, <2>2 DEF Threads
    <2> QED
      BY <2>1, <2>3 DEF ClosesFinished
  <1>6. CASE Answer
    <2>1. /\ UNCHANGED <<window, accepted, output>> /\ Goto(Head(prompts), "answered")
          /\ worker[Head(prompts)] = "asking"
      <3>1. prompts \in Seq(Submission) /\ prompts # <<>>
            /\ \A i \in 1 .. Len(prompts) : worker[prompts[i]] = "asking"
        BY <1>6 DEF Answer, Typed, Asked, Queues
      <3>2. Head(prompts) = prompts[1] /\ 1 \in 1 .. Len(prompts)
        BY <3>1, HeadTailProperties, LenProperties, EmptySeq
      <3> QED
        BY <1>6, <3>1, <3>2 DEF Answer, Woken, flags
    <2>2. \A s \in 1 .. accepted : s \in Submission
      BY <1>0, GuiAssumption DEF Counts, Submission
    <2>3. \A s \in 1 .. accepted : worker[s] = "done" => worker'[s] = "done"
      BY <1>0, <2>1, <2>2 DEF Goto, Threads
    <2> QED
      BY <2>1, <2>3 DEF ClosesFinished
  <1>7. ASSUME NEW s \in Submission, Worker(s) PROVE ClosesFinished'
    <2>1. /\ UNCHANGED <<window, accepted, submitted>> /\ Alive(s)
          /\ \A t \in Submission \ {s} : worker'[t] = worker[t]
          /\ UNCHANGED output \/ (output' = Append(output, NextText(s)) /\ NextText(s) \in Text)
      BY <1>7, PrintedByAlive
    <2>2. \A t \in 1 .. accepted : t \in Submission
      BY <1>0, GuiAssumption DEF Counts, Submission
    <2> SUFFICES ASSUME window # "open" PROVE ClosesFinished'
      BY <2>1 DEF ClosesFinished
    <2>3. s \notin 1 .. accepted /\ \A t \in 1 .. accepted : worker'[t] = "done"
      BY <2>1, <2>2 DEF ClosesFinished, Alive
    <2>4. s > accepted
      BY <1>0, <2>3, GuiAssumption DEF Counts, Submission
    <2>5. CASE UNCHANGED output
      BY <2>1, <2>3, <2>5 DEF ClosesFinished
    <2>6. CASE output' = Append(output, NextText(s)) /\ NextText(s) \in Text
      <3>1. NextText(s)[1] = s
        BY DEF NextText
      <3> HIDE DEF NextText
      <3>2. /\ Len(output') = Len(output) + 1 /\ Len(output) \in Nat
            /\ output'[Len(output) + 1] = NextText(s)
            /\ \A i \in 1 .. Len(output) : output'[i] = output[i]
        BY <1>0, <2>6, AppendProperties, LenProperties DEF Queues
      <3>3. DOMAIN output' = 1 .. Len(output') /\ DOMAIN output = 1 .. Len(output)
        BY <1>0, <2>6, AppendProperties, LenProperties DEF Queues
      <3>4. \A i \in 1 .. Len(output) : output[i][1] > accepted
        BY <3>3 DEF ClosesFinished
      <3>5. \A i \in DOMAIN output' : output'[i][1] > accepted
        BY <2>4, <3>1, <3>2, <3>3, <3>4
      <3> QED
        BY <2>1, <2>3, <3>5 DEF ClosesFinished
    <2> QED
      BY <2>1, <2>5, <2>6
  <1> QED
    BY <1>2, <1>3, <1>4, <1>5, <1>6, <1>7 DEF Next, PumpStep

\* The window is finalized only when every submission before has ended and
\* its texts are on the screen (Gui!ClosesFinished).
THEOREM CloseWaits == Spec => []ClosesFinished
  <1>1. Spec => []Typed
    BY InitTyped, StepTyped, PTL DEF Spec
  <1>2. Spec => []Occupied
    BY <1>1, InitOccupied, StepOccupied, PTL DEF Spec
  <1> QED
    BY <1>1, <1>2, InitClosed, StepClosed, PTL DEF Spec

\* Threads of submissions never overlap, and the window ends behind those it
\* accepted (OneAtATime and ClosesFinished).
THEOREM SubmissionsInOrder == Spec => []OneAfterAnother
  <1>1. OneAtATime /\ ClosesFinished => OneAfterAnother
    BY DEF OneAfterAnother
  <1> QED
    BY <1>1, OneThread, CloseWaits, PTL

-----------------------------------------------------------------------------
(* sys.stdout.                                                             *)

Redirected(s) == worker[s] \in {"running", "asking", "answered"}

\* While nothing overlaps, one redirection at a time is open, and what it will
\* put back is the process's own sys.stdout.
OwnStdout ==
  overlapped = {} =>
    /\ rendering => kept[Main] = "real" /\ Inside = {}
    /\ \A s \in Submission : Redirected(s) => kept[s] = "real"
    /\ ~rendering /\ (\A s \in Submission : ~Redirected(s)) => stdout = "real"

LEMMA InitOwn == Init => OwnStdout
  BY DEF Init, OwnStdout, Redirected

LEMMA OwnKept ==
  ASSUME OwnStdout, UNCHANGED <<stdout, kept, rendering, overlapped>>,
         \A s \in Submission : Redirected(s)' <=> Redirected(s),
         rendering => Inside' \subseteq Inside
  PROVE  OwnStdout'
  BY DEF OwnStdout

LEMMA StepOwn == Typed /\ Occupied /\ OwnStdout /\ [Next]_vars => OwnStdout'
  <1> SUFFICES ASSUME Typed, Occupied, OwnStdout, [Next]_vars PROVE OwnStdout'
    OBVIOUS
  <1>0. Threads /\ Queues /\ Counts /\ Room
    BY DEF Typed
  <1>1. CASE \/ Quit \/ Dismiss \/ Destroy \/ ToggleNoWrite \/ PumpStep \/ UNCHANGED vars
             \/ \E s \in Submission : NoWriteCommand(s) \/ PrintText(s)
    <2>1. UNCHANGED <<worker, stdout, kept, rendering, overlapped>>
      BY <1>1 DEF Quit, Dismiss, Destroy, ToggleNoWrite, PumpStep, DrainOutput, DrainPrompt,
                  DrainError, DrainComplete, Schedule, NoWriteCommand, PrintText, vars, threads
    <2> QED
      BY <2>1, OwnKept DEF Redirected, Inside
  <1>2. CASE Submit
    <2>1. /\ ~rendering /\ UNCHANGED <<stdout, kept, rendering, overlapped>>
          /\ worker' = [worker EXCEPT ![submitted + 1] = "started"]
      BY <1>2 DEF Submit, Ungrabbed, EventLoop
    <2>2. submitted + 1 \in Submission => worker[submitted + 1] = "none"
      BY <1>0, GuiAssumption DEF Room, Counts
    <2>3. \A s \in Submission : Redirected(s)' <=> Redirected(s)
      BY <1>0, <2>1, <2>2 DEF Redirected, Threads
    <2> QED
      BY <2>1, <2>3, OwnKept
  <1>3. CASE Answer
    <2>1. /\ UNCHANGED <<stdout, kept, rendering, overlapped>>
          /\ Goto(Head(prompts), "answered") /\ worker[Head(prompts)] = "asking"
      <3>1. prompts \in Seq(Submission) /\ prompts # <<>>
            /\ \A i \in 1 .. Len(prompts) : worker[prompts[i]] = "asking"
        BY <1>3 DEF Answer, Typed, Asked, Queues
      <3>2. Head(prompts) = prompts[1] /\ 1 \in 1 .. Len(prompts)
        BY <3>1, HeadTailProperties, LenProperties, EmptySeq
      <3> QED
        BY <1>3, <3>1, <3>2 DEF Answer, Woken
    <2>2. \A s \in Submission : Redirected(s)' <=> Redirected(s)
      BY <1>0, <2>1 DEF Redirected, Goto, Threads
    <2>3. Inside' \subseteq Inside
      BY <1>0, <2>1 DEF Inside, Goto, Threads
    <2> QED
      BY <2>1, <2>2, <2>3, OwnKept
  <1>4. CASE Render
    <2>1. /\ ~rendering /\ rendering' = TRUE /\ UNCHANGED worker
          /\ Redirect(Main, "buffer") /\ overlapped' = overlapped \cup Inside
      BY <1>4 DEF Render, Ungrabbed, EventLoop
    <2> SUFFICES ASSUME overlapped = {}, Inside = {} PROVE OwnStdout'
      BY <2>1 DEF OwnStdout
    <2>2. \A s \in Submission : ~Redirected(s)
      BY DEF Inside, Redirected
    <2>3. stdout = "real"
      BY <2>1, <2>2 DEF OwnStdout
    <2>4. kept'[Main] = "real" /\ Inside' = {} /\ \A s \in Submission : ~Redirected(s)'
      BY <1>0, <2>1, <2>2, <2>3 DEF Redirect, Threads, Inside, Redirected
    <2> QED
      BY <2>1, <2>4 DEF OwnStdout
  <1>5. CASE Rendered
    <2>1. /\ rendering /\ rendering' = FALSE /\ UNCHANGED <<worker, kept, overlapped>>
          /\ stdout' = kept[Main]
      BY <1>5 DEF Rendered, PutBack
    <2> QED
      BY <2>1 DEF OwnStdout, Redirected, Inside
  <1>6. ASSUME NEW s \in Submission, Start(s) PROVE OwnStdout'
    <2>1. /\ worker[s] = "started" /\ Goto(s, "running") /\ Redirect(s, "stream")
          /\ UNCHANGED <<rendering, overlapped>>
      BY <1>6 DEF Start
    <2> SUFFICES ASSUME overlapped = {} PROVE OwnStdout'
      BY <2>1 DEF OwnStdout
    <2>2. s \in Inside /\ ~rendering
      BY <2>1 DEF OwnStdout, Inside
    <2>3. \A t \in Submission : ~Redirected(t)
      BY <2>1 DEF Occupied, OneAtATime, Alive, Redirected
    <2>4. stdout = "real"
      BY <2>2, <2>3 DEF OwnStdout
    <2>5. /\ kept'[s] = "real" /\ Redirected(s)'
          /\ \A t \in Submission \ {s} : ~Redirected(t)'
      BY <1>0, <2>1, <2>3, <2>4 DEF Redirect, Goto, Threads, Redirected
    <2> QED
      BY <2>1, <2>2, <2>5 DEF OwnStdout
  <1>7. ASSUME NEW s \in Submission, Leave(s) PROVE OwnStdout'
    <2>1. /\ Runs(s) /\ stdout' = kept[s] /\ UNCHANGED <<rendering, overlapped, kept>>
          /\ \E how \in {"left", "exits", "failed"} : Goto(s, how)
      BY <1>7 DEF Leave, PutBack
    <2> SUFFICES ASSUME overlapped = {} PROVE OwnStdout'
      BY <2>1 DEF OwnStdout
    <2>2. Redirected(s) /\ s \in Inside
      BY <2>1 DEF Runs, Redirected, Inside
    <2>3. stdout' = "real" /\ ~rendering
      BY <2>1, <2>2 DEF OwnStdout
    <2>4. \A t \in Submission : ~Redirected(t)'
      BY <1>0, <2>1, <2>2 DEF Occupied, OneAtATime, Alive, Redirected, Goto, Threads
    <2> QED
      BY <2>1, <2>3, <2>4 DEF OwnStdout
  <1>8. ASSUME NEW s \in Submission, AskUser(s) \/ Report(s) \/ Complete(s) PROVE OwnStdout'
    <2>1. UNCHANGED <<stdout, kept, rendering, overlapped>>
      BY <1>8 DEF AskUser, Report, Complete
    <2>2. \A t \in Submission : Redirected(t)' <=> Redirected(t)
      BY <1>0, <1>8 DEF AskUser, Report, Complete, Redirected, Goto, Threads
    <2>3. Inside' \subseteq Inside
      BY <1>0, <1>8 DEF AskUser, Report, Complete, Inside, Goto, Threads
    <2> QED
      BY <2>1, <2>2, <2>3, OwnKept
  <1> QED
    BY <1>1, <1>2, <1>3, <1>4, <1>5, <1>6, <1>7, <1>8 DEF Next, Worker

\* sys.stdout is the process's own again between submissions, as long as no
\* tab was refreshed during one (Gui!StdoutRestored).
THEOREM StdoutOwn == Spec => []StdoutRestored
  <1>1. Spec => []Typed
    BY InitTyped, StepTyped, PTL DEF Spec
  <1>2. Spec => []Occupied
    BY <1>1, InitOccupied, StepOccupied, PTL DEF Spec
  <1>3. Spec => []OwnStdout
    BY <1>1, <1>2, InitOwn, StepOwn, PTL DEF Spec
  <1>4. OwnStdout => StdoutRestored
    BY DEF OwnStdout, StdoutRestored, Redirected, Alive
  <1> QED
    BY <1>3, <1>4, PTL

-----------------------------------------------------------------------------
(* What is printed.                                                        *)

\* A thread inside its redirection prints to the window, unless a refresh
\* overlapped it.
StreamOwn ==
  /\ rendering => Inside \subseteq overlapped
  /\ \A s \in Submission \ overlapped : Redirected(s) => stdout = "stream"

LEMMA InitStream == Init => StreamOwn
  BY DEF Init, StreamOwn, Redirected

LEMMA StreamKept ==
  ASSUME StreamOwn, UNCHANGED <<stdout, rendering, overlapped>>,
         \A s \in Submission : Redirected(s)' => Redirected(s),
         rendering => Inside' \subseteq Inside
  PROVE  StreamOwn'
  BY DEF StreamOwn

LEMMA StepStream == Typed /\ Occupied /\ StreamOwn /\ [Next]_vars => StreamOwn'
  <1> SUFFICES ASSUME Typed, Occupied, StreamOwn, [Next]_vars PROVE StreamOwn'
    OBVIOUS
  <1>0. Threads /\ Queues /\ Counts /\ Room
    BY DEF Typed
  <1>1. CASE \/ Quit \/ Dismiss \/ Destroy \/ ToggleNoWrite \/ PumpStep \/ UNCHANGED vars
             \/ \E s \in Submission : NoWriteCommand(s) \/ PrintText(s)
    <2>1. UNCHANGED <<worker, stdout, rendering, overlapped>>
      BY <1>1 DEF Quit, Dismiss, Destroy, ToggleNoWrite, PumpStep, DrainOutput, DrainPrompt,
                  DrainError, DrainComplete, Schedule, NoWriteCommand, PrintText, vars, threads
    <2> QED
      BY <2>1, StreamKept DEF Redirected, Inside
  <1>2. CASE Submit
    <2>1. /\ ~rendering /\ UNCHANGED <<stdout, rendering, overlapped>>
          /\ worker' = [worker EXCEPT ![submitted + 1] = "started"]
      BY <1>2 DEF Submit, Ungrabbed, EventLoop
    <2>2. \A s \in Submission : Redirected(s)' => Redirected(s)
      BY <1>0, <2>1 DEF Redirected, Threads
    <2> QED
      BY <2>1, <2>2, StreamKept
  <1>3. CASE Answer
    <2>1. /\ UNCHANGED <<stdout, rendering, overlapped>>
          /\ Goto(Head(prompts), "answered") /\ worker[Head(prompts)] = "asking"
      <3>1. prompts \in Seq(Submission) /\ prompts # <<>>
            /\ \A i \in 1 .. Len(prompts) : worker[prompts[i]] = "asking"
        BY <1>3 DEF Answer, Typed, Asked, Queues
      <3>2. Head(prompts) = prompts[1] /\ 1 \in 1 .. Len(prompts)
        BY <3>1, HeadTailProperties, LenProperties, EmptySeq
      <3> QED
        BY <1>3, <3>1, <3>2 DEF Answer, Woken
    <2>2. \A s \in Submission : Redirected(s)' => Redirected(s)
      BY <1>0, <2>1 DEF Redirected, Goto, Threads
    <2>3. Inside' \subseteq Inside
      BY <1>0, <2>1 DEF Inside, Goto, Threads
    <2> QED
      BY <2>1, <2>2, <2>3, StreamKept
  <1>4. CASE Render
    <2>1. UNCHANGED worker /\ overlapped' = overlapped \cup Inside
      BY <1>4 DEF Render
    <2>2. \A s \in Submission : Redirected(s) => s \in overlapped'
      BY <2>1 DEF Inside, Redirected
    <2> QED
      BY <2>1, <2>2 DEF StreamOwn, Inside, Redirected
  <1>5. CASE Rendered
    <2>1. rendering /\ rendering' = FALSE /\ UNCHANGED <<worker, overlapped>>
      BY <1>5 DEF Rendered
    <2>2. \A s \in Submission : Redirected(s) => s \in overlapped
      BY <2>1 DEF StreamOwn, Inside, Redirected
    <2> QED
      BY <2>1, <2>2 DEF StreamOwn, Redirected
  <1>6. ASSUME NEW s \in Submission, Start(s) PROVE StreamOwn'
    <2>1. /\ worker[s] = "started" /\ Goto(s, "running") /\ stdout' = "stream"
          /\ UNCHANGED <<rendering, overlapped>>
      BY <1>6 DEF Start, Redirect
    <2>2. Inside' \subseteq Inside
      BY <1>0, <2>1 DEF Inside, Goto, Threads
    <2> QED
      BY <2>1, <2>2 DEF StreamOwn
  <1>7. ASSUME NEW s \in Submission, Leave(s) PROVE StreamOwn'
    <2>1. /\ Runs(s) /\ UNCHANGED <<rendering, overlapped>>
          /\ \E how \in {"left", "exits", "failed"} : Goto(s, how)
      BY <1>7 DEF Leave
    <2>2. \A t \in Submission : ~Redirected(t)'
      BY <1>0, <2>1 DEF Occupied, OneAtATime, Alive, Redirected, Runs, Goto, Threads
    <2>3. Inside' \subseteq Inside
      BY <1>0, <2>1 DEF Inside, Goto, Threads
    <2> QED
      BY <2>1, <2>2, <2>3 DEF StreamOwn
  <1>8. ASSUME NEW s \in Submission, AskUser(s) \/ Report(s) \/ Complete(s) PROVE StreamOwn'
    <2>1. UNCHANGED <<stdout, rendering, overlapped>>
      BY <1>8 DEF AskUser, Report, Complete
    <2>2. \A t \in Submission : Redirected(t)' => Redirected(t)
      BY <1>0, <1>8 DEF AskUser, Report, Complete, Redirected, Goto, Threads
    <2>3. Inside' \subseteq Inside
      BY <1>0, <1>8 DEF AskUser, Report, Complete, Inside, Goto, Threads
    <2> QED
      BY <2>1, <2>2, <2>3, StreamKept
  <1> QED
    BY <1>1, <1>2, <1>3, <1>4, <1>5, <1>6, <1>7, <1>8 DEF Next, Worker

\* One more text at the end: of the submission itself,
LEMMA WholeNext ==
  ASSUME NEW texts \in Seq(Text), NEW s \in Submission, NEW n \in Nat, Whole(s, n, texts)
  PROVE  Whole(s, n + 1, Append(texts, <<s, n + 1>>))
  <1> DEFINE x == <<s, n + 1>>
             more == Append(texts, x)
  <1>1. x[1] = s /\ x[2] = n + 1
    OBVIOUS
  <1>2. /\ DOMAIN more = 1 .. Len(texts) + 1 /\ DOMAIN texts = 1 .. Len(texts)
        /\ Len(texts) \in Nat /\ more[Len(texts) + 1] = x
        /\ \A i \in 1 .. Len(texts) : more[i] = texts[i]
    OBVIOUS
  <1>3. \A i \in 1 .. Len(texts) : texts[i][1] = s => texts[i][2] <= n /\ texts[i][2] \in Nat
    BY <1>2, GuiAssumption DEF Whole, Text
  <1> HIDE DEF x, more
  <1>4. ASSUME NEW k \in 1 .. n + 1 PROVE \E i \in DOMAIN more : more[i] = <<s, k>>
    <2>1. CASE k = n + 1
      BY <1>2, <2>1 DEF x
    <2>2. CASE k # n + 1
      <3>1. PICK i \in DOMAIN texts : texts[i] = <<s, k>>
        BY <2>2 DEF Whole
      <3> QED
        BY <1>2, <3>1
    <2> QED
      BY <2>1, <2>2
  <1>5. \A i \in DOMAIN more : more[i][1] = s => more[i][2] <= n + 1
    BY <1>1, <1>2, <1>3
  <1>6. ASSUME NEW i \in DOMAIN more, NEW j \in DOMAIN more,
               i < j, more[i][1] = s, more[j][1] = s
        PROVE  more[i][2] < more[j][2]
    <2>1. i \in 1 .. Len(texts) /\ more[i] = texts[i] /\ texts[i][2] <= n /\ texts[i][2] \in Nat
      BY <1>2, <1>3, <1>6
    <2>2. CASE j = Len(texts) + 1
      BY <1>1, <1>2, <2>1, <2>2
    <2>3. CASE j # Len(texts) + 1
      BY <1>2, <1>6, <2>1, <2>3 DEF Whole
    <2> QED
      BY <2>2, <2>3
  <1>7. Whole(s, n + 1, more)
    BY <1>4, <1>5, <1>6 DEF Whole
  <1> QED
    BY <1>7 DEF more, x

\* and of another.
LEMMA WholeOther ==
  ASSUME NEW texts \in Seq(Text), NEW s \in Submission, NEW n \in Nat, Whole(s, n, texts),
         NEW x \in Text, x[1] # s
  PROVE  Whole(s, n, Append(texts, x))
  <1> DEFINE more == Append(texts, x)
  <1>1. /\ DOMAIN more = 1 .. Len(texts) + 1 /\ DOMAIN texts = 1 .. Len(texts)
        /\ Len(texts) \in Nat /\ more[Len(texts) + 1] = x
        /\ \A i \in 1 .. Len(texts) : more[i] = texts[i]
    OBVIOUS
  <1> HIDE DEF more
  <1>2. ASSUME NEW k \in 1 .. n PROVE \E i \in DOMAIN more : more[i] = <<s, k>>
    <2>1. PICK i \in DOMAIN texts : texts[i] = <<s, k>>
      BY DEF Whole
    <2> QED
      BY <1>1, <2>1
  <1>3. \A i \in DOMAIN more : more[i][1] = s => more[i][2] <= n
    BY <1>1 DEF Whole
  <1>4. ASSUME NEW i \in DOMAIN more, NEW j \in DOMAIN more,
               i < j, more[i][1] = s, more[j][1] = s
        PROVE  more[i][2] < more[j][2]
    <2>1. i \in DOMAIN texts /\ j \in DOMAIN texts
      BY <1>1, <1>4
    <2>2. more[i] = texts[i] /\ more[j] = texts[j]
      BY <1>1, <2>1
    <2> QED
      BY <1>4, <2>1, <2>2 DEF Whole
  <1>5. Whole(s, n, more)
    BY <1>2, <1>3, <1>4 DEF Whole
  <1> QED
    BY <1>5 DEF more

LEMMA InitLost == Init => NothingLost
  <1> SUFFICES ASSUME Init PROVE NothingLost
    OBVIOUS
  <1>1. transcript \o output = <<>> /\ \A s \in Submission : printed[s] = 0
    BY DEF Init
  <1> QED
    BY <1>1 DEF NothingLost, Whole

\* What is on its way to the transcript is never dropped.
LEMMA ShownOrDue ==
  ASSUME Queues, ShowAll
  PROVE  transcript' \o output' = transcript \o output
  BY DEF Queues, ShowAll

LEMMA LostKept ==
  ASSUME NothingLost, transcript' \o output' = transcript \o output,
         UNCHANGED printed, overlapped \subseteq overlapped'
  PROVE  NothingLost'
  BY DEF NothingLost

LEMMA StepLost == Typed /\ StreamOwn /\ NothingLost /\ [Next]_vars => NothingLost'
  <1> SUFFICES ASSUME Typed, StreamOwn, NothingLost, [Next]_vars PROVE NothingLost'
    OBVIOUS
  <1>0. Threads /\ Queues /\ Room
    BY DEF Typed
  <1>1. CASE Quit \/ DrainOutput \/ DrainComplete
    <2>1. UNCHANGED <<printed, overlapped>>
      BY <1>1 DEF Quit, DrainOutput, DrainComplete, threads
    <2>2. ShowAll \/ UNCHANGED <<transcript, output>>
      BY <1>1 DEF Quit, DrainOutput, DrainComplete, Finalize
    <2> QED
      BY <1>0, <2>1, <2>2, ShownOrDue, LostKept
  <1>2. CASE \/ Submit \/ Dismiss \/ Destroy \/ ToggleNoWrite \/ Render \/ Rendered \/ Answer
             \/ DrainPrompt \/ DrainError \/ Schedule \/ UNCHANGED vars
    <2>1. UNCHANGED <<printed, transcript, output>> /\ overlapped \subseteq overlapped'
      BY <1>2 DEF Submit, Dismiss, Destroy, ToggleNoWrite, Render, Rendered, Answer,
                  DrainPrompt, DrainError, Schedule, vars, threads, queues
    <2> QED
      BY <2>1, LostKept
  <1>3. ASSUME NEW s \in Submission,
               Start(s) \/ AskUser(s) \/ NoWriteCommand(s) \/ Leave(s) \/ Complete(s)
        PROVE  NothingLost'
    <2>1. UNCHANGED <<printed, transcript, output, overlapped>>
      BY <1>3 DEF Start, AskUser, NoWriteCommand, Leave, Complete, threads, queues
    <2> QED
      BY <2>1, LostKept
  <1>4. ASSUME NEW s \in Submission, PrintText(s) \/ Report(s) PROVE NothingLost'
    <2>1. /\ printed' = [printed EXCEPT ![s] = @ + 1]
          /\ UNCHANGED <<transcript, overlapped>>
          /\ output' = Append(output, NextText(s)) \/ (s \in overlapped /\ UNCHANGED output)
      <3>1. CASE PrintText(s)
        <4>1. s \notin overlapped => stdout = "stream"
          BY <3>1 DEF PrintText, Runs, StreamOwn, Redirected
        <4> QED
          BY <3>1, <4>1 DEF PrintText
      <3>2. CASE Report(s)
        BY <3>2 DEF Report
      <3> QED
        BY <1>4, <3>1, <3>2
    <2>2. printed[s] \in Nat /\ printed'[s] = printed[s] + 1
          /\ \A t \in Submission \ {s} : printed'[t] = printed[t] /\ printed[t] \in Nat
      BY <1>0, <2>1, GuiAssumption DEF Threads
    <2>3. output' = Append(output, NextText(s)) => NextText(s) \in Text
      <3>1. printed[s] <= MaxTexts
        BY <1>0, <1>4 DEF PrintText, Report, Room, Threads, Runs
      <3> QED
        BY <2>2, <3>1, GuiAssumption DEF NextText, Text
    <2>4. transcript \o output \in Seq(Text) /\ transcript \in Seq(Text) /\ output \in Seq(Text)
      BY <1>0, ConcatProperties DEF Queues
    <2>5. CASE output' = Append(output, NextText(s))
      <3>1. transcript' \o output' = Append(transcript \o output, NextText(s))
        BY <2>1, <2>3, <2>4, <2>5
      <3>2. ASSUME NEW t \in Submission \ overlapped
            PROVE  Whole(t, printed'[t], transcript' \o output')
        <4>1. Whole(t, printed[t], transcript \o output)
          BY DEF NothingLost
        <4>2. CASE t = s
          BY <2>2, <2>4, <3>1, <4>1, <4>2, WholeNext DEF NextText
        <4>3. CASE t # s
          <5>1. NextText(s)[1] # t
            BY <4>3 DEF NextText
          <5>2. printed'[t] = printed[t] /\ printed[t] \in Nat
            BY <2>2, <4>3
          <5>3. NextText(s) \in Text
            BY <2>3, <2>5
          <5> HIDE DEF NextText
          <5>4. Whole(t, printed[t], Append(transcript \o output, NextText(s)))
            BY <2>4, <4>1, <5>1, <5>2, <5>3, WholeOther
          <5> QED
            BY <3>1, <5>2, <5>4
        <4> QED
          BY <4>2, <4>3
      <3> QED
        BY <2>1, <3>2 DEF NothingLost
    <2>6. CASE s \in overlapped /\ UNCHANGED output
      BY <2>1, <2>2, <2>6 DEF NothingLost
    <2> QED
      BY <2>1, <2>5, <2>6
  <1>5. ASSUME NEW s \in Submission, Worker(s) PROVE NothingLost'
    BY <1>3, <1>4, <1>5 DEF Worker
  <1> QED
    BY <1>1, <1>2, <1>5 DEF Next, PumpStep

\* Whatever the main thread does with sys.stdout meanwhile, a submission that
\* no refresh overlapped has all it printed in the transcript or on its way to
\* it, once and in its order (Gui!NothingLost).
THEOREM TextsArrive == Spec => []NothingLost
  <1>1. Spec => []Typed
    BY InitTyped, StepTyped, PTL DEF Spec
  <1>2. Spec => []Occupied
    BY <1>1, InitOccupied, StepOccupied, PTL DEF Spec
  <1>3. Spec => []StreamOwn
    BY <1>1, <1>2, InitStream, StepStream, PTL DEF Spec
  <1> QED
    BY <1>1, <1>3, InitLost, StepLost, PTL DEF Spec

-----------------------------------------------------------------------------
(* The refinement of ChatWindow.                                           *)

Shown == transcript \o output

\* The one thread is that of the last submission, and no text is shown that
\* its submission has not printed.
InTurn ==
  /\ \A s \in Submission : Alive(s) => s = submitted
  /\ \A i \in 1 .. Len(Shown) : Shown[i][2] <= printed[Shown[i][1]]

LEMMA InitTurn == Init => InTurn
  <1> SUFFICES ASSUME Init PROVE InTurn
    OBVIOUS
  <1>1. \A s \in Submission : ~Alive(s)
    BY DEF Init, Alive
  <1>2. Len(Shown) = 0
    BY DEF Init, Shown
  <1> QED
    BY <1>1, <1>2 DEF InTurn

\* Only a thread adds to what is shown, one text a step.
LEMMA ThreadShows ==
  ASSUME Typed, NEW s \in Submission, Worker(s)
  PROVE  /\ UNCHANGED <<busy, window, submitted, transcript>>
         /\ \/ UNCHANGED <<output, printed>>
            \/ /\ printed' = [printed EXCEPT ![s] = @ + 1]
               /\ UNCHANGED output \/ output' = Append(output, NextText(s))
  BY DEF Worker, Start, PrintText, AskUser, NoWriteCommand, Leave, Report, Complete, flags,
         threads, queues

LEMMA OthersShow ==
  ASSUME Typed, [Next]_vars, ~\E s \in Submission : Worker(s)
  PROVE  Shown' = Shown /\ UNCHANGED printed
  <1>0. Queues
    BY DEF Typed
  <1>1. UNCHANGED printed
    BY DEF Next, PumpStep, Submit, Quit, Dismiss, Destroy, ToggleNoWrite, Render, Rendered, Answer,
           DrainOutput, DrainPrompt, DrainError, DrainComplete, Schedule, vars, threads
  <1>2. ShowAll \/ UNCHANGED <<transcript, output>>
    BY DEF Next, PumpStep, Submit, Quit, Dismiss, Destroy, ToggleNoWrite, Render, Rendered, Answer,
           DrainOutput, DrainPrompt, DrainError, DrainComplete, Schedule, vars, queues, Finalize
  <1> QED
    BY <1>0, <1>1, <1>2, ShownOrDue DEF Shown

\* One more text at the end.
LEMMA ShownMore ==
  ASSUME Queues, UNCHANGED transcript, NEW x \in Text, output' = Append(output, x)
  PROVE  /\ Shown' = Append(Shown, x)
         /\ Shown \in Seq(Text) /\ Len(Shown) \in Nat
         /\ Len(Shown') = Len(Shown) + 1 /\ Shown'[Len(Shown) + 1] = x
         /\ \A i \in 1 .. Len(Shown) : Shown'[i] = Shown[i]
  <1>1. transcript \in Seq(Text) /\ output \in Seq(Text)
    BY DEF Queues
  <1>2. Shown' = Append(Shown, x) /\ Shown \in Seq(Text)
    BY <1>1, ConcatProperties DEF Shown
  <1> HIDE DEF Shown
  <1> QED
    BY <1>2, AppendProperties, LenProperties

LEMMA StepTurn == Typed /\ Occupied /\ InTurn /\ [Next]_vars => InTurn'
  <1> SUFFICES ASSUME Typed, Occupied, InTurn, [Next]_vars PROVE InTurn'
    OBVIOUS
  <1>0. Threads /\ Queues /\ Counts /\ Room
    BY DEF Typed
  <1>00. Shown \in Seq(Text) /\ \A i \in 1 .. Len(Shown) : Shown[i] \in Text /\ Shown[i][1] \in Submission
    <2>1. Shown \in Seq(Text)
      BY <1>0, ConcatProperties DEF Shown, Queues
    <2>2. \A i \in 1 .. Len(Shown) : Shown[i] \in Text
      BY <2>1, ElementOfSeq
    <2>3. \A x \in Text : x[1] \in Submission
      BY DEF Text
    <2> QED  BY <2>1, <2>2, <2>3
  \* No thread begins, and nothing is printed.
  <1>1. ASSUME Shown' = Shown, UNCHANGED <<printed, submitted>>,
               \A s \in Submission : Alive(s)' => Alive(s)
        PROVE  InTurn'
    BY <1>1 DEF InTurn
  <1>2. CASE Submit
    <2>1. /\ ~busy /\ submitted' = submitted + 1
          /\ worker' = [worker EXCEPT ![submitted + 1] = "started"]
          /\ UNCHANGED <<printed, transcript, output>>
      BY <1>2 DEF Submit, queues
    <2>2. \A s \in Submission : ~Alive(s)
      BY <2>1 DEF Occupied
    <2>3. \A s \in Submission : Alive(s)' => s = submitted'
      BY <1>0, <2>1, <2>2 DEF Alive, Threads
    <2>4. Shown' = Shown
      BY <2>1 DEF Shown
    <2> QED
      BY <2>1, <2>3, <2>4 DEF InTurn
  <1>3. CASE Answer
    <2>1. Goto(Head(prompts), "answered") /\ worker[Head(prompts)] = "asking"
          /\ UNCHANGED <<submitted, printed, transcript, output>>
      <3>1. prompts \in Seq(Submission) /\ prompts # <<>>
            /\ \A i \in 1 .. Len(prompts) : worker[prompts[i]] = "asking"
        BY <1>3 DEF Answer, Typed, Asked, Queues
      <3>2. Head(prompts) = prompts[1] /\ 1 \in 1 .. Len(prompts)
        BY <3>1, HeadTailProperties, LenProperties, EmptySeq
      <3> QED
        BY <1>3, <3>1, <3>2 DEF Answer, Woken, flags
    <2>2. \A s \in Submission : Alive(s)' => Alive(s)
      BY <1>0, <2>1 DEF Alive, Goto, Threads
    <2>3. Shown' = Shown
      BY <2>1 DEF Shown
    <2> QED
      BY <1>1, <2>1, <2>2, <2>3
  <1>4. ASSUME NEW s \in Submission, Worker(s) PROVE InTurn'
    <2>1. /\ Alive(s) /\ UNCHANGED <<submitted, transcript>>
          /\ \A t \in Submission \ {s} : worker'[t] = worker[t]
          /\ UNCHANGED output \/ (output' = Append(output, NextText(s)) /\ NextText(s) \in Text)
      BY <1>4, PrintedByAlive, ThreadShows
    <2>2. \A t \in Submission : Alive(t)' => t = submitted'
      BY <2>1 DEF InTurn, Alive
    <2>3. /\ \A t \in Submission : printed[t] \in Nat /\ printed'[t] \in Nat /\ printed[t] <= printed'[t]
          /\ output' # output => printed'[s] = printed[s] + 1
      <3>1. UNCHANGED printed \/ printed' = [printed EXCEPT ![s] = @ + 1]
        BY <1>4, ThreadShows
      <3>2. output' # output => printed' = [printed EXCEPT ![s] = @ + 1]
        BY <1>4, ThreadShows
      <3> QED
        BY <1>0, <3>1, <3>2, GuiAssumption DEF Threads
    <2>4. \A i \in 1 .. Len(Shown) : Shown[i][2] <= printed'[Shown[i][1]]
      <3>1. \A x \in Text : x[2] \in Nat
        BY GuiAssumption DEF Text
      <3>2. ASSUME NEW i \in 1 .. Len(Shown) PROVE Shown[i][2] <= printed'[Shown[i][1]]
        <4> DEFINE x == Shown[i]
                   t == x[1]
        <4>1. x[2] \in Nat /\ t \in Submission /\ x[2] <= printed[t]
          BY <1>00, <3>1 DEF InTurn
        <4>2. printed[t] \in Nat /\ printed'[t] \in Nat /\ printed[t] <= printed'[t]
          BY <2>3, <4>1
        <4> HIDE DEF t
        <4>3. x[2] <= printed'[t]
          BY <4>1, <4>2
        <4> QED
          BY <4>3 DEF t
      <3> QED
        BY <3>2
    <2>5. CASE UNCHANGED output
      <3>1. Shown' = Shown
        BY <2>1, <2>5 DEF Shown
      <3> QED
        BY <2>2, <2>4, <3>1 DEF InTurn
    <2>6. CASE output' # output
      <3>1. output' = Append(output, NextText(s)) /\ NextText(s) \in Text
        BY <2>1, <2>6
      <3>2. NextText(s)[1] = s /\ NextText(s)[2] = printed[s] + 1
        BY DEF NextText
      <3> HIDE DEF NextText
      <3>3. /\ Len(Shown) \in Nat
            /\ Len(Shown') = Len(Shown) + 1 /\ Shown'[Len(Shown) + 1] = NextText(s)
            /\ \A i \in 1 .. Len(Shown) : Shown'[i] = Shown[i]
        BY <1>0, <2>1, <3>1, ShownMore
      <3>4. NextText(s)[2] <= printed'[NextText(s)[1]]
        BY <2>3, <2>6, <3>2
      <3>5. \A i \in 1 .. Len(Shown') : Shown'[i][2] <= printed'[Shown'[i][1]]
        BY <2>4, <3>3, <3>4
      <3> QED
        BY <2>2, <3>5 DEF InTurn
    <2> QED
      BY <2>5, <2>6
  <1>5. CASE ~(Submit \/ Answer \/ \E s \in Submission : Worker(s))
    <2>1. Shown' = Shown /\ UNCHANGED printed
      BY <1>5, OthersShow
    <2>2. UNCHANGED <<submitted, worker>>
      BY <1>5 DEF Next, PumpStep, Quit, Dismiss, Destroy, ToggleNoWrite, Render, Rendered,
                  DrainOutput, DrainPrompt, DrainError, DrainComplete, Schedule, vars, flags, threads
    <2> QED
      BY <1>1, <2>1, <2>2 DEF Alive
  <1> QED
    BY <1>2, <1>3, <1>4, <1>5

\* Every step of the window is one of the serial window, or stays in place.
LEMMA StepSerial ==
  ASSUME Typed, Occupied, InTurn, [Next]_vars
  PROVE  [Serial!Next]_Serial!vars
  <1>0. Threads /\ Queues /\ Counts /\ Room /\ Flags
    BY DEF Typed
  <1>1. ASSUME UNCHANGED <<submitted, busy>>, (window' # "open") <=> (window # "open"), Shown' = Shown
        PROVE  UNCHANGED Serial!vars
    BY <1>1 DEF Serial!vars, Shown
  <1>2. CASE Submit
    <2>1. /\ ~busy /\ busy' = TRUE /\ submitted' = submitted + 1
          /\ UNCHANGED <<window, transcript, output>>
      BY <1>2 DEF Submit, queues
    <2> QED
      BY <2>1 DEF Serial!Next, Serial!Ask
  <1>3. CASE Quit
    <2>1. Shown' = Shown /\ UNCHANGED <<busy, submitted>>
      <3>1. ShowAll \/ UNCHANGED <<transcript, output>>
        BY <1>3 DEF Quit, Finalize
      <3> QED
        BY <1>0, <1>3, <3>1, ShownOrDue DEF Quit, Shown
    <2>2. CASE UNCHANGED window
      BY <1>1, <2>1, <2>2
    <2>3. CASE ~MustWait /\ window = "open" /\ Finalize
      <3>1. ~busy /\ window = "open" /\ window' # "open"
        BY <2>3 DEF MustWait, Finalize
      <3> QED
        BY <2>1, <3>1 DEF Serial!Next, Serial!Close, Shown
    <2> QED
      BY <1>3, <2>2, <2>3 DEF Quit
  <1>4. CASE DrainComplete
    <2>1. /\ events # <<>> /\ Frees(Head(events)) /\ busy' = FALSE
          /\ UNCHANGED submitted
          /\ (ShowAll \/ UNCHANGED <<transcript, output>>)
          /\ (UNCHANGED window \/ window' # "open")
      BY <1>4 DEF DrainComplete, Finalize
    <2>2. Head(events) = events[1] /\ 1 \in 1 .. Len(events)
      BY <1>0, <2>1, HeadTailProperties, LenProperties, EmptySeq DEF Queues
    <2>3. busy
      BY <2>1, <2>2 DEF Occupied
    <2>4. Shown' = Shown
      BY <1>0, <2>1, ShownOrDue DEF Shown
    <2>5. (window' # "open") \in {window # "open", TRUE}
      <3>1. CASE UNCHANGED window
        BY <3>1
      <3>2. CASE window' # "open"
        BY <3>2, Zenon
      <3> QED
        BY <2>1, <3>1, <3>2
    <2>6. transcript' \o output' = transcript \o output
      BY <2>4 DEF Shown
    <2>7. Serial!End
      <3>1. UNCHANGED <<submitted, transcript \o output>>
        BY <2>1, <2>6
      <3>2. busy /\ busy' = FALSE
        BY <2>1, <2>3
      <3> QED
        BY <2>5, <3>1, <3>2, Zenon DEF Serial!End
    <2> QED
      BY <2>7 DEF Serial!Next
  <1>5. ASSUME NEW s \in Submission, Worker(s) PROVE [Serial!Next]_Serial!vars
    <2>1. /\ Alive(s) /\ UNCHANGED <<busy, window, submitted, transcript>>
          /\ UNCHANGED output \/ (output' = Append(output, NextText(s)) /\ NextText(s) \in Text)
      BY <1>5, PrintedByAlive, ThreadShows
    <2>2. busy /\ s = submitted
      BY <2>1 DEF Occupied, InTurn
    <2>3. CASE UNCHANGED output
      BY <1>1, <2>1, <2>3 DEF Shown
    <2>4. CASE output' = Append(output, NextText(s)) /\ NextText(s) \in Text
      <3> DEFINE k == printed[s] + 1
      <3>1. NextText(s) = <<submitted, k>> /\ k \in 1 .. MaxTexts + 1
        <4>1. NextText(s) = <<s, k>>
          BY DEF NextText
        <4>2. k \in 1 .. MaxTexts + 1
          BY <2>4, <4>1 DEF Text
        <4> QED  BY <2>2, <4>1, <4>2
      <3>2. Shown' = Append(Shown, NextText(s)) /\ DOMAIN Shown = 1 .. Len(Shown) /\ Shown \in Seq(Text)
        BY <1>0, <2>1, <2>4, ShownMore, LenProperties
      <3>3. ASSUME NEW i \in 1 .. Len(Shown), Shown[i][1] = submitted PROVE Shown[i][2] < k
        <4>1. Shown[i] \in Text
          BY <3>2, ElementOfSeq
        <4>2. Shown[i][2] \in Nat
          BY <4>1, GuiAssumption DEF Text
        <4>3. Shown[i][2] <= printed[s] /\ printed[s] \in Nat
          BY <1>0, <2>2, <3>3, GuiAssumption DEF InTurn, Threads
        <4> QED  BY <4>2, <4>3
      <3> HIDE DEF k
      <3> QED
        BY <2>1, <2>2, <3>1, <3>2, <3>3 DEF Serial!Next, Serial!Show, Shown
    <2> QED
      BY <2>1, <2>3, <2>4
  <1>6. CASE /\ ~(Submit \/ Quit \/ DrainComplete \/ \E s \in Submission : Worker(s))
    <2>1. Shown' = Shown
      BY <1>6, OthersShow
    <2>2. UNCHANGED <<submitted, busy>> /\ (window' # "open" <=> window # "open")
      BY <1>6 DEF Next, PumpStep, Dismiss, Destroy, ToggleNoWrite, Render, Rendered, Answer,
                  DrainOutput, DrainPrompt, DrainError, Schedule, vars, flags
    <2> QED
      BY <1>1, <2>1, <2>2
  <1> QED
    BY <1>2, <1>3, <1>4, <1>5, <1>6

\* The threads, the three queues and the flags of the window implement a
\* conversation told one submission at a time, for any number of submissions
\* and texts (start_submission, process_gui_queues and finalize_and_close).
THEOREM Implementation == Spec => ImplementsWindow
  <1>1. Init => Serial!Init
    BY DEF Init, Serial!Init
  <1>2. Spec => []Typed
    BY InitTyped, StepTyped, PTL DEF Spec
  <1>3. Spec => []Occupied
    BY <1>2, InitOccupied, StepOccupied, PTL DEF Spec
  <1>4. Spec => []InTurn
    BY <1>2, <1>3, InitTurn, StepTurn, PTL DEF Spec
  <1>5. Typed /\ Occupied /\ InTurn /\ [Next]_vars => [Serial!Next]_Serial!vars
    BY StepSerial
  <1> QED
    BY <1>1, <1>2, <1>3, <1>4, <1>5, PTL DEF Spec, ImplementsWindow, Serial!Spec
=============================================================================

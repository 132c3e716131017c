---------------------------- MODULE DuoChat_proofs ----------------------------
(***************************************************************************)
(* Proofs about DuoChat for every answer, every set of faults and every    *)
(* reply, cumulative or in fragments, of any length.                       *)
(***************************************************************************)
EXTENDS DuoChat, TLAPS

\* Appending to a prefix what lies beyond it gives the whole text.
LEMMA PrefixBeyond ==
  ASSUME NEW T, NEW s \in Seq(T), NEW t \in Seq(T), IsPrefix(s, t)
  PROVE  s \o Beyond(t, Len(s)) = t
BY DEF IsPrefix, Beyond

\* Two prefixes of the same text are ordered by their length.
LEMMA PrefixesOrdered ==
  ASSUME NEW T, NEW s \in Seq(T), NEW t \in Seq(T), NEW u \in Seq(T),
         IsPrefix(s, u), IsPrefix(t, u), Len(s) <= Len(t)
  PROVE  IsPrefix(s, t)
BY DEF IsPrefix

\* The first part of a prefix is a prefix.
LEMMA PrefixOfPrefix ==
  ASSUME NEW T, NEW s \in Seq(T), NEW t \in Seq(T), NEW u \in Seq(T),
         IsPrefix(s \o t, u)
  PROVE  IsPrefix(s, u)
BY DEF IsPrefix

\* What lies beyond a position of a text is a text.
LEMMA BeyondText ==
  ASSUME NEW T, NEW s \in Seq(T), NEW n \in Nat
  PROVE  Beyond(s, n) \in Seq(T)
BY DEF Beyond

\* Short sequences.
LEMMA ShortSeqs ==
  ASSUME NEW T
  PROVE  /\ << >> \in Seq(T) /\ Len(<< >>) <= 1 /\ DOMAIN << >> = {}
         /\ \A c \in T : <<c>> \in Seq(T) /\ Len(<<c>>) <= 1
         /\ \A c, d \in T : <<c, d>> \in Seq(T)
         /\ \A s \in Seq(T) : s # << >> => s[1] \in T
OBVIOUS

-----------------------------------------------------------------------------
(* Type correctness.                                                       *)

\* What the steps need to know about texts.
LEMMA TextFacts ==
  /\ << >> \in Text
  /\ Answer \in Text
  /\ \A s, t \in Text : s \o t \in Text
  /\ \A s \in Text, n \in Nat : Beyond(s, n) \in Text
  /\ \A s \in Text : Len(s) \in Nat /\ Remainder(s) \in Text
<1>1. \A s \in Text, n \in Nat : Beyond(s, n) \in Text
  BY BeyondText DEF Text
<1>2. Answer \in Text
  BY ConstantsAssumption
<1>3. \A s \in Text : Len(s) \in Nat
  BY DEF Text
<1>4. << >> \in Text /\ \A s, t \in Text : s \o t \in Text
  BY DEF Text
<1>. QED  BY <1>1, <1>2, <1>3, <1>4 DEF Remainder

\* The chunks of a script are texts.
LEMMA ScriptFacts ==
  ASSUME NEW s \in Scripts
  PROVE  \A i \in DOMAIN s : s[i] \in Text
BY ConstantsAssumption

LEMMA TypeInit == Init => TypeOK
<1>. SUFFICES ASSUME Init PROVE TypeOK
  OBVIOUS
<1>1. pending = << >> /\ items = << >> /\ buffered = << >>
  BY DEF Init
<1>5. DOMAIN pending = {} /\ items \in Seq(Text) /\ buffered \in Seq(Text) /\ Len(buffered) <= 1
  BY <1>1, ShortSeqs, Zenon
<1>2. accumulated \in Text /\ offered \in Text /\ taken \in Text
  BY TextFacts DEF Init
<1>3. phase \in Working /\ mode \in Modes /\ inflight = {} /\ script \in Scripts
  BY DEF Init, Working, Modes
<1>4. posts \in Nat /\ nextExpected \in Nat \ {0} /\ elapsed \in Nat /\ delay \in Nat \ {0}
  BY DEF Init
<1>6. cancelled \in BOOLEAN /\ sawFinal \in BOOLEAN
  BY Zenon DEF Init
<1>. QED  BY <1>1, <1>2, <1>3, <1>4, <1>5, <1>6 DEF TypeOK

\* Every step of the client and of its environment keeps the types.
LEMMA TypeStep == TypeOK /\ [Next]_vars => TypeOK'
<1> SUFFICES ASSUME TypeOK, [Next]_vars PROVE TypeOK'
  OBVIOUS
<1>. USE DEF TypeOK, Working, Over, Modes, Running, netVars, streamVars, pollVars, userVars,
             ChunkIds
<1>1. CASE Handshake
  BY <1>1 DEF Handshake, Connect, ConnectFails, UserQueryFails, Welcome, Confirm,
       HandshakeFails, HandshakeMalformed, PostQuestion, PostBreaks, PostRefused, Advance, FallBack, Fail
<1>2. CASE LoopTop
  BY <1>2 DEF LoopTop
<1>3. CASE RecvNothing \/ RecvError \/ RecvClosed \/ RecvBreaks
  BY <1>3 DEF RecvNothing, RecvError, RecvClosed, RecvBreaks, Advance, FallBack, Fail
<1>4. CASE RecvFinal
  BY <1>4, TextFacts DEF RecvFinal, Consume
<1>5. ASSUME NEW i \in ChunkIds, RecvChunk(i) PROVE TypeOK'
  <2>1. script[i] \in Text
    BY ScriptFacts
  <2>. QED  BY <1>5, <2>1 DEF RecvChunk, Consume
<1>6. ASSUME NEW i \in ChunkIds, RecvOddChunk(i) PROVE TypeOK'
  <2>1. script[i] \in Text
    BY ScriptFacts
  <2>. QED  BY <1>6, <2>1, TextFacts DEF RecvOddChunk, Consume
<1>7. CASE FlushChunk
  <2>1. /\ pending[nextExpected] \in Text
        /\ DOMAIN pending' \subseteq ChunkIds
        /\ \A i \in DOMAIN pending' : pending'[i] \in Text
        /\ nextExpected' \in Nat \ {0}
    BY <1>7 DEF FlushChunk
  <2>2. buffered \in Seq(Text) /\ Len(buffered) <= 1 /\ items \in Seq(Text) /\ mode \in Modes
    OBVIOUS
  <2>. DEFINE content == pending[nextExpected]
  <2>. HIDE DEF TypeOK, content
  <2>3. content \in Text
    BY <2>1 DEF content
  <2>4. \/ buffered' = buffered /\ items' = items
        \/ buffered' = <<content>> /\ items' = items
        \/ buffered' = << >> /\ items' = <<buffered[1], content>> /\ buffered # << >>
        \/ buffered' = buffered /\ items' = <<content>>
    BY <1>7 DEF FlushChunk, content
  <2>5. /\ buffered' \in Seq(Text) /\ Len(buffered') <= 1
        /\ items' \in Seq(Text)
    <3>1. CASE buffered' = buffered /\ items' = items
      BY <3>1, <2>2, Zenon
    <3>2. CASE buffered' = <<content>> /\ items' = items
      BY <3>2, <2>2, <2>3, ShortSeqs, Zenon
    <3>3. CASE buffered' = << >> /\ items' = <<buffered[1], content>> /\ buffered # << >>
      <4>1. buffered[1] \in Text
        BY <3>3, <2>2, ShortSeqs, Zenon
      <4>. QED  BY <4>1, <3>3, <2>3, ShortSeqs, Zenon
    <3>4. CASE buffered' = buffered /\ items' = <<content>>
      BY <3>4, <2>2, <2>3, ShortSeqs, Zenon
    <3>. QED  BY <2>4, <3>1, <3>2, <3>3, <3>4, Zenon
  <2>7. mode' \in Modes
    BY <1>7, <2>2 DEF FlushChunk, ModeOf
  <2>. QED  BY <1>7, <2>1, <2>5, <2>7 DEF FlushChunk, TypeOK
<1>8. CASE EmitItem
  <2>1. items \in Seq(Text) /\ accumulated \in Text /\ offered \in Text
    OBVIOUS
  <2>. HIDE DEF TypeOK
  <2>2. Head(items) \in Text /\ Tail(items) \in Seq(Text)
    BY <1>8, <2>1 DEF EmitItem
  <2>3. items' = << >> \/ items' = Tail(items)
    BY <1>8 DEF EmitItem
  <2>4. items' \in Seq(Text)
    BY <2>2, <2>3, ShortSeqs, Zenon
  <2>5. accumulated' \in Text /\ offered' \in Text
    BY <1>8, <2>1, <2>2, TextFacts DEF EmitItem
  <2>. QED  BY <1>8, <2>4, <2>5 DEF EmitItem, TypeOK
<1>9. CASE FlushDone \/ Unsubscribe \/ UnsubscribeFails
  BY <1>9 DEF FlushDone, Unsubscribe, UnsubscribeFails, Advance, FallBack
<1>10. CASE Polling
  <2>1. CASE PollPost \/ PollBreaks \/ PollTimesOut
    BY <2>1 DEF PollPost, PollBreaks, PollTimesOut, Fail
  <2>2. ASSUME NEW answered \in BOOLEAN, Poll(answered) PROVE TypeOK'
    <3>1. Lesser(2 * delay, MaxDelay) \in Nat \ {0}
      BY ConstantsAssumption DEF Lesser
    <3>2. elapsed' \in Nat /\ delay' \in Nat \ {0}
      BY <2>2, <3>1 DEF Poll
    <3>3. offered' \in Text
      BY <2>2, TextFacts DEF Poll
    <3>. QED  BY <2>2, <3>2, <3>3 DEF Poll
  <2>. QED  BY <1>10, <2>1, <2>2 DEF Polling
<1>11. CASE TakeDelta \/ DropDelta
  BY <1>11, TextFacts DEF TakeDelta, DropDelta
<1>12. CASE Environment
  BY <1>12 DEF Environment, Cancel, LoseChunk
<1>13. CASE UNCHANGED vars
  BY <1>13 DEF vars
<1>. QED
  BY <1>1, <1>2, <1>3, <1>4, <1>5, <1>6, <1>7, <1>8, <1>9, <1>10, <1>11, <1>12, <1>13
     DEF Next, Client, Receive, Returned

\* The variables of the call keep their types in every behaviour, for every
\* answer, every script and every set of faults.
THEOREM TypeCorrect == Spec => []TypeOK
<1>1. Init => TypeOK
  BY TypeInit
<1>2. TypeOK /\ [Next]_vars => TypeOK'
  BY TypeStep
<1>. QED  BY <1>1, <1>2, PTL DEF Spec

-----------------------------------------------------------------------------
(* How often the question is posted, and how long the client polls.        *)

\* Every step keeps the account of the questions posted.
LEMMA PostStep == TypeOK /\ PostCount /\ [Next]_vars => PostCount'
<1> SUFFICES ASSUME TypeOK, PostCount, [Next]_vars PROVE PostCount'
  OBVIOUS
<1>0. posts \in Nat /\ phase \in Working \cup Over
  BY DEF TypeOK
<1>. USE <1>0 DEF PostCount, Working, Over, Running, netVars, streamVars, pollVars, userVars
<1>1. CASE Handshake
  BY <1>1 DEF Handshake, Connect, ConnectFails, UserQueryFails, Welcome, Confirm,
       HandshakeFails, HandshakeMalformed, PostQuestion, PostBreaks, PostRefused, Advance, FallBack, Fail
<1>2. CASE LoopTop
  BY <1>2 DEF LoopTop
<1>3. CASE RecvNothing \/ RecvError \/ RecvClosed \/ RecvBreaks \/ RecvFinal
  BY <1>3 DEF RecvNothing, RecvError, RecvClosed, RecvBreaks, RecvFinal, Advance, FallBack, Fail
<1>4. ASSUME NEW i \in ChunkIds, RecvChunk(i) \/ RecvOddChunk(i) PROVE PostCount'
  BY <1>4 DEF RecvChunk, RecvOddChunk
<1>5. CASE FlushChunk \/ EmitItem \/ FlushDone
  BY <1>5 DEF FlushChunk, EmitItem, FlushDone, Advance
<1>6. CASE Unsubscribe \/ UnsubscribeFails
  BY <1>6 DEF Unsubscribe, UnsubscribeFails, Advance, FallBack
<1>7. CASE Polling
  BY <1>7 DEF Polling, PollPost, PollBreaks, PollTimesOut, Poll, Fail
<1>8. CASE TakeDelta \/ DropDelta
  BY <1>8 DEF TakeDelta, DropDelta
<1>9. CASE Environment
  BY <1>9 DEF Environment, Cancel, LoseChunk
<1>10. CASE UNCHANGED vars
  BY <1>10 DEF vars
<1>. QED
  BY <1>1, <1>2, <1>3, <1>4, <1>5, <1>6, <1>7, <1>8, <1>9, <1>10
     DEF Next, Client, Receive, Returned

\* One call of chat() never makes the server accept more than two questions:
\* the fallback to polling happens once, and polling never falls back.
THEOREM QuestionsBounded == Spec => []AtMostTwoQuestions
<1>1. Init => PostCount
  BY DEF Init, PostCount
<1>2. PostCount => AtMostTwoQuestions
  BY DEF PostCount, AtMostTwoQuestions
<1>. QED  BY <1>1, <1>2, PostStep, TypeCorrect, PTL DEF Spec

\* The pause never exceeds its cap and the time spent polling stays within
\* one pause of the budget.
Budget == delay <= MaxDelay /\ PollBudget

LEMMA BudgetStep == TypeOK /\ Budget /\ [Next]_vars => Budget'
<1> SUFFICES ASSUME TypeOK, Budget, [Next]_vars PROVE Budget'
  OBVIOUS
<1>0. elapsed \in Nat /\ delay \in Nat \ {0} /\ Timeout \in Nat /\ MaxDelay \in Nat \ {0}
  BY ConstantsAssumption DEF TypeOK
<1>1. CASE UNCHANGED pollVars
  BY <1>1 DEF Budget, PollBudget, pollVars
<1>2. CASE PollPost
  BY <1>0, <1>2 DEF Budget, PollBudget, PollPost
<1>3. ASSUME NEW answered \in BOOLEAN, Poll(answered) PROVE Budget'
  BY <1>0, <1>3 DEF Budget, PollBudget, Poll, Lesser
<1>4. UNCHANGED pollVars \/ PollPost \/ \E answered \in BOOLEAN : Poll(answered)
  BY DEF Next, Client, Environment, Returned, Handshake, Receive, Polling, vars, pollVars,
         Connect, ConnectFails, UserQueryFails, Welcome, Confirm, HandshakeFails,
         HandshakeMalformed, PostQuestion, PostBreaks, PostRefused, LoopTop, RecvNothing, RecvFinal, RecvError,
         RecvClosed, RecvBreaks, RecvChunk, RecvOddChunk, FlushChunk, EmitItem, FlushDone,
         Unsubscribe, UnsubscribeFails, PollBreaks, PollTimesOut, TakeDelta, DropDelta,
         Cancel, LoseChunk, Advance, FallBack, Fail
<1>. QED  BY <1>1, <1>2, <1>3, <1>4

\* chat_polling() ends within one pause of its timeout.
THEOREM PollingBounded == Spec => []PollBudget
<1>1. Init => Budget
  BY ConstantsAssumption DEF Init, Budget, PollBudget
<1>2. Budget => PollBudget
  BY DEF Budget
<1>. QED  BY <1>1, <1>2, BudgetStep, TypeCorrect, PTL DEF Spec

-----------------------------------------------------------------------------
(* The chunks of cumulative replies of any length.                         *)

CumulativeReplies == \A s \in Scripts : Cumulative(s)

\* What holds of prefixes of the answer.
LEMMA PrefixFacts ==
  /\ IsPrefix(<< >>, Answer)
  /\ \A s \in Text : s \o << >> = s /\ IsPrefix(s, s)
  /\ \A s, t \in Text : IsPrefix(s, t) => s \o Beyond(t, Len(s)) = t
  /\ \A s, t \in Text :
       IsPrefix(s, Answer) /\ IsPrefix(t, Answer) /\ Len(s) <= Len(t) => IsPrefix(s, t)
  /\ \A s, t \in Text : IsPrefix(s \o t, Answer) => IsPrefix(s, Answer)
  /\ \A s \in Text : IsPrefix(s, Answer) => s \o Remainder(s) = Answer
<1>1. Answer \in Text
  BY ConstantsAssumption
<1>2. IsPrefix(<< >>, Answer)
  BY <1>1 DEF Text, IsPrefix
<1>3. \A s \in Text : s \o << >> = s /\ IsPrefix(s, s)
  BY DEF Text, IsPrefix
<1>4. \A s, t \in Text : IsPrefix(s, t) => s \o Beyond(t, Len(s)) = t
  BY PrefixBeyond DEF Text
<1>5. \A s, t \in Text :
       IsPrefix(s, Answer) /\ IsPrefix(t, Answer) /\ Len(s) <= Len(t) => IsPrefix(s, t)
  BY <1>1, PrefixesOrdered DEF Text
<1>6. \A s, t \in Text : IsPrefix(s \o t, Answer) => IsPrefix(s, Answer)
  BY <1>1, PrefixOfPrefix DEF Text
<1>7. ASSUME NEW s \in Text, IsPrefix(s, Answer) PROVE s \o Remainder(s) = Answer
  <2>1. CASE Len(Answer) > Len(s)
    BY <1>1, <1>4, <1>7, <2>1 DEF Remainder
  <2>2. CASE ~(Len(Answer) > Len(s))
    <3>1. s = Answer
      BY <1>1, <1>7, <2>2 DEF IsPrefix, Text
    <3>. QED  BY <3>1, <2>2, <1>3, <1>1 DEF Remainder
  <2>. QED  BY <2>1, <2>2
<1>. QED  BY <1>2, <1>3, <1>4, <1>5, <1>6, <1>7

\* The chunks of a cumulative reply are prefixes of the answer, each of the next.
LEMMA ChunkFacts ==
  ASSUME Cumulative(script), TypeOK
  PROVE  /\ \A i \in ChunkIds : IsPrefix(script[i], Answer)
         /\ \A i, j \in ChunkIds : i < j => IsPrefix(script[i], script[j])
         /\ \A i \in ChunkIds : script[i] \in Text
BY ScriptFacts DEF Cumulative, TypeOK, ChunkIds

\* Steps of the client that leave the chunks alone.
Quiet == UNCHANGED <<script, streamVars>>

LEMMA QuietOrder == ChunksInOrder /\ Quiet => ChunksInOrder'
BY DEF ChunksInOrder, Quiet, streamVars, ChunkIds

\* The steps that touch the chunks.
LEMMA ChunkSteps ==
  ASSUME [Next]_vars
  PROVE  \/ Quiet \/ FlushChunk \/ EmitItem
         \/ \E i \in ChunkIds : RecvChunk(i) \/ RecvOddChunk(i)
BY DEF Next, Client, Environment, Returned, Handshake, Receive, Polling, vars, pollVars,
         Quiet, netVars, Connect, ConnectFails, UserQueryFails, Welcome, Confirm, HandshakeFails,
         HandshakeMalformed, PostQuestion, PostBreaks, PostRefused, LoopTop, RecvNothing, RecvFinal, RecvError,
         RecvClosed, RecvBreaks, FlushDone, Unsubscribe, UnsubscribeFails, PollPost, Poll,
         PollBreaks, PollTimesOut, TakeDelta, DropDelta, Cancel, LoseChunk, Advance,
         FallBack, Fail

\* Every other step keeps the waiting chunks in order.
LEMMA ChunksStep ==
  ASSUME Cumulative(script), TypeOK, ChunksInOrder, [Next]_vars
  PROVE  ChunksInOrder'
<1>0. /\ accumulated \in Text /\ items \in Seq(Text) /\ mode \in Modes
      /\ buffered \in Seq(Text) /\ Len(buffered) <= 1
      /\ nextExpected \in Nat \ {0} /\ DOMAIN pending \subseteq ChunkIds
      /\ ChunkIds \subseteq Nat
  BY ScriptFacts, ConstantsAssumption DEF TypeOK, ChunkIds
<1>1. CASE Quiet
  BY <1>1, QuietOrder
<1>2. ASSUME NEW i \in ChunkIds, RecvChunk(i) PROVE ChunksInOrder'
  BY <1>2 DEF RecvChunk, ChunksInOrder, ChunkIds
<1>3. ASSUME NEW i \in ChunkIds, RecvOddChunk(i) PROVE ChunksInOrder'
  BY <1>3, ChunkFacts DEF RecvOddChunk, ChunksInOrder, ChunkIds
<1>4. CASE FlushChunk
  <2>. DEFINE n == nextExpected
  <2>1. /\ n \in ChunkIds /\ pending[n] = script[n] /\ script' = script
        /\ accumulated' = accumulated /\ nextExpected' = n + 1
        /\ \A j \in DOMAIN pending' : pending'[j] = script[j]
    BY <1>4, <1>0 DEF FlushChunk, ChunksInOrder, netVars
  <2>2. IsPrefix(script[n], Answer) /\ script[n] \in Text
    BY <2>1, ChunkFacts
  <2>3. buffered # << >> =>
          /\ IsPrefix(buffered[1], script[n])
          /\ IsPrefix(buffered[1], Answer)
    BY <2>1, ChunkFacts DEF ChunksInOrder
  <2>4. CASE UNCHANGED <<buffered, mode, items>>
    BY <2>1, <2>4, <1>0 DEF ChunksInOrder, ChunkIds
  <2>5. CASE buffered' = <<script[n]>> /\ UNCHANGED <<mode, items>>
    <3>1. buffered'[1] = script'[n] /\ n < nextExpected' /\ n \in ChunkIds'
      BY <2>1, <2>5, <1>0 DEF ChunkIds
    <3>. QED  BY <2>1, <2>5, <3>1 DEF ChunksInOrder
  <2>6. CASE /\ buffered # << >> /\ buffered' = << >>
             /\ mode' = ModeOf(buffered[1], script[n])
             /\ items' = <<buffered[1], script[n]>>
    <3>1. mode' # "fragments"
      BY <2>3, <2>6 DEF ModeOf
    <3>2. \A k \in DOMAIN items' : IsPrefix(items'[k], Answer)
      BY <2>2, <2>3, <2>6
    <3>. QED  BY <2>1, <2>6, <3>1, <3>2 DEF ChunksInOrder
  <2>7. CASE items' = <<script[n]>> /\ UNCHANGED <<buffered, mode>>
    <3>1. \A k \in DOMAIN items' : IsPrefix(items'[k], Answer)
      BY <2>2, <2>7
    <3>. QED  BY <2>1, <2>7, <3>1, <1>0 DEF ChunksInOrder, ChunkIds
  <2>. QED  BY <1>4, <2>1, <2>4, <2>5, <2>6, <2>7 DEF FlushChunk
<1>5. CASE EmitItem
  <2>1. /\ mode # "fragments" /\ UNCHANGED <<script, nextExpected, pending, buffered, mode>>
        /\ items # << >> /\ (items' = << >> \/ items' = Tail(items))
        /\ (accumulated' = accumulated \/ accumulated' = Head(items))
    BY <1>5 DEF EmitItem, ChunksInOrder, netVars
  <2>2. \A k \in DOMAIN items' : IsPrefix(items'[k], Answer)
    BY <1>0, <2>1 DEF ChunksInOrder
  <2>3. IsPrefix(accumulated', Answer)
    BY <1>0, <2>1 DEF ChunksInOrder
  <2>. QED  BY <2>1, <2>2, <2>3 DEF ChunksInOrder, ChunkIds
<1>. QED  BY <1>1, <1>2, <1>3, <1>4, <1>5, ChunkSteps

-----------------------------------------------------------------------------
(* The chunks of replies in fragments of any length.                       *)

\* Of a reply in fragments, what is emitted and the items in hand make up the
\* answer as far as it was read; the first fragment waits for the second one.
\* An interrupt drops what is in hand, and nothing is emitted after it.
UpTo(s, n) == SubSeq(Answer, 1, (CHOOSE cut \in Cuts(s) : TRUE)[n])
Joined(s) == IF Len(s) = 0 THEN << >> ELSE IF Len(s) = 1 THEN s[1] ELSE s[1] \o s[2]
FragmentsInOrder ==
  /\ mode # "cumulative" /\ Len(items) <= 2
  /\ IsPrefix(accumulated, Answer)
  /\ \A i \in DOMAIN pending : pending[i] = script[i]
  /\ nextExpected - 1 <= Len(script)
  /\ mode = "fragments" /\ ~cancelled => accumulated \o Joined(items) = UpTo(script, nextExpected - 1)
  /\ mode = "fragments" => buffered = << >>
  /\ mode = "unknown" =>
       /\ accumulated = << >> /\ items = << >>
       /\ UpTo(script, nextExpected - 1) = IF buffered = << >> THEN << >> ELSE buffered[1]
       /\ IF buffered = << >>
          THEN \A k \in 1 .. nextExpected - 1 : script[k] = << >>
          ELSE \E i \in 1 .. nextExpected - 1 :
                 buffered[1] = script[i] /\ OnlyTextBefore(script, i, nextExpected)

\* The first parts of the answer that the fragments make up.
LEMMA UpToFacts ==
  ASSUME Fragmented(script), TypeOK
  PROVE  /\ UpTo(script, 0) = << >>
         /\ \A n \in 0 .. Len(script) : UpTo(script, n) \in Text /\ IsPrefix(UpTo(script, n), Answer)
         /\ \A n \in 1 .. Len(script) :
              UpTo(script, n - 1) \o script[n] = UpTo(script, n) /\ script[n] \in Text
<1> DEFINE cut == CHOOSE c \in Cuts(script) : TRUE
<1>0. Answer \in Seq(Token) /\ Len(Answer) \in Nat /\ script \in Seq(Text)
  BY ConstantsAssumption DEF Text, TypeOK
<1>1. cut \in Cuts(script)
  BY DEF Fragmented
<1> HIDE DEF cut
<1>2. /\ cut \in [0 .. Len(script) -> 0 .. Len(Answer)] /\ cut[0] = 0
      /\ \A n \in 1 .. Len(script) :
           cut[n - 1] <= cut[n] /\ script[n] = SubSeq(Answer, cut[n - 1] + 1, cut[n])
  BY <1>1 DEF Cuts
<1>3. \A n \in 0 .. Len(script) : cut[n] \in 0 .. Len(Answer)
  BY <1>2
<1>4. \A n : UpTo(script, n) = SubSeq(Answer, 1, cut[n])
  BY DEF UpTo, cut
<1>5. UpTo(script, 0) = << >>
  BY <1>0, <1>2, <1>4
<1>6. ASSUME NEW n \in 0 .. Len(script) PROVE UpTo(script, n) \in Text /\ IsPrefix(UpTo(script, n), Answer)
  <2> DEFINE c == cut[n]
  <2>1. c \in 0 .. Len(Answer) /\ UpTo(script, n) = SubSeq(Answer, 1, c)
    BY <1>3, <1>4
  <2> HIDE DEF c
  <2> QED
    BY <1>0, <2>1 DEF IsPrefix, Text
<1>7. ASSUME NEW n \in 1 .. Len(script)
      PROVE  UpTo(script, n - 1) \o script[n] = UpTo(script, n) /\ script[n] \in Text
  <2> DEFINE c == cut[n - 1]
             d == cut[n]
  <2>1. n \in 0 .. Len(script) /\ n - 1 \in 0 .. Len(script)
    BY <1>0
  <2>2. /\ c \in 0 .. Len(Answer) /\ d \in 0 .. Len(Answer) /\ c <= d
        /\ UpTo(script, n - 1) = SubSeq(Answer, 1, c) /\ UpTo(script, n) = SubSeq(Answer, 1, d)
        /\ script[n] = SubSeq(Answer, c + 1, d)
    BY <1>2, <1>3, <1>4, <2>1
  <2> HIDE DEF c, d
  <2>3. SubSeq(Answer, 1, c) \o SubSeq(Answer, c + 1, d) = SubSeq(Answer, 1, d)
    BY <1>0, <2>2
  <2>4. script[n] \in Text
    BY <1>0, <2>2 DEF Text
  <2>5. UpTo(script, n - 1) \o script[n] = UpTo(script, n)
    BY <2>2, <2>3, Zenon
  <2> QED
    BY <2>4, <2>5
<1> QED
  BY <1>5, <1>6, <1>7

\* Nobody takes an interrupt back.
LEMMA CancelStays == [Next]_vars /\ cancelled => cancelled'
BY DEF Next, Client, Environment, Returned, Handshake, Receive, Polling, vars, pollVars, userVars,
         netVars, Connect, ConnectFails, UserQueryFails, Welcome, Confirm, HandshakeFails,
         HandshakeMalformed, PostQuestion, PostBreaks, PostRefused, LoopTop, RecvNothing, RecvFinal, RecvError,
         RecvClosed, RecvBreaks, FlushDone, Unsubscribe, UnsubscribeFails, PollPost, Poll,
         PollBreaks, PollTimesOut, TakeDelta, DropDelta, Cancel, LoseChunk, Advance,
         FallBack, Fail, RecvChunk, RecvOddChunk, FlushChunk, EmitItem

\* Sequences of one or two.
LEMMA OneOrTwo ==
  ASSUME NEW T, NEW s \in Seq(T), s # << >>, Len(s) <= 2
  PROVE  /\ Head(s) = s[1] /\ s[1] \in T /\ Len(s) \in 1 .. 2 /\ Len(Tail(s)) = Len(s) - 1
         /\ Len(s) = 2 => s[2] \in T /\ Tail(s)[1] = s[2]
<1>0. Len(s) \in Nat /\ (Len(s) = 0 => s = << >>)
  OBVIOUS
<1>1. Len(s) \in 1 .. 2
  <2>1. Len(s) # 0
    BY <1>0, Zenon
  <2> DEFINE n == Len(s)
  <2>2. n \in Nat /\ n # 0 /\ n <= 2
    BY <1>0, <2>1
  <2> HIDE DEF n
  <2>3. n \in 1 .. 2
    BY <2>2
  <2> QED  BY <2>3 DEF n
<1>2. Head(s) = s[1] /\ s[1] \in T
  BY <1>1
<1>3. Len(Tail(s)) = Len(s) - 1
  BY <1>1
<1>4. ASSUME Len(s) = 2 PROVE s[2] \in T
  <2>1. s \in [1 .. 2 -> T]
    BY <1>4
  <2> QED  BY <2>1
<1>5. Len(s) = 2 => Tail(s)[1] = s[2]
  BY <1>1, <1>3
<1> QED  BY <1>1, <1>2, <1>3, <1>4, <1>5

\* Putting two pieces of text together, and taking the first away.
LEMMA JoinedFacts ==
  /\ Joined(<< >>) = << >>
  /\ \A a \in Text : Joined(<<a>>) = a
  /\ \A a, b \in Text : Joined(<<a, b>>) = a \o b
  /\ \A s \in Seq(Text) : s # << >> /\ Len(s) <= 2 =>
       /\ Head(s) \in Text /\ Joined(Tail(s)) \in Text
       /\ Head(s) \o Joined(Tail(s)) = Joined(s) /\ Len(Tail(s)) <= 2
<1>1. Joined(<< >>) = << >>
  BY DEF Joined
<1>2. \A a \in Text : Joined(<<a>>) = a
  BY DEF Joined
<1>3. \A a, b \in Text : Joined(<<a, b>>) = a \o b
  BY DEF Joined
<1>4. ASSUME NEW s \in Seq(Text), s # << >>, Len(s) <= 2
      PROVE  /\ Head(s) \in Text /\ Joined(Tail(s)) \in Text
             /\ Head(s) \o Joined(Tail(s)) = Joined(s) /\ Len(Tail(s)) <= 2
  <2> DEFINE a == Head(s)
             t == Tail(s)
  <2>1. a = s[1] /\ a \in Text /\ Len(s) \in 1 .. 2 /\ Len(t) = Len(s) - 1
    BY <1>4, OneOrTwo, Zenon
  <2>2. Len(s) = 2 => s[2] \in Text /\ t[1] = s[2]
    BY <1>4, OneOrTwo, Zenon
  <2> HIDE DEF a, t
  <2>3. CASE Len(s) = 1
    <3>1. Joined(t) = << >> /\ Joined(s) = a
      BY <2>1, <2>3 DEF Joined
    <3>2. a \o << >> = a
      BY <2>1, PrefixFacts
    <3>3. a \in Text /\ Joined(t) \in Text /\ a \o Joined(t) = Joined(s)
      BY <2>1, <3>1, <3>2, TextFacts, Zenon
    <3>4. Len(t) <= 2
      BY <2>1
    <3> QED  BY <3>3, <3>4 DEF a, t
  <2>4. CASE Len(s) = 2
    <3>1. Joined(t) = s[2]
      BY <2>1, <2>2, <2>4 DEF Joined
    <3>2. Joined(s) = s[1] \o s[2]
      BY <2>4 DEF Joined
    <3>3. a \in Text /\ Joined(t) \in Text /\ a \o Joined(t) = Joined(s)
      BY <2>1, <2>2, <2>4, <3>1, <3>2, Zenon
    <3>4. Len(t) <= 2
      BY <2>1
    <3> QED  BY <3>3, <3>4 DEF a, t
  <2> QED  BY <2>1, <2>3, <2>4
<1> QED  BY <1>1, <1>2, <1>3, <1>4

LEMMA TextsJoin ==
  ASSUME NEW r \in Text, NEW s \in Text, NEW t \in Text
  PROVE  (r \o s) \o t = r \o (s \o t) /\ << >> \o t = t
BY DEF Text

\* Every step keeps the fragments in order.
LEMMA FragmentsStep ==
  ASSUME Fragmented(script), "odd" \notin Faults, TypeOK, FragmentsInOrder, [Next]_vars
  PROVE  FragmentsInOrder'
<1>0. /\ accumulated \in Text /\ items \in Seq(Text) /\ mode \in Modes
      /\ buffered \in Seq(Text) /\ Len(buffered) <= 1
      /\ nextExpected \in Nat \ {0} /\ DOMAIN pending \subseteq ChunkIds
      /\ ChunkIds = 1 .. Len(script) /\ Len(script) \in Nat
  BY ScriptFacts, ConstantsAssumption DEF TypeOK, ChunkIds
<1>1. CASE Quiet
  <2>1. cancelled => cancelled'
    BY CancelStays
  <2> QED
    BY <1>1, <2>1 DEF Quiet, streamVars, FragmentsInOrder
<1>2. ASSUME NEW i \in ChunkIds, RecvChunk(i) PROVE FragmentsInOrder'
  <2>1. /\ UNCHANGED <<script, accumulated, nextExpected, buffered, mode, items, cancelled>>
        /\ \A j \in DOMAIN pending' : pending'[j] = script[j]
    BY <1>2 DEF RecvChunk, FragmentsInOrder, userVars
  <2> QED
    BY <2>1 DEF FragmentsInOrder
<1>3. CASE FlushChunk
  <2> DEFINE n == nextExpected
             content == script[n]
  <2>1. /\ n \in 1 .. Len(script) /\ pending[n] = content /\ script' = script
        /\ accumulated' = accumulated /\ nextExpected' = n + 1 /\ items = << >>
        /\ cancelled' = cancelled
        /\ \A j \in DOMAIN pending' : pending'[j] = script'[j]
    BY <1>0, <1>3 DEF FlushChunk, FragmentsInOrder, netVars, userVars
  <2>2. /\ UpTo(script, n - 1) \o content = UpTo(script, n)
        /\ content \in Text /\ UpTo(script, n - 1) \in Text
    <3>1. n \in 1 .. Len(script) /\ n - 1 \in 0 .. Len(script)
      BY <1>0, <2>1
    <3>2. UpTo(script, n - 1) \o script[n] = UpTo(script, n) /\ script[n] \in Text
      BY <3>1, UpToFacts
    <3>3. UpTo(script, n - 1) \in Text
      BY <3>1, UpToFacts
    <3> QED  BY <3>2, <3>3
  <2>3. \/ content = << >> /\ UNCHANGED <<buffered, mode, items>>
        \/ /\ content # << >> /\ mode = "unknown" /\ buffered = << >>
           /\ buffered' = <<content>> /\ UNCHANGED <<mode, items>>
        \/ /\ content # << >> /\ mode = "unknown" /\ buffered # << >> /\ buffered' = << >>
           /\ mode' = ModeOf(buffered[1], content) /\ items' = <<buffered[1], content>>
        \/ content # << >> /\ mode = "fragments" /\ items' = <<content>> /\ UNCHANGED <<buffered, mode>>
    BY <1>0, <1>3, <2>1 DEF FlushChunk, FragmentsInOrder, Modes
  <2>4. ASSUME \/ content = << >> /\ UNCHANGED <<buffered, mode, items>>
               \/ content # << >> /\ mode = "fragments" /\ items' = <<content>> /\ UNCHANGED <<buffered, mode>>,
               mode = "fragments"
        PROVE  FragmentsInOrder'
    <3>1. Joined(items') = content
      BY <2>1, <2>2, <2>4, JoinedFacts
    <3>2. ~cancelled => accumulated = UpTo(script, n - 1)
      <4>1. Joined(items) = << >>
        BY <2>1, JoinedFacts
      <4>2. ~cancelled => accumulated \o << >> = UpTo(script, n - 1)
        BY <2>4, <4>1 DEF FragmentsInOrder
      <4> QED  BY <1>0, <4>2, PrefixFacts
    <3>3. ~cancelled' => accumulated' \o Joined(items') = UpTo(script', n)
      BY <2>1, <2>2, <3>1, <3>2
    <3>4. mode' = "fragments" /\ buffered' = << >> /\ nextExpected' - 1 = n
      BY <1>0, <2>1, <2>4 DEF FragmentsInOrder
    <3>5. Len(items') <= 2
      <4>1. Len(<< >>) <= 2 /\ Len(<<content>>) <= 2
        OBVIOUS
      <4>2. items' = << >> \/ items' = <<content>>
        BY <2>1, <2>4, Zenon
      <4> QED  BY <4>1, <4>2, Zenon
    <3> QED
      BY <1>0, <2>1, <3>3, <3>4, <3>5 DEF FragmentsInOrder
  <2>5. ASSUME content = << >>, UNCHANGED <<buffered, mode, items>>, mode = "unknown"
        PROVE  FragmentsInOrder'
    <3>1. UpTo(script', n) = UpTo(script, n - 1) /\ nextExpected' - 1 = n
      BY <1>0, <2>1, <2>2, <2>5, PrefixFacts
    <3>2. UpTo(script', n) = IF buffered' = << >> THEN << >> ELSE buffered'[1]
      BY <2>5, <3>1 DEF FragmentsInOrder
    <3>3. CASE buffered = << >>
      <4>1. \A k \in 1 .. n : script[k] = << >>
        BY <1>0, <2>1, <2>5, <3>3 DEF FragmentsInOrder
      <4> QED
        BY <1>0, <2>1, <2>5, <3>1, <3>2, <3>3, <4>1 DEF FragmentsInOrder
    <3>4. CASE buffered # << >>
      <4>1. PICK i \in 1 .. n - 1 : buffered[1] = script[i] /\ OnlyTextBefore(script, i, n)
        BY <2>5, <3>4 DEF FragmentsInOrder
      <4>2. i \in 1 .. n /\ OnlyTextBefore(script, i, n + 1)
        BY <1>0, <2>5, <4>1 DEF OnlyTextBefore
      <4> QED
        BY <1>0, <2>1, <2>5, <3>1, <3>2, <3>4, <4>1, <4>2 DEF FragmentsInOrder
    <3> QED
      BY <3>3, <3>4
  <2>6. ASSUME content # << >>, mode = "unknown", buffered = << >>,
               buffered' = <<content>>, UNCHANGED <<mode, items>>
        PROVE  FragmentsInOrder'
    <3>1. nextExpected' - 1 = n /\ buffered' # << >> /\ buffered'[1] = content
      BY <1>0, <2>1, <2>6
    <3>2. UpTo(script', n) = content
      <4>1. UpTo(script, n - 1) = << >>
        BY <2>6 DEF FragmentsInOrder
      <4>2. << >> \o content = content
        BY <2>2, TextsJoin
      <4> QED  BY <2>1, <2>2, <4>1, <4>2
    <3>3. OnlyTextBefore(script, n, n + 1)
      BY <1>0, <2>6 DEF FragmentsInOrder, OnlyTextBefore
    <3> QED
      BY <1>0, <2>1, <2>6, <3>1, <3>2, <3>3 DEF FragmentsInOrder
  <2>7. ASSUME content # << >>, mode = "unknown", buffered # << >>, buffered' = << >>,
               mode' = ModeOf(buffered[1], content), items' = <<buffered[1], content>>
        PROVE  FragmentsInOrder'
    <3>1. PICK i \in 1 .. n - 1 : buffered[1] = script[i] /\ OnlyTextBefore(script, i, n)
      BY <2>7 DEF FragmentsInOrder
    <3>2. ~IsPrefix(buffered[1], content) /\ i \in 1 .. Len(script)
      BY <1>0, <2>1, <2>7, <3>1 DEF Fragmented
    <3>3. mode' = "fragments"
      BY <2>7, <3>2 DEF ModeOf
    <3>4. buffered[1] = UpTo(script, n - 1) /\ buffered[1] \in Text /\ accumulated = << >>
      BY <2>2, <2>7 DEF FragmentsInOrder
    <3>5. Joined(items') = UpTo(script, n) /\ Len(items') <= 2 /\ UpTo(script, n) \in Text
      <4>1. Joined(items') = buffered[1] \o content
        BY <2>2, <2>7, <3>4, JoinedFacts
      <4>2. Len(items') = 2
        BY <2>7
      <4>3. UpTo(script, n) = buffered[1] \o content
        BY <2>2, <3>4
      <4> QED  BY <2>2, <3>4, <4>1, <4>2, <4>3, TextFacts
    <3>6. accumulated' \o Joined(items') = UpTo(script', n)
      BY <2>1, <2>2, <3>4, <3>5, TextsJoin
    <3>7. nextExpected' - 1 = n
      BY <1>0, <2>1
    <3> QED
      BY <2>1, <2>7, <3>3, <3>4, <3>5, <3>6, <3>7, PrefixFacts DEF FragmentsInOrder
  <2>8. mode \in {"unknown", "fragments"}
    BY <1>0 DEF Modes, FragmentsInOrder
  <2> QED
    BY <2>3, <2>4, <2>5, <2>6, <2>7, <2>8
<1>4. CASE EmitItem
  <2>1. /\ UNCHANGED <<script, nextExpected, pending, buffered, mode, cancelled>>
        /\ items # << >> /\ mode = "fragments" /\ Len(items) <= 2
    BY <1>0, <1>4 DEF EmitItem, FragmentsInOrder, netVars, userVars, Modes
  <2>2. CASE cancelled
    <3>1. items' = << >> /\ accumulated' = accumulated
      BY <1>4, <2>2 DEF EmitItem
    <3>2. Len(items') <= 2
      BY <3>1
    <3> QED
      BY <2>1, <2>2, <3>1, <3>2 DEF FragmentsInOrder
  <2>3. CASE ~cancelled
    <3>1. items' = Tail(items) /\ accumulated' = accumulated \o Head(items)
      BY <1>4, <2>1, <2>3 DEF EmitItem
    <3>2. /\ Head(items) \in Text /\ Joined(Tail(items)) \in Text
          /\ Head(items) \o Joined(Tail(items)) = Joined(items) /\ Len(Tail(items)) <= 2
      BY <1>0, <2>1, JoinedFacts
    <3>3. accumulated' \o Joined(items') = accumulated \o Joined(items)
      <4>1. (accumulated \o Head(items)) \o Joined(Tail(items))
              = accumulated \o (Head(items) \o Joined(Tail(items)))
        BY <1>0, <3>2, TextsJoin, Zenon
      <4> QED  BY <3>1, <3>2, <4>1, Zenon
    <3>4. accumulated \o Joined(items) = UpTo(script, nextExpected - 1)
      BY <2>1, <2>3 DEF FragmentsInOrder
    <3>5. IsPrefix(UpTo(script, nextExpected - 1), Answer)
      BY <1>0, UpToFacts DEF FragmentsInOrder
    <3>6. accumulated' \in Text /\ Joined(items') \in Text
      BY <1>0, <3>1, <3>2, TextFacts
    <3>7. IsPrefix(accumulated', Answer)
      <4>1. IsPrefix(accumulated' \o Joined(items'), Answer)
        BY <3>3, <3>4, <3>5, Zenon
      <4> QED  BY <3>6, <4>1, PrefixFacts, Zenon
    <3> QED
      BY <2>1, <2>3, <3>1, <3>2, <3>3, <3>4, <3>7 DEF FragmentsInOrder
  <2> QED
    BY <2>2, <2>3
<1> QED
  BY <1>1, <1>2, <1>3, <1>4, ChunkSteps DEF RecvOddChunk, May

\* The text handed over stays what the phase says, and a prefix of the answer,
\* while what is reassembled is one and grows by what is handed over.
Kept == HandedOver /\ OneQuestionIntact
GrowsAlong ==
  /\ IsPrefix(accumulated', Answer)
  /\ EmitItem \/ (\E i \in ChunkIds : RecvOddChunk(i)) => accumulated \o offered' = accumulated'

LEMMA HandedStep ==
  ASSUME TypeOK, PostCount, Kept, IsPrefix(accumulated, Answer), GrowsAlong, [Next]_vars
  PROVE  Kept'
<1>0. /\ accumulated \in Text /\ taken \in Text /\ offered \in Text /\ posts \in Nat
      /\ items \in Seq(Text) /\ mode \in Modes
  BY DEF TypeOK
<1>00. PostCount /\ HandedOver /\ OneQuestionIntact
  BY DEF Kept
<1>01. taken \o << >> = taken
  BY <1>0, PrefixFacts
<1>02. accumulated = << >> \/ posts # 0
  BY <1>00 DEF HandedOver
<1>1. CASE Handshake
  <2>1. UNCHANGED <<accumulated, offered, taken, sawFinal>> /\ offered = << >> /\ phase # "unsubscribe"
        /\ phase' \notin {"recv", "flush", "poll", "unsubscribe", "done"}
        /\ (phase' = "loop" => posts = 0) /\ posts' \in {posts, posts + 1}
    BY <1>1, <1>00
       DEF Handshake, Connect, ConnectFails, UserQueryFails, Welcome, Confirm,
       HandshakeFails, HandshakeMalformed, PostQuestion, PostBreaks, PostRefused, Advance, FallBack, Fail,
       streamVars, userVars, netVars, Running, PostCount
  <2>. QED  BY <2>1, <1>0, <1>00, <1>01 DEF Kept, HandedOver, OneQuestionIntact
<1>2. CASE LoopTop \/ FlushDone \/ RecvNothing \/ RecvError \/ RecvClosed \/ RecvBreaks
           \/ (\E i \in ChunkIds : RecvChunk(i)) \/ FlushChunk
  <2>1. /\ UNCHANGED <<accumulated, offered, taken, sawFinal, posts>>
        /\ phase \in {"loop", "recv", "flush"} /\ phase' \notin {"poll", "done"}
    BY <1>2 DEF LoopTop, FlushDone, RecvNothing, RecvError, RecvClosed, RecvBreaks,
       RecvChunk, FlushChunk, Advance, FallBack, Fail, streamVars, userVars, netVars, Running
  <2>. QED  BY <2>1, <1>0, <1>00 DEF Kept, HandedOver, OneQuestionIntact, PostCount
<1>3. CASE RecvFinal
  <2>1. taken = accumulated /\ IsPrefix(accumulated, Answer) /\ posts = 1
    BY <1>3, <1>00, <1>01 DEF RecvFinal, Running, HandedOver, PostCount
  <2>2. taken \o Remainder(accumulated) = Answer
    BY <1>0, <2>1, PrefixFacts
  <2>3. /\ taken' = taken /\ offered' = Remainder(accumulated) /\ posts' = posts
        /\ phase' = "unsubscribe" /\ sawFinal' = TRUE
    BY <1>3 DEF RecvFinal, userVars
  <2>4. IsPrefix(Answer, Answer)
    BY PrefixFacts, TextFacts
  <2>5. taken' \o offered' = Answer
    BY <2>2, <2>3
  <2>. QED  BY <2>1, <2>3, <2>4, <2>5 DEF Kept, HandedOver, OneQuestionIntact
<1>4. CASE EmitItem \/ (\E i \in ChunkIds : RecvOddChunk(i))
  <2>1. taken = accumulated /\ posts = 1
    BY <1>4, <1>00, <1>01 DEF EmitItem, RecvOddChunk, Running, HandedOver, PostCount
  <2>2. /\ taken' = taken /\ posts' = posts /\ sawFinal' = sawFinal
        /\ phase' \in {"loop", "flush"}
    BY <1>4 DEF EmitItem, RecvOddChunk, userVars, netVars, Running
  <2>3. taken' \o offered' = accumulated' /\ IsPrefix(accumulated', Answer)
    BY <1>4, <2>1, <2>2 DEF GrowsAlong
  <2>. QED  BY <2>1, <2>2, <2>3 DEF Kept, HandedOver, OneQuestionIntact
<1>6. CASE Unsubscribe \/ UnsubscribeFails
  BY <1>6, <1>00, <1>01 DEF Unsubscribe, UnsubscribeFails, Advance, FallBack, streamVars,
     userVars, netVars, Running, Kept, HandedOver, OneQuestionIntact, PostCount
<1>7. CASE PollPost \/ PollBreaks \/ PollTimesOut \/ Poll(FALSE)
  <2>1. UNCHANGED <<accumulated, offered, taken, sawFinal>> /\ phase \in {"poll", "pollPost"}
        /\ phase' \in {"poll", "failed"} /\ posts' \in {posts, posts + 1}
        /\ (phase = "pollPost" /\ phase' = "poll" => posts' = posts + 1)
    BY <1>0, <1>7 DEF PollPost, PollBreaks, PollTimesOut, Poll, Fail, streamVars, userVars,
       netVars, Running
  <2>. QED  BY <2>1, <1>0, <1>00 DEF Kept, HandedOver, OneQuestionIntact, PostCount
<1>8. CASE Poll(TRUE)
  <2>1. /\ UNCHANGED <<accumulated, taken, sawFinal, posts>> /\ offered' = Answer
        /\ phase = "poll" /\ phase' = "done"
    BY <1>8 DEF Poll, streamVars, userVars, netVars, Running
  <2>2. posts = 1 => taken' \o offered' = Answer
    BY <2>1, <1>00, TextFacts DEF HandedOver, Text
  <2>3. IsPrefix(Answer, Answer)
    BY PrefixFacts, TextFacts
  <2>4. posts' = posts /\ phase' = "done" /\ posts \in {1, 2}
    BY <2>1, <1>00 DEF PostCount
  <2>5. HandedOver'
    <3>1. posts' # 0 /\ (posts' = 1 => taken' \o offered' = Answer)
      BY <2>2, <2>4
    <3>2. phase' \notin {"poll", "loop", "recv", "flush", "unsubscribe"}
      BY <2>4
    <3>. QED  BY <3>1, <3>2 DEF HandedOver
  <2>6. posts' <= 1 => posts = 1
    BY <2>4
  <2>. QED  BY <2>2, <2>3, <2>5, <2>6, Zenon DEF Kept, OneQuestionIntact
<1>9. CASE TakeDelta
  <2>1. /\ UNCHANGED <<accumulated, sawFinal, posts, phase>> /\ offered' = << >>
        /\ taken' = taken \o offered
    BY <1>9 DEF TakeDelta, streamVars, netVars
  <2>2. taken' \o offered' = taken \o offered
    BY <1>0, <2>1, PrefixFacts, TextFacts
  <2>3. taken = << >> /\ offered = << >> => taken' = << >>
    BY <2>1, <1>01
  <2>. QED  BY <2>1, <2>2, <2>3, <1>00 DEF Kept, HandedOver, OneQuestionIntact
<1>10. CASE DropDelta
  <2>1. /\ UNCHANGED <<accumulated, sawFinal, posts, taken>> /\ offered' = << >>
        /\ phase' = "closed"
    BY <1>10 DEF DropDelta, streamVars, userVars, netVars
  <2>2. IsPrefix(taken \o offered, Answer) => IsPrefix(taken, Answer)
    BY <1>0, PrefixFacts
  <2>. QED  BY <2>1, <2>2, <1>00, <1>01 DEF Kept, HandedOver, OneQuestionIntact
<1>11. CASE Environment \/ UNCHANGED vars
  <2>1. UNCHANGED <<accumulated, offered, taken, sawFinal, posts, phase>>
    BY <1>11 DEF Environment, Cancel, LoseChunk, vars, streamVars, netVars, userVars
  <2>. QED  BY <2>1, <1>00 DEF Kept, HandedOver, OneQuestionIntact
<1>12. CASE Receive
  <2>1. ASSUME NEW i \in ChunkIds, RecvChunk(i) \/ RecvOddChunk(i) PROVE Kept'
    BY <2>1, <1>2, <1>4
  <2>. QED  BY <1>2, <1>3, <1>12, <2>1 DEF Receive
<1>. QED
  BY <1>1, <1>2, <1>4, <1>6, <1>7, <1>8, <1>9, <1>10, <1>11, <1>12
     DEF Next, Client, Returned, Polling

\* What is reassembled grows along the answer: from the chunks of a cumulative
\* reply each of which is a prefix of the answer,
LEMMA CumulativeGrows ==
  ASSUME Cumulative(script), TypeOK, ChunksInOrder, [Next]_vars
  PROVE  IsPrefix(accumulated, Answer) /\ GrowsAlong
<1>0. accumulated \in Text /\ items \in Seq(Text)
  BY DEF TypeOK
<1>1. IsPrefix(accumulated, Answer) /\ IsPrefix(accumulated', Answer)
  BY ChunksStep DEF ChunksInOrder
<1>2. ASSUME NEW i \in ChunkIds, RecvOddChunk(i) PROVE accumulated \o offered' = accumulated'
  <2>1. script[i] \in Text /\ IsPrefix(script[i], Answer) /\ offered = << >>
    BY <1>2, ChunkFacts DEF RecvOddChunk, Running
  <2>2. CASE Len(script[i]) > Len(accumulated)
    <3>1. offered' = Beyond(script[i], Len(accumulated)) /\ accumulated' = script[i]
      BY <1>2, <2>2 DEF RecvOddChunk
    <3>2. Len(accumulated) <= Len(script[i])
      BY <1>0, <2>1, <2>2, TextFacts
    <3>3. IsPrefix(accumulated, script[i])
      BY <1>0, <1>1, <2>1, <3>2, PrefixFacts
    <3>. QED  BY <1>0, <2>1, <3>1, <3>3, PrefixFacts
  <2>3. CASE ~(Len(script[i]) > Len(accumulated))
    <3>1. UNCHANGED <<offered, accumulated>>
      BY <1>2, <2>3 DEF RecvOddChunk
    <3>. QED  BY <1>0, <2>1, <3>1, PrefixFacts
  <2>. QED  BY <2>2, <2>3
<1>3. ASSUME EmitItem PROVE accumulated \o offered' = accumulated'
  <2>1. offered = << >> /\ Head(items) \in Text
    BY <1>0, <1>3 DEF EmitItem, Running
  <2>2. CASE UNCHANGED <<accumulated, offered>>
    BY <1>0, <2>1, <2>2, PrefixFacts
  <2>3. CASE /\ IsPrefix(accumulated, Head(items)) /\ accumulated' = Head(items)
             /\ offered' = Beyond(Head(items), Len(accumulated))
    BY <1>0, <2>1, <2>3, PrefixFacts
  <2>. QED  BY <1>3, <2>2, <2>3 DEF EmitItem, ChunksInOrder
<1>. QED  BY <1>1, <1>2, <1>3 DEF GrowsAlong

\* and from fragments, each of which is put behind those before it.
LEMMA FragmentsGrow ==
  ASSUME Fragmented(script), "odd" \notin Faults, TypeOK, FragmentsInOrder, [Next]_vars
  PROVE  IsPrefix(accumulated, Answer) /\ GrowsAlong
<1>0. accumulated \in Text
  BY DEF TypeOK
<1>1. IsPrefix(accumulated, Answer) /\ IsPrefix(accumulated', Answer)
  BY FragmentsStep DEF FragmentsInOrder
<1>2. ASSUME EmitItem PROVE accumulated \o offered' = accumulated'
  <2>1. CASE UNCHANGED <<accumulated, offered>>
    BY <1>0, <1>2, <2>1, PrefixFacts DEF EmitItem, Running
  <2>2. CASE offered' = Head(items) /\ accumulated' = accumulated \o Head(items)
    BY <2>2
  <2>. QED  BY <1>2, <2>1, <2>2 DEF EmitItem, FragmentsInOrder
<1>. QED  BY <1>1, <1>2 DEF GrowsAlong, RecvOddChunk, May

\* For cumulative replies of any length the reassembly invariant holds.
LEMMA ReassemblyInit == Init => Reassembly
BY PrefixFacts, TextFacts DEF Init, Reassembly, PostCount, HandedOver, ChunksInOrder, OneQuestionIntact

LEMMA ReassemblyStep ==
  ASSUME TypeOK, Reassembly, CumulativeReplies, [Next]_vars
  PROVE  Reassembly'
<1>1. PostCount'
  BY PostStep DEF Reassembly
<1>2. Cumulative(script) /\ ChunksInOrder
  BY DEF TypeOK, CumulativeReplies, Reassembly
<1>3. Kept'
  BY <1>2, CumulativeGrows, HandedStep DEF Reassembly, Kept
<1>. QED  BY <1>1, <1>2, <1>3, ChunksStep DEF Reassembly, Kept

THEOREM ReassemblyCorrect ==
  ASSUME CumulativeReplies
  PROVE  Spec => []Reassembly
<1>1. TypeOK /\ Reassembly /\ [Next]_vars => Reassembly'
  BY ReassemblyStep
<1>. QED  BY <1>1, ReassemblyInit, TypeCorrect, PTL DEF Spec

-----------------------------------------------------------------------------
(* Replies of either kind.                                                 *)

\* Every reply is cumulative, or in fragments when every chunk has its number:
\* a chunk with an odd one is taken for the text of the whole.
WellFormedReplies == \A s \in Scripts : Cumulative(s) \/ (Fragmented(s) /\ "odd" \notin Faults)

Agreed == PostCount /\ Kept
InStep ==
  \/ Cumulative(script) /\ ChunksInOrder
  \/ Fragmented(script) /\ "odd" \notin Faults /\ FragmentsInOrder
StreamInv == Agreed /\ InStep

LEMMA StreamInit == WellFormedReplies /\ Init => StreamInv
<1> SUFFICES ASSUME WellFormedReplies, Init PROVE StreamInv
  OBVIOUS
<1>1. Agreed /\ ChunksInOrder
  BY ReassemblyInit DEF Reassembly, Agreed, Kept
<1>2. ASSUME Fragmented(script) PROVE FragmentsInOrder
  <2>1. TypeOK
    BY TypeInit
  <2>2. UpTo(script, 0) = << >> /\ Len(script) \in Nat
    <3>1. script \in Seq(Text)
      BY ConstantsAssumption DEF Init
    <3> QED  BY <1>2, <2>1, <3>1, UpToFacts
  <2>3. IsPrefix(<< >>, Answer) /\ Len(<< >>) <= 2
    BY PrefixFacts
  <2>4. nextExpected - 1 = 0 /\ 1 .. nextExpected - 1 = {}
    BY DEF Init
  <2> QED
    BY <2>2, <2>3, <2>4 DEF Init, FragmentsInOrder
<1>3. script \in Scripts
  BY DEF Init
<1> QED
  BY <1>1, <1>2, <1>3 DEF WellFormedReplies, StreamInv, InStep

\* The server does not change what it says.
LEMMA ScriptStays == [Next]_vars => script' = script
<1> SUFFICES ASSUME [Next]_vars PROVE script' = script
  OBVIOUS
<1>1. FlushChunk \/ EmitItem => script' = script
  BY DEF FlushChunk, EmitItem, netVars
<1>2. \A i \in ChunkIds : RecvChunk(i) \/ RecvOddChunk(i) => script' = script
  BY DEF RecvChunk, RecvOddChunk
<1> QED
  BY <1>1, <1>2, ChunkSteps DEF Quiet

LEMMA StreamStep ==
  ASSUME TypeOK, StreamInv, [Next]_vars
  PROVE  StreamInv'
<1>0. PostCount' /\ script' = script
  BY PostStep, ScriptStays DEF StreamInv, Agreed
<1>1. CASE Cumulative(script) /\ ChunksInOrder
  <2>1. Kept'
    BY <1>1, CumulativeGrows, HandedStep DEF StreamInv, Agreed
  <2> QED
    BY <1>0, <1>1, <2>1, ChunksStep DEF StreamInv, Agreed, InStep
<1>2. CASE Fragmented(script) /\ "odd" \notin Faults /\ FragmentsInOrder
  <2>1. Kept'
    BY <1>2, FragmentsGrow, HandedStep DEF StreamInv, Agreed
  <2> QED
    BY <1>0, <1>2, <2>1, FragmentsStep DEF StreamInv, Agreed, InStep
<1> QED
  BY <1>1, <1>2 DEF StreamInv, InStep

LEMMA StreamCorrect ==
  ASSUME WellFormedReplies
  PROVE  Spec => []StreamInv
<1>1. TypeOK /\ StreamInv /\ [Next]_vars => StreamInv'
  BY StreamStep
<1>2. Init => StreamInv
  BY StreamInit
<1>. QED  BY <1>1, <1>2, TypeCorrect, PTL DEF Spec

\* Whatever chunks of a reply, cumulative or in fragments, are lost, doubled or
\* reordered, and whenever the user interrupts, the text handed to the turn is
\* a prefix of the answer as long as the question was posted once
\* (chat_streaming).
THEOREM OneQuestionCorrect ==
  ASSUME WellFormedReplies
  PROVE  Spec => []OneQuestionIntact
<1>1. StreamInv => OneQuestionIntact
  BY DEF StreamInv, Agreed, Kept
<1>. QED  BY <1>1, StreamCorrect, PTL

\* A call that ends after the final chunk of a reply of either kind, not
\* interrupted, has handed over the whole answer.
THEOREM WholeReplyCorrect ==
  ASSUME WellFormedReplies
  PROVE  Spec => []WholeReply
<1>1. TypeOK /\ StreamInv => WholeReply
  <2>. SUFFICES ASSUME TypeOK, StreamInv, phase = "done", offered = << >>, sawFinal, posts = 1
                PROVE  taken = Answer
    BY DEF WholeReply, Ended
  <2>1. taken \o offered = Answer /\ taken \in Text
    BY DEF StreamInv, Agreed, Kept, HandedOver, TypeOK
  <2>. QED  BY <2>1, PrefixFacts
<1>. QED  BY <1>1, StreamCorrect, TypeCorrect, PTL

-----------------------------------------------------------------------------
(* A question asked again.                                                 *)

\* A prefix of the answer is one of its first parts.
LEMMA PrefixIsFirstPart ==
  ASSUME NEW t \in Text, IsPrefix(t, Answer)
  PROVE  t \in Prefixes(Answer)
<1>1. Answer \in Seq(Token) /\ t \in Seq(Token)
  BY ConstantsAssumption DEF Text
<1> DEFINE n == Len(t)
<1>2. n \in 0 .. Len(Answer) /\ t = SubSeq(Answer, 1, n)
  BY <1>1 DEF IsPrefix
<1> HIDE DEF n
<1> QED
  BY <1>2 DEF Prefixes

\* What the turn holds once the question was posted again.
Twice ==
  /\ phase \in {"pollPost", "poll"} => offered = << >>
  /\ phase = "poll" => taken \in Prefixes(Answer)
  /\ posts = 2 /\ offered # << >> => taken \in Prefixes(Answer)
  /\ AskedAgain

\* Every step keeps it: only a poll that is answered adds something, once.
LEMMA TwiceStep ==
  ASSUME TypeOK, Agreed, Twice, [Next]_vars
  PROVE  Twice'
<1>0. /\ taken \in Text /\ offered \in Text /\ posts \in Nat /\ phase \in Working \cup Over
      /\ PostCount /\ OneQuestionIntact
      /\ taken \o << >> = taken /\ Answer \in Text
  <2>1. taken \in Text
    BY DEF TypeOK
  <2> QED
    BY <2>1, PrefixFacts, TextFacts DEF TypeOK, Agreed, Kept
\* Before the question is posted again, nothing is claimed.
<1>1. ASSUME posts' # 2, phase' \notin {"pollPost", "poll"} PROVE Twice'
  BY <1>1 DEF Twice, AskedAgain
<1>2. CASE Handshake
  <2>1. /\ offered = << >> /\ offered' = << >> /\ posts' # 2 /\ phase' # "poll"
    BY <1>2, <1>0 DEF Handshake, Connect, ConnectFails, UserQueryFails, Welcome, Confirm,
       HandshakeFails, HandshakeMalformed, PostQuestion, PostBreaks, PostRefused, Advance, FallBack,
       Fail, Running, userVars, netVars, PostCount
  <2> QED
    BY <2>1 DEF Twice, AskedAgain
<1>3. CASE LoopTop \/ Receive \/ FlushChunk \/ EmitItem \/ FlushDone \/ Unsubscribe \/ UnsubscribeFails
  <2>1. posts = 1
    BY <1>3, <1>0 DEF LoopTop, Receive, RecvNothing, RecvFinal, RecvError, RecvClosed, RecvBreaks,
       RecvChunk, RecvOddChunk, FlushChunk, EmitItem, FlushDone, Unsubscribe, UnsubscribeFails,
       Advance, Running, PostCount
  <2>2. posts' = posts
    BY <1>3 DEF LoopTop, Receive, RecvNothing, RecvFinal, RecvError, RecvClosed, RecvBreaks,
       RecvChunk, RecvOddChunk, FlushChunk, EmitItem, FlushDone, Unsubscribe, UnsubscribeFails,
       Advance, FallBack, Fail, netVars
  <2>3. phase' # "poll" /\ (phase' = "pollPost" => offered' = << >>)
    BY <1>3 DEF LoopTop, Receive, RecvNothing, RecvFinal, RecvError, RecvClosed, RecvBreaks,
       RecvChunk, RecvOddChunk, FlushChunk, EmitItem, FlushDone, Unsubscribe, UnsubscribeFails,
       Advance, FallBack, Fail, Running
  <2> QED
    BY <2>1, <2>2, <2>3 DEF Twice, AskedAgain
<1>4. CASE PollPost
  <2>1. /\ offered = << >> /\ offered' = << >> /\ taken' = taken
        /\ posts <= 1
    BY <1>4, <1>0 DEF PollPost, Running, userVars, PostCount
  <2>2. taken \in Prefixes(Answer)
    <3>1. IsPrefix(taken, Answer)
      BY <2>1, <1>0 DEF OneQuestionIntact
    <3> QED  BY <3>1, <1>0, PrefixIsFirstPart
  <2>3. taken' \o offered' = taken /\ taken' \in Prefixes(Answer)
    BY <2>1, <2>2, <1>0, Zenon
  <2> QED
    BY <2>1, <2>2, <2>3 DEF Twice, AskedAgain
<1>5. CASE PollBreaks \/ PollTimesOut
  <2>1. UNCHANGED <<posts, taken, offered>> /\ phase' = "failed"
    BY <1>5 DEF PollBreaks, PollTimesOut, Fail, netVars, userVars
  <2> QED
    BY <2>1 DEF Twice, AskedAgain
<1>6. CASE Poll(FALSE)
  <2>1. UNCHANGED <<posts, taken, offered, phase>>
    BY <1>6 DEF Poll, netVars, userVars
  <2> QED
    BY <2>1 DEF Twice, AskedAgain
<1>7. CASE Poll(TRUE)
  <2>1. /\ offered' = Answer /\ taken' = taken /\ phase' = "done" /\ taken \in Prefixes(Answer)
    BY <1>7 DEF Poll, Running, userVars, Twice
  <2>2. taken' \o offered' = taken \o Answer
    BY <2>1
  <2> QED
    BY <2>1, <2>2 DEF Twice, AskedAgain
<1>8. CASE TakeDelta
  <2>1. /\ offered # << >> /\ offered' = << >> /\ taken' = taken \o offered
        /\ UNCHANGED <<posts, phase>>
    BY <1>8 DEF TakeDelta, netVars
  <2>2. taken' \o offered' = taken \o offered
    BY <1>0, <2>1, PrefixFacts, TextFacts
  <2> QED
    BY <2>1, <2>2 DEF Twice, AskedAgain
<1>9. CASE DropDelta
  <2>1. /\ offered # << >> /\ offered' = << >> /\ taken' = taken /\ phase' = "closed" /\ posts' = posts
    BY <1>9 DEF DropDelta, netVars, userVars
  <2>2. posts = 2 => taken \in Prefixes(Answer)
    BY <2>1 DEF Twice
  <2> QED
    BY <2>1, <2>2, <1>0 DEF Twice, AskedAgain
<1>10. CASE Environment \/ UNCHANGED vars
  <2>1. UNCHANGED <<offered, taken, posts, phase>>
    BY <1>10 DEF Environment, Cancel, LoseChunk, vars, netVars, userVars
  <2> QED
    BY <2>1 DEF Twice, AskedAgain
<1> QED
  BY <1>2, <1>3, <1>4, <1>5, <1>6, <1>7, <1>8, <1>9, <1>10 DEF Next, Client, Returned, Polling

LEMMA TwiceInit == Init => Twice
BY DEF Init, Twice, AskedAgain

\* When chat() posts the question again after any part of a reply of either
\* kind was delivered, the turn gets the whole answer behind that part, once,
\* or nothing more (chat() and chat_polling()).
THEOREM AskedAgainCorrect ==
  ASSUME WellFormedReplies
  PROVE  Spec => []AskedAgain
<1>1. TypeOK /\ StreamInv /\ Twice /\ [Next]_vars => Twice'
  BY TwiceStep DEF StreamInv
<1>2. Twice => AskedAgain
  BY DEF Twice
<1>. QED  BY <1>1, <1>2, TwiceInit, StreamCorrect, TypeCorrect, PTL DEF Spec

\* Asked once or again, an answer of either kind is handed over from its
\* beginning and in one piece (OneQuestionIntact and AskedAgain).
THEOREM AnswersCorrect ==
  ASSUME WellFormedReplies
  PROVE  Spec => []AnswersIntact
<1>1. OneQuestionIntact /\ AskedAgain => AnswersIntact
  BY DEF AnswersIntact
<1>. QED  BY <1>1, OneQuestionCorrect, AskedAgainCorrect, PTL

-----------------------------------------------------------------------------
(* The refinement of ChatReply.                                            *)

\* Where the call stands tells what the turn holds: nothing before the
\* question is asked again, everything when the call is over.
Delivering ==
  /\ phase = "closed" => cancelled
  /\ phase \in {"closed", "failed"} => offered = << >>
  /\ phase = "unsubscribe" => sawFinal \/ cancelled
  /\ phase \in {"pollPost", "poll"} => taken = << >> /\ offered = << >>
  /\ phase = "done" => taken \o offered = Answer \/ (cancelled /\ offered = << >>)
  /\ IsPrefix(taken \o offered, Answer)

LEMMA DeliveringInit == Init => Delivering
<1>. SUFFICES ASSUME Init PROVE Delivering
  OBVIOUS
<1>1. taken = << >> /\ offered = << >> /\ phase = "connect"
  BY DEF Init
<1>2. IsPrefix(taken \o offered, Answer)
  BY <1>1, PrefixFacts, TextFacts
<1>. QED  BY <1>1, <1>2 DEF Delivering

\* Every step keeps it, unless a reply may be cut short or its end fail.
LEMMA DeliveringStep ==
  ASSUME TypeOK, Agreed, Agreed', Delivering, [Next]_vars,
         "close" \notin Faults, "send" \notin Faults
  PROVE  Delivering'
<1>0. /\ taken \in Text /\ offered \in Text /\ PostCount /\ HandedOver
      /\ taken \o << >> = taken /\ Answer \in Text /\ Answer # << >>
      /\ << >> \o Answer = Answer /\ IsPrefix(Answer, Answer)
      /\ IsPrefix(taken \o offered, Answer)
  <2>1. taken \in Text /\ offered \in Text /\ Answer \in Text
    BY TextFacts DEF TypeOK
  <2>2. << >> \o Answer = Answer
    BY <2>1 DEF Text
  <2>. QED  BY <2>1, <2>2, PrefixFacts, ConstantsAssumption DEF Agreed, Kept, Delivering
<1>1. ASSUME posts' <= 1 PROVE IsPrefix(taken \o offered, Answer)'
  BY <1>1 DEF Agreed, Kept, OneQuestionIntact
\* Nothing is handed over, and the call goes on, fails, or asks again before
\* the turn holds anything.
<1>2. ASSUME UNCHANGED <<taken, offered, cancelled>>, phase' \in Working \ {"unsubscribe", "pollPost", "poll"}
      PROVE  Delivering'
  BY <1>0, <1>2 DEF Delivering, Working
<1>3. ASSUME UNCHANGED <<taken, offered, cancelled>>, taken = << >>, offered = << >>,
             phase' \in {"pollPost", "poll"}
      PROVE  Delivering'
  BY <1>0, <1>3 DEF Delivering
<1>4. ASSUME UNCHANGED <<taken, offered, cancelled>>, offered = << >>, phase' = "failed"
      PROVE  Delivering'
  BY <1>0, <1>4 DEF Delivering
<1>5. CASE Connect \/ Welcome \/ Confirm \/ PostQuestion \/ RecvNothing \/ FlushDone
  BY <1>5, <1>2 DEF Connect, Welcome, Confirm, PostQuestion, RecvNothing, FlushDone, Advance,
       userVars, Working
<1>6. CASE ConnectFails \/ HandshakeFails \/ PostBreaks
  BY <1>6, <1>0, <1>3 DEF ConnectFails, HandshakeFails, PostBreaks, FallBack, Running, userVars,
       PostCount, HandedOver
<1>7. CASE UserQueryFails \/ HandshakeMalformed \/ PostRefused \/ RecvError \/ PollBreaks \/ PollTimesOut
  BY <1>7, <1>4 DEF UserQueryFails, HandshakeMalformed, PostRefused, RecvError, PollBreaks,
       PollTimesOut, Fail, Running, userVars
<1>8. CASE LoopTop
  BY <1>8, <1>0 DEF LoopTop, Delivering, userVars
<1>9. ASSUME NEW i \in ChunkIds, RecvChunk(i) PROVE Delivering'
  BY <1>9, <1>2 DEF RecvChunk, userVars, Working
<1>10. ASSUME NEW i \in ChunkIds, RecvOddChunk(i) PROVE Delivering'
  <2>1. phase' = "loop" /\ posts' = 1
    BY <1>10, <1>0 DEF RecvOddChunk, Running, PostCount
  <2>. QED  BY <2>1, <1>1 DEF Delivering
<1>11. CASE RecvFinal
  <2>1. phase' = "unsubscribe" /\ posts' = 1 /\ sawFinal'
    BY <1>11, <1>0 DEF RecvFinal, Running, PostCount
  <2>. QED  BY <2>1, <1>1 DEF Delivering
<1>12. CASE FlushChunk
  BY <1>12, <1>2 DEF FlushChunk, Running, userVars, Working
<1>13. CASE EmitItem
  <2>1. phase' = "flush" /\ posts' = 1
    BY <1>13, <1>0 DEF EmitItem, Running, netVars, PostCount
  <2>. QED  BY <2>1, <1>1 DEF Delivering
<1>14. CASE Unsubscribe
  <2>1. /\ phase = "unsubscribe" /\ phase' = "done" /\ offered = << >>
        /\ UNCHANGED <<taken, offered, cancelled>>
    BY <1>14 DEF Unsubscribe, Advance, Running, userVars
  <2>2. taken \o offered = Answer \/ cancelled
    BY <2>1, <1>0 DEF HandedOver, Delivering
  <2>. QED  BY <2>1, <2>2, <1>0 DEF Delivering
<1>15. CASE PollPost
  BY <1>15, <1>3 DEF PollPost, Running, userVars, Delivering
<1>16. ASSUME NEW answered \in BOOLEAN, Poll(answered) PROVE Delivering'
  <2>1. phase = "poll" /\ taken = << >> /\ offered = << >> /\ taken' = taken /\ cancelled' = cancelled
    BY <1>16 DEF Poll, Running, Delivering, userVars
  <2>2. CASE answered
    <3>1. phase' = "done" /\ offered' = Answer
      BY <1>16, <2>2 DEF Poll
    <3>. QED  BY <2>1, <3>1, <1>0 DEF Delivering
  <2>3. CASE ~answered
    <3>1. phase' = phase /\ offered' = offered
      BY <1>16, <2>3 DEF Poll
    <3>. QED  BY <2>1, <3>1, <1>3
  <2>. QED  BY <2>2, <2>3
<1>17. CASE TakeDelta
  <2>1. /\ taken' \o offered' = taken \o offered /\ offered' = << >> /\ ~cancelled /\ cancelled' = cancelled
        /\ offered # << >> /\ phase' = phase /\ sawFinal' = sawFinal
    <3>1. taken \o offered \in Text
      BY <1>0, TextFacts
    <3>. QED  BY <1>17, <3>1, PrefixFacts DEF TakeDelta
  <2>. QED  BY <2>1 DEF Delivering
<1>18. CASE DropDelta
  <2>1. /\ offered' = << >> /\ phase' = "closed" /\ cancelled' /\ taken' = taken
    BY <1>18 DEF DropDelta, userVars
  <2>2. IsPrefix(taken, Answer)
    BY <1>0, PrefixFacts
  <2>. QED  BY <2>1, <2>2, <1>0 DEF Delivering
<1>19. CASE Cancel
  BY <1>19 DEF Cancel, Delivering
<1>20. ASSUME NEW i \in ChunkIds \cup {Final}, LoseChunk(i) PROVE Delivering'
  BY <1>20 DEF LoseChunk, Delivering, userVars
<1>21. CASE UNCHANGED vars
  BY <1>21 DEF vars, userVars, Delivering
<1>22. ~RecvClosed /\ ~RecvBreaks /\ ~UnsubscribeFails
  BY DEF RecvClosed, RecvBreaks, UnsubscribeFails, May
<1>. QED
  BY <1>5, <1>6, <1>7, <1>8, <1>9, <1>10, <1>11, <1>12, <1>13, <1>14, <1>15, <1>16, <1>17,
     <1>18, <1>19, <1>20, <1>21, <1>22
     DEF Next, Client, Environment, Returned, Handshake, Receive, Polling

\* A prefix of the answer, longer than what is kept, is a first part of it.
LEMMA GrownText ==
  ASSUME NEW s \in Text, NEW t \in Text, t # << >>, IsPrefix(s \o t, Answer)
  PROVE  /\ \E n \in 1 .. Len(Answer) : s \o t = SubSeq(Answer, 1, n)
         /\ IsStrictPrefix(s, s \o t)
<1>1. Answer \in Text
  BY ConstantsAssumption
<1>2. Len(s \o t) = Len(s) + Len(t) /\ Len(t) \in Nat \ {0} /\ Len(s) \in Nat
  BY DEF Text
<1>3. Len(s \o t) \in 1 .. Len(Answer) /\ s \o t = SubSeq(Answer, 1, Len(s \o t))
  BY <1>1, <1>2 DEF IsPrefix, Text
<1>4. s = SubSeq(s \o t, 1, Len(s)) /\ Len(s) <= Len(s \o t)
  BY <1>2 DEF Text
<1>5. IsPrefix(s, s \o t)
  BY <1>4 DEF IsPrefix, Text
<1>6. s # s \o t
  BY <1>2
<1>. QED  BY <1>3, <1>5, <1>6 DEF IsStrictPrefix

LEMMA ReplyInit == Init => Reply!Init
BY DEF Init, Reply!Init, ReplyStatus, Ended, Over

\* Every step of the call is a step of the abstract reply, or none.
LEMMA ReplyStep ==
  ASSUME TypeOK, Delivering, Delivering', [Next]_vars,
         "close" \notin Faults, "send" \notin Faults
  PROVE  [Reply!Next]_(Reply!vars)
<1>0. /\ taken \in Text /\ offered \in Text /\ taken \o << >> = taken
  BY PrefixFacts DEF TypeOK
\* What the turn has is the same: a call that is over stays as it is, one
\* that ends is interrupted, failed, or has given the whole answer.
<1>1. ASSUME taken' = taken, Ended => UNCHANGED <<phase, offered, cancelled>>
      PROVE  [Reply!Next]_(Reply!vars)
  <2>1. CASE Ended
    BY <1>1, <2>1 DEF Reply!vars, ReplyStatus, Ended
  <2>2. CASE ~Ended /\ ~Ended'
    BY <1>1, <2>2 DEF Reply!vars, ReplyStatus
  <2>3. CASE ~Ended /\ Ended'
    <3>1. ReplyStatus = "running"
      BY <2>3 DEF ReplyStatus
    <3>2. CASE phase' = "failed"
      <4>1. ReplyStatus' = "failed"
        BY <2>3, <3>2 DEF ReplyStatus
      <4>. QED  BY <1>1, <3>1, <4>1 DEF Reply!Next, Reply!Break
    <3>3. CASE phase' # "failed" /\ cancelled'
      <4>1. ReplyStatus' = "interrupted"
        BY <2>3, <3>3 DEF ReplyStatus
      <4>. QED  BY <1>1, <3>1, <4>1 DEF Reply!Next, Reply!Interrupt
    <3>4. CASE phase' # "failed" /\ ~cancelled'
      <4>1. ReplyStatus' = "whole"
        BY <2>3, <3>4 DEF ReplyStatus
      <4>2. phase' = "done" /\ offered' = << >>
        BY <2>3, <3>4 DEF Ended, Over, Delivering
      <4>3. taken' = Answer
        BY <4>2, <3>4, <1>0, <1>1 DEF Delivering
      <4>. QED  BY <3>1, <4>1, <4>3 DEF Reply!Next, Reply!Finish
    <3>. QED  BY <3>2, <3>3, <3>4
  <2>. QED  BY <2>1, <2>2, <2>3
<1>2. CASE TakeDelta
  <2>1. /\ offered # << >> /\ ~cancelled /\ taken' = taken \o offered /\ offered' = << >>
        /\ phase' = phase /\ cancelled' = cancelled
    BY <1>2 DEF TakeDelta
  <2>2. ReplyStatus = "running"
    BY <2>1 DEF ReplyStatus, Ended
  <2>3. CASE phase \in Over
    <3>1. phase = "done" /\ taken \o offered = Answer
      BY <2>1, <2>3 DEF Delivering, Over
    <3>2. ReplyStatus' = "whole"
      BY <2>1, <2>3, <3>1 DEF ReplyStatus, Ended
    <3>. QED  BY <2>1, <2>2, <3>1, <3>2 DEF Reply!Next, Reply!Finish
  <2>4. CASE phase \notin Over
    <3>1. ReplyStatus' = ReplyStatus
      BY <2>1, <2>2, <2>4 DEF ReplyStatus, Ended
    <3>2. /\ \E n \in 1 .. Len(Answer) : taken' = SubSeq(Answer, 1, n)
          /\ IsStrictPrefix(taken, taken')
      BY <1>0, <2>1, GrownText DEF Delivering
    <3>3. Reply!Grow
      BY <2>2, <3>2 DEF Reply!Grow, Reply!IsStrictPrefix, IsStrictPrefix, Reply!IsPrefix, IsPrefix
    <3>. QED  BY <3>1, <3>3 DEF Reply!Next
  <2>. QED  BY <2>3, <2>4
<1>3. CASE DropDelta \/ Cancel \/ UNCHANGED vars
  BY <1>3, <1>1 DEF DropDelta, Cancel, vars, userVars, Ended
<1>4. ASSUME NEW i \in ChunkIds \cup {Final}, LoseChunk(i) PROVE [Reply!Next]_(Reply!vars)
  BY <1>4, <1>1 DEF LoseChunk, userVars
<1>5. ASSUME taken' = taken, phase \in Working PROVE [Reply!Next]_(Reply!vars)
  BY <1>5, <1>1 DEF Ended, Working, Over
<1>6. CASE Handshake \/ LoopTop \/ Polling \/ FlushChunk \/ EmitItem \/ FlushDone \/ Unsubscribe
           \/ UnsubscribeFails
  BY <1>6, <1>5 DEF Handshake, Polling, Connect, ConnectFails, UserQueryFails, Welcome, Confirm,
       HandshakeFails, HandshakeMalformed, PostQuestion, PostBreaks, PostRefused, LoopTop,
       FlushChunk, EmitItem, FlushDone, Unsubscribe, UnsubscribeFails, PollPost, Poll, PollBreaks,
       PollTimesOut, Advance, FallBack, Fail, Running, userVars, Working
<1>7. CASE Receive
  BY <1>7, <1>5 DEF Receive, RecvNothing, RecvFinal, RecvError, RecvClosed, RecvBreaks, RecvChunk,
       RecvOddChunk, Advance, FallBack, Fail, Running, userVars, Working
<1>. QED
  BY <1>2, <1>3, <1>4, <1>6, <1>7 DEF Next, Client, Environment, Returned

\* The call implements the abstract reply: for a reply of either kind and any
\* length, under every fault but a connection closed before the final chunk
\* or breaking after it, the reply of the turn grows along the answer, and
\* the call ends with the whole of it, interrupted, or with an error.
THEOREM ReplyImplemented ==
  ASSUME WellFormedReplies, "close" \notin Faults, "send" \notin Faults
  PROVE  Spec => ImplementsReply
<1>1. TypeOK /\ Agreed /\ Agreed' /\ Delivering /\ [Next]_vars => Delivering'
  BY DeliveringStep
<1>2. TypeOK /\ Delivering /\ Delivering' /\ [Next]_vars => [Reply!Next]_(Reply!vars)
  BY ReplyStep
<1>3. StreamInv => Agreed
  BY DEF StreamInv
<1>4. Spec => []TypeOK /\ []Agreed
  BY <1>3, TypeCorrect, StreamCorrect, PTL
<1>. QED  BY <1>1, <1>2, <1>4, DeliveringInit, ReplyInit, PTL DEF Spec, ImplementsReply, Reply!Spec
=============================================================================

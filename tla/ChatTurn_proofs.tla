--------------------------- MODULE ChatTurn_proofs ---------------------------
(***************************************************************************)
(* Proofs about ChatTurn for any number of conversations, requests and     *)
(* attachments.                                                            *)
(***************************************************************************)
EXTENDS ChatTurn, SequenceTheorems, FiniteSetTheorems, TLAPS

-----------------------------------------------------------------------------
(* Types.                                                                  *)

\* The two flags apart: they are for Zenon, the rest is for SMT.
Flags == resumed \in BOOLEAN /\ posted \in BOOLEAN
Data ==
  /\ current \in Conv
  /\ turns \in [Conv -> Seq(Turn)]
  /\ asked \in [Conv -> 0 .. MaxAsks]
  /\ pending \in Seq(File) /\ queued \in 0 .. MaxFiles /\ dropped \subseteq File
  /\ phase \in {"idle", "sending", "failed"}
  /\ phase # "idle" => outbound \in Turn
  /\ thread \subseteq Ask

LEMMA Parts == TypeOK <=> Flags /\ Data
  BY Zenon DEF TypeOK, Flags, Data

LEMMA InitTypes == Init => TypeOK
  <1> SUFFICES ASSUME Init PROVE TypeOK
    OBVIOUS
  <1>1. turns \in [Conv -> Seq(Turn)] /\ asked \in [Conv -> 0 .. MaxAsks]
    BY TurnAssumption DEF Init
  <1>2. Data
    BY <1>1, TurnAssumption DEF Init, Data
  <1>3. Flags
    BY Zenon DEF Init, Flags
  <1> QED
    BY <1>2, <1>3, Parts

\* A file queued, one removed, the first ones consumed.
LEMMA QueueSeq ==
  ASSUME NEW q \in Seq(File)
  PROVE  /\ \A f \in File : Append(q, f) \in Seq(File)
         /\ \A i \in DOMAIN q : RemoveAt(q, i) \in Seq(File) /\ q[i] \in File
         /\ \A n \in Nat : Consume(q, n) \in Seq(File)
         /\ ToSet(q) \subseteq File
  <1>1. Len(q) \in Nat /\ DOMAIN q = 1 .. Len(q) /\ \A i \in 1 .. Len(q) : q[i] \in File
    BY LenProperties, ElementOfSeq
  <1>2. ASSUME NEW m \in Int, NEW n \in Int, 1 <= m, n <= Len(q)
        PROVE  SubSeq(q, m, n) \in Seq(File)
    <2>1. \A i \in m .. n : q[i] \in File
      BY <1>1, <1>2
    <2> QED
      BY <2>1, SubSeqProperties
  <1>3. ASSUME NEW i \in DOMAIN q PROVE RemoveAt(q, i) \in Seq(File)
    <2>1. SubSeq(q, 1, i - 1) \in Seq(File) /\ SubSeq(q, i + 1, Len(q)) \in Seq(File)
      BY <1>1, <1>2
    <2> QED
      BY <2>1, ConcatProperties DEF RemoveAt
  <1>4. ASSUME NEW n \in Nat PROVE Consume(q, n) \in Seq(File)
    BY <1>1, <1>2 DEF Consume
  <1>5. \A f \in File : Append(q, f) \in Seq(File)
    OBVIOUS
  <1>6. ToSet(q) \subseteq File
    BY <1>1 DEF ToSet
  <1> QED
    BY <1>1, <1>3, <1>4, <1>5, <1>6

LEMMA BuiltType ==
  ASSUME TypeOK, asked[current] < MaxAsks, NEW to \in {"duo", "other"}
  PROVE  Built(to) \in Turn
  <1>1. NextAsk \in Ask
    BY TurnAssumption DEF TypeOK, NextAsk, Ask
  <1>2. Said(current) \subseteq Ask
    <2>1. ASSUME NEW i \in DOMAIN turns[current] PROVE turns[current][i].content \subseteq Ask
      <3>1. turns[current] \in Seq(Turn)
        BY DEF TypeOK
      <3>2. turns[current][i] \in Turn
        BY <3>1, LenProperties, ElementOfSeq
      <3> QED
        BY <3>2 DEF Turn
    <2> QED
      BY <2>1 DEF Said
  <1> QED
    BY <1>1, <1>2 DEF Built, Turn, TypeOK

\* A turn added to the current conversation.
LEMMA TurnsType ==
  ASSUME TypeOK, NEW t \in Turn, turns' = [turns EXCEPT ![current] = Append(@, t)]
  PROVE  turns' \in [Conv -> Seq(Turn)]
  BY DEF TypeOK

LEMMA MayAskBound == MayAsk => asked[current] < MaxAsks
  BY Zenon DEF MayAsk

LEMMA AskedType ==
  ASSUME TypeOK, MayAsk, asked' = [asked EXCEPT ![current] = @ + 1]
  PROVE  asked' \in [Conv -> 0 .. MaxAsks]
  BY TurnAssumption, MayAskBound DEF TypeOK

LEMMA OpenTypes ==
  ASSUME TypeOK, NEW c \in Conv, Open(c), resumed' \in BOOLEAN, thread' \subseteq Ask
  PROVE  TypeOK'
  <1>1. pending \in Seq(File) /\ dropped \subseteq File
    BY DEF TypeOK
  <1>2. dropped' \subseteq File
    BY <1>1, QueueSeq DEF Open
  <1>3. current' = c /\ pending' = << >> /\ phase' = "idle" /\ posted' = FALSE
        /\ turns' = turns /\ asked' = asked /\ queued' = queued
    BY DEF Open, EndAttempt
  <1>4. Data
    BY Parts
  <1>5. Data'
    BY <1>2, <1>3, <1>4 DEF Data
  <1>6. Flags'
    BY <1>3, Zenon DEF Flags
  <1> QED
    BY <1>5, <1>6, Zenon DEF TypeOK, Flags, Data

LEMMA ThreadTypes ==
  ASSUME TypeOK
  PROVE  /\ Reset => thread' \subseteq Ask
         /\ \A c \in Conv : KeepThread(c) => thread' \subseteq Ask
  BY DEF TypeOK, Reset, KeepThread, ThreadKept

LEMMA StepTypes == TypeOK /\ [Next]_vars => TypeOK'
  <1> SUFFICES ASSUME TypeOK, [Next]_vars PROVE TypeOK'
    OBVIOUS
  <1>0. /\ pending \in Seq(File) /\ queued \in Nat /\ dropped \subseteq File
        /\ MaxFiles \in Nat
        /\ \A n \in 1 .. MaxFiles : n \in File
    BY TurnAssumption DEF TypeOK, File
  <1>q. ASSUME Queue(queued + 1) PROVE queued' \in 0 .. MaxFiles /\ pending' \in Seq(File)
    BY <1>0, <1>q, QueueSeq DEF Queue
  <1>1. CASE Attach
    BY <1>1, <1>q DEF TypeOK, Attach, Idle
  <1>2. CASE Detach
    <2>0. /\ \A i \in DOMAIN pending : RemoveAt(pending, i) \in Seq(File) /\ pending[i] \in File
          /\ ToSet(pending) \subseteq File
      BY <1>0, QueueSeq
    <2>1. pending' \in Seq(File) /\ dropped' \subseteq File
      <3>1. ASSUME NEW i \in DOMAIN pending, pending' = RemoveAt(pending, i),
                   dropped' = dropped \cup {pending[i]}
            PROVE  pending' \in Seq(File) /\ dropped' \subseteq File
        BY <2>0, <3>1, <1>0
      <3>2. CASE pending' = << >> /\ dropped' = dropped \cup ToSet(pending)
        BY <2>0, <3>2, <1>0
      <3> QED
        BY <1>2, <3>1, <3>2, Zenon DEF Detach
    <2> QED
      BY <1>2, <2>1 DEF TypeOK, Detach
  <1>3. CASE Begin
    <2>1. CASE Refused
      BY <1>3, <2>1 DEF TypeOK, Begin, Refused
    <2>2. ASSUME NEW to \in {"duo", "other"}, Sent(to) PROVE TypeOK'
      <3>1. outbound' \in Turn
        BY <1>3, <2>2, BuiltType, MayAskBound DEF Begin, Sent
      <3>2. asked' \in [Conv -> 0 .. MaxAsks]
        BY <1>3, <2>2, AskedType DEF Begin, Sent
      <3> QED
        BY <1>3, <2>2, <3>1, <3>2 DEF TypeOK, Begin, Sent
    <2> QED
      BY <1>3, <2>1, <2>2 DEF Begin
  <1>4. CASE Post
    <2>1. outbound.content \subseteq Ask
      BY <1>4 DEF Post, TypeOK, Turn
    <2> QED
      BY <1>4, <2>1 DEF TypeOK, Post, session
  <1>5. CASE Fail
    <2>1. queued' \in 0 .. MaxFiles /\ pending' \in Seq(File)
      BY <1>5, <1>q DEF Fail, NothingRan, Ran, TypeOK
    <2> QED
      BY <1>5, <2>1 DEF TypeOK, Fail, EndAttempt
  <1>6. CASE Retry
    BY <1>6 DEF TypeOK, Retry, session
  <1>7. CASE Abort
    BY <1>7 DEF TypeOK, Abort, EndAttempt, session
  <1>8. CASE Finish
    <2>1. outbound \in Turn
      BY <1>8 DEF Finish, TypeOK
    <2>2. turns' \in [Conv -> Seq(Turn)]
      BY <1>8, <2>1, TurnsType DEF Finish
    <2>3. Len(outbound.files) \in Nat
      BY <2>1, LenProperties DEF Turn
    <2>4. queued' \in 0 .. MaxFiles /\ pending' \in Seq(File)
      <3>1. CASE queued' = queued /\ pending' = Consume(pending, Len(outbound.files))
        BY <3>1, <2>3, <1>0, QueueSeq DEF TypeOK
      <3>2. CASE /\ queued < MaxFiles /\ queued' = queued + 1
                 /\ pending' = Consume(Append(pending, queued'), Len(outbound.files))
        <4>1. queued' \in File
          BY <3>2, <1>0
        <4>2. Append(pending, queued') \in Seq(File)
          BY <4>1, <1>0, QueueSeq
        <4> DEFINE q == Append(pending, queued')
        <4>3. q \in Seq(File)
          BY <4>2
        <4> HIDE DEF q
        <4>4. Consume(q, Len(outbound.files)) \in Seq(File)
          BY <4>3, <2>3, QueueSeq
        <4>5. pending' \in Seq(File)
          BY <3>2, <4>4, Zenon DEF q
        <4>6. queued' \in 0 .. MaxFiles
          BY <3>2, <1>0
        <4> QED
          BY <4>5, <4>6
      <3> QED
        BY <1>8, <3>1, <3>2 DEF Finish
    <2> QED
      BY <1>8, <2>2, <2>4 DEF TypeOK, Finish, EndAttempt
  <1>9. CASE LoadSkill
    <2>1. NextAsk \in Ask
      <3>1. asked[current] < MaxAsks
        BY <1>9, MayAskBound DEF LoadSkill
      <3> QED
        BY <3>1, TurnAssumption DEF TypeOK, NextAsk, Ask
    <2> DEFINE skill == [ask |-> NextAsk, to |-> "skill", content |-> {NextAsk}, files |-> << >>]
    <2>2. skill \in Turn
      BY <2>1 DEF Turn
    <2>3. turns' = [turns EXCEPT ![current] = Append(@, skill)]
      BY <1>9 DEF LoadSkill
    <2> HIDE DEF skill
    <2>4. turns' \in [Conv -> Seq(Turn)]
      BY <2>2, <2>3, TurnsType
    <2>5. asked' \in [Conv -> 0 .. MaxAsks]
      BY <1>9, AskedType DEF LoadSkill
    <2> QED
      BY <1>9, <2>4, <2>5 DEF TypeOK, LoadSkill, session
  <1>10. ASSUME NEW c \in Conv, NewConversation(c) PROVE TypeOK'
    BY <1>10, OpenTypes, ThreadTypes DEF NewConversation, TypeOK
  <1>11. ASSUME NEW c \in Conv, Resume(c) PROVE TypeOK'
    BY <1>11, OpenTypes, ThreadTypes DEF Resume, Switch, OwesReplay
  <1>12. ASSUME NEW c \in Conv, SearchResume(c) PROVE TypeOK'
    BY <1>12, OpenTypes, ThreadTypes DEF SearchResume, Switch, OwesReplay
  <1>13. ASSUME NEW c \in Conv, Restart(c) PROVE TypeOK'
    BY <1>13, OpenTypes, ThreadTypes DEF Restart, Switch, OwesReplay
  <1>14. CASE UNCHANGED vars
    BY <1>14 DEF TypeOK, vars, session
  <1> QED
    BY <1>1, <1>2, <1>3, <1>4, <1>5, <1>6, <1>7, <1>8, <1>9, <1>10, <1>11, <1>12,
       <1>13, <1>14 DEF Next

\* The session keeps its types, for every bound and every set of faults.
THEOREM TypeCorrect == Spec => []TypeOK
  BY InitTypes, StepTypes, PTL DEF Spec

-----------------------------------------------------------------------------
(* The order of the turns, whatever the faults.                            *)

\* A turn holds its own request, with that of its conversation alone, and it
\* was made.
Numbered(t, c) ==
  /\ t.ask \in t.content
  /\ t.ask[2] <= asked[c]
  /\ \A m \in t.content : m[1] = c
Recorded == \A c \in Conv : \A i \in DOMAIN turns[c] : Numbered(turns[c][i], c)

\* The request under way is the last one made in its conversation.
UnderWay ==
  ~Idle => /\ outbound.ask = <<current, asked[current]>>
           /\ outbound.ask \in outbound.content
           /\ \A m \in outbound.content : m[1] = current
           /\ \A i \in DOMAIN turns[current] : turns[current][i].ask[2] < asked[current]

PostedKnown ==
  posted => phase = "sending" /\ outbound.to = "duo" /\ outbound.content \subseteq thread

OrderInv == Recorded /\ UnderWay /\ TurnsInOrder /\ PostedKnown

LEMMA InitOrder == Init => OrderInv
  BY DEF Init, OrderInv, Recorded, UnderWay, TurnsInOrder, PostedKnown, Idle

LEMMA TurnsShape ==
  ASSUME TypeOK, NEW c \in Conv
  PROVE  /\ Len(turns[c]) \in Nat /\ DOMAIN turns[c] = 1 .. Len(turns[c])
         /\ \A i \in DOMAIN turns[c] : turns[c][i] \in Turn
  <1>1. turns[c] \in Seq(Turn)
    BY DEF TypeOK
  <1> QED
    BY <1>1, LenProperties, ElementOfSeq

LEMMA TurnAdded ==
  ASSUME TypeOK, NEW t \in Turn, turns' = [turns EXCEPT ![current] = Append(@, t)]
  PROVE  /\ \A c \in Conv : c # current => turns'[c] = turns[c]
         /\ DOMAIN turns'[current] = 1 .. Len(turns[current]) + 1
         /\ \A i \in DOMAIN turns[current] : turns'[current][i] = turns[current][i]
         /\ turns'[current][Len(turns[current]) + 1] = t
  <1>1. current \in Conv /\ turns[current] \in Seq(Turn)
    BY DEF TypeOK
  <1>2. turns'[current] = Append(turns[current], t)
    BY <1>1 DEF TypeOK
  <1>3. \A c \in Conv : c # current => turns'[c] = turns[c]
    BY DEF TypeOK
  <1> QED
    BY <1>1, <1>2, <1>3

\* A turn with the number of the last request, added to the conversation.
LEMMA TurnAddedInOrder ==
  ASSUME TypeOK, Recorded, TurnsInOrder, NEW t \in Turn,
         turns' = [turns EXCEPT ![current] = Append(@, t)],
         \A c \in Conv : asked[c] <= asked'[c],
         t.ask[2] = asked'[current], t.ask \in t.content,
         \A m \in t.content : m[1] = current,
         \A i \in DOMAIN turns[current] : turns[current][i].ask[2] < asked'[current],
         asked' \in [Conv -> Nat]
  PROVE  Recorded' /\ TurnsInOrder'
  <1>0. current \in Conv /\ asked \in [Conv -> Nat]
    BY TurnAssumption DEF TypeOK
  <1>1. \A c \in Conv : /\ Len(turns[c]) \in Nat /\ DOMAIN turns[c] = 1 .. Len(turns[c])
                        /\ \A i \in DOMAIN turns[c] : turns[c][i].ask[2] \in Nat
    <2> SUFFICES ASSUME NEW c \in Conv
                 PROVE  /\ Len(turns[c]) \in Nat /\ DOMAIN turns[c] = 1 .. Len(turns[c])
                        /\ \A i \in DOMAIN turns[c] : turns[c][i].ask[2] \in Nat
      OBVIOUS
    <2>1. \A x \in Turn : x.ask[2] \in Nat
      BY TurnAssumption DEF Turn, Ask
    <2> QED
      BY <2>1, TurnsShape
  <1>2. /\ \A c \in Conv : c # current => turns'[c] = turns[c]
        /\ DOMAIN turns'[current] = 1 .. Len(turns[current]) + 1
        /\ \A i \in DOMAIN turns[current] : turns'[current][i] = turns[current][i]
        /\ turns'[current][Len(turns[current]) + 1] = t
    BY TurnAdded
  <1>3. Recorded'
    <2> SUFFICES ASSUME NEW c \in Conv, NEW i \in DOMAIN turns'[c]
                 PROVE  /\ turns'[c][i].ask \in turns'[c][i].content
                        /\ turns'[c][i].ask[2] <= asked'[c]
                        /\ \A m \in turns'[c][i].content : m[1] = c
      BY DEF Recorded, Numbered
    <2>1. CASE c = current /\ i = Len(turns[current]) + 1
      BY <2>1, <1>0, <1>2
    <2>2. CASE c # current \/ i # Len(turns[current]) + 1
      <3>1. i \in DOMAIN turns[c] /\ turns'[c][i] = turns[c][i]
        BY <2>2, <1>1, <1>2
      <3>2. Numbered(turns[c][i], c)
        BY <3>1 DEF Recorded
      <3> QED
        BY <3>1, <3>2, <1>0, <1>1 DEF Numbered
    <2> QED
      BY <2>1, <2>2
  <1>4. TurnsInOrder'
    <2> SUFFICES ASSUME NEW c \in Conv, NEW i \in DOMAIN turns'[c], NEW j \in DOMAIN turns'[c], i < j
                 PROVE  turns'[c][i].ask[2] < turns'[c][j].ask[2]
      BY DEF TurnsInOrder
    <2>1. CASE c = current /\ j = Len(turns[current]) + 1
      BY <2>1, <1>0, <1>1, <1>2
    <2>2. CASE c # current \/ j # Len(turns[current]) + 1
      BY <2>2, <1>0, <1>1, <1>2 DEF TurnsInOrder
    <2> QED
      BY <2>1, <2>2
  <1> QED
    BY <1>3, <1>4

LEMMA OpenOrder ==
  ASSUME OrderInv, NEW c \in Conv, Open(c)
  PROVE  OrderInv'
  <1>1. turns' = turns /\ asked' = asked /\ phase' = "idle" /\ ~posted'
    BY DEF Open, EndAttempt
  <1> QED
    BY <1>1 DEF OrderInv, Recorded, Numbered, UnderWay, TurnsInOrder, PostedKnown, Idle

\* The request built by Begin.
LEMMA BuiltOrder ==
  ASSUME TypeOK, Recorded, NEW to \in {"duo", "other"}
  PROVE  /\ Built(to).ask = <<current, asked[current] + 1>>
         /\ Built(to).to = to
         /\ Built(to).ask \in Built(to).content
         /\ \A m \in Built(to).content : m[1] = current
         /\ resumed => \A i \in DOMAIN turns[current] : turns[current][i].ask \in Built(to).content
  <1>0. current \in Conv
    BY DEF TypeOK
  <1>1. \A i \in DOMAIN turns[current] :
          /\ turns[current][i].ask \in turns[current][i].content
          /\ \A m \in turns[current][i].content : m[1] = current
    BY <1>0 DEF Recorded, Numbered
  <1>2. /\ \A m \in Said(current) : m[1] = current
        /\ \A i \in DOMAIN turns[current] : turns[current][i].ask \in Said(current)
    BY <1>1 DEF Said
  <1> QED
    BY <1>2 DEF Built, NextAsk

LEMMA StepOrder == TypeOK /\ OrderInv /\ [Next]_vars => OrderInv'
  <1> SUFFICES ASSUME TypeOK, OrderInv, [Next]_vars PROVE OrderInv'
    OBVIOUS
  <1>0. /\ current \in Conv /\ asked \in [Conv -> Nat]
        /\ Recorded /\ UnderWay /\ TurnsInOrder /\ PostedKnown
    BY TurnAssumption DEF TypeOK, OrderInv
  <1>s. ASSUME UNCHANGED <<current, turns, asked, outbound, phase, posted, thread>>
        PROVE  OrderInv'
    BY <1>s, <1>0 DEF OrderInv, Recorded, Numbered, UnderWay, TurnsInOrder, PostedKnown, Idle
  \* The turns of the current conversation were made before a next request.
  <1>n. \A i \in DOMAIN turns[current] :
          turns[current][i].ask[2] \in Nat /\ turns[current][i].ask[2] < asked[current] + 1
    <2>1. \A x \in Turn : x.ask[2] \in Nat
      BY TurnAssumption DEF Turn, Ask
    <2>2. \A i \in DOMAIN turns[current] :
            turns[current][i] \in Turn /\ turns[current][i].ask[2] <= asked[current]
      BY <1>0, TurnsShape DEF Recorded, Numbered
    <2> QED
      BY <1>0, <2>1, <2>2
  <1>1. CASE Attach
    BY <1>1, <1>s DEF Attach
  <1>2. CASE Detach
    BY <1>2, <1>s DEF Detach
  <1>3. CASE Begin
    <2>1. CASE Refused
      BY <1>3, <2>1, <1>s DEF Begin, Refused
    <2>2. ASSUME NEW to \in {"duo", "other"}, Sent(to) PROVE OrderInv'
      <3>1. /\ current' = current /\ turns' = turns /\ posted' = posted
            /\ ~posted /\ outbound' = Built(to)
            /\ asked' = [asked EXCEPT ![current] = @ + 1]
        BY <1>3, <2>2, <1>0 DEF Begin, Sent, Idle, PostedKnown
      <3>2. asked'[current] = asked[current] + 1 /\ \A c \in Conv : asked[c] <= asked'[c]
        BY <3>1, <1>0
      <3>3. Recorded'
        <4>1. \A c \in Conv : \A i \in DOMAIN turns[c] : turns[c][i].ask[2] \in Nat
          <5>1. \A x \in Turn : x.ask[2] \in Nat
            BY TurnAssumption DEF Turn, Ask
          <5> QED
            BY <5>1, TurnsShape
        <4>2. asked' \in [Conv -> Nat]
          BY <3>1, <1>0
        <4> QED
          BY <3>1, <3>2, <4>1, <4>2, <1>0 DEF Recorded, Numbered
      <3>4. UnderWay'
        BY <3>1, <3>2, <1>0, <1>n, BuiltOrder DEF UnderWay
      <3> QED
        BY <3>1, <3>3, <3>4, <1>0 DEF OrderInv, TurnsInOrder, PostedKnown
    <2> QED
      BY <1>3, <2>1, <2>2 DEF Begin
  <1>4. CASE Post
    <2>1. /\ current' = current /\ turns' = turns /\ asked' = asked /\ outbound' = outbound
          /\ phase' = phase /\ phase = "sending" /\ outbound.to = "duo"
          /\ thread' = thread \cup outbound.content
      BY <1>4 DEF Post, session
    <2> QED
      BY <2>1, <1>0 DEF OrderInv, Recorded, Numbered, UnderWay, TurnsInOrder, PostedKnown, Idle
  <1>5. CASE Fail
    <2>1. /\ current' = current /\ turns' = turns /\ asked' = asked /\ outbound' = outbound
          /\ phase = "sending" /\ ~posted'
      BY <1>5 DEF Fail, EndAttempt
    <2> QED
      BY <2>1, <1>0 DEF OrderInv, Recorded, Numbered, UnderWay, TurnsInOrder, PostedKnown, Idle
  <1>6. CASE Retry
    <2>1. /\ current' = current /\ turns' = turns /\ asked' = asked /\ outbound' = outbound
          /\ phase = "failed" /\ posted' = posted
      BY <1>6 DEF Retry, session
    <2> QED
      BY <2>1, <1>0 DEF OrderInv, Recorded, Numbered, UnderWay, TurnsInOrder, PostedKnown, Idle
  <1>7. CASE Abort
    <2>1. turns' = turns /\ asked' = asked /\ phase' = "idle" /\ ~posted'
      BY <1>7 DEF Abort, EndAttempt, session
    <2> QED
      BY <2>1, <1>0 DEF OrderInv, Recorded, Numbered, UnderWay, TurnsInOrder, PostedKnown, Idle
  <1>8. CASE Finish
    <2>1. /\ turns' = [turns EXCEPT ![current] = Append(@, outbound)]
          /\ asked' = asked /\ phase = "sending" /\ phase' = "idle" /\ ~posted'
          /\ outbound \in Turn
      BY <1>8 DEF Finish, EndAttempt, TypeOK
    <2>2. /\ outbound.ask = <<current, asked[current]>>
          /\ outbound.ask \in outbound.content
          /\ \A m \in outbound.content : m[1] = current
          /\ \A i \in DOMAIN turns[current] : turns[current][i].ask[2] < asked[current]
      BY <2>1, <1>0 DEF UnderWay, Idle
    <2>3. Recorded' /\ TurnsInOrder'
      <3>1. outbound.ask[2] = asked'[current] /\ asked' \in [Conv -> Nat]
            /\ \A c \in Conv : asked[c] <= asked'[c]
            /\ \A i \in DOMAIN turns[current] : turns[current][i].ask[2] < asked'[current]
        BY <2>1, <2>2, <1>0
      <3> QED
        BY <2>1, <2>2, <3>1, <1>0, TurnAddedInOrder
    <2> QED
      BY <2>1, <2>3 DEF OrderInv, UnderWay, PostedKnown, Idle
  <1>9. CASE LoadSkill
    <2> DEFINE skill == [ask |-> NextAsk, to |-> "skill", content |-> {NextAsk}, files |-> << >>]
    <2>1. /\ turns' = [turns EXCEPT ![current] = Append(@, skill)]
          /\ asked' = [asked EXCEPT ![current] = @ + 1]
          /\ current' = current /\ phase' = "idle" /\ posted' = posted /\ ~posted
      BY <1>9, <1>0 DEF LoadSkill, session, Idle, PostedKnown
    <2>2. skill \in Turn
      <3>1. asked[current] < MaxAsks
        BY <1>9, MayAskBound DEF LoadSkill
      <3>2. NextAsk \in Ask
        BY <3>1, TurnAssumption DEF TypeOK, NextAsk, Ask
      <3> QED
        BY <3>2 DEF Turn
    <2>3. /\ asked' \in [Conv -> Nat] /\ asked'[current] = asked[current] + 1
          /\ \A c \in Conv : asked[c] <= asked'[c]
      BY <2>1, <1>0
    <2>4. /\ skill.ask[2] = asked'[current] /\ skill.ask \in skill.content
          /\ \A m \in skill.content : m[1] = current
      BY <2>3 DEF NextAsk
    <2> HIDE DEF skill
    <2>5. Recorded' /\ TurnsInOrder'
      BY <2>1, <2>2, <2>3, <2>4, <1>0, <1>n, TurnAddedInOrder
    <2> QED
      BY <2>1, <2>5 DEF OrderInv, UnderWay, PostedKnown, Idle
  <1>10. ASSUME NEW c \in Conv, Open(c) PROVE OrderInv'
    BY <1>10, OpenOrder
  <1>11. CASE UNCHANGED vars
    BY <1>11, <1>s DEF vars, session
  <1>12. ASSUME NEW c \in Conv,
                NewConversation(c) \/ Resume(c) \/ SearchResume(c) \/ Restart(c)
         PROVE  Open(c)
    BY <1>12 DEF NewConversation, Resume, SearchResume, Restart, Switch
  <1> QED
    BY <1>1, <1>2, <1>3, <1>4, <1>5, <1>6, <1>7, <1>8, <1>9, <1>10, <1>11, <1>12 DEF Next

\* However often a question is posted, retried or aborted, and whatever is
\* resumed, a conversation holds each of its requests at most once and in
\* the order in which they were made.
THEOREM TurnsOrdered == Spec => []TurnsInOrder
  <1>1. TypeOK /\ OrderInv => TurnsInOrder
    BY DEF OrderInv
  <1> QED
    BY <1>1, InitTypes, StepTypes, InitOrder, StepOrder, PTL DEF Spec

-----------------------------------------------------------------------------
(* The context of a question.                                              *)

\* Every request made to Duo in the current conversation is in the thread,
\* or owed to it, or in the question under way.
Owed ==
  \A i \in DOMAIN turns[current] :
    turns[current][i].to = "duo" =>
      \/ turns[current][i].ask \in thread
      \/ resumed
      \/ ~Idle /\ outbound.to = "duo" /\ turns[current][i].ask \in outbound.content

LEMMA InitOwed == Init => Owed
  BY DEF Init, Owed

LEMMA OpenOwed ==
  ASSUME NEW c \in Conv, Open(c), turns[c] = << >> \/ resumed'
  PROVE  Owed'
  <1>1. current' = c /\ turns' = turns
    BY DEF Open
  <1> QED
    BY <1>1 DEF Owed

LEMMA StepOwed ==
  ASSUME "dropped" \notin Faults
  PROVE  TypeOK /\ OrderInv /\ Owed /\ [Next]_vars => Owed'
  <1> SUFFICES ASSUME TypeOK, OrderInv, Owed, [Next]_vars PROVE Owed'
    OBVIOUS
  <1>0. current \in Conv /\ Recorded /\ UnderWay /\ PostedKnown
    BY DEF TypeOK, OrderInv
  <1>s. ASSUME UNCHANGED <<current, turns, resumed, outbound, phase, thread>> PROVE Owed'
    BY <1>s DEF Owed, Idle
  <1>1. CASE Attach
    BY <1>1, <1>s DEF Attach
  <1>2. CASE Detach
    BY <1>2, <1>s DEF Detach
  <1>3. CASE Begin
    <2>1. current' = current /\ turns' = turns /\ thread' = thread /\ Idle
      BY <1>3 DEF Begin
    <2>2. CASE Sent("duo")
      <3>1. phase' = "sending" /\ outbound' = Built("duo")
        BY <2>2 DEF Sent
      <3>2. /\ Built("duo").to = "duo"
            /\ resumed => \A i \in DOMAIN turns[current] :
                            turns[current][i].ask \in Built("duo").content
        BY <1>0, BuiltOrder
      <3> QED
        BY <2>1, <3>1, <3>2 DEF Owed, Idle
    <2>3. CASE MayDrop
      BY <2>1, <2>3 DEF Owed, Idle, MayDrop
    <2> QED
      BY <1>3, <2>2, <2>3 DEF Begin
  <1>4. CASE Post
    BY <1>4 DEF Post, session, Owed, Idle
  <1>5. CASE Fail
    BY <1>5 DEF Fail, EndAttempt, Owed, Idle
  <1>6. CASE Retry
    BY <1>6 DEF Retry, session, Owed, Idle
  <1>7. CASE Abort
    <2>1. /\ current' = current /\ turns' = turns /\ resumed' = resumed /\ thread' = thread
          /\ ~Idle /\ outbound.content \subseteq thread \cup {outbound.ask}
      BY <1>7 DEF Abort, session, ReplayArrived
    <2>2. \A i \in DOMAIN turns[current] : turns[current][i].ask # outbound.ask
      <3>1. outbound.ask[2] = asked[current]
        BY <2>1, <1>0 DEF UnderWay
      <3>2. \A i \in DOMAIN turns[current] : turns[current][i].ask[2] < asked[current]
        BY <2>1, <1>0 DEF UnderWay
      <3>3. asked[current] \in Nat
        BY TurnAssumption DEF TypeOK
      <3> QED
        BY <3>1, <3>2, <3>3
    <2> QED
      BY <2>1, <2>2 DEF Owed
  <1>8. CASE Finish
    <2>1. /\ turns' = [turns EXCEPT ![current] = Append(@, outbound)]
          /\ current' = current /\ resumed' = resumed /\ thread' = thread
          /\ phase = "sending" /\ outbound \in Turn
      BY <1>8 DEF Finish, TypeOK
    <2>2. outbound.to = "duo" => outbound.content \subseteq thread
      BY <1>8, <1>0 DEF Finish, PostedKnown
    <2>3. outbound.ask \in outbound.content
      BY <2>1, <1>0 DEF UnderWay, Idle
    <2> SUFFICES ASSUME NEW i \in DOMAIN turns'[current], turns'[current][i].to = "duo"
                 PROVE  turns'[current][i].ask \in thread \/ resumed
      BY <2>1 DEF Owed
    <2>4. CASE i \in DOMAIN turns[current]
      <3>1. turns'[current][i] = turns[current][i]
        BY <2>1, <2>4, TurnAdded
      <3> QED
        BY <2>2, <2>4, <3>1 DEF Owed
    <2>5. CASE i \notin DOMAIN turns[current]
      <3>1. turns'[current][i] = outbound
        BY <2>1, <2>5, <1>0, TurnAdded, TurnsShape
      <3> QED
        BY <2>2, <2>3, <3>1
    <2> QED
      BY <2>4, <2>5
  <1>9. CASE LoadSkill
    <2> DEFINE skill == [ask |-> NextAsk, to |-> "skill", content |-> {NextAsk}, files |-> << >>]
    <2>1. /\ turns' = [turns EXCEPT ![current] = Append(@, skill)]
          /\ current' = current /\ resumed' = resumed /\ thread' = thread
          /\ Idle /\ asked[current] < MaxAsks
      BY <1>9, MayAskBound DEF LoadSkill, session
    <2>2. NextAsk \in Ask
      BY <2>1, TurnAssumption DEF TypeOK, NextAsk, Ask
    <2>3. skill \in Turn /\ skill.to # "duo"
      BY <2>2 DEF Turn
    <2> HIDE DEF skill
    <2> SUFFICES ASSUME NEW i \in DOMAIN turns'[current], turns'[current][i].to = "duo"
                 PROVE  turns'[current][i].ask \in thread \/ resumed
      BY <2>1 DEF Owed
    <2>4. i \in DOMAIN turns[current] /\ turns'[current][i] = turns[current][i]
      BY <2>1, <2>3, <1>0, TurnAdded, TurnsShape
    <2> QED
      BY <2>1, <2>4 DEF Owed
  <1>10. ASSUME NEW c \in Conv, NewConversation(c) \/ Resume(c) \/ SearchResume(c) \/ Restart(c)
         PROVE  Owed'
    <2>1. Open(c) /\ (turns[c] = << >> \/ resumed')
      BY <1>10 DEF NewConversation, Resume, SearchResume, Restart, Switch, OwesReplay, Unused
    <2> QED
      BY <2>1, OpenOwed
  <1>11. CASE UNCHANGED vars
    BY <1>11, <1>s DEF vars, session
  <1> QED
    BY <1>1, <1>2, <1>3, <1>4, <1>5, <1>6, <1>7, <1>8, <1>9, <1>10, <1>11 DEF Next

\* The replay is spent as soon as a request is built.
Spent == ~Idle => ~resumed

LEMMA StepSpent == Spent /\ [Next]_vars => Spent'
  <1> SUFFICES ASSUME Spent, [Next]_vars PROVE Spent'
    OBVIOUS
  <1>1. CASE Attach
    BY <1>1 DEF Attach, Spent, Idle
  <1>2. CASE Detach
    BY <1>2 DEF Detach, Spent, Idle
  <1>3. CASE Begin
    BY <1>3 DEF Begin, Spent
  <1>4. CASE Post
    BY <1>4 DEF Post, session, Spent, Idle
  <1>5. CASE Fail
    BY <1>5 DEF Fail, Spent, Idle
  <1>6. CASE Retry
    BY <1>6 DEF Retry, session, Spent, Idle
  <1>7. CASE Abort \/ Finish
    BY <1>7 DEF Abort, Finish, EndAttempt, Spent, Idle
  <1>8. CASE LoadSkill
    BY <1>8 DEF LoadSkill, session, Spent, Idle
  <1>9. ASSUME NEW c \in Conv, NewConversation(c) \/ Resume(c) \/ SearchResume(c) \/ Restart(c)
        PROVE  Spent'
    BY <1>9 DEF NewConversation, Resume, SearchResume, Restart, Switch, Open, EndAttempt, Spent, Idle
  <1>10. CASE UNCHANGED vars
    BY <1>10 DEF vars, session, Spent, Idle
  <1> QED
    BY <1>1, <1>2, <1>3, <1>4, <1>5, <1>6, <1>7, <1>8, <1>9, <1>10 DEF Next

\* Unless a request that carries the replay is refused, aborted or given to
\* another model, every question Duo has comes with all that was asked of it
\* before in the conversation, however often that was resumed.
THEOREM ContextKept == ASSUME "dropped" \notin Faults PROVE Spec => []InContext
  <1>1. Init => Spent
    BY DEF Init, Spent
  <1>2. TypeOK /\ OrderInv /\ Owed /\ [Next]_vars => Owed'
    BY StepOwed
  <1>3. OrderInv /\ Owed /\ Spent => InContext
    BY DEF OrderInv, PostedKnown, Owed, Spent, InContext, Idle
  <1> QED
    BY <1>1, <1>2, <1>3, InitTypes, StepTypes, InitOrder, StepOrder, InitOwed, StepSpent,
       PTL DEF Spec

-----------------------------------------------------------------------------
(* Nothing of another conversation.                                        *)

Alone == Ambient(current)

LEMMA StepAlone ==
  ASSUME "deaf" \notin Faults, "ambient" \notin Faults
  PROVE  OrderInv /\ Alone /\ [Next]_vars => Alone'
  <1> SUFFICES ASSUME OrderInv, Alone, [Next]_vars PROVE Alone'
    OBVIOUS
  <1>s. ASSUME current' = current, thread' = thread PROVE Alone'
    BY <1>s DEF Alone, Ambient
  <1>1. CASE Attach \/ Detach \/ Begin \/ Fail \/ Finish
    BY <1>1, <1>s DEF Attach, Detach, Begin, Fail, Finish
  <1>2. CASE Retry \/ Abort \/ LoadSkill
    BY <1>2, <1>s DEF Retry, Abort, LoadSkill, session
  <1>3. CASE Post
    <2>1. \A m \in outbound.content : m[1] = current
      BY <1>3 DEF Post, OrderInv, UnderWay, Idle
    <2> QED
      BY <1>3, <2>1 DEF Post, session, Alone, Ambient
  <1>4. ASSUME NEW c \in Conv, NewConversation(c) \/ Resume(c) \/ SearchResume(c) \/ Restart(c)
        PROVE  Alone'
    <2>1. current' = c
      BY <1>4 DEF NewConversation, Resume, SearchResume, Restart, Switch, Open
    <2>2. Reset \/ KeepThread(c)
      BY <1>4 DEF NewConversation, Resume, SearchResume, Restart
    <2>3. thread' = {} \/ (Ambient(c) /\ thread' = thread)
      BY <2>2 DEF Reset, KeepThread, ThreadKept
    <2> QED
      BY <2>1, <2>3 DEF Alone, Ambient
  <1>5. CASE UNCHANGED vars
    BY <1>5, <1>s DEF vars, session
  <1> QED
    BY <1>1, <1>2, <1>3, <1>4, <1>5 DEF Next

\* When every reset reaches Duo and no conversation is opened without one
\* while the thread holds another, no question is answered in the context of
\* another conversation.
THEOREM ContextAlone ==
  ASSUME "deaf" \notin Faults, "ambient" \notin Faults
  PROVE  Spec => []NoOtherContext
  <1>1. Init => Alone
    BY DEF Init, Alone, Ambient
  <1>2. OrderInv /\ Alone /\ [Next]_vars => Alone'
    BY StepAlone
  <1>3. Alone => NoOtherContext
    BY DEF Alone, NoOtherContext
  <1> QED
    BY <1>1, <1>2, <1>3, InitTypes, StepTypes, InitOrder, StepOrder, PTL DEF Spec

-----------------------------------------------------------------------------
(* The attachments.                                                        *)

\* A file is queued once; the files of a request are the first of the queue.
Distinct(q) == \A i, j \in DOMAIN q : q[i] = q[j] => i = j
First(p, q) == Len(p) <= Len(q) /\ \A i \in 1 .. Len(p) : p[i] = q[i]

LEMMA FilesShape ==
  ASSUME NEW q \in Seq(File)
  PROVE  /\ Len(q) \in Nat /\ DOMAIN q = 1 .. Len(q)
         /\ \A i \in 1 .. Len(q) : q[i] \in File
  BY LenProperties, ElementOfSeq

LEMMA InFiles ==
  ASSUME NEW q \in Seq(File)
  PROVE  \A f : f \in ToSet(q) <=> \E i \in 1 .. Len(q) : q[i] = f
  BY FilesShape DEF ToSet

\* A file queued, one detached, those of a request consumed.
LEMMA FileAppended ==
  ASSUME NEW q \in Seq(File), NEW f \in File, f \notin ToSet(q), Distinct(q)
  PROVE  /\ ToSet(Append(q, f)) = ToSet(q) \cup {f}
         /\ Distinct(Append(q, f))
         /\ \A p \in Seq(File) : First(p, q) => First(p, Append(q, f))
  <1> DEFINE r == Append(q, f)
  <1>1. /\ Len(q) \in Nat /\ DOMAIN q = 1 .. Len(q) /\ \A i \in 1 .. Len(q) : q[i] \in File
        /\ Len(r) = Len(q) + 1 /\ DOMAIN r = 1 .. Len(q) + 1
        /\ \A i \in 1 .. Len(q) : r[i] = q[i]
        /\ r[Len(q) + 1] = f
    BY FilesShape
  <1> HIDE DEF r
  <1>2. ToSet(r) = ToSet(q) \cup {f}
    BY <1>1 DEF ToSet
  <1>3. \A i \in 1 .. Len(q) : q[i] # f
    BY <1>1 DEF ToSet
  <1>4. Distinct(r)
    <2> SUFFICES ASSUME NEW i \in 1 .. Len(q) + 1, NEW j \in 1 .. Len(q) + 1, r[i] = r[j]
                 PROVE  i = j
      BY <1>1 DEF Distinct
    <2>1. CASE i = Len(q) + 1 \/ j = Len(q) + 1
      BY <2>1, <1>1, <1>3
    <2>2. CASE i # Len(q) + 1 /\ j # Len(q) + 1
      BY <2>2, <1>1 DEF Distinct
    <2> QED
      BY <2>1, <2>2
  <1>5. ASSUME NEW p \in Seq(File), First(p, q) PROVE First(p, r)
    <2>1. Len(p) \in Nat
      BY FilesShape
    <2> QED
      BY <2>1, <1>1, <1>5 DEF First
  <1> QED
    BY <1>2, <1>4, <1>5 DEF r

LEMMA FileRemoved ==
  ASSUME NEW q \in Seq(File), NEW n \in DOMAIN q, Distinct(q)
  PROVE  ToSet(RemoveAt(q, n)) = ToSet(q) \ {q[n]} /\ Distinct(RemoveAt(q, n))
  <1> DEFINE r == RemoveAt(q, n)
             a == SubSeq(q, 1, n - 1)
             b == SubSeq(q, n + 1, Len(q))
  <1>1. /\ Len(q) \in Nat /\ DOMAIN q = 1 .. Len(q) /\ \A i \in 1 .. Len(q) : q[i] \in File
        /\ n \in 1 .. Len(q)
    BY FilesShape
  <1>2. a \in Seq(File) /\ Len(a) = n - 1 /\ \A i \in 1 .. n - 1 : a[i] = q[i]
    <2>1. \A i \in 1 .. n - 1 : q[i] \in File
      BY <1>1
    <2> QED
      BY <2>1, <1>1, SubSeqProperties
  <1>3. b \in Seq(File) /\ Len(b) = Len(q) - n /\ \A i \in 1 .. Len(q) - n : b[i] = q[n + i]
    <2>1. \A i \in n + 1 .. Len(q) : q[i] \in File
      BY <1>1
    <2> QED
      BY <2>1, <1>1, SubSeqProperties
  <1>4. r = a \o b
    BY DEF RemoveAt
  <1> HIDE DEF a, b, r
  <1>5. /\ r \in Seq(File) /\ Len(r) = Len(q) - 1
        /\ \A i \in 1 .. Len(q) - 1 : r[i] = IF i <= n - 1 THEN q[i] ELSE q[i + 1]
    <2>1. /\ r \in Seq(File) /\ Len(r) = Len(a) + Len(b)
          /\ \A i \in 1 .. Len(a) + Len(b) : r[i] = IF i <= Len(a) THEN a[i] ELSE b[i - Len(a)]
      BY <1>2, <1>3, <1>4, ConcatProperties
    <2>2. r \in Seq(File) /\ Len(r) = Len(q) - 1
      BY <2>1, <1>1, <1>2, <1>3
    <2>3. ASSUME NEW i \in 1 .. n - 1 PROVE r[i] = q[i]
      BY <2>1, <1>1, <1>2, <1>3
    <2>4. ASSUME NEW i \in n .. Len(q) - 1 PROVE r[i] = q[i + 1]
      <3>1. r[i] = b[i - (n - 1)]
        BY <2>1, <1>1, <1>2, <1>3, SMTT(30)
      <3>2. i - (n - 1) \in 1 .. Len(q) - n /\ n + (i - (n - 1)) = i + 1
        BY <1>1
      <3> QED
        BY <3>1, <3>2, <1>3
    <2> QED
      BY <2>2, <2>3, <2>4, <1>1
  <1>6. DOMAIN r = 1 .. Len(q) - 1
    BY <1>5, FilesShape
  <1>7. Distinct(r)
    <2> DEFINE at(i) == IF i <= n - 1 THEN i ELSE i + 1
    <2>1. \A i \in 1 .. Len(q) - 1 : at(i) \in DOMAIN q /\ r[i] = q[at(i)]
      BY <1>1, <1>5
    <2>2. \A i, j \in 1 .. Len(q) - 1 : at(i) = at(j) => i = j
      BY <1>1
    <2> HIDE DEF at
    <2> QED
      BY <2>1, <2>2, <1>6 DEF Distinct
  <1>8. ToSet(r) = ToSet(q) \ {q[n]}
    <2> SUFFICES ASSUME NEW f PROVE f \in ToSet(r) <=> f \in ToSet(q) /\ f # q[n]
      BY Zenon
    <2>0. /\ f \in ToSet(r) <=> \E i \in 1 .. Len(q) - 1 : r[i] = f
          /\ f \in ToSet(q) <=> \E i \in 1 .. Len(q) : q[i] = f
      BY <1>5, InFiles
    <2>1. ASSUME NEW i \in 1 .. Len(q) - 1
          PROVE  \E j \in 1 .. Len(q) : q[j] = r[i] /\ r[i] # q[n]
      <3>1. CASE i < n
        BY <3>1, <1>1, <1>5 DEF Distinct
      <3>2. CASE i >= n
        <4>1. i + 1 \in 1 .. Len(q) /\ q[i + 1] = r[i] /\ i + 1 # n
          BY <3>2, <1>1, <1>5
        <4> QED
          BY <4>1, <1>1 DEF Distinct
      <3> QED
        BY <3>1, <3>2, <1>1
    <2>2. ASSUME NEW i \in 1 .. Len(q), q[i] # q[n]
          PROVE  \E j \in 1 .. Len(q) - 1 : r[j] = q[i]
      <3>1. CASE i < n
        BY <3>1, <1>1, <1>5
      <3>2. CASE i > n
        <4>1. i - 1 \in 1 .. Len(q) - 1 /\ r[i - 1] = q[i]
          BY <3>2, <1>1, <1>5
        <4> QED
          BY <4>1
      <3> QED
        BY <3>1, <3>2, <2>2, <1>1
    <2> QED
      BY <2>0, <2>1, <2>2
  <1> QED
    BY <1>7, <1>8 DEF r

LEMMA FilesConsumed ==
  ASSUME NEW q \in Seq(File), NEW p \in Seq(File), First(p, q), Distinct(q)
  PROVE  /\ ToSet(Consume(q, Len(p))) = ToSet(q) \ ToSet(p)
         /\ ToSet(p) \subseteq ToSet(q)
         /\ Distinct(Consume(q, Len(p)))
  <1> DEFINE r == Consume(q, Len(p))
  <1>1. /\ Len(q) \in Nat /\ DOMAIN q = 1 .. Len(q) /\ \A i \in 1 .. Len(q) : q[i] \in File
        /\ Len(p) \in Nat /\ DOMAIN p = 1 .. Len(p)
        /\ Len(p) <= Len(q) /\ \A i \in 1 .. Len(p) : p[i] = q[i]
    BY FilesShape DEF First
  <1>2. /\ r \in Seq(File) /\ Len(r) = Len(q) - Len(p)
        /\ \A i \in 1 .. Len(q) - Len(p) : r[i] = q[Len(p) + i]
    <2>1. \A i \in Len(p) + 1 .. Len(q) : q[i] \in File
      BY <1>1
    <2> QED
      <3> DEFINE m == Len(p) + 1
      <3>1. /\ m \in Int /\ Len(q) \in Int /\ \A i \in m .. Len(q) : q[i] \in File
            /\ r = SubSeq(q, m, Len(q))
        BY <1>1, <2>1 DEF Consume
      <3> HIDE DEF m, r
      <3>2. /\ r \in Seq(File)
            /\ Len(r) = IF m <= Len(q) THEN Len(q) - m + 1 ELSE 0
            /\ \A i \in 1 .. Len(q) - m + 1 : r[i] = q[m + i - 1]
        BY <3>1, SubSeqProperties
      <3>3. Len(q) - m + 1 = Len(q) - Len(p)
            /\ \A i \in 1 .. Len(q) - Len(p) : m + i - 1 = Len(p) + i
        BY <1>1 DEF m
      <3>4. Len(r) = Len(q) - Len(p)
        <4>1. Len(r) = IF m <= Len(q) THEN Len(q) - m + 1 ELSE 0
          BY <3>2
        <4>2. Len(p) \in Nat /\ Len(q) \in Nat /\ Len(p) <= Len(q) /\ m = Len(p) + 1
          BY <1>1 DEF m
        <4> QED
          BY <4>1, <4>2
      <3>5. ASSUME NEW i \in 1 .. Len(q) - Len(p) PROVE r[i] = q[Len(p) + i]
        <4>1. i \in 1 .. Len(q) - m + 1 /\ m + i - 1 = Len(p) + i
          BY <3>3
        <4>2. r[i] = q[m + i - 1]
          BY <3>2, <4>1
        <4> QED
          BY <4>1, <4>2, Zenon
      <3> QED
        BY <3>2, <3>4, <3>5
  <1> HIDE DEF r
  <1>3. DOMAIN r = 1 .. Len(q) - Len(p)
    BY <1>2, FilesShape
  <1>4. Distinct(r)
    <2>1. \A i \in 1 .. Len(q) - Len(p) : Len(p) + i \in DOMAIN q /\ r[i] = q[Len(p) + i]
      BY <1>1, <1>2
    <2> SUFFICES ASSUME NEW i \in 1 .. Len(q) - Len(p), NEW j \in 1 .. Len(q) - Len(p), r[i] = r[j]
                 PROVE  i = j
      BY <1>3, Zenon DEF Distinct
    <2>2. Len(p) + i = Len(p) + j
      BY <2>1 DEF Distinct
    <2> QED
      BY <2>2, <1>1
  <1>5. ToSet(p) \subseteq ToSet(q)
    BY <1>1 DEF ToSet
  <1>6. ToSet(r) = ToSet(q) \ ToSet(p)
    <2> SUFFICES ASSUME NEW f PROVE f \in ToSet(r) <=> f \in ToSet(q) /\ f \notin ToSet(p)
      BY Zenon
    <2>0. /\ f \in ToSet(r) <=> \E i \in 1 .. Len(q) - Len(p) : r[i] = f
          /\ f \in ToSet(q) <=> \E i \in 1 .. Len(q) : q[i] = f
          /\ f \in ToSet(p) <=> \E i \in 1 .. Len(p) : q[i] = f
      BY <1>1, <1>2, InFiles
    <2>1. ASSUME NEW i \in 1 .. Len(q) - Len(p)
          PROVE  /\ \E j \in 1 .. Len(q) : q[j] = r[i]
                 /\ \A j \in 1 .. Len(p) : q[j] # r[i]
      <3>1. Len(p) + i \in 1 .. Len(q) /\ q[Len(p) + i] = r[i]
        BY <1>1, <1>2
      <3>2. ASSUME NEW j \in 1 .. Len(p) PROVE q[j] # r[i]
        BY <3>1, <1>1 DEF Distinct
      <3> QED
        BY <3>1, <3>2
    <2>2. ASSUME NEW i \in 1 .. Len(q), \A j \in 1 .. Len(p) : q[j] # q[i]
          PROVE  \E j \in 1 .. Len(q) - Len(p) : r[j] = q[i]
      <3>1. i > Len(p)
        BY <2>2, <1>1
      <3>2. i - Len(p) \in 1 .. Len(q) - Len(p) /\ r[i - Len(p)] = q[i]
        BY <3>1, <1>1, <1>2
      <3> QED
        BY <3>2
    <2> QED
      BY <2>0, <2>1, <2>2
  <1> QED
    BY <1>4, <1>5, <1>6 DEF r

\* A turn's place is at most its number.
Packed == \A c \in Conv : \A i \in DOMAIN turns[c] : i <= turns[c][i].ask[2]

\* Every file queued is in one place, and no other file is anywhere.
Filed(T, c, i) == ToSet(T[c][i].files)
Placed ==
  /\ ToSet(pending) \cup dropped \subseteq 1 .. queued
  /\ ToSet(pending) \cap dropped = {}
  /\ \A c \in Conv : \A i \in DOMAIN turns[c] : \A f \in Filed(turns, c, i) :
       f \in 1 .. queued /\ f \notin ToSet(pending) \cup dropped
  /\ \A c, d \in Conv : \A i \in DOMAIN turns[c], j \in DOMAIN turns[d] :
       \A f \in Filed(turns, c, i) : f \in Filed(turns, d, j) => c = d /\ i = j
  /\ \A f \in 1 .. queued :
       \/ f \in ToSet(pending) \cup dropped
       \/ \E c \in Conv : \E i \in DOMAIN turns[c] : f \in Filed(turns, c, i)
\* The request under way carries the first files of the queue.
Carrying == ~Idle => First(outbound.files, pending)
FileInv == Distinct(pending) /\ Placed /\ Carrying

\* The turns as they were: what is waiting or dropped is what was, and what
\* was queued.
LEMMA TurnsStay ==
  ASSUME TypeOK, Placed, turns' = turns, queued' \in Nat, queued <= queued',
         ToSet(pending') \cap dropped' = {},
         ToSet(pending') \cup dropped' =
           ToSet(pending) \cup dropped \cup (queued + 1 .. queued')
  PROVE  Placed'
  <1>0. queued \in Nat
    BY DEF TypeOK
  <1>1. \A f : f \in 1 .. queued' <=> f \in 1 .. queued \/ f \in queued + 1 .. queued'
    BY <1>0
  <1>2. \A f \in 1 .. queued : f \notin queued + 1 .. queued'
    BY <1>0
  <1>3. \A c, i : Filed(turns', c, i) = Filed(turns, c, i)
    OBVIOUS
  <1> HIDE DEF Filed
  <1>4. /\ ToSet(pending) \cup dropped \subseteq 1 .. queued
        /\ \A c \in Conv : \A i \in DOMAIN turns[c] : \A f \in Filed(turns, c, i) :
             f \in 1 .. queued /\ f \notin ToSet(pending) \cup dropped
        /\ \A c, d \in Conv : \A i \in DOMAIN turns[c], j \in DOMAIN turns[d] :
             \A f \in Filed(turns, c, i) : f \in Filed(turns, d, j) => c = d /\ i = j
        /\ \A f \in 1 .. queued :
             \/ f \in ToSet(pending) \cup dropped
             \/ \E c \in Conv : \E i \in DOMAIN turns[c] : f \in Filed(turns, c, i)
    BY DEF Placed
  <1> DEFINE out == ToSet(pending) \cup dropped
             out2 == ToSet(pending') \cup dropped'
             old == 1 .. queued
             new == queued + 1 .. queued'
             all == 1 .. queued'
  <1>5. out2 = out \cup new
    OBVIOUS
  <1>6. /\ out \subseteq old /\ all = old \cup new /\ old \cap new = {}
        /\ \A c \in Conv : \A i \in DOMAIN turns[c] : \A f \in Filed(turns, c, i) :
             f \in old /\ f \notin out
        /\ \A f \in old :
             f \in out \/ \E c \in Conv : \E i \in DOMAIN turns[c] : f \in Filed(turns, c, i)
    BY <1>1, <1>2, <1>4
  <1> HIDE DEF out, out2, old, new, all
  <1>7. out2 \subseteq all
    BY <1>5, <1>6
  <1>8. \A c \in Conv : \A i \in DOMAIN turns[c] : \A f \in Filed(turns, c, i) :
          f \in all /\ f \notin out2
    BY <1>5, <1>6
  <1>9. \A f \in all :
          f \in out2 \/ \E c \in Conv : \E i \in DOMAIN turns[c] : f \in Filed(turns, c, i)
    BY <1>5, <1>6
  <1> QED
    BY <1>3, <1>4, <1>7, <1>8, <1>9 DEF Placed, out2, all

\* A turn is added, with files that were waiting.
LEMMA TurnTakes ==
  ASSUME TypeOK, Placed, NEW t \in Turn,
         turns' = [turns EXCEPT ![current] = Append(@, t)], dropped' = dropped,
         queued' \in Nat, queued <= queued',
         ToSet(t.files) \subseteq ToSet(pending),
         ToSet(pending') = (ToSet(pending) \cup (queued + 1 .. queued')) \ ToSet(t.files)
  PROVE  Placed'
  <1>0. queued \in Nat /\ current \in Conv
    BY DEF TypeOK
  <1> DEFINE old == 1 .. queued
             new == queued + 1 .. queued'
             all == 1 .. queued'
             w == ToSet(pending)
             w2 == ToSet(pending')
             took == ToSet(t.files)
             last == Len(turns[current]) + 1
  <1>1. /\ \A c \in Conv : Len(turns[c]) \in Nat /\ DOMAIN turns[c] = 1 .. Len(turns[c])
        /\ \A c \in Conv : c # current => turns'[c] = turns[c]
        /\ DOMAIN turns'[current] = 1 .. last
        /\ \A i \in DOMAIN turns[current] : turns'[current][i] = turns[current][i]
        /\ turns'[current][last] = t
    BY TurnsShape, TurnAdded
  <1>2. /\ last \notin DOMAIN turns[current]
        /\ DOMAIN turns'[current] = DOMAIN turns[current] \cup {last}
    BY <1>0, <1>1
  <1>3. /\ \A c \in Conv : \A i \in DOMAIN turns[c] : i \in DOMAIN turns'[c] /\ Filed(turns', c, i) = Filed(turns, c, i)
        /\ last \in DOMAIN turns'[current] /\ Filed(turns', current, last) = took
        /\ \A c \in Conv : \A i \in DOMAIN turns'[c] :
             i \in DOMAIN turns[c] \/ (c = current /\ i = last)
    <2>1. \A c \in Conv : \A i \in DOMAIN turns[c] :
            i \in DOMAIN turns'[c] /\ turns'[c][i] = turns[c][i]
      BY <1>0, <1>1, <1>2
    <2>2. last \in DOMAIN turns'[current] /\ turns'[current][last] = t
      BY <1>1, <1>2
    <2>3. \A c \in Conv : \A i \in DOMAIN turns'[c] :
            i \in DOMAIN turns[c] \/ (c = current /\ i = last)
      BY <1>1, <1>2
    <2> QED
      BY <2>1, <2>2, <2>3 DEF Filed
  <1>4. /\ w \cup dropped \subseteq old /\ w \cap dropped = {}
        /\ \A c \in Conv : \A i \in DOMAIN turns[c] : \A f \in Filed(turns, c, i) :
             f \in old /\ f \notin w \cup dropped
        /\ \A c, d \in Conv : \A i \in DOMAIN turns[c], j \in DOMAIN turns[d] :
             \A f \in Filed(turns, c, i) : f \in Filed(turns, d, j) => c = d /\ i = j
        /\ \A f \in old :
             \/ f \in w \cup dropped
             \/ \E c \in Conv : \E i \in DOMAIN turns[c] : f \in Filed(turns, c, i)
    BY DEF Placed
  <1>5. all = old \cup new /\ old \cap new = {}
    <2>1. \A f : f \in all <=> f \in old \/ f \in new
      BY <1>0
    <2>2. \A f \in old : f \notin new
      BY <1>0
    <2> QED
      BY <2>1, <2>2, Zenon
  <1>6. took \subseteq w /\ w2 = (w \cup new) \ took
    OBVIOUS
  <1>7. /\ ToSet(pending)' = w2 /\ (1 .. queued)' = all /\ dropped' = dropped
    OBVIOUS
  <1> HIDE DEF old, new, all, w, w2, took, last, Filed
  <1>8. w2 \cup dropped \subseteq all /\ w2 \cap dropped = {}
    BY <1>4, <1>5, <1>6
  <1>9. \A c \in Conv : \A i \in DOMAIN turns'[c] : \A f \in Filed(turns', c, i) :
          f \in all /\ f \notin w2 \cup dropped
    <2> SUFFICES ASSUME NEW c \in Conv, NEW i \in DOMAIN turns'[c], NEW f \in Filed(turns', c, i)
                 PROVE  f \in all /\ f \notin w2 \cup dropped
      OBVIOUS
    <2>1. CASE i \in DOMAIN turns[c]
      <3>1. f \in Filed(turns, c, i)
        BY <2>1, <1>3
      <3> QED
        BY <2>1, <3>1, <1>4, <1>5, <1>6
    <2>2. CASE c = current /\ i = last
      <3>1. f \in took
        BY <2>2, <1>3
      <3> QED
        BY <3>1, <1>4, <1>5, <1>6
    <2> QED
      BY <2>1, <2>2, <1>3
  <1>10. \A c, d \in Conv : \A i \in DOMAIN turns'[c], j \in DOMAIN turns'[d] :
           \A f \in Filed(turns', c, i) : f \in Filed(turns', d, j) => c = d /\ i = j
    <2> SUFFICES ASSUME NEW c \in Conv, NEW d \in Conv,
                        NEW i \in DOMAIN turns'[c], NEW j \in DOMAIN turns'[d],
                        NEW f \in Filed(turns', c, i), f \in Filed(turns', d, j)
                 PROVE  c = d /\ i = j
      OBVIOUS
    <2>1. CASE i \in DOMAIN turns[c] /\ j \in DOMAIN turns[d]
      <3>1. f \in Filed(turns, c, i) /\ f \in Filed(turns, d, j)
        BY <2>1, <1>3
      <3> QED
        BY <2>1, <3>1, <1>4
    <2>2. CASE c = current /\ i = last /\ j \in DOMAIN turns[d]
      <3>1. f \in took /\ f \in Filed(turns, d, j)
        BY <2>2, <1>3
      <3> QED
        BY <3>1, <2>2, <1>4, <1>6
    <2>3. CASE d = current /\ j = last /\ i \in DOMAIN turns[c]
      <3>1. f \in took /\ f \in Filed(turns, c, i)
        BY <2>3, <1>3
      <3> QED
        BY <3>1, <2>3, <1>4, <1>6
    <2> QED
      BY <2>1, <2>2, <2>3, <1>3
  <1>11. \A f \in all :
           \/ f \in w2 \cup dropped
           \/ \E c \in Conv : \E i \in DOMAIN turns'[c] : f \in Filed(turns', c, i)
    <2> SUFFICES ASSUME NEW f \in all, f \notin w2 \cup dropped
                 PROVE  \E c \in Conv : \E i \in DOMAIN turns'[c] : f \in Filed(turns', c, i)
      OBVIOUS
    <2>1. CASE f \in took
      BY <2>1, <1>0, <1>3
    <2>2. CASE f \notin took
      <3>1. PICK c \in Conv : \E i \in DOMAIN turns[c] : f \in Filed(turns, c, i)
        BY <2>2, <1>4, <1>5, <1>6
      <3> QED
        BY <3>1, <1>3
    <2> QED
      BY <2>1, <2>2
  <1> QED
    BY <1>7, <1>8, <1>9, <1>10, <1>11, Zenon DEF Placed

LEMMA InitFiles == Init => FileInv /\ Packed
  <1> SUFFICES ASSUME Init PROVE FileInv /\ Packed
    OBVIOUS
  <1>1. /\ \A c \in Conv : turns[c] = << >>
        /\ pending = << >> /\ queued = 0 /\ dropped = {} /\ Idle
    BY DEF Init, Idle
  <1>2. ToSet(pending) = {} /\ DOMAIN << >> = {} /\ 1 .. queued = {}
    BY <1>1 DEF ToSet
  <1> QED
    BY <1>1, <1>2 DEF FileInv, Distinct, Placed, Carrying, Packed

\* A step keeps the turns or adds one to the current conversation.
LEMMA StepTurns ==
  ASSUME TypeOK, [Next]_vars
  PROVE  turns' = turns \/ \E t \in Turn : turns' = [turns EXCEPT ![current] = Append(@, t)]
  <1>1. CASE Finish
    BY <1>1 DEF Finish, TypeOK
  <1>2. CASE LoadSkill
    <2> DEFINE skill == [ask |-> NextAsk, to |-> "skill", content |-> {NextAsk}, files |-> << >>]
    <2>1. asked[current] < MaxAsks
      BY <1>2, MayAskBound DEF LoadSkill
    <2>2. NextAsk \in Ask
      BY <2>1, TurnAssumption DEF TypeOK, NextAsk, Ask
    <2>3. skill \in Turn
      BY <2>2 DEF Turn
    <2> QED
      BY <1>2, <2>3 DEF LoadSkill
  <1>3. CASE Attach \/ Detach \/ Begin \/ Fail
    BY <1>3 DEF Attach, Detach, Begin, Fail
  <1>4. CASE Post \/ Retry \/ Abort \/ UNCHANGED vars
    BY <1>4 DEF Post, Retry, Abort, vars, session
  <1>5. ASSUME NEW c \in Conv, NewConversation(c) \/ Resume(c) \/ SearchResume(c) \/ Restart(c)
        PROVE  turns' = turns
    BY <1>5 DEF NewConversation, Resume, SearchResume, Restart, Switch, Open
  <1> QED
    BY <1>1, <1>2, <1>3, <1>4, <1>5 DEF Next

LEMMA StepPacked == TypeOK /\ OrderInv /\ Packed /\ [Next]_vars => Packed'
  <1> SUFFICES ASSUME TypeOK, OrderInv, Packed, [Next]_vars PROVE Packed'
    OBVIOUS
  <1>1. CASE turns' = turns
    BY <1>1 DEF Packed
  <1>2. ASSUME NEW t \in Turn, turns' = [turns EXCEPT ![current] = Append(@, t)] PROVE Packed'
    <2> DEFINE last == Len(turns[current]) + 1
    <2>0. current \in Conv /\ \A x \in Turn : x.ask[2] \in Nat \ {0}
      BY TurnAssumption DEF TypeOK, Turn, Ask
    <2>1. /\ \A c \in Conv : Len(turns[c]) \in Nat /\ DOMAIN turns[c] = 1 .. Len(turns[c])
          /\ \A i \in DOMAIN turns[current] : turns[current][i] \in Turn
          /\ \A c \in Conv : c # current => turns'[c] = turns[c]
          /\ DOMAIN turns'[current] = 1 .. last
          /\ \A i \in DOMAIN turns[current] : turns'[current][i] = turns[current][i]
          /\ turns'[current][last] = t
      BY <1>2, <2>0, TurnsShape, TurnAdded
    <2>2. TurnsInOrder'
      BY StepOrder DEF OrderInv
    <2> HIDE DEF last
    <2>3. last <= t.ask[2]
      <3>1. CASE last = 1
        BY <3>1, <2>0
      <3>2. CASE last # 1
        <4> DEFINE before == last - 1
        <4>1. /\ before \in DOMAIN turns[current] /\ before \in 1 .. last /\ last \in 1 .. last
              /\ before < last
          BY <3>2, <2>0, <2>1 DEF last
        <4>2. turns'[current][before].ask[2] < turns'[current][last].ask[2]
          BY <4>1, <2>0, <2>1, <2>2 DEF TurnsInOrder
        <4>3. before <= turns[current][before].ask[2]
          BY <4>1, <2>0 DEF Packed
        <4>4. before < t.ask[2] /\ t.ask[2] \in Nat
          BY <4>1, <4>2, <4>3, <2>0, <2>1
        <4>5. last \in Nat
          BY <2>0, <2>1 DEF last
        <4> QED
          BY <4>4, <4>5
      <3> QED
        BY <3>1, <3>2
    <2> SUFFICES ASSUME NEW c \in Conv, NEW i \in DOMAIN turns'[c] PROVE i <= turns'[c][i].ask[2]
      BY DEF Packed
    <2>4. CASE c = current /\ i = last
      BY <2>4, <2>1, <2>3
    <2>5. CASE c # current \/ i # last
      <3>1. i \in DOMAIN turns[c] /\ turns'[c][i] = turns[c][i]
        BY <2>5, <2>0, <2>1 DEF last
      <3> QED
        BY <3>1 DEF Packed
    <2> QED
      BY <2>4, <2>5
  <1> QED
    BY <1>1, <1>2, StepTurns

\* Another conversation is opened: what was waiting is dropped.
LEMMA OpenFiles ==
  ASSUME TypeOK, FileInv, NEW c \in Conv, Open(c)
  PROVE  FileInv'
  <1>1. /\ pending' = << >> /\ dropped' = dropped \cup ToSet(pending) /\ turns' = turns
        /\ queued' = queued /\ queued \in Nat /\ Idle'
    BY DEF Open, EndAttempt, Idle, TypeOK
  <1>2. ToSet(pending') = {} /\ DOMAIN << >> = {} /\ queued + 1 .. queued' = {}
    BY <1>1 DEF ToSet
  <1>3. Placed'
    BY <1>1, <1>2, TurnsStay DEF FileInv
  <1> QED
    BY <1>1, <1>2, <1>3 DEF FileInv, Distinct, Carrying

\* A file is queued in the middle of a turn, or before one.
LEMMA QueueFiles ==
  ASSUME TypeOK, FileInv, Queue(queued + 1), turns' = turns, dropped' = dropped
  PROVE  /\ Distinct(pending)' /\ Placed'
         /\ \A p \in Seq(File) : First(p, pending) => First(p, pending')
  <1>1. /\ pending \in Seq(File) /\ queued \in Nat /\ queued' = queued + 1
        /\ queued + 1 \in File /\ pending' = Append(pending, queued + 1)
    BY TurnAssumption DEF TypeOK, Queue, File
  <1>2. ToSet(pending) \cup dropped \subseteq 1 .. queued /\ ToSet(pending) \cap dropped = {}
    BY DEF FileInv, Placed
  <1>3. queued + 1 \notin ToSet(pending) \cup dropped /\ queued + 1 .. queued' = {queued + 1}
    BY <1>1, <1>2
  <1>4. /\ ToSet(pending') = ToSet(pending) \cup {queued + 1}
        /\ Distinct(pending')
        /\ \A p \in Seq(File) : First(p, pending) => First(p, pending')
    BY <1>1, <1>3, FileAppended DEF FileInv
  <1>5. Placed'
    <2>1. ToSet(pending') \cap dropped' = {}
      BY <1>2, <1>3, <1>4
    <2>2. ToSet(pending') \cup dropped' = ToSet(pending) \cup dropped \cup (queued + 1 .. queued')
      BY <1>3, <1>4
    <2> QED
      BY <1>1, <2>1, <2>2, TurnsStay DEF FileInv
  <1> QED
    BY <1>4, <1>5 DEF Distinct

LEMMA StepFiles == TypeOK /\ FileInv /\ [Next]_vars => FileInv'
  <1> SUFFICES ASSUME TypeOK, FileInv, [Next]_vars PROVE FileInv'
    OBVIOUS
  <1>0. /\ pending \in Seq(File) /\ queued \in Nat /\ queued + 1 .. queued = {}
        /\ Distinct(pending) /\ Placed /\ Carrying
        /\ ~Idle => outbound \in Turn /\ outbound.files \in Seq(File)
    BY DEF TypeOK, FileInv, Idle, Turn
  <1>p. ToSet(pending) \cup dropped \subseteq 1 .. queued /\ ToSet(pending) \cap dropped = {}
    BY <1>0 DEF Placed
  <1>s. ASSUME UNCHANGED <<turns, pending, queued, dropped>> PROVE Distinct(pending)' /\ Placed'
    BY <1>s, <1>0, <1>p, TurnsStay DEF Distinct
  <1>1. CASE Attach
    <2>1. Queue(queued + 1) /\ turns' = turns /\ dropped' = dropped /\ Idle'
      BY <1>1 DEF Attach, Idle
    <2> QED
      BY <2>1, QueueFiles DEF FileInv, Carrying
  <1>2. CASE Detach
    <2>1. turns' = turns /\ queued' = queued /\ Idle'
      BY <1>2 DEF Detach, Idle
    <2>2. ASSUME NEW i \in DOMAIN pending, pending' = RemoveAt(pending, i),
                 dropped' = dropped \cup {pending[i]}
          PROVE  Distinct(pending)' /\ Placed'
      <3>1. ToSet(pending') = ToSet(pending) \ {pending[i]} /\ Distinct(pending')
        BY <1>0, <2>2, FileRemoved
      <3>2. pending[i] \in ToSet(pending)
        BY DEF ToSet
      <3>3. ToSet(pending') \cap dropped' = {}
        BY <2>2, <3>1, <1>p
      <3>4. ToSet(pending') \cup dropped' = ToSet(pending) \cup dropped \cup (queued + 1 .. queued')
        BY <2>1, <2>2, <3>1, <3>2, <1>0
      <3> QED
        BY <2>1, <3>1, <3>3, <3>4, <1>0, TurnsStay DEF Distinct
    <2>3. ASSUME pending' = << >> /\ dropped' = dropped \cup ToSet(pending)
          PROVE  Distinct(pending)' /\ Placed'
      <3>1. ToSet(pending') = {} /\ DOMAIN << >> = {}
        BY <2>3 DEF ToSet
      <3>2. ToSet(pending') \cap dropped' = {}
        BY <3>1
      <3>3. ToSet(pending') \cup dropped' = ToSet(pending) \cup dropped \cup (queued + 1 .. queued')
        BY <2>1, <2>3, <3>1, <1>0
      <3>4. Placed'
        BY <2>1, <3>2, <3>3, <1>0, TurnsStay
      <3>5. pending' = << >>
        BY <2>3
      <3>6. Distinct(pending)'
        BY <3>1, <3>5 DEF Distinct
      <3> QED
        BY <3>4, <3>6
    <2>4. Distinct(pending)' /\ Placed'
      <3>1. \/ \E i \in DOMAIN pending :
                 pending' = RemoveAt(pending, i) /\ dropped' = dropped \cup {pending[i]}
            \/ pending' = << >> /\ dropped' = dropped \cup ToSet(pending)
        BY <1>2, Zenon DEF Detach
      <3> QED
        BY <2>2, <2>3, <3>1, Zenon
    <2> QED
      BY <2>1, <2>4 DEF FileInv, Carrying
  <1>3. CASE Begin
    <2>1. UNCHANGED <<turns, pending, queued, dropped>> /\ Idle
      BY <1>3 DEF Begin
    <2>2. CASE Refused
      BY <2>1, <2>2, <1>s DEF Refused, FileInv, Carrying, Idle
    <2>3. ASSUME NEW to \in {"duo", "other"}, Sent(to) PROVE Carrying'
      <3>1. outbound'.files = pending'
        BY <2>1, <2>3 DEF Sent, Built
      <3>2. Len(pending) \in Nat
        BY <1>0, FilesShape
      <3> QED
        BY <3>1, <3>2, <2>1 DEF Carrying, First
    <2> QED
      BY <1>3, <2>1, <2>2, <2>3, <1>s DEF Begin, FileInv
  <1>4. CASE Post
    BY <1>4, <1>0, <1>s DEF Post, session, FileInv, Carrying, Idle
  <1>5. CASE Fail
    <2>1. turns' = turns /\ dropped' = dropped /\ outbound' = outbound /\ ~Idle
      BY <1>5 DEF Fail, Idle
    <2>2. CASE NothingRan
      BY <2>1, <2>2, <1>0, <1>s DEF NothingRan, FileInv, Carrying
    <2>3. CASE Ran
      BY <2>1, <2>3, <1>0, QueueFiles DEF Ran, FileInv, Carrying
    <2> QED
      BY <1>5, <2>2, <2>3 DEF Fail
  <1>6. CASE Retry
    BY <1>6, <1>0, <1>s DEF Retry, session, FileInv, Carrying, Idle
  <1>7. CASE Abort
    BY <1>7, <1>s DEF Abort, EndAttempt, session, FileInv, Carrying, Idle
  <1>8. CASE Finish
    <2> DEFINE p == outbound.files
    <2>1. /\ turns' = [turns EXCEPT ![current] = Append(@, outbound)] /\ dropped' = dropped
          /\ Idle' /\ outbound \in Turn /\ p \in Seq(File) /\ First(p, pending)
      BY <1>8, <1>0 DEF Finish, EndAttempt, Idle, Carrying
    <2>2. ToSet(p) \subseteq ToSet(pending)
      BY <1>0, <2>1, FilesConsumed
    <2> HIDE DEF p
    <2>3. CASE queued' = queued /\ pending' = Consume(pending, Len(p))
      <3>1. ToSet(pending') = ToSet(pending) \ ToSet(p) /\ Distinct(pending')
        BY <1>0, <2>1, <2>3, FilesConsumed
      <3>2. ToSet(pending') = (ToSet(pending) \cup (queued + 1 .. queued')) \ ToSet(p)
        BY <1>0, <2>3, <3>1
      <3>3. Placed'
        <4>1. queued' \in Nat /\ queued <= queued'
          BY <1>0, <2>3
        <4> QED
          BY <4>1, <1>0, <2>1, <2>2, <3>2, TurnTakes DEF p
      <3> QED
        BY <2>1, <3>1, <3>3 DEF FileInv, Carrying, Distinct
    <2>4. CASE /\ queued < MaxFiles /\ queued' = queued + 1
               /\ pending' = Consume(Append(pending, queued'), Len(p))
      <3> DEFINE q == Append(pending, queued')
      <3>1. queued' \in File /\ queued + 1 .. queued' = {queued'} /\ queued' \notin 1 .. queued
        BY <1>0, <2>4, TurnAssumption DEF File
      <3>2. q \in Seq(File) /\ ToSet(q) = ToSet(pending) \cup {queued'} /\ Distinct(q) /\ First(p, q)
        <4>1. queued' \notin ToSet(pending)
          BY <3>1, <1>p
        <4> QED
          BY <4>1, <3>1, <1>0, <2>1, FileAppended
      <3> HIDE DEF q
      <3>3. pending' = Consume(q, Len(p))
        BY <2>4 DEF q
      <3>4. ToSet(pending') = ToSet(q) \ ToSet(p) /\ Distinct(pending')
        BY <2>1, <3>2, <3>3, FilesConsumed
      <3>5. ToSet(pending') = (ToSet(pending) \cup (queued + 1 .. queued')) \ ToSet(p)
        BY <3>1, <3>2, <3>4
      <3>6. Placed'
        <4>1. queued' \in Nat /\ queued <= queued'
          BY <1>0, <2>4
        <4> QED
          BY <4>1, <1>0, <2>1, <2>2, <3>5, TurnTakes DEF p
      <3> QED
        BY <2>1, <3>4, <3>6 DEF FileInv, Carrying, Distinct
    <2> QED
      BY <1>8, <2>3, <2>4 DEF Finish, p
  <1>9. CASE LoadSkill
    <2> DEFINE skill == [ask |-> NextAsk, to |-> "skill", content |-> {NextAsk}, files |-> << >>]
    <2>1. /\ turns' = [turns EXCEPT ![current] = Append(@, skill)]
          /\ UNCHANGED <<pending, queued, dropped>> /\ Idle'
          /\ asked[current] < MaxAsks
      BY <1>9, MayAskBound DEF LoadSkill, session, Idle
    <2>2. NextAsk \in Ask
      BY <2>1, TurnAssumption DEF TypeOK, NextAsk, Ask
    <2>3. skill \in Turn /\ ToSet(skill.files) = {}
      BY <2>2 DEF Turn, ToSet
    <2> HIDE DEF skill
    <2>4. ToSet(pending') = (ToSet(pending) \cup (queued + 1 .. queued')) \ ToSet(skill.files)
      BY <2>1, <2>3, <1>0
    <2>5. Placed'
      <3>1. /\ queued' \in Nat /\ queued <= queued' /\ dropped' = dropped
            /\ ToSet(skill.files) \subseteq ToSet(pending)
        BY <1>0, <2>1, <2>3
      <3> QED
        BY <1>0, <2>1, <2>3, <2>4, <3>1, TurnTakes
    <2>6. Distinct(pending)' /\ Carrying'
      BY <1>0, <2>1 DEF Carrying, Distinct
    <2> QED
      BY <2>5, <2>6 DEF FileInv
  <1>10. ASSUME NEW c \in Conv, NewConversation(c) \/ Resume(c) \/ SearchResume(c) \/ Restart(c)
         PROVE  FileInv'
    <2>1. Open(c)
      BY <1>10 DEF NewConversation, Resume, SearchResume, Restart, Switch
    <2> QED
      BY <2>1, OpenFiles
  <1>11. CASE UNCHANGED vars
    BY <1>11, <1>0, <1>s DEF vars, session, FileInv, Carrying, Idle
  <1> QED
    BY <1>1, <1>2, <1>3, <1>4, <1>5, <1>6, <1>7, <1>8, <1>9, <1>10, <1>11 DEF Next

\* Counted.
LEMMA PlacedOnce == TypeOK /\ Packed /\ FileInv => FilesOnce
  <1> SUFFICES ASSUME TypeOK, Packed, FileInv, NEW f \in 1 .. queued
               PROVE  Cardinality({ i \in DOMAIN pending : pending[i] = f })
                        + Cardinality(Carried(f)) + (IF f \in dropped THEN 1 ELSE 0) = 1
    BY DEF FilesOnce
  <1> DEFINE waits == { i \in DOMAIN pending : pending[i] = f }
  <1>1. Distinct(pending) /\ Placed
    BY DEF FileInv
  <1>2. Carried(f) = { m \in Conv \X Nat : m[2] \in DOMAIN turns[m[1]] /\ f \in Filed(turns, m[1], m[2]) }
    <2>1. ASSUME NEW c \in Conv, NEW i \in DOMAIN turns[c] PROVE i \in 1 .. MaxAsks
      <3>1. i \in Nat \ {0} /\ turns[c][i] \in Turn
        BY TurnsShape
      <3>2. turns[c][i].ask[2] \in 1 .. MaxAsks
        BY <3>1 DEF Turn, Ask
      <3>3. i <= turns[c][i].ask[2]
        BY DEF Packed
      <3> QED
        BY <3>1, <3>2, <3>3, TurnAssumption
    <2> QED
      BY <2>1, TurnAssumption DEF Carried, Filed
  <1>3. f \in ToSet(pending) <=> waits # {}
    BY DEF ToSet
  <1>4. ASSUME f \in ToSet(pending) PROVE \E i : waits = {i}
    BY <1>1, <1>3, <1>4 DEF Distinct
  <1>5. ASSUME f \in ToSet(pending) \cup dropped PROVE Carried(f) = {}
    BY <1>1, <1>2, <1>5 DEF Placed
  <1>6. ASSUME f \notin ToSet(pending) \cup dropped PROVE \E m : Carried(f) = {m}
    <2>1. PICK c \in Conv : \E i \in DOMAIN turns[c] : f \in Filed(turns, c, i)
      BY <1>1, <1>6 DEF Placed
    <2>2. PICK i \in DOMAIN turns[c] : f \in Filed(turns, c, i)
      BY <2>1
    <2>3. i \in Nat
      BY TurnsShape
    <2>4. <<c, i>> \in Carried(f)
      BY <1>2, <2>2, <2>3
    <2>5. ASSUME NEW m \in Carried(f) PROVE m = <<c, i>>
      <3>1. m \in Conv \X Nat /\ m[2] \in DOMAIN turns[m[1]] /\ f \in Filed(turns, m[1], m[2])
        BY <1>2
      <3>2. m[1] = c /\ m[2] = i
        BY <3>1, <2>2, <1>1 DEF Placed
      <3> QED
        BY <3>1, <3>2
    <2> QED
      BY <2>4, <2>5
  <1>7. ToSet(pending) \cap dropped = {}
    BY <1>1 DEF Placed
  <1> HIDE DEF waits
  <1>8. CASE f \in ToSet(pending)
    <2>1. Cardinality(waits) = 1 /\ Cardinality(Carried(f)) = 0 /\ f \notin dropped
      BY <1>4, <1>5, <1>7, <1>8, FS_EmptySet, FS_Singleton
    <2> QED
      BY <2>1 DEF waits
  <1>9. CASE f \in dropped
    <2>1. Cardinality(waits) = 0 /\ Cardinality(Carried(f)) = 0
      BY <1>3, <1>5, <1>7, <1>9, FS_EmptySet
    <2> QED
      BY <2>1, <1>9 DEF waits
  <1>10. CASE f \notin ToSet(pending) \cup dropped
    <2>1. Cardinality(waits) = 0 /\ Cardinality(Carried(f)) = 1
      BY <1>3, <1>6, <1>10, FS_EmptySet, FS_Singleton
    <2> QED
      BY <2>1, <1>10 DEF waits
  <1> QED
    BY <1>8, <1>9, <1>10

\* Whatever fails, is retried or aborted, whichever conversation is opened and
\* whatever a sandbox queues in the middle of a turn, every attachment is in
\* one place: waiting, in one turn, or dropped.
THEOREM FilesKept == Spec => []FilesOnce
  BY InitTypes, StepTypes, InitOrder, StepOrder, InitFiles, StepPacked, StepFiles, PlacedOnce,
     PTL DEF Spec
=============================================================================

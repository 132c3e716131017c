------------------------- MODULE MessageStore_proofs -------------------------
(***************************************************************************)
(* Proofs about MessageStore for any number of conversations, sessions and *)
(* messages: the full-text index is exact and no row is orphaned, as long  *)
(* as no stored message is saved a second time; and what a session shows   *)
(* is stored, whatever is saved again.                                     *)
(***************************************************************************)
EXTENDS MessageStore, WellFoundedInduction, FiniteSetTheorems, TLAPS

-----------------------------------------------------------------------------
(* The inductive invariant.                                                *)

\* A table: its rows are numbered from 1 and there are finitely many.
IsTable(t) ==
  /\ t = [r \in DOMAIN t |-> t[r]]
  /\ \E k \in Nat : DOMAIN t \subseteq 1 .. k

Shape ==
  /\ IsTable(convRows) /\ Range(convRows) \subseteq Conv
  /\ IsTable(msgRows) /\ Stored \subseteq Msg
  /\ DOMAIN lastRow = Session
  /\ current \in [Session -> Conv \cup {None}]
  /\ msgs = [s \in Session |-> msgs[s]]
  /\ saving \in [Session -> Seq(Call)]
  /\ made \in [Conv -> Nat] /\ gone \subseteq Conv

\* Stored messages were made, in a conversation that is there.
StoredMade ==
  \A m \in Stored : m[1] \in Range(convRows) /\ m[2] <= made[m[1]]

\* Two sessions show the same conversation only when it was saved.
Sole ==
  \A s, t \in Session :
    (s # t /\ current[s] = current[t] /\ current[s] # None) => current[s] \in Known

\* A session without a conversation shows no message.
NothingShown == \A s \in Session : current[s] = None => msgs[s] = << >>

\* The messages of a conversation that was never saved.
NeverSaved ==
  \A s \in Session : current[s] \in Conv \ Known =>
    /\ msgs[s] \in Seq(Msg)
    /\ \A i \in 1 .. Len(msgs[s]) :
         msgs[s][i][1] = current[s] /\ msgs[s][i][2] <= made[current[s]]
    /\ \A i, j \in 1 .. Len(msgs[s]) : i # j => msgs[s][i] # msgs[s][j]

\* The messages a session has still to save.
Waits(s, i) == i \in 1 .. Len(saving[s]) /\ saving[s][i].op = "message"
QueuedNew ==
  \A s \in Session :
    /\ saving[s] # << >> => current[s] \in Conv
    /\ \A i \in 1 .. Len(saving[s]) : Waits(s, i) =>
         /\ saving[s][i].msg[1] = current[s]
         /\ saving[s][i].msg[2] <= made[current[s]]
         /\ saving[s][i].msg \notin Stored
QueuedOnce ==
  \A s, t \in Session : \A i \in 1 .. Len(saving[s]), j \in 1 .. Len(saving[t]) :
    (Waits(s, i) /\ Waits(t, j) /\ (s # t \/ i # j)) => saving[s][i].msg # saving[t][j].msg

IInv ==
  /\ Shape /\ IndexExact /\ StoredMade /\ usage \subseteq Stored
  /\ Sole /\ NothingShown /\ NeverSaved /\ QueuedNew /\ QueuedOnce

-----------------------------------------------------------------------------
(* Tables: a new row is fresh, and what an insertion or deletion keeps.    *)

\* A set of natural numbers has a least one.
LEMMA LeastNatural ==
  ASSUME NEW S \in SUBSET Nat, S # {}
  PROVE  \E n \in S : \A m \in S : n <= m
<1>1. PICK n \in S : \A m \in S : ~(<<m, n>> \in OpToRel(<, Nat))
  BY NatLessThanWellFounded, WFMin, Zenon
<1>2. OpToRel(<, Nat) = { ss \in Nat \X Nat : ss[1] < ss[2] }
  BY Zenon DEF OpToRel
<1>3. \A m \in S : ~(m < n)
  BY <1>1, <1>2
<1> QED
  BY <1>3

\* The row of an insertion is above every row in use.
LEMMA NextRowFresh ==
  ASSUME NEW t, IsTable(t)
  PROVE  NextRow(t) \in Nat \ {0} /\ NextRow(t) \notin DOMAIN t
<1>1. CASE DOMAIN t = {}
  BY <1>1 DEF NextRow
<1>2. CASE DOMAIN t # {}
  <2>1. PICK k \in Nat : DOMAIN t \subseteq 1 .. k
    BY DEF IsTable
  <2> DEFINE Above == { n \in Nat : \A r \in DOMAIN t : r <= n }
  <2>2. Above \in SUBSET Nat /\ k \in Above
    BY <2>1
  <2> HIDE DEF Above
  <2>3. PICK n \in Above : \A m \in Above : n <= m
    BY <2>2, LeastNatural, Zenon
  <2> USE DEF Above
  <2>4. n \in DOMAIN t
    <3>1. PICK r \in DOMAIN t : r \in Nat /\ r >= 1
      BY <1>2, <2>1
    <3>2. n >= 1 /\ n \in Nat
      BY <2>3, <3>1
    <3>3. n - 1 \notin Above
      BY <2>3, <3>2
    <3>4. PICK q \in DOMAIN t : ~(q <= n - 1)
      BY <3>2, <3>3
    <3>5. q \in Nat /\ q <= n
      BY <2>1, <2>3
    <3> QED
      BY <3>2, <3>4, <3>5
  <2>5. \E x \in DOMAIN t : \A y \in DOMAIN t : x >= y
    BY <2>1, <2>3, <2>4
  <2>6. Max(DOMAIN t) \in DOMAIN t /\ \A y \in DOMAIN t : Max(DOMAIN t) >= y
    BY <2>5 DEF Max
  <2> HIDE DEF Above
  <2> QED
    BY <1>2, <2>1, <2>6 DEF NextRow
<1> QED
  BY <1>1, <1>2

\* An insertion adds one value and loses none.
LEMMA InsertRow ==
  ASSUME NEW t, NEW v, IsTable(t)
  PROVE  IsTable(Set(t, NextRow(t), v)) /\ Range(Set(t, NextRow(t), v)) = Range(t) \cup {v}
<1> DEFINE row == NextRow(t)
           u == Set(t, row, v)
<1>1. row \in Nat \ {0} /\ row \notin DOMAIN t
  BY NextRowFresh
<1>2. PICK k \in Nat : DOMAIN t \subseteq 1 .. k
  BY DEF IsTable
<1> HIDE DEF row
<1>3. /\ DOMAIN u = DOMAIN t \cup {row}
      /\ u = [r \in DOMAIN u |-> u[r]]
      /\ u[row] = v
      /\ \A r \in DOMAIN t : u[r] = t[r]
  BY <1>1 DEF Set
<1>4. DOMAIN u \subseteq 1 .. (k + row) /\ k + row \in Nat
  BY <1>1, <1>2, <1>3
<1> HIDE DEF u
<1>5. IsTable(u)
  BY <1>3, <1>4 DEF IsTable
<1>6. Range(u) = Range(t) \cup {v}
  BY <1>3 DEF Range
<1> QED
  BY <1>5, <1>6 DEF u, row

\* A deletion by conversation keeps the messages of the other ones.
LEMMA DeleteRows ==
  ASSUME NEW t, NEW c, IsTable(t)
  PROVE  IsTable(Without(t, c)) /\ Range(Without(t, c)) = { m \in Range(t) : m[1] # c }
<1>1. PICK k \in Nat : DOMAIN t \subseteq 1 .. k
  BY DEF IsTable
<1>2. /\ DOMAIN Without(t, c) = { r \in DOMAIN t : t[r][1] # c }
      /\ \A r \in DOMAIN Without(t, c) : Without(t, c)[r] = t[r]
      /\ Without(t, c) = [r \in DOMAIN Without(t, c) |-> Without(t, c)[r]]
  BY DEF Without
<1>3. IsTable(Without(t, c))
  BY <1>1, <1>2 DEF IsTable
<1> QED
  BY <1>2, <1>3 DEF Range

-----------------------------------------------------------------------------
(* Each action keeps the invariant.                                        *)

LEMMA InitInv == Init => IInv
<1> SUFFICES ASSUME Init PROVE IInv
  OBVIOUS
<1>1. /\ DOMAIN convRows = {} /\ DOMAIN msgRows = {}
      /\ Range(convRows) = {} /\ Stored = {}
      /\ IsTable(convRows) /\ IsTable(msgRows)
  BY DEF Init, Range, Stored, IsTable
<1>2. Shape
  BY <1>1 DEF Init, Shape
<1>3. IndexExact /\ StoredMade /\ usage \subseteq Stored
  BY <1>1 DEF Init, IndexExact, StoredMade
<1>4. Sole /\ NothingShown /\ NeverSaved /\ QueuedNew /\ QueuedOnce
  BY StoreAssumption DEF Init, Sole, NothingShown, NeverSaved, QueuedNew, QueuedOnce, Waits
<1> QED
  BY <1>2, <1>3, <1>4 DEF IInv

\* A call that saves a message has one.
LEMMA QueueTyped ==
  ASSUME Shape, NEW s \in Session, NEW i \in 1 .. Len(saving[s]), Waits(s, i)
  PROVE  saving[s][i].msg \in Msg /\ saving[s][i].msg[1] \in Conv /\ saving[s][i].msg[2] \in Nat
<1>1. saving[s][i] \in Call /\ saving[s][i].op = "message"
  BY DEF Shape, Waits
<1>2. saving[s][i].msg \in Msg
  BY <1>1 DEF Call
<1> QED
  BY <1>2 DEF Msg

\* Turn and LoadSkill.
LEMMA AddingKeeps ==
  ASSUME IInv, NEW s \in Session, NEW c \in Conv, NEW n \in {1, 2}, NEW calls \in Seq(Call),
         \A i \in 1 .. Len(calls) : calls[i].op = "message" =>
            /\ calls[i].msg[1] = c
            /\ calls[i].msg[2] \in Nat
            /\ calls[i].msg[2] > made[c] /\ calls[i].msg[2] <= made[c] + n,
         \A i, j \in 1 .. Len(calls) :
            (i # j /\ calls[i].op = "message" /\ calls[j].op = "message")
               => calls[i].msg # calls[j].msg,
         AddMessages(s, c, n, calls)
  PROVE  IInv'
<1>1. /\ Idle(s) /\ Shown(s, c)
      /\ made' = [made EXCEPT ![c] = @ + n]
      /\ current' = [current EXCEPT ![s] = c]
      /\ msgs' = [msgs EXCEPT ![s] = @ \o [i \in 1 .. n |-> <<c, made[c] + i>>]]
      /\ saving' = [saving EXCEPT ![s] = IF writing[s] THEN calls ELSE << >>]
      /\ made[c] + n <= MaxMsgs
  BY DEF AddMessages
<1>2. /\ convRows' = convRows /\ msgRows' = msgRows /\ ftsRows' = ftsRows
      /\ usage' = usage /\ lastRow' = lastRow /\ gone' = gone
  BY DEF AddMessages, tables
<1>3. /\ current \in [Session -> Conv \cup {None}] /\ made \in [Conv -> Nat]
      /\ saving \in [Session -> Seq(Call)] /\ DOMAIN msgs = Session
      /\ Stored \subseteq Msg /\ None \notin Conv /\ MaxMsgs \in Nat
  BY StoreAssumption DEF IInv, Shape
<1>4. /\ Stored' = Stored /\ Known' = Known
      /\ IsTable(convRows)' = IsTable(convRows) /\ IsTable(msgRows)' = IsTable(msgRows)
      /\ Range(convRows)' = Range(convRows)
  BY <1>2 DEF Stored, Known, IsTable
<1>5. \A x \in Conv : made[x] \in Nat /\ made'[x] \in Nat /\ made'[x] >= made[x]
  BY <1>1, <1>3
<1>6. made'[c] = made[c] + n /\ current'[s] = c /\ saving'[s] \in {calls, << >>}
  BY <1>1, <1>3
<1>7. \A t \in Session : t # s =>
        current'[t] = current[t] /\ msgs'[t] = msgs[t] /\ saving'[t] = saving[t]
  BY <1>1, <1>3
<1>8. Shape'
  <2>1. made' \in [Conv -> Nat] /\ current' \in [Session -> Conv \cup {None}]
    BY <1>1, <1>3
  <2>2. saving' \in [Session -> Seq(Call)]
    BY <1>1, <1>3
  <2>3. msgs' = [t \in Session |-> msgs'[t]]
    BY <1>1, <1>3
  <2> QED
    BY <1>2, <1>4, <2>1, <2>2, <2>3 DEF IInv, Shape
<1>9. IndexExact' /\ StoredMade' /\ (usage \subseteq Stored)'
  BY <1>2, <1>3, <1>4, <1>5 DEF IInv, IndexExact, StoredMade, Msg
<1>10. Sole'
  BY <1>1, <1>3, <1>4, <1>6, <1>7 DEF IInv, Sole, Shown, Fresh
<1>11. NothingShown'
  BY <1>3, <1>6, <1>7 DEF IInv, NothingShown
<1>12. NeverSaved'
  <2> DEFINE new == [i \in 1 .. n |-> <<c, made[c] + i>>]
  <2>1. ASSUME c \notin Known
        PROVE  /\ msgs[s] \in Seq(Msg)
               /\ \A i \in 1 .. Len(msgs[s]) :
                    msgs[s][i][1] = c /\ msgs[s][i][2] <= made[c]
               /\ \A i, j \in 1 .. Len(msgs[s]) : i # j => msgs[s][i] # msgs[s][j]
    <3>1. CASE current[s] = None
      <4>1. msgs[s] = << >>
        BY <3>1 DEF IInv, NothingShown
      <4>2. << >> \in Seq(Msg) /\ Len(<< >>) = 0
        OBVIOUS
      <4> QED
        BY <4>1, <4>2
    <3>2. CASE current[s] # None
      BY <2>1, <3>2, <1>1 DEF IInv, NeverSaved, Shown
    <3> QED
      BY <3>1, <3>2
  <2>2. /\ new \in Seq(Msg) /\ Len(new) = n
        /\ \A i \in 1 .. n : new[i] = <<c, made[c] + i>>
    <3>1. \A i \in 1 .. n : <<c, made[c] + i>> \in Msg
      BY <1>1, <1>3, <1>5 DEF Msg
    <3>2. new \in [1 .. n -> Msg] /\ n \in Nat
      BY <3>1
    <3> QED
      BY <3>2
  <2> HIDE DEF new
  <2>3. ASSUME c \notin Known
        PROVE  /\ msgs'[s] \in Seq(Msg)
               /\ \A i \in 1 .. Len(msgs'[s]) :
                    msgs'[s][i][1] = c /\ msgs'[s][i][2] <= made'[c]
               /\ \A i, j \in 1 .. Len(msgs'[s]) : i # j => msgs'[s][i] # msgs'[s][j]
    <3>1. msgs'[s] = msgs[s] \o new
      BY <1>1, <1>3 DEF new
    <3>2. /\ Len(msgs'[s]) = Len(msgs[s]) + n /\ msgs'[s] \in Seq(Msg)
          /\ \A i \in 1 .. Len(msgs[s]) : msgs'[s][i] = msgs[s][i]
          /\ \A i \in Len(msgs[s]) + 1 .. Len(msgs[s]) + n :
               msgs'[s][i] = <<c, made[c] + (i - Len(msgs[s]))>>
      BY <2>1, <2>2, <2>3, <3>1
    <3> DEFINE k == Len(msgs[s])
    <3>3. k \in Nat
      BY <2>1, <2>3
    <3>4. ASSUME NEW i \in 1 .. k
          PROVE  msgs'[s][i][1] = c /\ msgs'[s][i][2] <= made[c] /\ msgs'[s][i][2] \in Nat
      <4>1. msgs'[s][i] = msgs[s][i] /\ msgs[s][i] \in Msg
        BY <2>1, <2>3, <3>2
      <4> QED
        BY <2>1, <2>3, <4>1, SMTT(30) DEF Msg
    <3>5. ASSUME NEW i \in k + 1 .. k + n
          PROVE  /\ msgs'[s][i] = <<c, made[c] + (i - k)>>
                 /\ msgs'[s][i][1] = c /\ msgs'[s][i][2] = made[c] + (i - k)
      <4> DEFINE x == made[c] + (i - k)
      <4>1. msgs'[s][i] = <<c, x>>
        BY <3>2
      <4> HIDE DEF x
      <4>2. msgs'[s][i][1] = c /\ msgs'[s][i][2] = x
        BY <4>1
      <4> QED
        BY <4>1, <4>2 DEF x
    <3>6. \A i \in 1 .. Len(msgs'[s]) : msgs'[s][i][1] = c /\ msgs'[s][i][2] <= made'[c]
      <4>1. ASSUME NEW i \in k + 1 .. k + n
            PROVE  made[c] + (i - k) <= made'[c]
        BY <3>3, <1>5, <1>6
      <4>2. ASSUME NEW i \in 1 .. k
            PROVE  msgs'[s][i][2] <= made'[c]
        BY <3>4, <1>5
      <4>3. \A i \in 1 .. Len(msgs'[s]) : i \in 1 .. k \/ i \in k + 1 .. k + n
        BY <3>2, <3>3
      <4> QED
        BY <3>4, <3>5, <4>1, <4>2, <4>3
    <3>7. ASSUME NEW i \in 1 .. Len(msgs'[s]), NEW j \in 1 .. Len(msgs'[s]), i < j
          PROVE  msgs'[s][i] # msgs'[s][j]
      <4>1. CASE j <= k
        <5>1. i \in 1 .. k /\ j \in 1 .. k /\ i # j
          BY <3>3, <3>7, <4>1
        <5>2. msgs'[s][i] = msgs[s][i] /\ msgs'[s][j] = msgs[s][j]
          BY <5>1, <3>2
        <5>3. msgs[s][i] # msgs[s][j]
          BY <5>1, <2>1, <2>3
        <5> QED
          BY <5>2, <5>3
      <4>2. CASE j > k /\ i <= k
        <5>1. i \in 1 .. k /\ j \in k + 1 .. k + n
          BY <3>2, <3>3, <4>2
        <5>2. msgs'[s][i][2] <= made[c] /\ msgs'[s][i][2] \in Nat
          BY <3>4, <5>1
        <5>3. msgs'[s][j][2] = made[c] + (j - k)
          BY <3>5, <5>1
        <5>4. made[c] + (j - k) \in Int /\ made[c] + (j - k) > made[c] /\ made[c] \in Nat
          BY <5>1, <1>5, <3>3
        <5>5. msgs'[s][i][2] # made[c] + (j - k)
          BY <5>2, <5>4
        <5> QED
          BY <5>2, <5>3, <5>4, <5>5, Zenon
      <4>3. CASE i > k
        <5>1. i \in k + 1 .. k + n /\ j \in k + 1 .. k + n
          BY <3>2, <3>3, <3>7, <4>3
        <5>2. msgs'[s][i][2] = made[c] + (i - k) /\ msgs'[s][j][2] = made[c] + (j - k)
          BY <3>5, <5>1
        <5>3. made[c] + (i - k) # made[c] + (j - k)
          BY <5>1, <1>5, <3>3, <3>7
        <5> QED
          BY <5>2, <5>3, Zenon
      <4> QED
        BY <3>3, <4>1, <4>2, <4>3
    <3> HIDE DEF k
    <3>8. \A i, j \in 1 .. Len(msgs'[s]) : i # j => i < j \/ j < i
      BY <3>2
    <3> QED
      BY <3>2, <3>6, <3>7, <3>8
  <2>4. ASSUME NEW t \in Session, t # s, current'[t] \in Conv \ Known
        PROVE  /\ msgs'[t] \in Seq(Msg)
               /\ \A i \in 1 .. Len(msgs'[t]) :
                    msgs'[t][i][1] = current'[t] /\ msgs'[t][i][2] <= made'[current'[t]]
               /\ \A i, j \in 1 .. Len(msgs'[t]) : i # j => msgs'[t][i] # msgs'[t][j]
    <3>1. current'[t] = current[t] /\ msgs'[t] = msgs[t] /\ current[t] \in Conv \ Known
      BY <2>4, <1>7
    <3>2. /\ msgs[t] \in Seq(Msg)
          /\ \A i \in 1 .. Len(msgs[t]) :
               msgs[t][i][1] = current[t] /\ msgs[t][i][2] <= made[current[t]]
          /\ \A i, j \in 1 .. Len(msgs[t]) : i # j => msgs[t][i] # msgs[t][j]
      BY <3>1 DEF IInv, NeverSaved
    <3>3. \A i \in 1 .. Len(msgs[t]) : msgs[t][i][2] \in Nat
      BY <3>2 DEF Msg
    <3>4. /\ made[current[t]] \in Nat /\ made'[current[t]] \in Nat
          /\ made'[current[t]] >= made[current[t]]
      BY <3>1, <1>5
    <3> QED
      BY <3>1, <3>2, <3>3, <3>4
  <2> QED
    BY <1>4, <1>6, <2>3, <2>4 DEF NeverSaved
<1>13. QueuedNew'
  <2>1. ASSUME NEW i \in 1 .. Len(calls), calls[i].op = "message"
        PROVE  calls[i].msg[2] <= made'[c] /\ calls[i].msg \notin Stored
    <3>1. /\ calls[i].msg[1] = c /\ calls[i].msg[2] \in Nat /\ made[c] \in Nat
          /\ calls[i].msg[2] > made[c] /\ calls[i].msg[2] <= made'[c]
      BY <2>1, <1>5, <1>6
    <3>2. calls[i].msg \in Stored => calls[i].msg[2] <= made[c]
      BY <3>1 DEF IInv, StoredMade
    <3> QED
      BY <3>1, <3>2
  <2>2. /\ saving'[s] # << >> => current'[s] \in Conv
        /\ \A i \in 1 .. Len(saving'[s]) : saving'[s][i].op = "message" =>
             /\ saving'[s][i].msg[1] = current'[s]
             /\ saving'[s][i].msg[2] <= made'[current'[s]]
             /\ saving'[s][i].msg \notin Stored
    <3>1. CASE saving'[s] = calls
      BY <3>1, <2>1, <1>6
    <3>2. CASE saving'[s] = << >>
      BY <3>2
    <3> QED
      BY <3>1, <3>2, <1>6
  <2>3. ASSUME NEW t \in Session, t # s
        PROVE  /\ saving'[t] # << >> => current'[t] \in Conv
               /\ \A i \in 1 .. Len(saving'[t]) : saving'[t][i].op = "message" =>
                    /\ saving'[t][i].msg[1] = current'[t]
                    /\ saving'[t][i].msg[2] <= made'[current'[t]]
                    /\ saving'[t][i].msg \notin Stored
    <3>1. saving'[t] = saving[t] /\ current'[t] = current[t]
      BY <2>3, <1>7
    <3>2. ASSUME NEW i \in 1 .. Len(saving[t]), saving[t][i].op = "message"
          PROVE  /\ saving[t][i].msg[1] = current[t]
                 /\ saving[t][i].msg[2] <= made'[current[t]]
                 /\ saving[t][i].msg \notin Stored
      <4>1. /\ saving[t][i].msg[1] = current[t] /\ current[t] \in Conv
            /\ saving[t][i].msg[2] <= made[current[t]] /\ saving[t][i].msg \notin Stored
        BY <3>2 DEF IInv, QueuedNew, Waits
      <4>2. saving[t][i].msg[2] \in Nat
        BY <3>2, QueueTyped DEF IInv, Waits
      <4> QED
        BY <4>1, <4>2, <1>5
    <3>3. saving[t] # << >> => current[t] \in Conv
      BY DEF IInv, QueuedNew
    <3> QED
      BY <3>1, <3>2, <3>3
  <2> QED
    BY <1>4, <2>2, <2>3 DEF QueuedNew, Waits
<1>14. QueuedOnce'
  <2>1. ASSUME NEW t \in Session, t # s, NEW i \in 1 .. Len(calls), NEW j \in 1 .. Len(saving[t]),
               calls[i].op = "message", saving[t][j].op = "message"
        PROVE  calls[i].msg # saving[t][j].msg
    <3>1. saving[t][j].msg[1] = current[t] /\ saving[t][j].msg[2] <= made[current[t]]
      BY <2>1 DEF IInv, QueuedNew, Waits
    <3>2. calls[i].msg[1] = c /\ calls[i].msg[2] > made[c] /\ calls[i].msg[2] \in Nat
      BY <2>1
    <3> QED
      BY <3>1, <3>2, <1>5
  <2>2. ASSUME NEW t \in Session, NEW u \in Session,
               NEW i \in 1 .. Len(saving'[t]), NEW j \in 1 .. Len(saving'[u]),
               saving'[t][i].op = "message", saving'[u][j].op = "message", t # u \/ i # j
        PROVE  saving'[t][i].msg # saving'[u][j].msg
    <3>1. CASE t # s /\ u # s
      BY <2>2, <3>1, <1>7, SMTT(30) DEF IInv, QueuedOnce, Waits
    <3>2. CASE t = s /\ u = s
      BY <2>2, <3>2, <1>6
    <3>3. CASE t = s /\ u # s
      BY <2>1, <2>2, <3>3, <1>6, <1>7
    <3>4. CASE t # s /\ u = s
      BY <2>1, <2>2, <3>4, <1>6, <1>7
    <3> QED
      BY <3>1, <3>2, <3>3, <3>4
  <2> QED
    BY <2>2, SMTT(30) DEF QueuedOnce, Waits
<1> QED
  BY <1>8, <1>9, <1>10, <1>11, <1>12, <1>13, <1>14 DEF IInv

LEMMA TurnKeeps ==
  ASSUME IInv, NEW s \in Session, NEW c \in Conv, Turn(s, c)
  PROVE  IInv'
<1> DEFINE question == <<c, made[c] + 1>>
           answer == <<c, made[c] + 2>>
           calls == <<ConvCall, MessageCall(question), MessageCall(answer), UsageCall(answer)>>
<1>1. AddMessages(s, c, 2, calls)
  BY DEF Turn
<1>2. made[c] \in Nat /\ made[c] + 2 <= MaxMsgs /\ MaxMsgs \in Nat
  BY <1>1, StoreAssumption DEF IInv, Shape, AddMessages
<1>3. question \in Msg /\ answer \in Msg
  BY <1>2 DEF Msg
<1>4. /\ question[1] = c /\ question[2] = made[c] + 1
      /\ answer[1] = c /\ answer[2] = made[c] + 2
      /\ question # answer
  BY <1>2
<1> HIDE DEF question, answer
<1>5. \A i \in 1 .. 4 : calls[i] \in Call
  BY <1>3 DEF Call, ConvCall, MessageCall, UsageCall
<1>6. calls \in Seq(Call) /\ Len(calls) = 4
  BY <1>5
<1>7. \A i \in 1 .. Len(calls) : calls[i].op = "message" =>
        (i = 2 /\ calls[i].msg = question) \/ (i = 3 /\ calls[i].msg = answer)
  BY <1>6 DEF ConvCall, MessageCall, UsageCall
<1> HIDE DEF calls
<1>8. \A i \in 1 .. Len(calls) : calls[i].op = "message" =>
        /\ calls[i].msg[1] = c /\ calls[i].msg[2] \in Nat
        /\ calls[i].msg[2] > made[c] /\ calls[i].msg[2] <= made[c] + 2
  BY <1>2, <1>4, <1>7
<1>9. \A i, j \in 1 .. Len(calls) :
        (i # j /\ calls[i].op = "message" /\ calls[j].op = "message")
           => calls[i].msg # calls[j].msg
  BY <1>4, <1>7
<1> QED
  BY <1>1, <1>6, <1>8, <1>9, AddingKeeps

LEMMA LoadSkillKeeps ==
  ASSUME IInv, NEW s \in Session, NEW c \in Conv, LoadSkill(s, c)
  PROVE  IInv'
<1> DEFINE skill == <<c, made[c] + 1>>
           calls == <<ConvCall, MessageCall(skill)>>
<1>1. AddMessages(s, c, 1, calls)
  BY DEF LoadSkill
<1>2. made[c] \in Nat /\ made[c] + 1 <= MaxMsgs /\ MaxMsgs \in Nat
  BY <1>1, StoreAssumption DEF IInv, Shape, AddMessages
<1>3. skill \in Msg /\ skill[1] = c /\ skill[2] = made[c] + 1
  BY <1>2 DEF Msg
<1> HIDE DEF skill
<1>5. \A i \in 1 .. 2 : calls[i] \in Call
  BY <1>3 DEF Call, ConvCall, MessageCall
<1>6. calls \in Seq(Call) /\ Len(calls) = 2
  BY <1>5
<1>7. \A i \in 1 .. Len(calls) : calls[i].op = "message" => i = 2 /\ calls[i].msg = skill
  BY <1>6 DEF ConvCall, MessageCall
<1> HIDE DEF calls
<1>8. \A i \in 1 .. Len(calls) : calls[i].op = "message" =>
        /\ calls[i].msg[1] = c /\ calls[i].msg[2] \in Nat
        /\ calls[i].msg[2] > made[c] /\ calls[i].msg[2] <= made[c] + 1
  BY <1>2, <1>3, <1>7
<1> QED
  BY <1>1, <1>6, <1>7, <1>8, AddingKeeps

\* What a step of session s leaves alone.
OthersSame(s) ==
  \A t \in Session : t # s =>
    current'[t] = current[t] /\ msgs'[t] = msgs[t] /\ saving'[t] = saving[t]
SameShape ==
  /\ current' \in [Session -> Conv \cup {None}]
  /\ msgs' = [t \in Session |-> msgs'[t]]
  /\ saving' \in [Session -> Seq(Call)]
  /\ DOMAIN lastRow' = Session /\ made' = made

\* Steps that write no message and queue none.
LEMMA NoMessageKeeps ==
  ASSUME IInv, NEW s \in Session, OthersSame(s), SameShape,
         IsTable(convRows)', Range(convRows) \subseteq Range(convRows'),
         Range(convRows') \subseteq Conv,
         msgRows' = msgRows, ftsRows' = ftsRows,
         usage' = usage, gone' = gone,
         \/ saving'[s] = saving[s] /\ current'[s] = current[s]
         \/ \A i \in 1 .. Len(saving'[s]) : saving'[s][i].op # "message",
         saving'[s] # << >> => current'[s] \in Conv,
         \/ current'[s] = current[s] /\ msgs'[s] = msgs[s]
         \/ current'[s] = None /\ msgs'[s] = << >>
         \/ current'[s] \in Known
         \/ current'[s] \in Conv /\ Fresh(current'[s]) /\ msgs'[s] = << >>
  PROVE  IInv'
<1>1. /\ Stored' = Stored /\ Known \subseteq Known'
      /\ IsTable(msgRows)' = IsTable(msgRows)
      /\ Range(convRows) \subseteq Range(convRows)'
  BY DEF Stored, Known, IsTable
<1>2. made' = made /\ made \in [Conv -> Nat] /\ Known \subseteq Conv /\ None \notin Conv
  BY StoreAssumption DEF SameShape, IInv, Shape, Known
<1>3. Shape'
  BY <1>1 DEF IInv, Shape, SameShape
<1>4. IndexExact' /\ StoredMade' /\ (usage \subseteq Stored)'
  BY <1>1, <1>2 DEF IInv, IndexExact, StoredMade
<1>5. Sole'
  BY <1>1, <1>2 DEF IInv, Sole, OthersSame, Fresh
<1>6. NothingShown'
  BY <1>1, <1>2 DEF IInv, NothingShown, OthersSame
<1>7. NeverSaved'
  <2>1. << >> \in Seq(Msg) /\ Len(<< >>) = 0
    OBVIOUS
  <2> SUFFICES ASSUME NEW t \in Session, current'[t] \in Conv \ Known
               PROVE  /\ msgs'[t] \in Seq(Msg)
                      /\ \A i \in 1 .. Len(msgs'[t]) :
                           msgs'[t][i][1] = current'[t] /\ msgs'[t][i][2] <= made[current'[t]]
                      /\ \A i, j \in 1 .. Len(msgs'[t]) : i # j => msgs'[t][i] # msgs'[t][j]
    BY <1>1, <1>2 DEF NeverSaved
  <2>2. CASE current'[t] = current[t] /\ msgs'[t] = msgs[t]
    BY <2>2 DEF IInv, NeverSaved
  <2>3. CASE msgs'[t] = << >>
    BY <2>1, <2>3
  <2> QED
    BY <1>2, <2>2, <2>3 DEF OthersSame
<1>8. QueuedNew'
  BY <1>1, <1>2 DEF IInv, QueuedNew, OthersSame, Waits
<1>9. QueuedOnce'
  BY <1>1, <1>2, SMTT(30) DEF IInv, QueuedOnce, OthersSame, Waits
<1> QED
  BY <1>3, <1>4, <1>5, <1>6, <1>7, <1>8, <1>9 DEF IInv

\* Steps that write no table and queue no message.
LEMMA MemoryKeeps ==
  ASSUME IInv, NEW s \in Session, OthersSame(s), SameShape,
         convRows' = convRows, msgRows' = msgRows, ftsRows' = ftsRows,
         usage' = usage, gone' = gone,
         \/ saving'[s] = saving[s] /\ current'[s] = current[s]
         \/ \A i \in 1 .. Len(saving'[s]) : saving'[s][i].op # "message",
         saving'[s] # << >> => current'[s] \in Conv,
         \/ current'[s] = current[s] /\ msgs'[s] = msgs[s]
         \/ current'[s] = None /\ msgs'[s] = << >>
         \/ current'[s] \in Known
         \/ current'[s] \in Conv /\ Fresh(current'[s]) /\ msgs'[s] = << >>
  PROVE  IInv'
<1>1. /\ IsTable(convRows)' /\ Range(convRows) \subseteq Range(convRows')
      /\ Range(convRows') \subseteq Conv
  BY DEF IInv, Shape, IsTable
<1> QED
  BY <1>1, NoMessageKeeps

LEMMA ForgetKeeps ==
  ASSUME IInv, NEW s \in Session, Forget(s)
  PROVE  /\ current' \in [Session -> Conv \cup {None}]
         /\ msgs' = [t \in Session |-> msgs'[t]]
         /\ current'[s] = None /\ msgs'[s] = << >>
         /\ \A t \in Session : t # s => current'[t] = current[t] /\ msgs'[t] = msgs[t]
BY DEF IInv, Shape, Forget

LEMMA NewConversationKeeps ==
  ASSUME IInv, NEW s \in Session, NewConversation(s)
  PROVE  IInv'
<1>1. /\ Forget(s) /\ saving[s] = << >> /\ saving' = saving /\ made' = made /\ lastRow' = lastRow
      /\ convRows' = convRows /\ msgRows' = msgRows /\ ftsRows' = ftsRows
      /\ usage' = usage /\ gone' = gone
  BY DEF NewConversation, Idle, tables
<1>2. OthersSame(s) /\ SameShape
  BY <1>1, ForgetKeeps DEF OthersSame, SameShape, IInv, Shape
<1>3. \A i \in 1 .. Len(saving'[s]) : saving'[s][i].op # "message"
  BY <1>1
<1> QED
  BY <1>1, <1>2, <1>3, ForgetKeeps, MemoryKeeps

LEMMA ResumeKeeps ==
  ASSUME IInv, NEW s \in Session, NEW c \in Conv, Resume(s, c)
  PROVE  IInv'
<1>1. PICK read \in ByTime({ m \in Stored : m[1] = c }) : msgs' = [msgs EXCEPT ![s] = read]
  BY DEF Resume
<1>2. /\ current' = [current EXCEPT ![s] = c]
      /\ saving[s] = << >> /\ saving' = saving /\ made' = made /\ lastRow' = lastRow
      /\ convRows' = convRows /\ msgRows' = msgRows /\ ftsRows' = ftsRows
      /\ usage' = usage /\ gone' = gone /\ c \in Known
  BY DEF Resume, Idle, tables, Known
<1>3. OthersSame(s) /\ SameShape /\ current'[s] = c
  BY <1>1, <1>2 DEF OthersSame, SameShape, IInv, Shape
<1>4. \A i \in 1 .. Len(saving'[s]) : saving'[s][i].op # "message"
  BY <1>2
<1> QED
  BY <1>2, <1>3, <1>4, MemoryKeeps

LEMMA DisableWritesKeeps ==
  ASSUME IInv, NEW s \in Session, DisableWrites(s)
  PROVE  IInv'
<1>1. /\ saving[s] = << >> /\ saving' = saving /\ made' = made /\ lastRow' = lastRow
      /\ current' = current /\ msgs' = msgs
      /\ convRows' = convRows /\ msgRows' = msgRows /\ ftsRows' = ftsRows
      /\ usage' = usage /\ gone' = gone
  BY DEF DisableWrites, Idle, tables
<1>2. OthersSame(s) /\ SameShape
  BY <1>1 DEF OthersSame, SameShape, IInv, Shape
<1> QED
  BY <1>1, <1>2, MemoryKeeps

LEMMA SaveLogKeeps ==
  ASSUME IInv, NEW s \in Session, SaveLog(s)
  PROVE  IInv'
<1>1. /\ saving[s] = << >> /\ saving' = saving /\ made' = made
      /\ current' = current /\ msgs' = msgs
      /\ convRows' = convRows /\ msgRows' = msgRows /\ ftsRows' = ftsRows
      /\ usage' = usage /\ gone' = gone
  BY DEF SaveLog, Idle, memory
<1>2. DOMAIN lastRow' = Session
  BY DEF SaveLog, IInv, Shape
<1>3. OthersSame(s) /\ SameShape
  BY <1>1, <1>2 DEF OthersSame, SameShape, IInv, Shape
<1> QED
  BY <1>1, <1>3, MemoryKeeps

LEMMA SaveRefusedKeeps ==
  ASSUME IInv, NEW s \in Session, SaveRefused(s)
  PROVE  IInv'
<1>1. /\ saving' = [saving EXCEPT ![s] = << >>] /\ made' = made /\ lastRow' = lastRow
      /\ current' = current /\ msgs' = msgs
      /\ convRows' = convRows /\ msgRows' = msgRows /\ ftsRows' = ftsRows
      /\ usage' = usage /\ gone' = gone
  BY DEF SaveRefused, memory, tables
<1>2. OthersSame(s) /\ SameShape /\ saving'[s] = << >>
  BY <1>1 DEF OthersSame, SameShape, IInv, Shape
<1>3. \A i \in 1 .. Len(saving'[s]) : saving'[s][i].op # "message"
  BY <1>2
<1> QED
  BY <1>1, <1>2, <1>3, MemoryKeeps

LEMMA SaveTitleKeeps ==
  ASSUME IInv, NEW s \in Session, NEW c \in Conv, SaveTitle(s, c)
  PROVE  IInv'
<1>1. /\ Shown(s, c) /\ current' = [current EXCEPT ![s] = c]
      /\ saving' = [saving EXCEPT ![s] = IF writing[s] THEN <<ConvCall>> ELSE << >>]
      /\ msgs' = msgs /\ made' = made /\ lastRow' = lastRow
      /\ convRows' = convRows /\ msgRows' = msgRows /\ ftsRows' = ftsRows
      /\ usage' = usage /\ gone' = gone
  BY DEF SaveTitle, tables
<1>2. <<ConvCall>> \in Seq(Call) /\ ConvCall.op # "message"
  BY DEF ConvCall, Call
<1>3. OthersSame(s) /\ SameShape /\ current'[s] = c
  BY <1>1, <1>2 DEF OthersSame, SameShape, IInv, Shape
<1>4. \A i \in 1 .. Len(saving'[s]) : saving'[s][i].op # "message"
  BY <1>1, <1>2 DEF IInv, Shape
<1>5. \/ c = current[s] /\ msgs'[s] = msgs[s]
      \/ Fresh(c) /\ msgs'[s] = << >>
  BY <1>1 DEF Shown, IInv, NothingShown
<1> QED
  BY <1>1, <1>3, <1>4, <1>5, MemoryKeeps

LEMMA RestartKeeps ==
  ASSUME IInv, NEW s \in Session, Restart(s)
  PROVE  IInv'
<1>1. /\ Forget(s) /\ saving' = [saving EXCEPT ![s] = << >>] /\ made' = made
      /\ convRows' = convRows /\ msgRows' = msgRows
      /\ usage' = usage /\ gone' = gone
  BY DEF Restart
<1>2. ftsRows' = ftsRows
  BY DEF Restart, IInv, IndexExact
<1>3. DOMAIN lastRow' = Session
  BY DEF Restart, IInv, Shape
<1>4. OthersSame(s) /\ SameShape /\ saving'[s] = << >>
  BY <1>1, <1>3, ForgetKeeps DEF OthersSame, SameShape, IInv, Shape
<1>5. \A i \in 1 .. Len(saving'[s]) : saving'[s][i].op # "message"
  BY <1>4
<1> QED
  BY <1>1, <1>2, <1>4, <1>5, ForgetKeeps, MemoryKeeps

\* EnableWrites, when the conversation shown was never saved.
LEMMA EnableWritesKeeps ==
  ASSUME IInv, NEW s \in Session, EnableWrites(s), "resave" \notin Faults
  PROVE  IInv'
<1>1. /\ current[s] \notin Known
      /\ saving' = [saving EXCEPT ![s] = SaveAgain(s)]
      /\ lastRow' = [lastRow EXCEPT ![s] = 0]
      /\ current' = current /\ msgs' = msgs /\ made' = made
      /\ convRows' = convRows /\ msgRows' = msgRows /\ ftsRows' = ftsRows
      /\ usage' = usage /\ gone' = gone
  BY DEF EnableWrites, tables
<1>2. /\ Stored' = Stored /\ Known' = Known
      /\ IsTable(convRows)' = IsTable(convRows) /\ IsTable(msgRows)' = IsTable(msgRows)
      /\ Range(convRows)' = Range(convRows)
  BY <1>1 DEF Stored, Known, IsTable
<1>3. saving \in [Session -> Seq(Call)] /\ current[s] \in Conv \cup {None}
  BY DEF IInv, Shape
<1>4. CASE msgs[s] = << >>
  <2>1. saving'[s] = << >> /\ OthersSame(s) /\ SameShape
    BY <1>1, <1>3, <1>4 DEF SaveAgain, OthersSame, SameShape, IInv, Shape
  <2>2. \A i \in 1 .. Len(saving'[s]) : saving'[s][i].op # "message"
    BY <2>1
  <2> QED
    BY <1>1, <2>1, <2>2, MemoryKeeps
<1>5. CASE msgs[s] # << >>
  <2>1. current[s] \in Conv \ Known
    BY <1>1, <1>3, <1>5 DEF IInv, NothingShown
  <2>2. /\ msgs[s] \in Seq(Msg)
        /\ \A i \in 1 .. Len(msgs[s]) :
             msgs[s][i][1] = current[s] /\ msgs[s][i][2] <= made[current[s]]
        /\ \A i, j \in 1 .. Len(msgs[s]) : i # j => msgs[s][i] # msgs[s][j]
    BY <2>1 DEF IInv, NeverSaved
  <2> DEFINE k == Len(msgs[s])
             calls == [i \in 1 .. k |-> MessageCall(msgs[s][i])]
  <2>3. k \in Nat /\ \A i \in 1 .. k : msgs[s][i] \in Msg
    BY <2>2
  <2>4. calls \in Seq(Call) /\ Len(calls) = k
    BY <2>3 DEF MessageCall, Call
  <2>5. SaveAgain(s) = <<ConvCall>> \o calls
    BY <1>5, <2>2 DEF SaveAgain
  <2>6. \A i \in 1 .. k : calls[i].op = "message" /\ calls[i].msg = msgs[s][i]
    BY DEF MessageCall
  <2>7. <<ConvCall>> \in Seq(Call) /\ ConvCall.op # "message"
    BY DEF ConvCall, Call
  <2> HIDE DEF calls, k
  <2>8. /\ saving'[s] \in Seq(Call) /\ Len(saving'[s]) = k + 1
        /\ saving'[s][1] = ConvCall
        /\ \A i \in 2 .. k + 1 : saving'[s][i] = calls[i - 1]
    <3>1. saving'[s] = <<ConvCall>> \o calls
      BY <1>1, <1>3, <2>5
    <3> QED
      BY <2>3, <2>4, <2>7, <3>1
  <2>9. \A i \in 1 .. Len(saving'[s]) : saving'[s][i].op = "message" =>
          i - 1 \in 1 .. k /\ saving'[s][i].msg = msgs[s][i - 1]
    <3> SUFFICES ASSUME NEW i \in 1 .. Len(saving'[s]), saving'[s][i].op = "message"
                 PROVE  i - 1 \in 1 .. k /\ saving'[s][i].msg = msgs[s][i - 1]
      OBVIOUS
    <3>1. i # 1
      BY <2>7, <2>8
    <3>2. i \in 2 .. k + 1 /\ i - 1 \in 1 .. k
      BY <2>3, <2>8, <3>1
    <3> QED
      BY <2>6, <2>8, <3>2
  <2>10. OthersSame(s)
    BY <1>1, <1>3 DEF OthersSame
  <2>11. Shape'
    <3>1. saving' \in [Session -> Seq(Call)]
      BY <1>1, <1>3, <2>8
    <3> QED
      BY <1>1, <1>2, <3>1 DEF IInv, Shape
  <2>12. IndexExact' /\ StoredMade' /\ (usage \subseteq Stored)'
    BY <1>1, <1>2 DEF IInv, IndexExact, StoredMade
  <2>13. Sole' /\ NothingShown' /\ NeverSaved'
    BY <1>1, <1>2 DEF IInv, Sole, NothingShown, NeverSaved
  <2>14. \A i \in 1 .. k : msgs[s][i] \notin Stored
    BY <2>1, <2>2 DEF k, IInv, StoredMade, Known
  <2>15. QueuedNew'
    <3>1. \A i \in 1 .. Len(saving'[s]) : saving'[s][i].op = "message" =>
            /\ saving'[s][i].msg[1] = current[s]
            /\ saving'[s][i].msg[2] <= made[current[s]]
            /\ saving'[s][i].msg \notin Stored
      BY <2>2, <2>9, <2>14 DEF k
    <3> QED
      BY <1>1, <1>2, <2>1, <2>10, <3>1 DEF IInv, QueuedNew, OthersSame, Waits
  <2>16. QueuedOnce'
    <3>1. ASSUME NEW i \in 1 .. Len(saving'[s]), NEW j \in 1 .. Len(saving'[s]), i # j,
                 saving'[s][i].op = "message", saving'[s][j].op = "message"
          PROVE  saving'[s][i].msg # saving'[s][j].msg
      <4>1. /\ i - 1 \in 1 .. Len(msgs[s]) /\ j - 1 \in 1 .. Len(msgs[s]) /\ i - 1 # j - 1
            /\ saving'[s][i].msg = msgs[s][i - 1] /\ saving'[s][j].msg = msgs[s][j - 1]
        BY <2>9, <3>1 DEF k
      <4> QED
        BY <2>2, <4>1
    <3>2. ASSUME NEW t \in Session, t # s,
                 NEW i \in 1 .. Len(saving'[s]), NEW j \in 1 .. Len(saving[t]),
                 saving'[s][i].op = "message", saving[t][j].op = "message"
          PROVE  saving'[s][i].msg # saving[t][j].msg
      <4>1. saving'[s][i].msg[1] = current[s]
        BY <2>2, <2>9, <3>2 DEF k
      <4>2. saving[t][j].msg[1] = current[t] /\ current[t] \in Conv
        BY <3>2 DEF IInv, QueuedNew, Waits
      <4>3. current[t] # current[s]
        BY <2>1, <3>2, <4>2, StoreAssumption DEF IInv, Sole
      <4> QED
        BY <4>1, <4>2, <4>3
    <3>3. ASSUME NEW t \in Session, NEW u \in Session,
                 NEW i \in 1 .. Len(saving'[t]), NEW j \in 1 .. Len(saving'[u]),
                 saving'[t][i].op = "message", saving'[u][j].op = "message", t # u \/ i # j
          PROVE  saving'[t][i].msg # saving'[u][j].msg
      <4>1. CASE t # s /\ u # s
        BY <3>3, <4>1, <2>10 DEF IInv, QueuedOnce, Waits, OthersSame
      <4>2. CASE t = s /\ u = s
        BY <3>1, <3>3, <4>2
      <4>3. CASE t = s /\ u # s
        BY <3>2, <3>3, <4>3, <2>10 DEF OthersSame
      <4>4. CASE t # s /\ u = s
        BY <3>2, <3>3, <4>4, <2>10 DEF OthersSame
      <4> QED
        BY <4>1, <4>2, <4>3, <4>4
    <3> QED
      BY <3>3 DEF QueuedOnce, Waits
  <2> QED
    BY <2>11, <2>12, <2>13, <2>15, <2>16 DEF IInv
<1> QED
  BY <1>4, <1>5

\* save_conversation adds at most the row of the conversation.
LEMMA UpsertKeeps ==
  ASSUME IInv, NEW s \in Session, NEW c \in Conv, Upsert(s, c)
  PROVE  /\ IsTable(convRows)' /\ DOMAIN lastRow' = Session
         /\ Range(convRows) \subseteq Range(convRows') /\ Range(convRows') \subseteq Conv
<1>1. IsTable(convRows) /\ Range(convRows) \subseteq Conv /\ DOMAIN lastRow = Session
  BY DEF IInv, Shape
<1>2. CASE c \in Range(convRows)
  BY <1>1, <1>2 DEF Upsert, IsTable
<1>3. CASE c \notin Range(convRows)
  <2>1. /\ convRows' = Set(convRows, NextRow(convRows), c)
        /\ lastRow' = [lastRow EXCEPT ![s] = NextRow(convRows)]
    BY <1>3 DEF Upsert
  <2>2. /\ IsTable(Set(convRows, NextRow(convRows), c))
        /\ Range(Set(convRows, NextRow(convRows), c)) = Range(convRows) \cup {c}
    BY <1>1, InsertRow
  <2>3. IsTable(convRows)'
    BY <2>1, <2>2 DEF IsTable
  <2> QED
    BY <1>1, <2>1, <2>2, <2>3
<1> QED
  BY <1>2, <1>3

LEMMA ArchiveCurrentKeeps ==
  ASSUME IInv, NEW s \in Session, ArchiveCurrent(s)
  PROVE  IInv'
<1>1. /\ Forget(s) /\ saving[s] = << >> /\ saving' = saving /\ made' = made
      /\ msgRows' = msgRows /\ ftsRows' = ftsRows /\ usage' = usage /\ gone' = gone
      /\ msgs[s] # << >>
      /\ Upsert(s, current[s]) \/ UNCHANGED <<convRows, lastRow>>
  BY DEF ArchiveCurrent, Idle
<1>2. current[s] \in Conv
  BY <1>1 DEF IInv, Shape, NothingShown
<1>3. /\ IsTable(convRows)' /\ DOMAIN lastRow' = Session
      /\ Range(convRows) \subseteq Range(convRows') /\ Range(convRows') \subseteq Conv
  <2>1. CASE Upsert(s, current[s])
    BY <1>2, <2>1, UpsertKeeps
  <2>2. CASE UNCHANGED <<convRows, lastRow>>
    BY <2>2 DEF IInv, Shape, IsTable
  <2> QED
    BY <1>1, <2>1, <2>2
<1>4. OthersSame(s) /\ SameShape
  BY <1>1, <1>3, ForgetKeeps DEF OthersSame, SameShape, IInv, Shape
<1>5. \A i \in 1 .. Len(saving'[s]) : saving'[s][i].op # "message"
  BY <1>1
<1> QED
  BY <1>1, <1>3, <1>4, <1>5, ForgetKeeps, NoMessageKeeps

\* A store call that is done: its message, if any, is stored now.
LEMMA DoneKeeps ==
  ASSUME IInv, NEW s \in Session, saving[s] # << >>, Done(s),
         current' = current, msgs' = msgs, made' = made, gone' = gone,
         DOMAIN lastRow' = Session,
         IsTable(convRows)', Range(convRows) \subseteq Range(convRows'),
         Range(convRows') \subseteq Conv, IsTable(msgRows)', ftsRows' = msgRows',
         \/ Stored' = Stored
         \/ /\ Calls(s, "message") /\ ParentsExist(Head(saving[s]))
            /\ Stored' = Stored \cup {Head(saving[s]).msg},
         usage' \subseteq Stored'
  PROVE  IInv'
<1> DEFINE call == Head(saving[s])
<1>1. /\ saving \in [Session -> Seq(Call)] /\ saving' = [saving EXCEPT ![s] = Tail(@)]
      /\ made \in [Conv -> Nat] /\ DOMAIN msgs = Session
  BY DEF Done, IInv, Shape
<1>2. /\ saving'[s] \in Seq(Call) /\ Len(saving'[s]) = Len(saving[s]) - 1 /\ Len(saving[s]) >= 1
      /\ \A i \in 1 .. Len(saving'[s]) : i + 1 \in 1 .. Len(saving[s])
           /\ i + 1 # 1 /\ saving'[s][i] = saving[s][i + 1]
      /\ call = saving[s][1]
  <2>1. saving'[s] = Tail(saving[s]) /\ saving[s] \in Seq(Call)
    BY <1>1
  <2> QED
    BY <2>1
<1>3. \A t \in Session : t # s => saving'[t] = saving[t]
  BY <1>1
<1>4. Known \subseteq Known'
  BY DEF Known
<1>5. \/ Stored' = Stored
      \/ /\ 1 \in 1 .. Len(saving[s]) /\ Waits(s, 1) /\ call.op = "message"
         /\ call.msg \in Msg /\ call.msg[1] = current[s] /\ call.msg[1] \in Range(convRows)
         /\ call.msg[2] <= made[current[s]]
         /\ Stored' = Stored \cup {call.msg}
  <2>1. CASE Calls(s, "message") /\ ParentsExist(call) /\ Stored' = Stored \cup {call.msg}
    <3>1. 1 \in 1 .. Len(saving[s]) /\ Waits(s, 1) /\ call.op = "message"
      BY <1>2, <2>1 DEF Calls, Waits
    <3>2. call.msg \in Msg
      BY <1>2, <3>1, QueueTyped DEF IInv
    <3>3. call.msg[1] = current[s] /\ call.msg[2] <= made[current[s]]
      BY <1>2, <3>1 DEF IInv, QueuedNew
    <3>4. call.msg[1] \in Range(convRows)
      BY <2>1, <3>1 DEF ParentsExist
    <3> QED
      BY <2>1, <3>1, <3>2, <3>3, <3>4
  <2> QED
    BY <2>1
<1> HIDE DEF call
<1>6. Shape'
  BY <1>1, <1>2, <1>5 DEF IInv, Shape
<1>7. IndexExact' /\ (usage \subseteq Stored)'
  BY DEF IndexExact
<1>8. StoredMade'
  BY <1>5 DEF IInv, StoredMade
<1>9. Sole' /\ NothingShown' /\ NeverSaved'
  BY <1>4 DEF IInv, Sole, NothingShown, NeverSaved
<1>10. QueuedOnce'
  <2>1. ASSUME NEW t \in Session, NEW i \in 1 .. Len(saving'[t]), saving'[t][i].op = "message"
        PROVE  \E k \in 1 .. Len(saving[t]) :
                 /\ Waits(t, k) /\ saving[t][k] = saving'[t][i]
                 /\ k = IF t = s THEN i + 1 ELSE i
    BY <1>2, <1>3, <2>1 DEF Waits
  <2>2. ASSUME NEW t \in Session, NEW u \in Session,
               NEW i \in 1 .. Len(saving'[t]), NEW j \in 1 .. Len(saving'[u]),
               saving'[t][i].op = "message", saving'[u][j].op = "message", t # u \/ i # j
        PROVE  saving'[t][i].msg # saving'[u][j].msg
    <3>1. PICK k \in 1 .. Len(saving[t]) :
            Waits(t, k) /\ saving[t][k] = saving'[t][i] /\ k = IF t = s THEN i + 1 ELSE i
      BY <2>1, <2>2
    <3>2. PICK l \in 1 .. Len(saving[u]) :
            Waits(u, l) /\ saving[u][l] = saving'[u][j] /\ l = IF u = s THEN j + 1 ELSE j
      BY <2>1, <2>2
    <3>3. t # u \/ k # l
      <4>1. CASE t = s
        BY <2>2, <3>1, <3>2, <4>1
      <4>2. CASE t # s
        BY <2>2, <3>1, <3>2, <4>2
      <4> QED
        BY <4>1, <4>2
    <3>4. saving[t][k].msg # saving[u][l].msg
      <4>1. Waits(t, k) /\ Waits(u, l)
        BY <3>1, <3>2
      <4>2. QueuedOnce
        BY DEF IInv
      <4> QED
        BY <3>3, <4>1, <4>2, Zenon DEF QueuedOnce
    <3> QED
      BY <3>1, <3>2, <3>4
  <2> QED
    BY <2>2 DEF QueuedOnce, Waits
<1>11. QueuedNew'
  <2>1. ASSUME NEW t \in Session, NEW i \in 1 .. Len(saving'[t]), saving'[t][i].op = "message"
        PROVE  /\ saving'[t][i].msg[1] = current[t]
               /\ saving'[t][i].msg[2] <= made[current[t]]
               /\ saving'[t][i].msg \notin Stored'
    <3>1. PICK k \in 1 .. Len(saving[t]) :
             Waits(t, k) /\ saving[t][k] = saving'[t][i] /\ (t = s => k # 1)
      <4>1. CASE t = s
        BY <1>2, <2>1, <4>1 DEF Waits
      <4>2. CASE t # s
        BY <1>3, <2>1, <4>2 DEF Waits
      <4> QED
        BY <4>1, <4>2
    <3>2. /\ saving[t][k].msg[1] = current[t] /\ saving[t][k].msg[2] <= made[current[t]]
          /\ saving[t][k].msg \notin Stored
      BY <3>1 DEF IInv, QueuedNew
    <3>3. (1 \in 1 .. Len(saving[s]) /\ Waits(s, 1)) => saving[t][k].msg # call.msg
      BY <1>2, <3>1 DEF IInv, QueuedOnce
    <3> QED
      BY <1>5, <3>1, <3>2, <3>3
  <2>2. \A t \in Session : saving'[t] # << >> => current[t] \in Conv
    BY <1>3 DEF IInv, QueuedNew
  <2> QED
    BY <2>1, <2>2 DEF QueuedNew, Waits
<1> QED
  BY <1>6, <1>7, <1>8, <1>9, <1>10, <1>11 DEF IInv

LEMMA SaveConversationKeeps ==
  ASSUME IInv, NEW s \in Session, SaveConversation(s)
  PROVE  IInv'
<1>1. /\ saving[s] # << >> /\ Upsert(s, current[s]) /\ Done(s)
      /\ msgRows' = msgRows /\ ftsRows' = ftsRows /\ usage' = usage
      /\ current' = current /\ msgs' = msgs /\ made' = made /\ gone' = gone
  BY DEF SaveConversation, Calls, memory
<1>2. current[s] \in Conv
  BY <1>1 DEF IInv, QueuedNew
<1>3. /\ IsTable(convRows)' /\ DOMAIN lastRow' = Session
      /\ Range(convRows) \subseteq Range(convRows') /\ Range(convRows') \subseteq Conv
  BY <1>1, <1>2, UpsertKeeps
<1>4. Stored' = Stored /\ IsTable(msgRows)' /\ ftsRows' = msgRows' /\ usage' \subseteq Stored'
  BY <1>1 DEF IInv, Shape, IsTable, IndexExact, Stored
<1> QED
  BY <1>1, <1>3, <1>4, DoneKeeps

\* The heart of the argument: the message is new, so its index row is the
\* row it is inserted in.
LEMMA SaveMessageKeeps ==
  ASSUME IInv, NEW s \in Session, SaveMessage(s)
  PROVE  IInv'
<1> DEFINE m == Head(saving[s]).msg
           row == NextRow(msgRows)
<1>1. /\ saving[s] # << >> /\ Calls(s, "message") /\ ParentsExist(Head(saving[s])) /\ Done(s)
      /\ convRows' = convRows /\ usage' = usage
      /\ current' = current /\ msgs' = msgs /\ made' = made /\ gone' = gone
      /\ msgRows' = IF m \in Stored THEN msgRows ELSE Set(msgRows, row, m)
      /\ ftsRows' = Set(ftsRows, IndexRow(s, m), m)
      /\ lastRow' = [lastRow EXCEPT ![s] = IndexRow(s, m)]
  BY DEF SaveMessage, Calls, memory
<1>2. m \notin Stored
  <2>1. saving[s] \in Seq(Call)
    BY DEF IInv, Shape
  <2>2. 1 \in 1 .. Len(saving[s]) /\ Head(saving[s]) = saving[s][1] /\ Waits(s, 1)
    BY <1>1, <2>1 DEF Calls, Waits
  <2> QED
    BY <2>2 DEF IInv, QueuedNew
<1>3. IndexRow(s, m) = row
  BY <1>2 DEF IndexRow
<1> HIDE DEF m, row
<1>4. msgRows' = Set(msgRows, row, m) /\ ftsRows' = Set(msgRows, row, m)
  BY <1>1, <1>2, <1>3 DEF IInv, IndexExact
<1>5. /\ IsTable(Set(msgRows, row, m))
      /\ Range(Set(msgRows, row, m)) = Range(msgRows) \cup {m}
  BY InsertRow DEF row, IInv, Shape
<1>6. IsTable(msgRows)' /\ Stored' = Stored \cup {m} /\ ftsRows' = msgRows'
  <2>1. IsTable(msgRows)'
    BY <1>4, <1>5 DEF IsTable
  <2> QED
    BY <1>4, <1>5, <2>1 DEF Stored
<1>7. /\ IsTable(convRows)' /\ Range(convRows) \subseteq Range(convRows')
      /\ Range(convRows') \subseteq Conv /\ DOMAIN lastRow' = Session
  BY <1>1 DEF IInv, Shape, IsTable
<1>8. usage' \subseteq Stored'
  BY <1>1, <1>6 DEF IInv
<1> QED
  BY <1>1, <1>6, <1>7, <1>8, DoneKeeps DEF m

LEMMA SaveUsageKeeps ==
  ASSUME IInv, NEW s \in Session, SaveUsage(s)
  PROVE  IInv'
<1>1. /\ saving[s] # << >> /\ Head(saving[s]).op = "usage"
      /\ ParentsExist(Head(saving[s])) /\ Done(s)
      /\ usage' = usage \cup {Head(saving[s]).msg}
      /\ lastRow' = [lastRow EXCEPT ![s] = usageId + 1]
      /\ convRows' = convRows /\ msgRows' = msgRows /\ ftsRows' = ftsRows
      /\ current' = current /\ msgs' = msgs /\ made' = made /\ gone' = gone
  BY DEF SaveUsage, Calls, memory
<1>2. Head(saving[s]).msg \in Stored
  BY <1>1 DEF ParentsExist
<1>3. /\ IsTable(convRows)' /\ Range(convRows) \subseteq Range(convRows')
      /\ Range(convRows') \subseteq Conv /\ DOMAIN lastRow' = Session
      /\ IsTable(msgRows)' /\ ftsRows' = msgRows'
  BY <1>1 DEF IInv, Shape, IsTable, IndexExact
<1>4. Stored' = Stored
  BY <1>1 DEF Stored
<1>5. usage' \subseteq Stored'
  BY <1>1, <1>2, <1>4 DEF IInv
<1> QED
  BY <1>1, <1>3, <1>4, <1>5, DoneKeeps

LEMMA DeleteKeeps ==
  ASSUME IInv, NEW s \in Session, NEW c \in Conv, Delete(s, c)
  PROVE  IInv'
<1>1. /\ saving[s] = << >> \/ current[s] # c
      /\ c \in Range(convRows)
      /\ usage' = { m \in usage : m[1] # c }
      /\ ftsRows' = Without(ftsRows, c) /\ msgRows' = Without(msgRows, c)
      /\ convRows' = [r \in { x \in DOMAIN convRows : convRows[x] # c } |-> convRows[r]]
      /\ gone' = gone \cup {c}
      /\ saving' = saving /\ made' = made /\ lastRow' = lastRow
      /\ IF current[s] = c THEN Forget(s) ELSE current' = current /\ msgs' = msgs
  BY DEF Delete, Idle
<1>2. /\ IsTable(msgRows)' /\ Stored' = { m \in Stored : m[1] # c }
  <2>1. /\ IsTable(Without(msgRows, c))
        /\ Range(Without(msgRows, c)) = { m \in Range(msgRows) : m[1] # c }
    BY DeleteRows DEF IInv, Shape
  <2>2. IsTable(msgRows)'
    BY <1>1, <2>1 DEF IsTable
  <2> QED
    BY <1>1, <2>1, <2>2 DEF Stored
<1>3. IsTable(convRows)' /\ Range(convRows)' = Range(convRows) \ {c}
  <2>1. PICK k \in Nat : DOMAIN convRows \subseteq 1 .. k
    BY DEF IInv, Shape, IsTable
  <2>2. DOMAIN convRows' \subseteq 1 .. k /\ convRows' = [r \in DOMAIN convRows' |-> convRows'[r]]
    BY <1>1, <2>1
  <2>3. IsTable(convRows)'
    BY <2>2 DEF IsTable
  <2> QED
    BY <1>1, <2>3 DEF Range
<1>4. Known' = Known
  BY <1>1, <1>3 DEF Known
<1>5. /\ current' \in [Session -> Conv \cup {None}] /\ msgs' = [t \in Session |-> msgs'[t]]
      /\ \A t \in Session :
           \/ current'[t] = current[t] /\ msgs'[t] = msgs[t]
           \/ t = s /\ current[s] = c /\ current'[t] = None /\ msgs'[t] = << >>
  <2>1. CASE current[s] = c
    BY <1>1, <2>1, ForgetKeeps
  <2>2. CASE current[s] # c
    BY <1>1, <2>2 DEF IInv, Shape
  <2> QED
    BY <2>1, <2>2
<1>6. None \notin Conv /\ c \in Known /\ Known \subseteq Conv
  BY <1>1, StoreAssumption DEF Known, IInv, Shape
<1>7. Shape'
  BY <1>1, <1>2, <1>3, <1>5 DEF IInv, Shape
<1>8. IndexExact'
  BY <1>1 DEF IInv, IndexExact
<1>9. StoredMade' /\ (usage \subseteq Stored)'
  BY <1>1, <1>2, <1>3 DEF IInv, StoredMade
<1>10. Sole' /\ NothingShown' /\ NeverSaved'
  BY <1>1, <1>4, <1>5, <1>6 DEF IInv, Sole, NothingShown, NeverSaved
<1>11. QueuedNew'
  BY <1>1, <1>2, <1>5 DEF IInv, QueuedNew, Waits
<1>12. QueuedOnce'
  BY <1>1 DEF IInv, QueuedOnce, Waits
<1> QED
  BY <1>7, <1>8, <1>9, <1>10, <1>11, <1>12 DEF IInv

-----------------------------------------------------------------------------
(* The theorems.                                                           *)

LEMMA StutterKeeps == ASSUME IInv, UNCHANGED vars PROVE IInv'
<1>1. /\ convRows' = convRows /\ msgRows' = msgRows /\ ftsRows' = ftsRows
      /\ usage' = usage /\ gone' = gone /\ made' = made /\ lastRow' = lastRow
      /\ current' = current /\ msgs' = msgs /\ saving' = saving
  BY DEF vars, tables, memory
<1> QED
  BY <1>1 DEF IInv, Shape, IndexExact, StoredMade, Stored, Known, IsTable, Sole,
              NothingShown, NeverSaved, QueuedNew, QueuedOnce, Waits

LEMMA StepKeeps ==
  ASSUME IInv, [Next]_vars, "resave" \notin Faults
  PROVE  IInv'
<1>1. CASE UNCHANGED vars
  BY <1>1, StutterKeeps
<1>2. ASSUME NEW s \in Session, Act(s)
      PROVE  IInv'
  <2>1. CASE Save(s)
    BY <2>1, SaveConversationKeeps, SaveMessageKeeps, SaveUsageKeeps, SaveRefusedKeeps DEF Save
  <2>2. CASE NewConversation(s) \/ DisableWrites(s) \/ EnableWrites(s)
    BY <2>2, NewConversationKeeps, DisableWritesKeeps, EnableWritesKeeps
  <2>3. CASE SaveLog(s) \/ ArchiveCurrent(s) \/ Restart(s)
    BY <2>3, SaveLogKeeps, ArchiveCurrentKeeps, RestartKeeps
  <2>4. ASSUME NEW c \in Conv,
               \/ Turn(s, c) \/ LoadSkill(s, c) \/ SaveTitle(s, c)
               \/ Resume(s, c) \/ Delete(s, c)
        PROVE  IInv'
    BY <2>4, TurnKeeps, LoadSkillKeeps, SaveTitleKeeps, ResumeKeeps, DeleteKeeps
  <2> QED
    BY <1>2, <2>1, <2>2, <2>3, <2>4 DEF Act
<1> QED
  BY <1>1, <1>2 DEF Next

\* The full-text index is the messages table, in every state of every
\* session, unless writes are switched off and on under a saved
\* conversation (save_message, delete_conversation, rebuild_message_index).
THEOREM IndexCorrect ==
  ASSUME "resave" \notin Faults
  PROVE  Spec => []IndexExact
<1>1. IInv /\ [Next]_vars => IInv'
  BY StepKeeps
<1>2. IInv => IndexExact
  BY DEF IInv
<1> QED
  BY InitInv, <1>1, <1>2, PTL DEF Spec

\* A message is stored with its conversation and a usage row with its
\* message, whatever other sessions delete between two calls of a turn.
THEOREM OrphansExcluded ==
  ASSUME "resave" \notin Faults
  PROVE  Spec => []NoOrphans
<1>1. IInv /\ [Next]_vars => IInv'
  BY StepKeeps
<1>2. IInv => NoOrphans
  BY DEF IInv, StoredMade, NoOrphans
<1> QED
  BY InitInv, <1>1, <1>2, PTL DEF Spec
-----------------------------------------------------------------------------
(* What a session shows is stored, or on its way to the tables.            *)

MemShape ==
  /\ IsTable(convRows) /\ IsTable(msgRows) /\ Stored \subseteq Msg
  /\ current \in [Session -> Conv \cup {None}]
  /\ msgs = [s \in Session |-> msgs[s]]
  /\ saving \in [Session -> Seq(Call)]
  /\ writing \in [Session -> BOOLEAN]
  /\ made \in [Conv -> Nat]
  /\ NothingShown

\* A session shows messages of its conversation alone.
ShowsOwn(s) ==
  /\ msgs[s] \in Seq(Msg)
  /\ \A i \in 1 .. Len(msgs[s]) : msgs[s][i][1] = current[s]

\* Each of them is stored or waits to be, unless the conversation is deleted.
SavedOrDue(s) ==
  (writing[s] /\ current[s] \notin gone) =>
    \A i \in 1 .. Len(msgs[s]) :
      \/ msgs[s][i] \in Stored
      \/ \E j \in 1 .. Len(saving[s]) : Waits(s, j) /\ saving[s][j].msg = msgs[s][i]

\* No call comes before the call that makes the row it refers to, so only a
\* deletion makes one fail.
CallsFollow(s) ==
  \A j \in 1 .. Len(saving[s]) :
    /\ Waits(s, j) =>
         /\ saving[s][j].msg[1] = current[s]
         /\ \/ current[s] \in Known
            \/ \E i \in 1 .. j - 1 : saving[s][i].op = "conversation"
    /\ saving[s][j].op = "usage" =>
         /\ saving[s][j].msg[1] = current[s]
         /\ \/ current[s] \in gone
            \/ saving[s][j].msg \in Stored
            \/ \E i \in 1 .. j - 1 : Waits(s, i) /\ saving[s][i].msg = saving[s][j].msg

MemOf(s) == ShowsOwn(s) /\ SavedOrDue(s) /\ CallsFollow(s)
MemInv == MemShape /\ \A s \in Session : MemOf(s)

\* What other sessions may do to the tables.
TablesKept ==
  /\ Known \subseteq Known' /\ gone \subseteq gone'
  /\ \A m \in Stored : m \in Stored' \/ m[1] \in gone'
Untouched(s) ==
  /\ current'[s] = current[s] /\ msgs'[s] = msgs[s]
  /\ saving'[s] = saving[s] /\ writing'[s] = writing[s]

LEMMA UntouchedMem ==
  ASSUME NEW s \in Session, MemOf(s), TablesKept, Untouched(s)
  PROVE  MemOf(s)'
<1>1. ShowsOwn(s)'
  BY DEF MemOf, ShowsOwn, Untouched
<1>2. SavedOrDue(s)'
  <2> SUFFICES ASSUME writing[s], current[s] \notin gone', NEW i \in 1 .. Len(msgs[s])
               PROVE  \/ msgs[s][i] \in Stored'
                      \/ \E j \in 1 .. Len(saving[s]) :
                           /\ saving[s][j].op = "message"
                           /\ saving[s][j].msg = msgs[s][i]
    BY DEF SavedOrDue, Untouched, Waits
  <2>1. \/ msgs[s][i] \in Stored
        \/ \E j \in 1 .. Len(saving[s]) : Waits(s, j) /\ saving[s][j].msg = msgs[s][i]
    BY DEF MemOf, SavedOrDue, TablesKept
  <2>2. msgs[s][i][1] = current[s]
    BY DEF MemOf, ShowsOwn
  <2> QED
    BY <2>1, <2>2 DEF TablesKept, Waits
<1>3. CallsFollow(s)'
  <2> SUFFICES ASSUME NEW j \in 1 .. Len(saving[s])
               PROVE  /\ saving[s][j].op = "message" =>
                           /\ saving[s][j].msg[1] = current[s]
                           /\ \/ current[s] \in Known'
                              \/ \E i \in 1 .. j - 1 : saving[s][i].op = "conversation"
                      /\ saving[s][j].op = "usage" =>
                           /\ saving[s][j].msg[1] = current[s]
                           /\ \/ current[s] \in gone'
                              \/ saving[s][j].msg \in Stored'
                              \/ \E i \in 1 .. j - 1 :
                                   /\ i \in 1 .. Len(saving[s])
                                   /\ saving[s][i].op = "message"
                                   /\ saving[s][i].msg = saving[s][j].msg
    BY DEF CallsFollow, Untouched, Waits
  <2>1. CASE saving[s][j].op = "message"
    BY <2>1 DEF MemOf, CallsFollow, TablesKept, Waits
  <2>2. CASE saving[s][j].op = "usage"
    <3>1. /\ saving[s][j].msg[1] = current[s]
          /\ \/ current[s] \in gone
             \/ saving[s][j].msg \in Stored
             \/ \E i \in 1 .. j - 1 : Waits(s, i) /\ saving[s][i].msg = saving[s][j].msg
      BY <2>2 DEF MemOf, CallsFollow
    <3> QED
      BY <2>2, <3>1 DEF TablesKept, Waits
  <2> QED
    BY <2>1, <2>2
<1> QED
  BY <1>1, <1>2, <1>3 DEF MemOf

\* A session that shows nothing and waits for nothing.
LEMMA EmptyMem ==
  ASSUME NEW s \in Session, msgs'[s] = << >>, saving'[s] = << >>
  PROVE  MemOf(s)'
<1>1. << >> \in Seq(Msg) /\ Len(<< >>) = 0
  OBVIOUS
<1> QED
  BY <1>1 DEF MemOf, ShowsOwn, SavedOrDue, CallsFollow

\* A session without calls: what it shows is stored.
LEMMA RestingMem ==
  ASSUME NEW s \in Session, saving'[s] = << >>,
         msgs'[s] \in Seq(Msg),
         \A i \in 1 .. Len(msgs'[s]) : msgs'[s][i][1] = current'[s],
         (writing'[s] /\ current'[s] \notin gone') =>
            \A i \in 1 .. Len(msgs'[s]) : msgs'[s][i] \in Stored'
  PROVE  MemOf(s)'
BY DEF MemOf, ShowsOwn, SavedOrDue, CallsFollow

\* What an idle session shows is stored.
LEMMA IdleStored ==
  ASSUME NEW s \in Session, MemOf(s), saving[s] = << >>, writing[s], current[s] \notin gone
  PROVE  \A i \in 1 .. Len(msgs[s]) : msgs[s][i] \in Stored
BY DEF MemOf, SavedOrDue

\* A call that is done.
LEMMA PoppedMem ==
  ASSUME NEW s \in Session, MemOf(s), TablesKept,
         saving[s] \in Seq(Call), saving[s] # << >>, saving'[s] = Tail(saving[s]),
         current'[s] = current[s], msgs'[s] = msgs[s], writing'[s] = writing[s],
         Head(saving[s]).op = "conversation" => current[s] \in Known',
         Head(saving[s]).op = "message" =>
            Head(saving[s]).msg \in Stored'
  PROVE  MemOf(s)'
<1> DEFINE k == Len(saving[s])
           rest == Tail(saving[s])
<1>1. /\ k \in Nat /\ k >= 1 /\ Len(rest) = k - 1
      /\ Head(saving[s]) = saving[s][1]
      /\ \A j \in 1 .. k - 1 : rest[j] = saving[s][j + 1]
      /\ saving'[s] = rest /\ Len(saving'[s]) = k - 1
  OBVIOUS
<1> HIDE DEF k, rest
<1>2. ShowsOwn(s)'
  BY DEF MemOf, ShowsOwn
<1>3. SavedOrDue(s)'
  <2> SUFFICES ASSUME writing[s], current[s] \notin gone', NEW i \in 1 .. Len(msgs[s])
               PROVE  \/ msgs[s][i] \in Stored'
                      \/ \E j \in 1 .. k - 1 :
                           rest[j].op = "message" /\ rest[j].msg = msgs[s][i]
    <3>1. \A j \in 1 .. k - 1 : rest[j].op = "message" => Waits(s, j)'
      BY <1>1 DEF Waits
    <3>2. ASSUME writing'[s], current'[s] \notin gone', NEW i \in 1 .. Len(msgs'[s])
          PROVE  \/ msgs'[s][i] \in Stored'
                 \/ \E j \in 1 .. Len(saving'[s]) :
                      Waits(s, j)' /\ saving'[s][j].msg = msgs'[s][i]
      <4>1. \/ msgs[s][i] \in Stored'
            \/ \E j \in 1 .. k - 1 : rest[j].op = "message" /\ rest[j].msg = msgs[s][i]
        BY <3>2
      <4> QED
        BY <1>1, <3>1, <4>1
    <3> QED
      BY <3>2 DEF SavedOrDue
  <2>1. msgs[s][i][1] = current[s]
    BY DEF MemOf, ShowsOwn
  <2>2. CASE msgs[s][i] \in Stored
    BY <2>1, <2>2 DEF TablesKept
  <2>3. CASE \E j \in 1 .. k : Waits(s, j) /\ saving[s][j].msg = msgs[s][i]
    <3>1. PICK j \in 1 .. k : Waits(s, j) /\ saving[s][j].msg = msgs[s][i]
      BY <2>3
    <3>2. CASE j = 1
      BY <1>1, <3>1, <3>2 DEF Waits
    <3>3. CASE j # 1
      <4>1. j - 1 \in 1 .. k - 1 /\ (j - 1) + 1 = j
        BY <1>1, <3>3
      <4>2. rest[j - 1] = saving[s][j]
        BY <1>1, <4>1
      <4> QED
        BY <3>1, <4>1, <4>2 DEF Waits
    <3> QED
      BY <3>2, <3>3
  <2>4. /\ SavedOrDue(s) /\ current[s] \notin gone
    BY DEF MemOf, TablesKept
  <2>5. \/ msgs[s][i] \in Stored
        \/ \E j \in 1 .. k : Waits(s, j) /\ saving[s][j].msg = msgs[s][i]
    BY <2>4 DEF SavedOrDue, k
  <2> QED
    BY <2>2, <2>3, <2>5
<1>4. CallsFollow(s)'
  <2> SUFFICES ASSUME NEW j \in 1 .. k - 1
               PROVE  /\ rest[j].op = "message" =>
                           /\ rest[j].msg[1] = current[s]
                           /\ \/ current[s] \in Known'
                              \/ \E i \in 1 .. j - 1 : rest[i].op = "conversation"
                      /\ rest[j].op = "usage" =>
                           /\ rest[j].msg[1] = current[s]
                           /\ \/ current[s] \in gone'
                              \/ rest[j].msg \in Stored'
                              \/ \E i \in 1 .. j - 1 :
                                   rest[i].op = "message" /\ rest[i].msg = rest[j].msg
    <3>1. \A j \in 1 .. k - 1 : rest[j].op = "message" <=> Waits(s, j)'
      BY <1>1 DEF Waits
    <3>2. \A j \in 1 .. k - 1 : \A i \in 1 .. j - 1 : i \in 1 .. k - 1
      BY <1>1
    <3> QED
      BY <1>1, <3>1, <3>2, ZenonT(60) DEF CallsFollow
  <2>1. j + 1 \in 1 .. k /\ (j + 1) - 1 = j
    BY <1>1
  <2>5. rest[j] = saving[s][j + 1]
    BY <1>1
  <2>2. \A i \in 1 .. j : i = 1 \/ (i - 1 \in 1 .. j - 1 /\ rest[i - 1] = saving[s][i])
    <3> SUFFICES ASSUME NEW i \in 1 .. j, i # 1
                 PROVE  i - 1 \in 1 .. j - 1 /\ rest[i - 1] = saving[s][i]
      OBVIOUS
    <3>1. i - 1 \in 1 .. j - 1 /\ i - 1 \in 1 .. k - 1 /\ (i - 1) + 1 = i
      BY <1>1
    <3> QED
      BY <1>1, <3>1
  <2>3. CASE rest[j].op = "message"
    <3>1. /\ rest[j].msg[1] = current[s]
          /\ \/ current[s] \in Known
             \/ \E i \in 1 .. j : saving[s][i].op = "conversation"
      BY <2>1, <2>3, <2>5 DEF MemOf, CallsFollow, Waits, k
    <3> QED
      BY <1>1, <2>2, <2>3, <3>1 DEF TablesKept
  <2>4. CASE rest[j].op = "usage"
    <3>1. /\ rest[j].msg[1] = current[s]
          /\ \/ current[s] \in gone
             \/ rest[j].msg \in Stored
             \/ \E i \in 1 .. j : Waits(s, i) /\ saving[s][i].msg = rest[j].msg
      BY <2>1, <2>4, <2>5 DEF MemOf, CallsFollow, k
    <3>2. ASSUME NEW i \in 1 .. j, Waits(s, i), saving[s][i].msg = rest[j].msg
          PROVE  \/ rest[j].msg \in Stored'
                 \/ \E q \in 1 .. j - 1 :
                      rest[q].op = "message" /\ rest[q].msg = rest[j].msg
      <4>1. CASE i = 1
        BY <1>1, <3>2, <4>1 DEF Waits
      <4>2. CASE i # 1
        <5>1. i - 1 \in 1 .. j - 1 /\ rest[i - 1] = saving[s][i]
          BY <2>2, <4>2
        <5> QED
          BY <3>2, <5>1 DEF Waits
      <4> QED
        BY <4>1, <4>2
    <3> QED
      BY <2>4, <3>1, <3>2 DEF TablesKept
  <2> QED
    BY <2>3, <2>4
<1> QED
  BY <1>2, <1>3, <1>4 DEF MemOf

-----------------------------------------------------------------------------
(* Each action keeps it.                                                   *)

LEMMA InitMem == Init => MemInv
<1> SUFFICES ASSUME Init PROVE MemInv
  OBVIOUS
<1>1. IsTable(convRows) /\ IsTable(msgRows) /\ Stored = {}
  BY DEF Init, Range, Stored, IsTable
<1>2. MemShape
  BY <1>1 DEF Init, MemShape, NothingShown
<1>3. ASSUME NEW s \in Session PROVE MemOf(s)
  <2>1. << >> \in Seq(Msg) /\ Len(<< >>) = 0 /\ msgs[s] = << >> /\ saving[s] = << >>
    BY DEF Init
  <2> QED
    BY <2>1 DEF MemOf, ShowsOwn, SavedOrDue, CallsFollow
<1> QED
  BY <1>2, <1>3 DEF MemInv

\* Only session s does something, and the tables lose nothing else.
OnlyOf(s) == \A t \in Session : t # s => Untouched(t)

LEMMA StepOfOne ==
  ASSUME MemInv, NEW s \in Session, OnlyOf(s), TablesKept, MemShape', MemOf(s)'
  PROVE  MemInv'
<1>1. ASSUME NEW t \in Session PROVE MemOf(t)'
  <2>1. CASE t = s
    BY <2>1
  <2>2. CASE t # s
    BY <2>2, UntouchedMem DEF MemInv, OnlyOf
  <2> QED
    BY <2>1, <2>2
<1> QED
  BY <1>1 DEF MemInv

\* The tables are as they were.
SameTables ==
  convRows' = convRows /\ msgRows' = msgRows /\ gone' = gone

LEMMA SameTablesKept ==
  ASSUME SameTables, MemShape
  PROVE  /\ TablesKept /\ IsTable(convRows)' /\ IsTable(msgRows)'
         /\ Stored' = Stored /\ Known' = Known
BY DEF SameTables, MemShape, TablesKept, IsTable, Stored, Known

\* Two ways of forgetting: Forget and the restart of the process.
LEMMA ForgetMem ==
  ASSUME MemInv, NEW s \in Session, Forget(s), saving' \in [Session -> Seq(Call)],
         saving'[s] = << >>, \A t \in Session : t # s => saving'[t] = saving[t],
         writing' \in [Session -> BOOLEAN], \A t \in Session : t # s => writing'[t] = writing[t],
         made' = made, IsTable(convRows)', IsTable(msgRows)', Stored' \subseteq Msg, TablesKept
  PROVE  MemInv'
<1>1. /\ current' \in [Session -> Conv \cup {None}] /\ msgs' = [t \in Session |-> msgs'[t]]
      /\ current'[s] = None /\ msgs'[s] = << >>
      /\ \A t \in Session : t # s => current'[t] = current[t] /\ msgs'[t] = msgs[t]
  BY DEF MemInv, MemShape, Forget
<1>2. OnlyOf(s)
  BY <1>1 DEF OnlyOf, Untouched
<1>3. NothingShown'
  BY <1>1 DEF MemInv, MemShape, NothingShown
<1>4. MemShape'
  BY <1>1, <1>3 DEF MemInv, MemShape
<1> QED
  BY <1>1, <1>2, <1>4, EmptyMem, StepOfOne

LEMMA NewConversationMem ==
  ASSUME MemInv, NEW s \in Session, NewConversation(s)
  PROVE  MemInv'
<1>1. /\ Forget(s) /\ saving[s] = << >> /\ saving' = saving /\ writing' = writing
      /\ made' = made /\ SameTables
  BY DEF NewConversation, Idle, tables, SameTables
<1> QED
  BY <1>1, SameTablesKept, ForgetMem DEF MemInv, MemShape

LEMMA RestartMem ==
  ASSUME MemInv, NEW s \in Session, Restart(s)
  PROVE  MemInv'
<1>1. /\ Forget(s) /\ saving' = [saving EXCEPT ![s] = << >>]
      /\ writing' = [writing EXCEPT ![s] = TRUE] /\ made' = made /\ SameTables
  BY DEF Restart, SameTables
<1>2. /\ saving' \in [Session -> Seq(Call)] /\ saving'[s] = << >>
      /\ \A t \in Session : t # s => saving'[t] = saving[t]
      /\ writing' \in [Session -> BOOLEAN]
      /\ \A t \in Session : t # s => writing'[t] = writing[t]
  BY <1>1 DEF MemInv, MemShape
<1> QED
  BY <1>1, <1>2, SameTablesKept, ForgetMem DEF MemInv, MemShape

\* Insertion of a conversation.
LEMMA UpsertMem ==
  ASSUME MemShape, NEW s \in Session, NEW c, Upsert(s, c), msgRows' = msgRows, gone' = gone
  PROVE  /\ TablesKept /\ IsTable(convRows)' /\ IsTable(msgRows)'
         /\ Stored' = Stored /\ c \in Known'
<1>1. IsTable(convRows)' /\ Range(convRows)' = Range(convRows) \cup {c}
  <2>1. CASE c \in Range(convRows)
    BY <2>1 DEF Upsert, MemShape, IsTable
  <2>2. CASE c \notin Range(convRows)
    <3>1. convRows' = Set(convRows, NextRow(convRows), c)
      BY <2>2 DEF Upsert
    <3>2. /\ IsTable(Set(convRows, NextRow(convRows), c))
          /\ Range(Set(convRows, NextRow(convRows), c)) = Range(convRows) \cup {c}
      BY InsertRow DEF MemShape
    <3>3. IsTable(convRows)'
      BY <3>1, <3>2 DEF IsTable
    <3> QED
      BY <3>1, <3>2, <3>3
  <2> QED
    BY <2>1, <2>2
<1>2. IsTable(msgRows)' /\ Stored' = Stored
  BY DEF MemShape, IsTable, Stored
<1> QED
  BY <1>1, <1>2 DEF TablesKept, Known

LEMMA ArchiveCurrentMem ==
  ASSUME MemInv, NEW s \in Session, ArchiveCurrent(s)
  PROVE  MemInv'
<1>1. /\ Forget(s) /\ saving[s] = << >> /\ saving' = saving /\ writing' = writing
      /\ made' = made /\ msgRows' = msgRows /\ gone' = gone
      /\ Upsert(s, current[s]) \/ convRows' = convRows
  BY DEF ArchiveCurrent, Idle
<1>2. TablesKept /\ IsTable(convRows)' /\ IsTable(msgRows)' /\ Stored' = Stored
  <2>1. CASE Upsert(s, current[s])
    BY <1>1, <2>1, UpsertMem DEF MemInv
  <2>2. CASE convRows' = convRows
    BY <1>1, <2>2, SameTablesKept DEF MemInv, SameTables
  <2> QED
    BY <1>1, <2>1, <2>2
<1> QED
  BY <1>1, <1>2, ForgetMem DEF MemInv, MemShape

LEMMA DisableWritesMem ==
  ASSUME MemInv, NEW s \in Session, DisableWrites(s)
  PROVE  MemInv'
<1>1. /\ saving[s] = << >> /\ writing[s] /\ saving' = saving /\ made' = made
      /\ writing' = [writing EXCEPT ![s] = FALSE]
      /\ current' = current /\ msgs' = msgs /\ SameTables
  BY DEF DisableWrites, Idle, tables, SameTables
<1>2. MemShape' /\ OnlyOf(s) /\ ~writing'[s]
  BY <1>1, SameTablesKept DEF MemInv, MemShape, OnlyOf, Untouched, NothingShown
<1>3. MemOf(s)'
  BY <1>1, <1>2, RestingMem DEF MemInv, MemOf, ShowsOwn
<1> QED
  BY <1>1, <1>2, <1>3, SameTablesKept, StepOfOne DEF MemInv

LEMMA SaveLogMem ==
  ASSUME MemInv, NEW s \in Session, SaveLog(s)
  PROVE  MemInv'
<1>1. /\ saving' = saving /\ made' = made /\ writing' = writing
      /\ current' = current /\ msgs' = msgs /\ SameTables
  BY DEF SaveLog, memory, SameTables
<1>2. MemShape' /\ OnlyOf(s) /\ Untouched(s)
  BY <1>1, SameTablesKept DEF MemInv, MemShape, OnlyOf, Untouched, NothingShown
<1> QED
  BY <1>1, <1>2, SameTablesKept, UntouchedMem, StepOfOne DEF MemInv

\* Writes are enabled again: all that is shown waits.
LEMMA EnableWritesMem ==
  ASSUME MemInv, NEW s \in Session, EnableWrites(s)
  PROVE  MemInv'
<1>1. /\ saving' = [saving EXCEPT ![s] = SaveAgain(s)]
      /\ writing' = [writing EXCEPT ![s] = TRUE]
      /\ current' = current /\ msgs' = msgs /\ made' = made /\ SameTables
  BY DEF EnableWrites, tables, SameTables
<1>2. /\ msgs[s] \in Seq(Msg) /\ saving \in [Session -> Seq(Call)]
      /\ \A i \in 1 .. Len(msgs[s]) : msgs[s][i][1] = current[s]
  BY DEF MemInv, MemShape, MemOf, ShowsOwn
<1>3. SaveAgain(s) \in Seq(Call) /\ MemOf(s)'
  <2>1. CASE msgs[s] = << >>
    <3>1. SaveAgain(s) = << >> /\ << >> \in Seq(Call)
      BY <2>1 DEF SaveAgain
    <3> QED
      BY <1>1, <1>2, <2>1, <3>1, EmptyMem
  <2>2. CASE msgs[s] # << >>
    <3> DEFINE k == Len(msgs[s])
               calls == [i \in 1 .. k |-> MessageCall(msgs[s][i])]
    <3>1. k \in Nat /\ \A i \in 1 .. k : msgs[s][i] \in Msg
      BY <1>2
    <3>2. calls \in Seq(Call) /\ Len(calls) = k
      BY <3>1 DEF MessageCall, Call
    <3>0. DOMAIN msgs[s] = 1 .. k
      BY <1>2
    <3>3. SaveAgain(s) = <<ConvCall>> \o calls
      BY <2>2, <3>0, Zenon DEF SaveAgain
    <3>4. \A i \in 1 .. k : calls[i].op = "message" /\ calls[i].msg = msgs[s][i]
      BY DEF MessageCall
    <3>5. <<ConvCall>> \in Seq(Call) /\ ConvCall.op = "conversation"
      BY DEF ConvCall, Call
    <3> HIDE DEF calls, k
    <3>6. /\ SaveAgain(s) \in Seq(Call) /\ Len(SaveAgain(s)) = k + 1
          /\ SaveAgain(s)[1] = ConvCall
          /\ \A i \in 2 .. k + 1 : SaveAgain(s)[i] = calls[i - 1]
      BY <3>1, <3>2, <3>3, <3>5
    <3>7. saving'[s] = SaveAgain(s)
      BY <1>1, <1>2
    <3>8. ShowsOwn(s)'
      BY <1>1, <1>2 DEF ShowsOwn
    <3>9. SavedOrDue(s)'
      <4> SUFFICES ASSUME NEW i \in 1 .. k
                   PROVE  \E j \in 1 .. Len(saving'[s]) :
                            Waits(s, j)' /\ saving'[s][j].msg = msgs[s][i]
        BY <1>1 DEF SavedOrDue, k
      <4>1. i + 1 \in 2 .. k + 1 /\ (i + 1) - 1 = i /\ i + 1 \in 1 .. k + 1
        BY <3>1
      <4>2. saving'[s][i + 1] = calls[i]
        BY <3>6, <3>7, <4>1
      <4>3. i + 1 \in 1 .. Len(saving'[s])
        BY <3>6, <3>7, <4>1
      <4> QED
        BY <3>4, <4>2, <4>3 DEF Waits
    <3>10. CallsFollow(s)'
      <4>1. ASSUME NEW j \in 1 .. k + 1, saving'[s][j].op # "conversation"
            PROVE  /\ saving'[s][j].op = "message" /\ saving'[s][j].msg[1] = current[s]
                   /\ 1 \in 1 .. j - 1 /\ saving'[s][1].op = "conversation"
        <5>1. j # 1
          BY <3>5, <3>6, <3>7, <4>1
        <5>2. j \in 2 .. k + 1 /\ j - 1 \in 1 .. k /\ 1 \in 1 .. j - 1
          BY <3>1, <5>1
        <5>3. saving'[s][j] = calls[j - 1]
          BY <3>6, <3>7, <5>2
        <5>4. calls[j - 1].op = "message" /\ calls[j - 1].msg = msgs[s][j - 1]
          BY <3>4, <5>2
        <5>5. msgs[s][j - 1][1] = current[s]
          BY <1>2, <5>2 DEF k
        <5>6. saving'[s][1].op = "conversation"
          BY <3>5, <3>6, <3>7
        <5> QED
          BY <5>2, <5>3, <5>4, <5>5, <5>6
      <4>2. Len(saving'[s]) = k + 1 /\ current' = current
        BY <1>1, <3>6, <3>7
      <4> QED
        BY <4>1, <4>2 DEF CallsFollow, Waits
    <3> QED
      BY <3>6, <3>8, <3>9, <3>10 DEF MemOf
  <2> QED
    BY <2>1, <2>2
<1>4. MemShape' /\ OnlyOf(s)
  BY <1>1, <1>3, SameTablesKept DEF MemInv, MemShape, OnlyOf, Untouched, NothingShown
<1> QED
  BY <1>1, <1>3, <1>4, SameTablesKept, StepOfOne DEF MemInv

\* /title saves the conversation alone.
LEMMA SaveTitleMem ==
  ASSUME MemInv, NEW s \in Session, NEW c \in Conv, SaveTitle(s, c)
  PROVE  MemInv'
<1>1. /\ saving[s] = << >> /\ Shown(s, c) /\ current' = [current EXCEPT ![s] = c]
      /\ saving' = [saving EXCEPT ![s] = IF writing[s] THEN <<ConvCall>> ELSE << >>]
      /\ msgs' = msgs /\ made' = made /\ writing' = writing /\ SameTables
  BY DEF SaveTitle, Idle, tables, SameTables
<1>2. /\ <<ConvCall>> \in Seq(Call) /\ << >> \in Seq(Call) /\ ConvCall.op = "conversation"
      /\ Len(<<ConvCall>>) = 1 /\ <<ConvCall>>[1] = ConvCall
  BY DEF ConvCall, Call
<1>3. /\ OnlyOf(s) /\ current'[s] = c /\ MemShape' /\ saving'[s] \in {<<ConvCall>>, << >>}
  BY <1>1, <1>2, SameTablesKept, StoreAssumption
     DEF MemInv, MemShape, OnlyOf, Untouched, NothingShown
<1>4. \/ c = current[s] /\ msgs'[s] = msgs[s]
      \/ msgs[s] = << >>
  BY <1>1 DEF Shown, MemInv, MemShape, NothingShown
<1>5. /\ msgs[s] \in Seq(Msg) /\ \A i \in 1 .. Len(msgs[s]) : msgs[s][i][1] = c
      /\ (writing[s] /\ c \notin gone) => \A i \in 1 .. Len(msgs[s]) : msgs[s][i] \in Stored
  <2>1. CASE c = current[s]
    BY <1>1, <2>1, IdleStored DEF MemInv, MemOf, ShowsOwn
  <2>2. CASE msgs[s] = << >>
    BY <2>2
  <2> QED
    BY <1>4, <2>1, <2>2
<1>6. SavedOrDue(s)' /\ ShowsOwn(s)'
  BY <1>1, <1>3, <1>5, SameTablesKept DEF MemInv, SavedOrDue, ShowsOwn, SameTables
<1>7. \A j \in 1 .. Len(saving'[s]) : saving'[s][j].op = "conversation"
  BY <1>2, <1>3
<1>8. CallsFollow(s)'
  BY <1>7 DEF CallsFollow, Waits
<1> QED
  BY <1>1, <1>3, <1>6, <1>8, SameTablesKept, StepOfOne DEF MemInv, MemOf

\* The messages of a conversation, read back in the order they were made.
LEMMA ResumeMem ==
  ASSUME MemInv, NEW s \in Session, NEW c \in Conv, Resume(s, c)
  PROVE  MemInv'
<1> DEFINE chosen == { m \in Stored : m[1] = c }
           n == Cardinality(chosen)
<1>1. /\ saving[s] = << >> /\ current' = [current EXCEPT ![s] = c]
      /\ saving' = saving /\ made' = made /\ writing' = writing /\ SameTables
  BY DEF Resume, Idle, tables, SameTables
<1>2. PICK read \in ByTime(chosen) : msgs' = [msgs EXCEPT ![s] = read]
  BY DEF Resume
<1>3. chosen \subseteq Msg
  BY DEF MemInv, MemShape
<1>4. n \in Nat
  <2>1. chosen \subseteq {c} \X (1 .. MaxMsgs)
    BY <1>3 DEF Msg
  <2>2. IsFiniteSet({c})
    BY FS_Singleton
  <2>5. 1 \in Int /\ MaxMsgs \in Int
    BY StoreAssumption
  <2>6. IsFiniteSet(1 .. MaxMsgs)
    BY <2>5, FS_Interval
  <2>3. IsFiniteSet({c} \X (1 .. MaxMsgs))
    BY <2>2, <2>6, FS_Product
  <2>4. IsFiniteSet(chosen)
    BY <2>1, <2>3, FS_Subset
  <2> QED
    BY <2>4, FS_CardinalityType
<1>5. read \in [1 .. n -> chosen]
  BY <1>2 DEF ByTime
<1> HIDE DEF n
<1>6. read \in Seq(Msg) /\ Len(read) = n
  BY <1>3, <1>4, <1>5
<1>7. \A i \in 1 .. n : read[i] \in Stored /\ read[i][1] = c
  BY <1>5
<1>8. msgs'[s] = read /\ current'[s] = c /\ OnlyOf(s) /\ MemShape'
  BY <1>1, <1>2, SameTablesKept, StoreAssumption
     DEF MemInv, MemShape, OnlyOf, Untouched, NothingShown
<1>9. MemOf(s)'
  BY <1>1, <1>6, <1>7, <1>8, SameTablesKept, RestingMem DEF MemInv
<1> QED
  BY <1>1, <1>8, <1>9, SameTablesKept, StepOfOne DEF MemInv

\* Turn and LoadSkill: the new messages are queued behind the conversation.
LEMMA AddingMem ==
  ASSUME MemInv, NEW s \in Session, NEW c \in Conv, NEW n \in {1, 2}, NEW calls \in Seq(Call),
         \A i \in 1 .. n : \E j \in 1 .. Len(calls) :
            calls[j].op = "message" /\ calls[j].msg = <<c, made[c] + i>>,
         \A j \in 1 .. Len(calls) :
            /\ calls[j].op # "conversation" =>
                 calls[j].msg[1] = c /\ 1 \in 1 .. j - 1 /\ calls[1].op = "conversation"
            /\ calls[j].op = "usage" => \E i \in 1 .. j - 1 :
                 calls[i].op = "message" /\ calls[i].msg = calls[j].msg,
         AddMessages(s, c, n, calls)
  PROVE  MemInv'
<1> DEFINE new == [i \in 1 .. n |-> <<c, made[c] + i>>]
           old == msgs[s]
           shown == old \o new
<1>1. /\ saving[s] = << >> /\ Shown(s, c) /\ made[c] + n <= MaxMsgs
      /\ made' = [made EXCEPT ![c] = @ + n]
      /\ current' = [current EXCEPT ![s] = c]
      /\ msgs' = [msgs EXCEPT ![s] = shown]
      /\ saving' = [saving EXCEPT ![s] = IF writing[s] THEN calls ELSE << >>]
      /\ writing' = writing /\ SameTables
  BY DEF AddMessages, Idle, tables, SameTables
<1>2. /\ made \in [Conv -> Nat] /\ MaxMsgs \in Nat /\ old \in Seq(Msg)
      /\ saving \in [Session -> Seq(Call)] /\ << >> \in Seq(Call)
  BY StoreAssumption DEF MemInv, MemShape, MemOf, ShowsOwn
<1>3. /\ new \in Seq(Msg) /\ Len(new) = n
      /\ \A i \in 1 .. n : new[i] = <<c, made[c] + i>> /\ new[i][1] = c
  <2>1. \A i \in 1 .. n : <<c, made[c] + i>> \in Msg
    BY <1>1, <1>2 DEF Msg
  <2>2. new \in [1 .. n -> Msg] /\ n \in Nat
    BY <2>1
  <2> QED
    BY <2>2
<1>4. c = current[s] \/ old = << >>
  BY <1>1 DEF Shown, MemInv, MemShape, NothingShown
<1>5. /\ \A i \in 1 .. Len(old) : old[i][1] = c
      /\ (writing[s] /\ c \notin gone) => \A i \in 1 .. Len(old) : old[i] \in Stored
  <2>1. CASE c = current[s]
    BY <1>1, <2>1, IdleStored DEF MemInv, MemOf, ShowsOwn
  <2>2. CASE old = << >>
    BY <2>2
  <2> QED
    BY <1>4, <2>1, <2>2
<1> HIDE DEF new, old
<1>6. /\ shown \in Seq(Msg) /\ Len(shown) = Len(old) + n /\ Len(old) \in Nat
      /\ \A i \in 1 .. Len(old) : shown[i] = old[i]
      /\ \A i \in Len(old) + 1 .. Len(old) + n : shown[i] = new[i - Len(old)]
  BY <1>2, <1>3
<1> HIDE DEF shown
<1> DEFINE k == Len(old)
<1>7. \A i \in 1 .. Len(shown) :
        \/ i \in 1 .. k
        \/ i \in k + 1 .. k + n /\ i - k \in 1 .. n
  BY <1>6
<1> HIDE DEF k
<1>8. ASSUME NEW i \in 1 .. Len(shown)
      PROVE  \/ i \in 1 .. k /\ shown[i] = old[i]
             \/ i - k \in 1 .. n /\ shown[i] = <<c, made[c] + (i - k)>> /\ shown[i][1] = c
  <2>1. CASE i \in 1 .. k
    BY <1>6, <2>1 DEF k
  <2>2. CASE i \in k + 1 .. k + n /\ i - k \in 1 .. n
    <3>1. shown[i] = new[i - k]
      BY <1>6, <2>2 DEF k
    <3> QED
      BY <1>3, <2>2, <3>1
  <2> QED
    BY <1>7, <2>1, <2>2
<1>9. /\ msgs'[s] = shown /\ current'[s] = c /\ OnlyOf(s)
      /\ saving'[s] = IF writing[s] THEN calls ELSE << >>
  BY <1>1, <1>2 DEF MemInv, MemShape, OnlyOf, Untouched
<1>10. MemShape'
  <2>1. made' \in [Conv -> Nat]
    BY <1>1, <1>2
  <2>2. saving' \in [Session -> Seq(Call)]
    BY <1>1, <1>2
  <2>3. NothingShown'
    BY <1>1, <1>9, StoreAssumption DEF MemInv, MemShape, NothingShown
  <2> QED
    BY <1>1, <2>1, <2>2, <2>3, SameTablesKept DEF MemInv, MemShape
<1>11. ShowsOwn(s)'
  <2>1. \A i \in 1 .. Len(shown) : shown[i][1] = c
    BY <1>5, <1>8 DEF k
  <2> QED
    BY <1>6, <1>9, <2>1 DEF ShowsOwn
<1>12. SavedOrDue(s)'
  <2> SUFFICES ASSUME writing[s], c \notin gone, NEW i \in 1 .. Len(shown)
               PROVE  \/ shown[i] \in Stored
                      \/ \E j \in 1 .. Len(calls) :
                           calls[j].op = "message" /\ calls[j].msg = shown[i]
    BY <1>1, <1>9, SameTablesKept DEF SavedOrDue, Waits, SameTables, MemInv
  <2>1. CASE i \in 1 .. k /\ shown[i] = old[i]
    BY <1>5, <2>1 DEF k
  <2>2. CASE i - k \in 1 .. n /\ shown[i] = <<c, made[c] + (i - k)>>
    BY <2>2
  <2> QED
    BY <1>8, <2>1, <2>2
<1>13. CallsFollow(s)'
  <2>1. CASE saving'[s] = << >>
    BY <2>1 DEF CallsFollow
  <2>2. CASE saving'[s] = calls
    <3>1. ASSUME NEW j \in 1 .. Len(calls), calls[j].op = "message"
          PROVE  /\ calls[j].msg[1] = c
                 /\ \E i \in 1 .. j - 1 : calls[i].op = "conversation"
      BY <3>1
    <3>2. ASSUME NEW j \in 1 .. Len(calls), calls[j].op = "usage"
          PROVE  /\ calls[j].msg[1] = c
                 /\ \E i \in 1 .. j - 1 : /\ i \in 1 .. Len(calls)
                                          /\ calls[i].op = "message"
                                          /\ calls[i].msg = calls[j].msg
      <4>1. PICK i \in 1 .. j - 1 : calls[i].op = "message" /\ calls[i].msg = calls[j].msg
        BY <3>2
      <4>2. i \in 1 .. Len(calls)
        OBVIOUS
      <4> QED
        BY <3>2, <4>1, <4>2
    <3> QED
      BY <1>9, <2>2, <3>1, <3>2 DEF CallsFollow, Waits
  <2> QED
    BY <1>9, <2>1, <2>2
<1> QED
  BY <1>1, <1>9, <1>10, <1>11, <1>12, <1>13, SameTablesKept, StepOfOne DEF MemInv, MemOf

LEMMA TurnMem ==
  ASSUME MemInv, NEW s \in Session, NEW c \in Conv, Turn(s, c)
  PROVE  MemInv'
<1> DEFINE question == <<c, made[c] + 1>>
           answer == <<c, made[c] + 2>>
           calls == <<ConvCall, MessageCall(question), MessageCall(answer), UsageCall(answer)>>
<1>1. AddMessages(s, c, 2, calls)
  BY DEF Turn
<1>2. made[c] \in Nat /\ made[c] + 2 <= MaxMsgs /\ MaxMsgs \in Nat
  BY <1>1, StoreAssumption DEF MemInv, MemShape, AddMessages
<1>3. question \in Msg /\ answer \in Msg /\ question[1] = c /\ answer[1] = c
  BY <1>2 DEF Msg
<1>4. \A i \in 1 .. 2 : <<c, made[c] + i>> = question \/ <<c, made[c] + i>> = answer
  BY <1>2
<1> HIDE DEF question, answer
<1>5. /\ calls[1] = ConvCall /\ calls[2] = MessageCall(question)
      /\ calls[3] = MessageCall(answer) /\ calls[4] = UsageCall(answer)
  OBVIOUS
<1>6. \A i \in 1 .. 4 : calls[i] \in Call
  BY <1>3 DEF Call, ConvCall, MessageCall, UsageCall
<1>7. calls \in Seq(Call) /\ Len(calls) = 4
  BY <1>6
<1> HIDE DEF calls
<1>8. /\ calls[1].op = "conversation"
      /\ calls[2].op = "message" /\ calls[2].msg = question
      /\ calls[3].op = "message" /\ calls[3].msg = answer
      /\ calls[4].op = "usage" /\ calls[4].msg = answer
  BY <1>5 DEF ConvCall, MessageCall, UsageCall
<1>9. \A i \in 1 .. 2 : \E j \in 1 .. Len(calls) :
        calls[j].op = "message" /\ calls[j].msg = <<c, made[c] + i>>
  BY <1>4, <1>7, <1>8
<1>10. \A j \in 1 .. Len(calls) : calls[j].op # "conversation" =>
         calls[j].msg[1] = c /\ 1 \in 1 .. j - 1 /\ calls[1].op = "conversation"
  BY <1>3, <1>7, <1>8
<1>11. \A j \in 1 .. Len(calls) : calls[j].op = "usage" => \E i \in 1 .. j - 1 :
         calls[i].op = "message" /\ calls[i].msg = calls[j].msg
  BY <1>7, <1>8
<1> QED
  BY <1>1, <1>7, <1>9, <1>10, <1>11, AddingMem

LEMMA LoadSkillMem ==
  ASSUME MemInv, NEW s \in Session, NEW c \in Conv, LoadSkill(s, c)
  PROVE  MemInv'
<1> DEFINE skill == <<c, made[c] + 1>>
           calls == <<ConvCall, MessageCall(skill)>>
<1>1. AddMessages(s, c, 1, calls)
  BY DEF LoadSkill
<1>2. made[c] \in Nat /\ made[c] + 1 <= MaxMsgs /\ MaxMsgs \in Nat
  BY <1>1, StoreAssumption DEF MemInv, MemShape, AddMessages
<1>3. skill \in Msg /\ skill[1] = c
  BY <1>2 DEF Msg
<1>4. \A i \in 1 .. 1 : <<c, made[c] + i>> = skill
  BY <1>2
<1> HIDE DEF skill
<1>5. calls[1] = ConvCall /\ calls[2] = MessageCall(skill)
  OBVIOUS
<1>6. \A i \in 1 .. 2 : calls[i] \in Call
  BY <1>3 DEF Call, ConvCall, MessageCall
<1>7. calls \in Seq(Call) /\ Len(calls) = 2
  BY <1>6
<1> HIDE DEF calls
<1>8. calls[1].op = "conversation" /\ calls[2].op = "message" /\ calls[2].msg = skill
  BY <1>5 DEF ConvCall, MessageCall
<1>9. \A i \in 1 .. 1 : \E j \in 1 .. Len(calls) :
        calls[j].op = "message" /\ calls[j].msg = <<c, made[c] + i>>
  BY <1>4, <1>7, <1>8
<1>10. \A j \in 1 .. Len(calls) :
         /\ calls[j].op # "conversation" =>
              calls[j].msg[1] = c /\ 1 \in 1 .. j - 1 /\ calls[1].op = "conversation"
         /\ calls[j].op # "usage"
  BY <1>3, <1>7, <1>8
<1> QED
  BY <1>1, <1>7, <1>9, <1>10, AddingMem

\* A call is refused only when somebody deleted the conversation.
LEMMA SaveRefusedMem ==
  ASSUME MemInv, NEW s \in Session, SaveRefused(s)
  PROVE  MemInv'
<1>1. /\ saving[s] # << >> /\ Head(saving[s]).op \in {"message", "usage"}
      /\ ~ParentsExist(Head(saving[s]))
      /\ saving' = [saving EXCEPT ![s] = << >>] /\ made' = made
      /\ current' = current /\ msgs' = msgs /\ writing' = writing /\ SameTables
  BY DEF SaveRefused, Calls, memory, tables, SameTables
<1>2. saving \in [Session -> Seq(Call)] /\ MemOf(s)
  BY DEF MemInv, MemShape
<1>3. /\ 1 \in 1 .. Len(saving[s]) /\ Head(saving[s]) = saving[s][1]
      /\ \A i \in 1 .. 1 - 1 : FALSE
  <2>1. saving[s] \in Seq(Call)
    BY <1>2
  <2> QED
    BY <1>1, <2>1
<1>4. current[s] \in gone
  <2>1. CASE Head(saving[s]).op = "message"
    <3>1. saving[s][1].msg[1] = current[s] /\ current[s] \in Known
      BY <1>2, <1>3, <2>1 DEF MemOf, CallsFollow, Waits
    <3>2. saving[s][1].msg[1] \notin Range(convRows)
      BY <1>1, <1>3, <2>1 DEF ParentsExist
    <3> QED
      BY <3>1, <3>2 DEF Known
  <2>2. CASE Head(saving[s]).op = "usage"
    <3>1. current[s] \in gone \/ saving[s][1].msg \in Stored
      BY <1>2, <1>3, <2>2 DEF MemOf, CallsFollow
    <3>2. saving[s][1].msg \notin Stored
      BY <1>1, <1>3, <2>2 DEF ParentsExist
    <3> QED
      BY <3>1, <3>2
  <2> QED
    BY <1>1, <2>1, <2>2
<1>5. << >> \in Seq(Call)
  OBVIOUS
<1>6. MemShape' /\ OnlyOf(s) /\ saving'[s] = << >>
  BY <1>1, <1>2, <1>5, SameTablesKept DEF MemInv, MemShape, OnlyOf, Untouched, NothingShown
<1>7. MemOf(s)'
  BY <1>1, <1>2, <1>4, <1>6, RestingMem DEF MemOf, ShowsOwn, SameTables
<1> QED
  BY <1>1, <1>6, <1>7, SameTablesKept, StepOfOne DEF MemInv

\* What the three calls that succeed have in common.
LEMMA DoneMem ==
  ASSUME MemInv, NEW s \in Session, saving[s] # << >>, Done(s),
         current' = current, msgs' = msgs, writing' = writing, made' = made,
         IsTable(convRows)', IsTable(msgRows)', Stored' \subseteq Msg, TablesKept,
         Head(saving[s]).op = "conversation" => current[s] \in Known',
         Head(saving[s]).op = "message" => Head(saving[s]).msg \in Stored'
  PROVE  MemInv'
<1>1. saving \in [Session -> Seq(Call)] /\ saving' = [saving EXCEPT ![s] = Tail(@)]
  BY DEF Done, MemInv, MemShape
<1>2. saving[s] \in Seq(Call) /\ saving'[s] = Tail(saving[s])
  BY <1>1
<1>3. Tail(saving[s]) \in Seq(Call)
  BY <1>2
<1>4. saving' \in [Session -> Seq(Call)]
  BY <1>1, <1>3
<1>5. MemShape' /\ OnlyOf(s)
  BY <1>1, <1>4 DEF MemInv, MemShape, OnlyOf, Untouched, NothingShown
<1>6. MemOf(s)'
  BY <1>2, PoppedMem DEF MemInv
<1> QED
  BY <1>5, <1>6, StepOfOne

LEMMA SaveConversationMem ==
  ASSUME MemInv, NEW s \in Session, SaveConversation(s)
  PROVE  MemInv'
<1>1. /\ saving[s] # << >> /\ Head(saving[s]).op = "conversation"
      /\ Upsert(s, current[s]) /\ Done(s)
      /\ msgRows' = msgRows /\ gone' = gone /\ writing' = writing
      /\ current' = current /\ msgs' = msgs /\ made' = made
  BY DEF SaveConversation, Calls, memory
<1>2. /\ TablesKept /\ IsTable(convRows)' /\ IsTable(msgRows)'
      /\ Stored' = Stored /\ current[s] \in Known'
  BY <1>1, UpsertMem DEF MemInv
<1> QED
  BY <1>1, <1>2, DoneMem DEF MemInv, MemShape

LEMMA SaveMessageMem ==
  ASSUME MemInv, NEW s \in Session, SaveMessage(s)
  PROVE  MemInv'
<1> DEFINE m == Head(saving[s]).msg
<1>1. /\ saving[s] # << >> /\ Head(saving[s]).op = "message" /\ Done(s)
      /\ msgRows' = (IF m \in Stored THEN msgRows ELSE Set(msgRows, NextRow(msgRows), m))
      /\ convRows' = convRows /\ gone' = gone /\ writing' = writing
      /\ current' = current /\ msgs' = msgs /\ made' = made
  BY DEF SaveMessage, Calls, memory
<1>2. m \in Msg
  <2>1. saving[s] \in Seq(Call)
    BY DEF MemInv, MemShape
  <2>2. Head(saving[s]) \in Call
    BY <1>1, <2>1
  <2> QED
    BY <1>1, <2>2 DEF Call
<1> HIDE DEF m
<1>3. IsTable(msgRows)' /\ Stored' = Stored \cup {m}
  <2>1. CASE m \in Stored
    BY <1>1, <2>1 DEF MemInv, MemShape, IsTable, Stored
  <2>2. CASE m \notin Stored
    <3>1. msgRows' = Set(msgRows, NextRow(msgRows), m)
      BY <1>1, <2>2
    <3>2. /\ IsTable(Set(msgRows, NextRow(msgRows), m))
          /\ Range(Set(msgRows, NextRow(msgRows), m)) = Range(msgRows) \cup {m}
      BY InsertRow DEF MemInv, MemShape
    <3>3. IsTable(msgRows)'
      BY <3>1, <3>2 DEF IsTable
    <3> QED
      BY <3>1, <3>2, <3>3 DEF Stored
  <2> QED
    BY <2>1, <2>2
<1>4. IsTable(convRows)' /\ TablesKept
  BY <1>1, <1>3 DEF MemInv, MemShape, IsTable, TablesKept, Known
<1>5. Stored' \subseteq Msg
  BY <1>2, <1>3 DEF MemInv, MemShape
<1> QED
  BY <1>1, <1>3, <1>4, <1>5, DoneMem DEF m

LEMMA SaveUsageMem ==
  ASSUME MemInv, NEW s \in Session, SaveUsage(s)
  PROVE  MemInv'
<1>1. /\ saving[s] # << >> /\ Head(saving[s]).op = "usage" /\ Done(s) /\ SameTables
      /\ writing' = writing /\ current' = current /\ msgs' = msgs /\ made' = made
  BY DEF SaveUsage, Calls, memory, SameTables
<1> QED
  BY <1>1, SameTablesKept, DoneMem DEF MemInv, MemShape

\* A deletion is remembered, and takes the messages of no other conversation.
LEMMA DeleteMem ==
  ASSUME MemInv, NEW s \in Session, NEW c \in Conv, Delete(s, c)
  PROVE  MemInv'
<1>1. /\ saving[s] = << >> \/ current[s] # c
      /\ c \in Range(convRows)
      /\ msgRows' = Without(msgRows, c)
      /\ convRows' = [r \in { x \in DOMAIN convRows : convRows[x] # c } |-> convRows[r]]
      /\ gone' = gone \cup {c}
      /\ saving' = saving /\ made' = made /\ writing' = writing
      /\ IF current[s] = c THEN Forget(s) ELSE current' = current /\ msgs' = msgs
  BY DEF Delete, Idle
<1>2. IsTable(msgRows)' /\ Stored' = { m \in Stored : m[1] # c }
  <2>1. /\ IsTable(Without(msgRows, c))
        /\ Range(Without(msgRows, c)) = { m \in Range(msgRows) : m[1] # c }
    BY DeleteRows DEF MemInv, MemShape
  <2>2. IsTable(msgRows)'
    BY <1>1, <2>1 DEF IsTable
  <2> QED
    BY <1>1, <2>1, <2>2 DEF Stored
<1>3. IsTable(convRows)' /\ Range(convRows)' = Range(convRows) \ {c}
  <2>1. PICK k \in Nat : DOMAIN convRows \subseteq 1 .. k
    BY DEF MemInv, MemShape, IsTable
  <2>2. DOMAIN convRows' \subseteq 1 .. k /\ convRows' = [r \in DOMAIN convRows' |-> convRows'[r]]
    BY <1>1, <2>1
  <2>3. IsTable(convRows)'
    BY <2>2 DEF IsTable
  <2> QED
    BY <1>1, <2>3 DEF Range
<1>4. TablesKept
  BY <1>1, <1>2, <1>3 DEF TablesKept, Known
<1>5. CASE current[s] = c
  BY <1>1, <1>2, <1>3, <1>4, <1>5, ForgetMem DEF MemInv, MemShape
<1>6. CASE current[s] # c
  <2>1. current' = current /\ msgs' = msgs
    BY <1>1, <1>6
  <2>2. OnlyOf(s) /\ Untouched(s)
    BY <1>1, <2>1 DEF OnlyOf, Untouched
  <2>3. MemShape'
    BY <1>1, <1>2, <1>3, <2>1 DEF MemInv, MemShape, NothingShown
  <2> QED
    BY <1>4, <2>2, <2>3, UntouchedMem, StepOfOne DEF MemInv
<1> QED
  BY <1>5, <1>6

LEMMA StepMem == MemInv /\ [Next]_vars => MemInv'
<1> SUFFICES ASSUME MemInv, [Next]_vars PROVE MemInv'
  OBVIOUS
<1>1. CASE UNCHANGED vars
  <2>1. /\ SameTables /\ current' = current /\ msgs' = msgs /\ saving' = saving
        /\ writing' = writing /\ made' = made
    BY <1>1 DEF vars, tables, memory, SameTables
  <2>2. MemShape' /\ TablesKept
    BY <2>1, SameTablesKept DEF MemInv, MemShape, NothingShown
  <2>3. \A s \in Session : Untouched(s)
    BY <2>1 DEF Untouched
  <2> QED
    BY <2>2, <2>3, UntouchedMem DEF MemInv
<1>2. ASSUME NEW s \in Session, Act(s)
      PROVE  MemInv'
  <2>1. CASE Save(s)
    BY <2>1, SaveConversationMem, SaveMessageMem, SaveUsageMem, SaveRefusedMem DEF Save
  <2>2. CASE NewConversation(s) \/ DisableWrites(s) \/ EnableWrites(s)
    BY <2>2, NewConversationMem, DisableWritesMem, EnableWritesMem
  <2>3. CASE SaveLog(s) \/ ArchiveCurrent(s) \/ Restart(s)
    BY <2>3, SaveLogMem, ArchiveCurrentMem, RestartMem
  <2>4. ASSUME NEW c \in Conv,
               \/ Turn(s, c) \/ LoadSkill(s, c) \/ SaveTitle(s, c)
               \/ Resume(s, c) \/ Delete(s, c)
        PROVE  MemInv'
    BY <2>4, TurnMem, LoadSkillMem, SaveTitleMem, ResumeMem, DeleteMem
  <2> QED
    BY <1>2, <2>1, <2>2, <2>3, <2>4 DEF Act
<1> QED
  BY <1>1, <1>2 DEF Next

\* What a session shows is in the database once its calls are made, unless
\* its conversation was deleted, whatever it does with the writes and even
\* when it saves messages again (toggle_no_write, send_chat_turn,
\* switch_to_conversation, delete_conversation).
THEOREM MemoryStored == Spec => []MemoryIsStored
<1>1. MemInv => MemoryIsStored
  <2> SUFFICES ASSUME MemInv, NEW s \in Session,
                      Idle(s), writing[s], current[s] \notin gone
               PROVE  ToSet(msgs[s]) \subseteq Stored
    BY DEF MemoryIsStored
  <2>1. msgs[s] \in Seq(Msg) /\ \A i \in 1 .. Len(msgs[s]) : msgs[s][i] \in Stored
    BY IdleStored DEF MemInv, MemOf, ShowsOwn, Idle
  <2> QED
    BY <2>1 DEF ToSet
<1> QED
  BY InitMem, StepMem, <1>1, PTL DEF Spec
=============================================================================
